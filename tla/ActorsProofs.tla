----------------------------- MODULE ActorsProofs ----------------------------
(***************************************************************************)
(* Proofs about the actors: for any actors, callers, mailboxes, children,  *)
(* policies, thresholds and numbers of steps.  First the patterns between  *)
(* actors, then the system, the supervisor and the mailboxes, last the     *)
(* module as a whole.                                                      *)
(***************************************************************************)
EXTENDS MCActors, FiniteSetTheorems, SequenceTheorems, TLAPS

-----------------------------------------------------------------------------
(* Requests and responses: what a future holds is the number of the request *)
(* that waits for it, or nothing yet.                                       *)

Places == {"inside", "outside"}
PeersInv ==
  /\ calls \in [Peers -> Nat]
  /\ awaiting \in [Peers \X Places -> [n : Nat, future : Nat]]
  /\ \A s \in Peers \X Places : awaiting[s].future \in {0, awaiting[s].n}
  /\ P!RepliesOwn

LEMMA PeersStep ==
  ASSUME PeersInv, P!PeersNext
  PROVE  PeersInv'
<1>1. ASSUME NEW p \in Peers, P!ReceiveRequest(p) \/ P!Answer(p)
      PROVE  PeersInv'
  BY <1>1 DEF PeersInv, P!ReceiveRequest, P!Answer, P!RepliesOwn
<1>2. ASSUME NEW p \in Peers, P!ReceiveResponse(p)
      PROVE  PeersInv'
  <2> DEFINE n == Head(letters[p]).n
  <2>1. /\ DOMAIN awaiting = Peers \X Places
        /\ awaiting' = [s \in DOMAIN awaiting |->
             IF s[1] = p /\ awaiting[s].n = n THEN [awaiting[s] EXCEPT !.future = n] ELSE awaiting[s]]
    BY <1>2 DEF PeersInv, P!ReceiveResponse
  <2>2. ASSUME NEW s \in Peers \X Places
        PROVE  awaiting'[s] \in [n : Nat, future : Nat] /\ awaiting'[s].future \in {0, awaiting'[s].n}
    <3>1. awaiting[s] \in [n : Nat, future : Nat] /\ awaiting[s].future \in {0, awaiting[s].n}
      BY DEF PeersInv
    <3>2. CASE s[1] = p /\ awaiting[s].n = n
      <4>1. awaiting'[s] = [awaiting[s] EXCEPT !.future = awaiting[s].n]
        BY <2>1, <3>2
      <4>2. QED
        BY <3>1, <4>1
    <3>3. CASE ~ (s[1] = p /\ awaiting[s].n = n)
      BY <2>1, <3>1, <3>3
    <3>4. QED
      BY <3>2, <3>3
  <2>3. calls' = calls /\ replies' = replies
    BY <1>2 DEF P!ReceiveResponse
  <2>4. QED
    BY <2>1, <2>2, <2>3 DEF PeersInv, P!RepliesOwn
<1>3. ASSUME NEW p \in Peers, NEW where \in Places, P!AskEnds(p, where)
      PROVE  PeersInv'
  <2> DEFINE s == <<p, where>>
  <2>1. /\ s \in Peers \X Places /\ calls' = calls
        /\ replies' = replies \cup {<<p, awaiting[s].n, awaiting[s].future>>}
        /\ awaiting' = [awaiting EXCEPT ![s] = [n |-> 0, future |-> 0]]
    BY <1>3 DEF P!AskEnds, P!NoFuture
  <2>2. awaiting[s].future \in {0, awaiting[s].n}
    BY <2>1 DEF PeersInv
  <2> HIDE DEF s
  <2>3. P!RepliesOwn'
    BY <2>1, <2>2 DEF PeersInv, P!RepliesOwn
  <2>4. QED
    BY <2>1, <2>3 DEF PeersInv
<1>4. ASSUME NEW p \in Peers, NEW where \in Places, NEW q \in Peers \ {p}, P!Ask(p, where, q)
      PROVE  PeersInv'
  <2> DEFINE s == <<p, where>>
  <2>1. /\ s \in Peers \X Places /\ replies' = replies
        /\ calls' = [calls EXCEPT ![p] = @ + 1]
        /\ awaiting' = [awaiting EXCEPT ![s] = [n |-> calls[p] + 1, future |-> 0]]
    BY <1>4 DEF P!Ask
  <2>2. calls[p] + 1 \in Nat
    BY DEF PeersInv
  <2> HIDE DEF s
  <2>3. QED
    BY <2>1, <2>2 DEF PeersInv, P!RepliesOwn
<1>5. QED
  BY <1>1, <1>2, <1>3, <1>4 DEF P!PeersNext, Places

-----------------------------------------------------------------------------
(* The circuit breaker counts at least the failures in a row, as only a     *)
(* success sets its count back.                                             *)

BreakerInv ==
  /\ failureCount \in Nat /\ inRow \in Nat /\ inRow <= failureCount
  /\ P!BreakerHolds

LEMMA BreakerStep ==
  ASSUME BreakerInv, P!BreakerNext
  PROVE  BreakerInv'
<1> USE ActorsAssumption DEF BreakerInv, P!BreakerHolds
<1>1. CASE P!BreakerBegins
  BY <1>1 DEF P!BreakerBegins
<1>2. CASE P!RequestBreaker \/ P!Cool \/ P!Reject
  BY <1>2 DEF P!RequestBreaker, P!Cool, P!Reject
<1>3. CASE P!Succeed
  <2>1. inRow' = 0 /\ failureCount' \in {0, failureCount}
    BY <1>3 DEF P!Succeed
  <2>2. QED
    BY <2>1
<1>4. CASE P!Fail
  <2>1. /\ failureCount' = failureCount + 1 /\ inRow' = inRow + 1
        /\ failureCount + 1 >= FailureThreshold => breaker' = "OPEN"
    BY <1>4 DEF P!Fail
  <2>2. QED
    BY <2>1
<1>5. QED
  BY <1>1, <1>2, <1>3, <1>4 DEF P!BreakerNext

-----------------------------------------------------------------------------
(* Sequences. *)

(* Moving the head of one sequence to the end of another leaves the two, one*)
(* after the other, as they are.                                            *)
LEMMA MoveHead ==
  ASSUME NEW Z, NEW d \in Seq(Z), NEW b \in Seq(Z), b # <<>>
  PROVE  Append(d, Head(b)) \o Tail(b) = d \o b
<1>1. Head(b) \in Z /\ Tail(b) \in Seq(Z) /\ Len(Tail(b)) = Len(b) - 1
      /\ Len(b) \in Nat \ {0} /\ Len(d) \in Nat /\ Head(b) = b[1]
      /\ \A i \in 1 .. Len(Tail(b)) : Tail(b)[i] = b[i + 1]
  BY HeadTailProperties, EmptySeq, LenProperties
<1>2. Append(d, Head(b)) \o Tail(b) \in Seq(Z) /\ d \o b \in Seq(Z)
  BY <1>1, AppendProperties, ConcatProperties
<1>3. Len(Append(d, Head(b)) \o Tail(b)) = Len(d \o b)
  BY <1>1, AppendProperties, ConcatProperties
<1>4. ASSUME NEW i \in 1 .. Len(Append(d, Head(b)) \o Tail(b))
      PROVE  (Append(d, Head(b)) \o Tail(b))[i] = (d \o b)[i]
  <2>1. i \in 1 .. Len(d) + Len(b)
    BY <1>1, <1>3, <1>4, ConcatProperties
  <2>2. CASE i <= Len(d)
    BY <1>1, <2>1, <2>2, AppendProperties, ConcatProperties
  <2>3. CASE i = Len(d) + 1
    BY <1>1, <2>1, <2>3, AppendProperties, ConcatProperties
  <2>4. CASE i > Len(d) + 1
    BY <1>1, <2>1, <2>4, AppendProperties, ConcatProperties
  <2>5. QED
    BY <1>1, <2>1, <2>2, <2>3, <2>4
<1>5. QED
  BY <1>2, <1>3, <1>4, SeqEqual

LEMMA ReverseIs ==
  ASSUME NEW Z, NEW s \in Seq(Z)
  PROVE  /\ P!Reverse(s) \in Seq(Z) /\ Len(P!Reverse(s)) = Len(s) /\ Len(s) \in Nat
         /\ \A i \in 1 .. Len(s) : P!Reverse(s)[i] = s[Len(s) - i + 1]
<1>1. Len(s) \in Nat /\ \A i \in 1 .. Len(s) : s[Len(s) - i + 1] \in Z
  BY LenProperties, ElementOfSeq
<1>2. P!Reverse(s) = [i \in 1 .. Len(s) |-> s[(Len(s) - i) + 1]]
  BY DEF P!Reverse
<1>3. QED
  BY <1>1, <1>2

(* s is how t ends. *)
EndsIn(t, s) == Len(s) <= Len(t) /\ \A i \in 1 .. Len(s) : t[Len(t) - Len(s) + i] = s[i]

LEMMA SuffixIs ==
  ASSUME NEW Z, NEW s \in Seq(Z), NEW t \in Seq(Z), EndsIn(t, s)
  PROVE  P!IsSuffix(s, t)
<1> DEFINE a == P!Reverse(s)
           b == P!Reverse(t)
           m == Len(s)
           n == Len(t)
<1>1. /\ a \in Seq(Z) /\ Len(a) = m /\ m \in Nat /\ \A i \in 1 .. m : a[i] = s[m - i + 1]
      /\ b \in Seq(Z) /\ Len(b) = n /\ n \in Nat /\ \A i \in 1 .. n : b[i] = t[n - i + 1]
  BY ReverseIs
<1>2. m <= n /\ \A i \in 1 .. m : t[n - m + i] = s[i]
  BY DEF EndsIn
<1> HIDE DEF a, b, m, n
<1>3. ASSUME NEW i \in 1 .. m PROVE a[i] = b[i]
  <2>1. m - i + 1 \in 1 .. m /\ n - m + (m - i + 1) = n - i + 1 /\ i \in 1 .. n
    BY <1>1, <1>2
  <2>2. t[n - m + (m - i + 1)] = s[m - i + 1]
    BY <1>2, <2>1
  <2>3. QED
    BY <1>1, <2>1, <2>2
<1>4. SubSeq(a, 1, m) = SubSeq(b, 1, m)
  <2>1. \A i \in 1 .. m : a[i] \in Z /\ b[i] \in Z
    BY <1>1, <1>2
  <2>2. /\ SubSeq(a, 1, m) \in Seq(Z) /\ Len(SubSeq(a, 1, m)) = m
        /\ \A i \in 1 .. m : SubSeq(a, 1, m)[i] = a[i]
    BY <1>1, <2>1, SubSeqProperties
  <2>3. /\ SubSeq(b, 1, m) \in Seq(Z) /\ Len(SubSeq(b, 1, m)) = m
        /\ \A i \in 1 .. m : SubSeq(b, 1, m)[i] = b[i]
    BY <1>1, <2>1, SubSeqProperties
  <2>4. QED
    BY <1>3, <2>2, <2>3, SeqEqual
<1>5. P!IsPrefix(a, b)
  BY <1>1, <1>2, <1>4 DEF P!IsPrefix
<1>6. QED
  BY <1>5 DEF P!IsSuffix, a, b

-----------------------------------------------------------------------------
(* The saga.  What it has undone and has yet to undo end in what it has     *)
(* done, the last step first; a first execution has undone nothing before.  *)

Done(n) == [i \in 1 .. n |-> i]
SagaInv ==
  /\ completed \in Seq(Nat) /\ undo \in Seq(Nat) /\ undone \in Seq(Nat)
  /\ at \in 1 .. Steps + 1
  /\ sagaState = "pending" => EndsIn(completed, Done(at - 1)) /\ (runs = 1 => undone = <<>>)
  /\ sagaState \in {"compensating", "compensated"} =>
       /\ EndsIn(undone \o undo, P!Reverse(completed))
       /\ runs = 1 => undone \o undo = P!Reverse(completed)
  /\ sagaState = "compensated" => undo = <<>>
  /\ sagaState = "completed" => EndsIn(completed, Done(Steps))

LEMMA DoneIs == \A n \in Nat : Done(n) \in Seq(Nat) /\ Len(Done(n)) = n /\ \A i \in 1 .. n : Done(n)[i] = i
BY DEF Done

LEMMA SagaUndoesHolds == SagaInv => P!SagaUndoes
<1> SUFFICES ASSUME SagaInv PROVE P!SagaUndoes
  OBVIOUS
<1>1. /\ completed \in Seq(Nat) /\ undo \in Seq(Nat) /\ undone \in Seq(Nat)
      /\ P!Reverse(completed) \in Seq(Nat) /\ undone \o undo \in Seq(Nat)
  BY ReverseIs, ConcatProperties DEF SagaInv
<1>2. sagaState \in {"compensating", "compensated"} => P!IsSuffix(P!Reverse(completed), undone \o undo)
  BY <1>1, SuffixIs DEF SagaInv
<1>3. sagaState = "compensated" /\ runs = 1 => undone = P!Reverse(completed)
  BY <1>1, ConcatEmptySeq DEF SagaInv
<1>4. sagaState = "completed" => P!IsSuffix([i \in 1 .. Steps |-> i], completed)
  BY <1>1, DoneIs, SuffixIs, ActorsAssumption DEF SagaInv, Done
<1>5. QED
  BY <1>2, <1>3, <1>4 DEF P!SagaUndoes

LEMMA SagaStep ==
  ASSUME SagaInv, P!SagaNext
  PROVE  SagaInv'
<1> DEFINE n == Len(completed)
<1>1. /\ n \in Nat /\ Steps \in Nat /\ at \in 1 .. Steps + 1 /\ at - 1 \in Nat
      /\ completed \in Seq(Nat) /\ undo \in Seq(Nat) /\ undone \in Seq(Nat)
  BY ActorsAssumption, LenProperties DEF SagaInv
<1>2. CASE P!Execute
  <2>1. Len(Done(0)) = 0
    BY DoneIs
  <2>2. EndsIn(completed, Done(0))
    BY <1>1, <2>1 DEF EndsIn
  <2>3. QED
    BY <1>1, <1>2, <2>2 DEF SagaInv, P!Execute
<1>3. CASE P!Act
  <2>1. /\ at <= Steps /\ at' = at + 1 /\ completed' = Append(completed, at) /\ at' - 1 = at
        /\ EndsIn(completed, Done(at - 1))
    BY <1>1, <1>3 DEF P!Act, SagaInv
  <2>2. /\ completed' \in Seq(Nat) /\ Len(completed') = n + 1 /\ completed'[n + 1] = at
        /\ \A i \in 1 .. n : completed'[i] = completed[i]
    BY <1>1, <2>1, AppendProperties
  <2>3. /\ Len(Done(at)) = at /\ \A i \in 1 .. at : Done(at)[i] = i
        /\ Len(Done(at - 1)) = at - 1 /\ \A i \in 1 .. at - 1 : Done(at - 1)[i] = i
    BY <1>1, DoneIs
  <2>4. at - 1 <= n /\ \A i \in 1 .. at - 1 : completed[n - (at - 1) + i] = i
    BY <2>1, <2>3 DEF EndsIn
  <2> HIDE DEF n
  <2>5. ASSUME NEW i \in 1 .. at PROVE completed'[(n + 1) - at + i] = i
    <3>1. CASE i = at
      BY <1>1, <2>2, <3>1
    <3>2. CASE i # at
      <4>1. i \in 1 .. at - 1 /\ (n + 1) - at + i = n - (at - 1) + i /\ n - (at - 1) + i \in 1 .. n
        BY <1>1, <2>4, <3>2
      <4>2. QED
        BY <2>2, <2>4, <4>1
    <3>3. QED
      BY <3>1, <3>2
  <2>6. EndsIn(completed', Done(at' - 1))
    <3> DEFINE d == Done(at)
    <3>1. Len(d) = at /\ (\A i \in 1 .. at : d[i] = i) /\ at <= n + 1
      BY <1>1, <2>3, <2>4
    <3> HIDE DEF d
    <3>2. EndsIn(completed', d)
      BY <2>2, <2>5, <3>1 DEF EndsIn
    <3>3. QED
      BY <2>1, <3>2 DEF d
  <2>7. QED
    BY <1>1, <1>3, <2>1, <2>2, <2>6 DEF SagaInv, P!Act
<1>4. CASE P!Complete
  <2>1. at - 1 = Steps
    BY <1>1, <1>4 DEF P!Complete
  <2>2. QED
    BY <1>4, <2>1 DEF SagaInv, P!Complete
<1>5. CASE P!ActRaises
  <2>1. undo' = P!Reverse(completed) /\ undone' = undone /\ completed' = completed /\ runs' = runs
        /\ sagaState = "pending" /\ sagaState' = "compensating" /\ at' = at
    BY <1>5 DEF P!ActRaises
  <2> DEFINE r == P!Reverse(completed)
  <2>2. r \in Seq(Nat) /\ Len(r) \in Nat
    BY <1>1, ReverseIs, LenProperties
  <2> HIDE DEF r
  <2>3. /\ Len(undone) \in Nat /\ Len(undone \o r) = Len(undone) + Len(r)
        /\ \A i \in 1 .. Len(undone) + Len(r) :
             (undone \o r)[i] = IF i <= Len(undone) THEN undone[i] ELSE r[i - Len(undone)]
    BY <1>1, <2>2, ConcatProperties, LenProperties
  <2>4. EndsIn(undone \o r, r)
    BY <2>2, <2>3 DEF EndsIn
  <2>5. runs = 1 => undone \o r = r
    <3>1. runs = 1 => undone = <<>>
      BY <2>1 DEF SagaInv
    <3>2. QED
      BY <2>2, <3>1, ConcatEmptySeq
  <2>6. QED
    BY <1>1, <2>1, <2>2, <2>4, <2>5 DEF SagaInv, r
<1>6. CASE P!Cancel
  BY <1>6 DEF SagaInv, P!Cancel
<1>7. CASE P!Compensate
  <2>1. /\ undo # <<>> /\ undo' = Tail(undo) /\ undone' = Append(undone, Head(undo))
        /\ UNCHANGED <<sagaState, at, completed, runs>> /\ sagaState = "compensating"
    BY <1>7 DEF P!Compensate
  <2>2. undone' \o undo' = undone \o undo
    BY <1>1, <2>1, MoveHead
  <2>3. undo' \in Seq(Nat) /\ undone' \in Seq(Nat)
    BY <1>1, <2>1, HeadTailProperties, AppendProperties
  <2>4. QED
    BY <2>1, <2>2, <2>3 DEF SagaInv
<1>8. CASE P!Compensated
  BY <1>8 DEF SagaInv, P!Compensated
<1>9. QED
  BY <1>2, <1>3, <1>4, <1>5, <1>6, <1>7, <1>8 DEF P!SagaNext

-----------------------------------------------------------------------------
(* The actor system. *)

User == [kind : {"user"}, by : Askers]
AskMessage == [kind : {"ask"}, by : Askers, n : Nat, own : Nat]
Mail == User \cup AskMessage \cup {Stop, Restart}
AskRecord == [future : {"open", "done", "cancelled"}, n : Nat, for : Nat, value : Nat, own : Nat]
States == {"CREATED", "STARTING", "RUNNING", "STOPPING", "STOPPED", "TORN"}

ActorsType ==
  /\ actors \subseteq Actors
  /\ state \in [Actors -> States]
  /\ mailbox \in [Actors -> Seq(Mail)]
  /\ handling \in [Actors -> User \cup AskMessage \cup {Nothing}]
  /\ count \in [Actors -> Nat]
  /\ asked \in [Askers -> Nat]
  /\ counted \in [Callers \X Actors -> Nat]
  /\ failures \in Nat

(* What is awaited and what has been answered. *)
AsksInv ==
  /\ asking \in [Askers -> {NotAsking} \cup AskRecord]
  /\ registered \subseteq Askers \X Nat
  /\ AnswersOwn /\ NoAskLeftOver

(* Until something has failed an actor that runs has been opened.           *)
OpenInv ==
  failures = 0 =>
    \A a \in Actors : /\ state[a] = "RUNNING" => a \in opened
                      /\ handling[a] # Nothing => state[a] = "RUNNING"

(* Once tasks have been cancelled no actor works any more.                  *)
CutOff == sys \in {"cancelled", "forced"}
CutOffInv == CutOff => \A a \in Actors : handling[a] = Nothing /\ state[a] \notin Accepting

(* The increments among the first n messages, and those that an actor has   *)
(* counted when it has done with what it handles.                           *)
Told(q, n) == Cardinality({i \in 1 .. n : q[i].kind = "user"})
Heard(a) == count[a] + (IF handling[a].kind = "user" THEN 1 ELSE 0)

(* The mailbox keeps the order: an ask that was sent after an increment is  *)
(* taken after it.  A forwarder counts nothing, and nothing is expected.    *)
Abreast(a) ==
  /\ \A t \in Callers : counted[<<t, a>>] <= Heard(a) + Told(mailbox[a], Len(mailbox[a]))
  /\ \A i \in 1 .. Len(mailbox[a]) :
       mailbox[a][i].kind = "ask" => mailbox[a][i].own <= Heard(a) + Told(mailbox[a], i - 1)
  /\ handling[a].kind = "ask" => handling[a].own <= count[a]
NothingOwed(a) ==
  /\ \A i \in 1 .. Len(mailbox[a]) : mailbox[a][i].kind = "ask" => mailbox[a][i].own = 0
  /\ handling[a].kind = "ask" => handling[a].own = 0

SeenInv ==
  /\ \A a \in Actors \cap Forwarders : NothingOwed(a)
  /\ failures = 0 /\ ~ CutOff => \A a \in Actors \ Forwarders : Abreast(a)

ActorsInv == ActorsType /\ AsksInv /\ OpenInv /\ CutOffInv /\ SeenInv

LEMMA MailKinds ==
  /\ \A m \in User : m \in Mail /\ m.kind = "user" /\ m # Nothing /\ m.by \in Askers
  /\ \A m \in AskMessage : m \in Mail /\ m.kind = "ask" /\ m # Nothing /\ m.by \in Askers /\ m.n \in Nat /\ m.own \in Nat
  /\ Stop \in Mail /\ Restart \in Mail /\ Stop.kind = "stop" /\ Restart.kind = "restart" /\ Nothing.kind = "nothing"
<1>1. \A m \in User : m.kind = "user" /\ m.by \in Askers
  BY DEF User
<1>2. \A m \in AskMessage : m.kind = "ask" /\ m.by \in Askers /\ m.n \in Nat /\ m.own \in Nat
  BY DEF AskMessage
<1>3. Stop.kind = "stop" /\ Restart.kind = "restart" /\ Nothing.kind = "nothing"
  BY DEF Stop, Restart, Nothing
<1>4. QED
  BY <1>1, <1>2, <1>3 DEF Mail

LEMMA ToldType ==
  ASSUME NEW q, NEW n \in Nat
  PROVE  Told(q, n) \in Nat /\ IsFiniteSet({i \in 1 .. n : q[i].kind = "user"})
<1>1. IsFiniteSet(1 .. n)
  BY FS_Interval
<1>2. IsFiniteSet({i \in 1 .. n : q[i].kind = "user"})
  BY <1>1, FS_Subset
<1>3. QED
  BY <1>2, FS_CardinalityType DEF Told

LEMMA ToldAppend ==
  ASSUME NEW q \in Seq(Mail), NEW m \in Mail
  PROVE  /\ \A n \in 0 .. Len(q) : Told(Append(q, m), n) = Told(q, n)
         /\ Told(Append(q, m), Len(q) + 1) = Told(q, Len(q)) + (IF m.kind = "user" THEN 1 ELSE 0)
<1> DEFINE r == Append(q, m)
           U(s, n) == {i \in 1 .. n : s[i].kind = "user"}
<1>1. Len(q) \in Nat /\ r[Len(q) + 1] = m /\ \A i \in 1 .. Len(q) : r[i] = q[i]
  BY AppendProperties, LenProperties
<1> HIDE DEF r
<1>2. ASSUME NEW n \in 0 .. Len(q) PROVE U(r, n) = U(q, n)
  BY <1>1, <1>2
<1>3. \A n \in 0 .. Len(q) : Told(r, n) = Told(q, n)
  BY <1>2 DEF Told
<1>4. CASE m.kind = "user"
  <2>1. U(r, Len(q) + 1) = U(q, Len(q)) \cup {Len(q) + 1}
    BY <1>1, <1>4
  <2>2. Len(q) + 1 \notin U(q, Len(q)) /\ IsFiniteSet(U(q, Len(q)))
    <3>1. IsFiniteSet(U(q, Len(q)))
      BY <1>1, ToldType
    <3>2. Len(q) + 1 \notin 1 .. Len(q)
      BY <1>1
    <3>3. QED
      BY <3>1, <3>2
  <2>3. Told(r, Len(q) + 1) = Told(q, Len(q)) + 1
    BY <2>1, <2>2, FS_AddElement DEF Told
  <2>4. QED
    BY <1>3, <1>4, <2>3 DEF r
<1>5. CASE m.kind # "user"
  <2>1. U(r, Len(q) + 1) = U(q, Len(q))
    BY <1>1, <1>5
  <2>2. Told(r, Len(q) + 1) = Told(q, Len(q)) /\ Told(q, Len(q)) \in Nat
    BY <1>1, <2>1, ToldType DEF Told
  <2>3. QED
    BY <1>3, <1>5, <2>2 DEF r
<1>6. QED
  BY <1>4, <1>5

(* A set of positions, when the first element of the sequence goes.         *)
Precedes(B, A, n) == \A i \in 1 .. n : i \in B <=> i + 1 \in A

LEMMA ShiftDown ==
  ASSUME NEW n \in Nat, NEW A \in SUBSET (1 .. n + 1), NEW B \in SUBSET (1 .. n),
         Precedes(B, A, n)
  PROVE  /\ IsFiniteSet(A) /\ IsFiniteSet(B) /\ Cardinality(B) \in Nat
         /\ Cardinality(A) = Cardinality(B) + (IF 1 \in A THEN 1 ELSE 0)
<1> USE DEF Precedes
<1>1. IsFiniteSet(A) /\ IsFiniteSet(B) /\ Cardinality(B) \in Nat
  <2>1. IsFiniteSet(1 .. n + 1) /\ IsFiniteSet(1 .. n)
    BY FS_Interval
  <2>2. QED
    BY <2>1, FS_Subset, FS_CardinalityType
<1>2. Cardinality(A \ {1}) = Cardinality(B)
  <2> DEFINE f == [i \in B |-> i + 1]
  <2>1. f \in Bijection(B, A \ {1})
    <3>1. f \in [B -> A \ {1}]
      OBVIOUS
    <3>2. \A i, j \in B : f[i] = f[j] => i = j
      OBVIOUS
    <3>3. \A k \in A \ {1} : \E i \in B : f[i] = k
      <4> SUFFICES ASSUME NEW k \in A \ {1} PROVE \E i \in B : f[i] = k
        OBVIOUS
      <4>1. k - 1 \in 1 .. n /\ (k - 1) + 1 = k
        OBVIOUS
      <4>2. k - 1 \in B
        BY <4>1
      <4>3. f[k - 1] = k
        BY <4>1, <4>2
      <4>4. QED
        BY <4>2, <4>3
    <3> HIDE DEF f
    <3>4. QED
      BY <3>1, <3>2, <3>3 DEF Bijection, Injection, Surjection, IsInjective
  <2>2. ExistsBijection(B, A \ {1})
    BY <2>1 DEF ExistsBijection
  <2>3. QED
    BY <1>1, <2>2, FS_Bijection
<1>3. QED
  <2>1. CASE 1 \in A
    BY <1>1, <1>2, <2>1, FS_RemoveElement, FS_CardinalityType
  <2>2. CASE 1 \notin A
    <3>1. A \ {1} = A
      BY <2>2
    <3>2. QED
      BY <1>1, <1>2, <2>2, <3>1
  <2>3. QED
    BY <2>1, <2>2

LEMMA ToldTail ==
  ASSUME NEW q \in Seq(Mail), q # <<>>, NEW n \in 0 .. Len(q) - 1
  PROVE  Told(q, n + 1) = Told(Tail(q), n) + (IF Head(q).kind = "user" THEN 1 ELSE 0)
<1> DEFINE A == {i \in 1 .. n + 1 : q[i].kind = "user"}
           B == {i \in 1 .. n : Tail(q)[i].kind = "user"}
<1>1. /\ Len(q) \in Nat /\ n \in Nat /\ Head(q) = q[1]
      /\ \A i \in 1 .. n : Tail(q)[i] = q[i + 1]
  BY HeadTailProperties, LenProperties
<1>2. /\ A \in SUBSET (1 .. n + 1) /\ B \in SUBSET (1 .. n)
      /\ \A i \in 1 .. n : i \in B <=> i + 1 \in A
      /\ 1 \in A <=> Head(q).kind = "user"
  BY <1>1
<1> HIDE DEF A, B
<1>3. Cardinality(A) = Cardinality(B) + (IF Head(q).kind = "user" THEN 1 ELSE 0)
  <2>1. n \in Nat /\ A \in SUBSET (1 .. n + 1) /\ B \in SUBSET (1 .. n)
    BY <1>1, <1>2
  <2>2. Precedes(B, A, n)
    BY <1>2 DEF Precedes
  <2>3. Cardinality(A) = Cardinality(B) + (IF 1 \in A THEN 1 ELSE 0)
    BY <2>1, <2>2, ShiftDown
  <2>4. QED
    BY <1>2, <2>3
<1>4. QED
  BY <1>3 DEF A, B, Told

(* What an actor gets comes last in its mailbox ...                         *)
LEMMA Delivered ==
  ASSUME ActorsType, NEW a \in Actors, NEW m \in Mail,
         mailbox'[a] = Append(mailbox[a], m), handling'[a] = handling[a], count'[a] = count[a]
  PROVE  /\ NothingOwed(a) /\ (m.kind = "ask" => m.own = 0) => NothingOwed(a)'
         /\ /\ Abreast(a)
            /\ \A t \in Callers : /\ counted'[<<t, a>>] \in Nat
                                  /\ counted'[<<t, a>>] <= counted[<<t, a>>] + (IF m.kind = "user" THEN 1 ELSE 0)
            /\ m.kind = "ask" => m.own <= Heard(a) + Told(mailbox[a], Len(mailbox[a]))
            => Abreast(a)'
<1> DEFINE q == mailbox[a]
           r == mailbox'[a]
           n == Len(q)
           one == IF m.kind = "user" THEN 1 ELSE 0
<1>1. /\ q \in Seq(Mail) /\ n \in Nat /\ r = Append(q, m)
      /\ Len(r) = n + 1 /\ r[n + 1] = m /\ \A i \in 1 .. n : r[i] = q[i]
  BY AppendProperties, LenProperties DEF ActorsType
<1>2. Heard(a)' = Heard(a) /\ Heard(a) \in Nat
  BY DEF Heard, ActorsType
<1>3. /\ \A i \in 0 .. n : Told(r, i) = Told(q, i) /\ Told(q, i) \in Nat
      /\ Told(r, n + 1) = Told(q, n) + one
  <2>1. /\ \A i \in 0 .. Len(q) : Told(Append(q, m), i) = Told(q, i)
        /\ Told(Append(q, m), Len(q) + 1) = Told(q, Len(q)) + one
    BY <1>1, ToldAppend
  <2>2. \A i \in 0 .. n : i \in Nat
    BY <1>1
  <2>3. QED
    BY <1>1, <2>1, <2>2, ToldType, Zenon
<1>4. ASSUME NothingOwed(a), m.kind = "ask" => m.own = 0
      PROVE  NothingOwed(a)'
  BY <1>1, <1>4 DEF NothingOwed
<1>5. ASSUME Abreast(a),
             \A t \in Callers : counted'[<<t, a>>] \in Nat /\ counted'[<<t, a>>] <= counted[<<t, a>>] + one,
             m.kind = "ask" => m.own <= Heard(a) + Told(q, n)
      PROVE  Abreast(a)'
  <2> DEFINE b == Heard(a)
  <2>1. ASSUME NEW t \in Callers PROVE counted'[<<t, a>>] <= b + Told(r, Len(r))
    <3> DEFINE c == counted[<<t, a>>]
               d == counted'[<<t, a>>]
               k == Told(q, n)
    <3>1. c <= b + k
      BY <1>5 DEF Abreast
    <3>2. d <= c + one
      BY <1>5
    <3>3. c \in Nat /\ one \in {0, 1} /\ b \in Nat /\ n \in 0 .. n
      BY <1>1, <1>2 DEF ActorsType
    <3>4. Told(r, Len(r)) = k + one /\ k \in Nat
      BY <1>1, <1>3, <3>3
    <3>5. d \in Int
      BY <1>5
    <3> HIDE DEF one, b, c, d, k
    <3>6. d <= b + (k + one)
      BY <3>1, <3>2, <3>3, <3>4, <3>5
    <3>7. QED
      BY <3>4, <3>6 DEF d
  <2>2. ASSUME NEW i \in 1 .. Len(r), r[i].kind = "ask" PROVE r[i].own <= b + Told(r, i - 1)
    <3>1. CASE i = n + 1
      <4>1. r[i] = m /\ i - 1 = n /\ Told(r, n) = Told(q, n)
        BY <1>1, <1>3, <3>1
      <4>2. QED
        BY <1>5, <2>2, <4>1
    <3>2. CASE i # n + 1
      <4>1. i \in 1 .. n /\ i - 1 \in 0 .. n /\ r[i] = q[i]
        BY <1>1, <3>2
      <4>2. q[i].own <= b + Told(q, i - 1)
        BY <1>5, <2>2, <4>1 DEF Abreast
      <4>3. QED
        BY <1>3, <4>1, <4>2
    <3>3. QED
      BY <3>1, <3>2
  <2>3. handling'[a].kind = "ask" => handling'[a].own <= count'[a]
    BY <1>5 DEF Abreast
  <2>4. QED
    BY <1>2, <2>1, <2>2, <2>3 DEF Abreast
<1>6. QED
  BY <1>4, <1>5

(* ... and is taken first, to be handled or, a system message, at once.     *)
LEMMA Taken ==
  ASSUME ActorsType, NEW a \in Actors, mailbox[a] # <<>>, handling[a] = Nothing,
         mailbox'[a] = Tail(mailbox[a]), count'[a] = count[a],
         \A t \in Callers : counted'[<<t, a>>] = counted[<<t, a>>],
         \/ handling'[a] = Head(mailbox[a])
         \/ handling'[a] = Nothing /\ Head(mailbox[a]).kind # "user"
  PROVE  /\ NothingOwed(a) => NothingOwed(a)'
         /\ Abreast(a) => Abreast(a)'
<1> DEFINE q == mailbox[a]
           r == mailbox'[a]
           n == Len(r)
           one == IF Head(q).kind = "user" THEN 1 ELSE 0
<1>1. /\ q \in Seq(Mail) /\ r \in Seq(Mail) /\ n \in Nat /\ Len(q) = n + 1 /\ Head(q) = q[1]
      /\ \A i \in 1 .. n : r[i] = q[i + 1]
  BY HeadTailProperties, LenProperties DEF ActorsType
<1>2. /\ count[a] \in Nat /\ Heard(a) = count[a] /\ Heard(a)' = count[a] + one
      /\ handling'[a].kind = "ask" => handling'[a] = q[1]
  BY <1>1, MailKinds DEF Heard, ActorsType
<1>3. \A i \in 0 .. n : Told(q, i + 1) = Told(r, i) + one /\ Told(r, i) \in Nat
  <2>1. \A i \in 0 .. n : i \in 0 .. Len(q) - 1 /\ i \in Nat
    BY <1>1
  <2>2. q # <<>> /\ r = Tail(q)
    OBVIOUS
  <2>3. \A i \in 0 .. n : Told(q, i + 1) = Told(r, i) + one
    BY <1>1, <2>1, <2>2, ToldTail, Zenon
  <2>4. QED
    BY <2>1, <2>3, ToldType, Zenon
<1>4. ASSUME NothingOwed(a) PROVE NothingOwed(a)'
  <2>1. \A i \in 1 .. n + 1 : q[i].kind = "ask" => q[i].own = 0
    BY <1>1, <1>4 DEF NothingOwed
  <2>2. 1 \in 1 .. n + 1 /\ \A i \in 1 .. n : i + 1 \in 1 .. n + 1
    BY <1>1
  <2>3. QED
    BY <1>1, <1>2, <2>1, <2>2 DEF NothingOwed
<1>5. ASSUME Abreast(a) PROVE Abreast(a)'
  <2>1. ASSUME NEW t \in Callers PROVE counted'[<<t, a>>] <= Heard(a)' + Told(r, n)
    <3> DEFINE c == counted[<<t, a>>]
               k == Told(r, n)
               h == count[a]
    <3>1. c <= h + Told(q, n + 1)
      BY <1>1, <1>2, <1>5 DEF Abreast
    <3>2. n \in 0 .. n
      BY <1>1
    <3>3. Told(q, n + 1) = k + one /\ k \in Nat
      BY <1>3, <3>2, Zenon
    <3>4. c \in Nat /\ h \in Nat /\ one \in {0, 1} /\ Heard(a)' = h + one
      BY <1>2 DEF ActorsType
    <3>5. counted'[<<t, a>>] = c
      OBVIOUS
    <3> HIDE DEF n, one, c, k, h, q, r
    <3>6. c <= (h + one) + k
      BY <3>1, <3>3, <3>4
    <3>7. QED
      BY <3>4, <3>5, <3>6 DEF k
  <2>2. ASSUME NEW i \in 1 .. n, r[i].kind = "ask" PROVE r[i].own <= Heard(a)' + Told(r, i - 1)
    <3>1. i + 1 \in 1 .. Len(q) /\ i - 1 \in 0 .. n /\ (i + 1) - 1 = (i - 1) + 1 /\ q[i + 1] = r[i]
      BY <1>1
    <3>2. q[i + 1].own <= count[a] + Told(q, (i + 1) - 1)
      BY <1>2, <1>5, <2>2, <3>1 DEF Abreast
    <3>3. Told(q, (i - 1) + 1) = Told(r, i - 1) + one /\ Told(r, i - 1) \in Nat
      BY <1>3, <3>1
    <3> HIDE DEF n, one, r, q
    <3>4. r[i].own <= count[a] + (Told(r, i - 1) + one)
      BY <3>1, <3>2, <3>3
    <3>5. one \in {0, 1}
      BY DEF one
    <3>6. QED
      BY <1>2, <3>3, <3>4, <3>5
  <2>3. handling'[a].kind = "ask" => handling'[a].own <= count'[a]
    <3>1. SUFFICES ASSUME handling'[a].kind = "ask" PROVE q[1].own <= count[a]
      BY <1>2
    <3>2. 1 \in 1 .. Len(q) /\ q[1].kind = "ask"
      BY <1>1, <1>2, <3>1
    <3>3. q[1].own <= count[a] + Told(q, 1 - 1)
      BY <1>2, <1>5, <3>2 DEF Abreast
    <3>4. Told(q, 0) = 0
      <4>1. {i \in 1 .. 0 : q[i].kind = "user"} = {}
        OBVIOUS
      <4>2. QED
        BY <4>1, FS_EmptySet DEF Told
    <3>5. QED
      BY <1>2, <3>3, <3>4
  <2>4. QED
    BY <2>1, <2>2, <2>3 DEF Abreast
<1>6. QED
  BY <1>4, <1>5

(* Nothing else matters to it than what it has heard and has in its mailbox.*)
LEMMA Undisturbed ==
  ASSUME ActorsType, NEW a \in Actors, mailbox'[a] = mailbox[a],
         \/ handling'[a] = handling[a] /\ count'[a] = count[a]
         \/ handling'[a] = Nothing /\ handling[a].kind # "user" /\ count'[a] = count[a]
         \/ handling'[a] = Nothing /\ handling[a].kind = "user" /\ count'[a] = count[a] + 1,
         \A t \in Callers : counted'[<<t, a>>] = counted[<<t, a>>]
  PROVE  Abreast(a) => Abreast(a)'
<1>1. count[a] \in Nat
  BY DEF ActorsType
<1>2. Heard(a)' = Heard(a)
  BY <1>1, MailKinds DEF Heard
<1>3. (handling'[a].kind = "ask" => handling'[a] = handling[a] /\ count'[a] = count[a])
  BY MailKinds
<1>4. QED
  BY <1>2, <1>3 DEF Abreast

LEMMA StillNothingOwed ==
  ASSUME NEW a \in Actors, mailbox'[a] = mailbox[a], handling'[a] \in {handling[a], Nothing}
  PROVE  NothingOwed(a) => NothingOwed(a)'
BY MailKinds DEF NothingOwed

(* An ask begins where its task awaits nothing ...                          *)
LEMMA AskBegins ==
  ASSUME ActorsType, AsksInv, NEW t \in Askers, NEW a, asking[t] = NotAsking, AskOf(t, a),
         failures' = failures
  PROVE  AsksInv'
<1> DEFINE n == asked[t] + 1
           new == [future |-> "open", n |-> n, for |-> 0, value |-> 0, own |-> 0]
<1>1. n \in Nat
  BY DEF ActorsType
<1>2. asking' = [asking EXCEPT ![t] = new] /\ registered' = registered \cup {<<t, n>>}
  BY DEF AskOf
<1> HIDE DEF n
<1>3. new \in AskRecord /\ new.future = "open" /\ new.n = n
  BY <1>1 DEF AskRecord
<1> HIDE DEF new
<1>4. asking' \in [Askers -> {NotAsking} \cup AskRecord] /\ registered' \subseteq Askers \X Nat
  BY <1>1, <1>2, <1>3 DEF AsksInv
<1>5. asking'[t] = new /\ \A s \in Askers \ {t} : asking'[s] = asking[s]
  BY <1>2 DEF AsksInv
<1>6. AnswersOwn'
  BY <1>3, <1>5 DEF AsksInv, AnswersOwn, Answered
<1>7. ASSUME NEW r \in registered' PROVE asking'[r[1]].future # "none" /\ asking'[r[1]].n = r[2]
  <2>1. CASE r = <<t, n>>
    BY <1>3, <1>5, <2>1
  <2>2. CASE r \in registered
    <3>1. r[1] \in Askers /\ asking[r[1]].future # "none" /\ asking[r[1]].n = r[2]
      BY <2>2 DEF AsksInv, NoAskLeftOver
    <3>2. r[1] # t
      BY <3>1 DEF NotAsking
    <3>3. QED
      BY <1>5, <3>1, <3>2
  <2>3. QED
    BY <1>2, <1>7, <2>1, <2>2
<1>8. QED
  BY <1>4, <1>6, <1>7 DEF AsksInv, NoAskLeftOver

(* ... and ends with its registration.  In the same step the answer to      *)
(* another ask may come, if one is given.                                   *)
LEMMA AskEnds ==
  ASSUME AsksInv, NEW t \in Askers,
         asking' \in [Askers -> {NotAsking} \cup AskRecord],
         asking'[t] = NotAsking, registered' = registered \ {<<t, asking[t].n>>},
         \A s \in Askers \ {t} :
           \/ asking'[s] = asking[s]
           \/ /\ asking[s].future # "none" /\ asking'[s].future = "done"
              /\ asking'[s].n = asking[s].n /\ asking'[s].for = asking[s].n
              /\ failures' = 0 => asking'[s].value >= asking'[s].own,
         failures' = 0 => failures = 0
  PROVE  AsksInv'
<1>1. ASSUME NEW s \in Askers, asking'[s].future = "done"
      PROVE  /\ asking'[s].for = asking'[s].n
             /\ failures' = 0 => asking'[s].value >= asking'[s].own
  <2>1. s # t
    BY <1>1 DEF NotAsking
  <2>2. CASE asking'[s] = asking[s]
    BY <1>1, <2>2 DEF AsksInv, AnswersOwn, Answered
  <2>3. CASE asking'[s] # asking[s]
    BY <1>1, <2>1, <2>3
  <2>4. QED
    BY <2>2, <2>3
<1>2. ASSUME NEW r \in registered'
      PROVE  asking'[r[1]].future # "none" /\ asking'[r[1]].n = r[2]
  <2>1. r \in registered /\ r # <<t, asking[t].n>> /\ r[1] \in Askers /\ r = <<r[1], r[2]>>
    BY <1>2 DEF AsksInv
  <2>2. asking[r[1]].future # "none" /\ asking[r[1]].n = r[2]
    BY <2>1 DEF AsksInv, NoAskLeftOver
  <2>3. r[1] # t
    BY <2>1, <2>2
  <2>4. CASE asking'[r[1]] = asking[r[1]]
    BY <2>2, <2>4
  <2>5. CASE asking'[r[1]] # asking[r[1]]
    BY <2>1, <2>2, <2>3, <2>5
  <2>6. QED
    BY <2>4, <2>5
<1>3. registered' \subseteq Askers \X Nat
  BY DEF AsksInv
<1>4. QED
  BY <1>1, <1>2, <1>3 DEF AsksInv, AnswersOwn, Answered, NoAskLeftOver

(* An answer reaches the ask that it is for, or nobody.                     *)
LEMMA AnswerFits ==
  ASSUME AsksInv, NEW m, NEW value \in Nat, m \in AskMessage,
         <<m.by, m.n>> \in registered, asking[m.by].future = "open"
  PROVE  /\ m.by \in Askers /\ asking[m.by].n = m.n
         /\ Answer(asking[m.by], m, value) \in AskRecord
         /\ Answer(asking[m.by], m, value).future = "done"
         /\ Answer(asking[m.by], m, value).n = m.n
         /\ Answer(asking[m.by], m, value).for = m.n
         /\ Answer(asking[m.by], m, value).value = value
         /\ Answer(asking[m.by], m, value).own = m.own
<1> DEFINE t == m.by
<1>1. t \in Askers /\ m.n \in Nat /\ m.own \in Nat
  BY MailKinds
<1>2. asking[t].n = m.n
  <2> DEFINE r == <<m.by, m.n>>
  <2>1. asking[r[1]].n = r[2]
    BY DEF AsksInv, NoAskLeftOver
  <2>2. QED
    BY <2>1
<1>3. asking[t] \in AskRecord
  BY <1>1 DEF AsksInv, NotAsking
<1>4. QED
  BY <1>1, <1>2, <1>3 DEF Answer, AskRecord

LEMMA ResponseHandled ==
  ASSUME AsksInv, NEW m, NEW value \in Nat, m \in AskMessage, HandleResponse(m, value),
         registered' = registered, failures' = failures, failures = 0 => m.own <= value
  PROVE  AsksInv'
<1>1. CASE <<m.by, m.n>> \in registered /\ asking[m.by].future = "open"
  <2> DEFINE new == Answer(asking[m.by], m, value)
  <2>1. /\ m.by \in Askers /\ asking[m.by].n = m.n
        /\ new \in AskRecord /\ new.future = "done" /\ new.n = m.n /\ new.for = m.n
        /\ new.value = value /\ new.own = m.own
    BY <1>1, AnswerFits
  <2>2. asking' = [asking EXCEPT ![m.by] = new]
    BY <1>1 DEF HandleResponse
  <2> HIDE DEF new
  <2>3. asking' \in [Askers -> {NotAsking} \cup AskRecord]
    BY <2>1, <2>2 DEF AsksInv
  <2>4. asking'[m.by] = new /\ \A s \in Askers \ {m.by} : asking'[s] = asking[s]
    BY <2>1, <2>2 DEF AsksInv
  <2>5. AnswersOwn'
    BY <2>1, <2>4, MailKinds DEF AsksInv, AnswersOwn, Answered
  <2>6. ASSUME NEW r \in registered
        PROVE  asking'[r[1]].future # "none" /\ asking'[r[1]].n = r[2]
    <3>1. r[1] \in Askers /\ asking[r[1]].future # "none" /\ asking[r[1]].n = r[2]
      BY DEF AsksInv, NoAskLeftOver
    <3>2. QED
      BY <2>1, <2>4, <3>1
  <2>7. QED
    BY <2>3, <2>5, <2>6 DEF AsksInv, NoAskLeftOver
<1>2. CASE ~ (<<m.by, m.n>> \in registered /\ asking[m.by].future = "open")
  <2>1. asking' = asking
    BY <1>2 DEF HandleResponse
  <2>2. QED
    BY <2>1 DEF AsksInv, AnswersOwn, Answered, NoAskLeftOver
<1>3. QED
  BY <1>1, <1>2

(* Failures are counted, never taken back.                                  *)
LEMMA AsksUnchanged ==
  ASSUME AsksInv, asking' = asking, registered' = registered, failures' = 0 => failures = 0
  PROVE  AsksInv'
BY DEF AsksInv, AnswersOwn, Answered, NoAskLeftOver

(* A step of one actor disturbs what no other has heard.                    *)
LEMMA SeenElsewhere ==
  ASSUME ActorsType, SeenInv, failures' = 0 => failures = 0, sys' = sys, NEW a \in Actors,
         \A b \in Actors \ {a} : /\ mailbox'[b] = mailbox[b] /\ handling'[b] = handling[b]
                                 /\ count'[b] = count[b],
         \A b \in Actors \ {a}, t \in Callers : counted'[<<t, b>>] = counted[<<t, b>>],
         a \in Forwarders /\ NothingOwed(a) => NothingOwed(a)',
         a \notin Forwarders /\ failures' = 0 /\ Abreast(a) => Abreast(a)'
  PROVE  SeenInv'
<1>1. ASSUME NEW b \in Actors, b \in Forwarders PROVE NothingOwed(b)'
  <2>1. NothingOwed(b)
    BY <1>1 DEF SeenInv
  <2>2. CASE b = a
    BY <1>1, <2>1, <2>2
  <2>3. CASE b # a
    BY <2>1, <2>3, StillNothingOwed
  <2>4. QED
    BY <2>2, <2>3
<1>2. ASSUME failures' = 0, ~ CutOff', NEW b \in Actors, b \notin Forwarders PROVE Abreast(b)'
  <2>1. Abreast(b)
    BY <1>2 DEF SeenInv, CutOff
  <2>2. CASE b = a
    BY <1>2, <2>1, <2>2
  <2>3. CASE b # a
    <3>1. b \in Actors \ {a}
      BY <2>3
    <3>2. \A t \in Callers : counted'[<<t, b>>] = counted[<<t, b>>]
      BY <3>1
    <3>3. mailbox'[b] = mailbox[b] /\ handling'[b] = handling[b] /\ count'[b] = count[b]
      BY <3>1
    <3>4. QED
      BY <2>1, <3>2, <3>3, Undisturbed
  <2>4. QED
    BY <2>2, <2>3
<1>3. QED
  BY <1>1, <1>2 DEF SeenInv

LEMMA SeenUnchanged ==
  ASSUME SeenInv, failures' = 0 => failures = 0, UNCHANGED <<sys, mailbox, handling, count, counted>>
  PROVE  SeenInv'
BY DEF SeenInv, NothingOwed, Abreast, Heard, CutOff

(* What is sent is delivered at the end, or lost altogether.                *)
LEMMA Sent ==
  ASSUME ActorsType, SeenInv, NEW a, NEW m \in Mail, Deliver(a, m),
         UNCHANGED <<sys, handling, count, failures>>,
         counted' \in [Callers \X Actors -> Nat],
         \A b \in Actors, t \in Callers :
           \/ counted'[<<t, b>>] = counted[<<t, b>>]
           \/ b = a /\ Delivers(a) /\ m.kind = "user" /\ counted'[<<t, b>>] = counted[<<t, b>>] + 1,
         m.kind = "ask" =>
           m.own = 0 \/ (a \notin Forwarders /\ \E t \in Callers : m.own = counted[<<t, a>>])
  PROVE  mailbox' \in [Actors -> Seq(Mail)] /\ SeenInv'
<1>1. CASE Delivers(a)
  <2>1. a \in Actors /\ mailbox' = [mailbox EXCEPT ![a] = Append(@, m)]
    BY <1>1 DEF Deliver, Delivers, ActorsType
  <2>2. mailbox[a] \in Seq(Mail)
    BY <2>1 DEF ActorsType
  <2>3. Append(mailbox[a], m) \in Seq(Mail)
    BY <2>2, AppendProperties
  <2>4. /\ mailbox' \in [Actors -> Seq(Mail)] /\ mailbox'[a] = Append(mailbox[a], m)
        /\ \A b \in Actors \ {a} : mailbox'[b] = mailbox[b]
    BY <2>1, <2>3 DEF ActorsType
  <2>5. ASSUME a \in Forwarders, NothingOwed(a) PROVE NothingOwed(a)'
    <3>1. m.kind = "ask" => m.own = 0
      BY <2>5
    <3>2. handling'[a] = handling[a] /\ count'[a] = count[a]
      OBVIOUS
    <3>3. QED
      BY <2>1, <2>4, <2>5, <3>1, <3>2, Delivered
  <2>6. ASSUME a \notin Forwarders, Abreast(a) PROVE Abreast(a)'
    <3>1. \A t \in Callers : /\ counted'[<<t, a>>] \in Nat
                             /\ counted'[<<t, a>>] <= counted[<<t, a>>] + (IF m.kind = "user" THEN 1 ELSE 0)
      <4> TAKE t \in Callers
      <4>1. counted[<<t, a>>] \in Nat /\ counted'[<<t, a>>] \in Nat
        BY <2>1 DEF ActorsType
      <4>2. \/ counted'[<<t, a>>] = counted[<<t, a>>]
            \/ m.kind = "user" /\ counted'[<<t, a>>] = counted[<<t, a>>] + 1
        BY <2>1
      <4>3. QED
        BY <4>1, <4>2
    <3>2. m.kind = "ask" => m.own <= Heard(a) + Told(mailbox[a], Len(mailbox[a]))
      <4>1. SUFFICES ASSUME m.kind = "ask" PROVE m.own <= Heard(a) + Told(mailbox[a], Len(mailbox[a]))
        OBVIOUS
      <4>2. Heard(a) \in Nat /\ Told(mailbox[a], Len(mailbox[a])) \in Nat
        <5>1. Len(mailbox[a]) \in Nat /\ count[a] \in Nat
          BY <2>1, <2>2, LenProperties DEF ActorsType
        <5>2. Told(mailbox[a], Len(mailbox[a])) \in Nat
          BY <5>1, ToldType, Zenon
        <5>3. QED
          BY <5>1, <5>2 DEF Heard
      <4>3. CASE m.own = 0
        BY <4>2, <4>3
      <4>4. CASE \E t \in Callers : m.own = counted[<<t, a>>]
        BY <2>6, <4>4 DEF Abreast
      <4>5. QED
        BY <4>1, <4>3, <4>4
    <3>3. handling'[a] = handling[a] /\ count'[a] = count[a]
      OBVIOUS
    <3>4. QED
      BY <2>1, <2>4, <2>6, <3>1, <3>2, <3>3, Delivered
  <2>7. \A b \in Actors \ {a}, t \in Callers : counted'[<<t, b>>] = counted[<<t, b>>]
    OBVIOUS
  <2>8. \A b \in Actors \ {a} : handling'[b] = handling[b] /\ count'[b] = count[b]
    OBVIOUS
  <2>9. SeenInv'
    BY <2>1, <2>4, <2>5, <2>6, <2>7, <2>8, SeenElsewhere
  <2>10. QED
    BY <2>4, <2>9
<1>2. CASE ~ Delivers(a)
  <2>1. mailbox' = mailbox
    BY <1>2 DEF Deliver
  <2>2. \A b \in Actors, t \in Callers : counted'[<<t, b>>] = counted[<<t, b>>]
    BY <1>2
  <2>3. counted' = counted
    BY <2>2 DEF ActorsType
  <2>4. QED
    BY <2>1, <2>3, SeenUnchanged DEF ActorsType
<1>3. QED
  BY <1>1, <1>2

(* An ask is sent with what its caller has told, if it is a count that it   *)
(* asks for.                                                                *)
LEMMA AskSent ==
  ASSUME ActorsType, AsksInv, SeenInv, NEW t \in Askers, NEW a, asking[t] = NotAsking, AskOf(t, a),
         UNCHANGED <<sys, handling, count, counted, failures>>, a \in actors => a \in Actors
  PROVE  AsksInv' /\ SeenInv' /\ mailbox' \in [Actors -> Seq(Mail)] /\ asked' \in [Askers -> Nat]
<1> DEFINE n == asked[t] + 1
           own == IF t \in Callers /\ a \notin Forwarders THEN counted[<<t, a>>] ELSE 0
           m == [kind |-> "ask", by |-> t, n |-> n, own |-> own]
<1>1. AsksInv'
  BY AskBegins
<1>2. n \in Nat /\ asked' = [asked EXCEPT ![t] = n] /\ Deliver(a, m)
  BY DEF ActorsType, AskOf
<1>3. asked' \in [Askers -> Nat]
  BY <1>2 DEF ActorsType
<1>4. CASE Delivers(a)
  <2>1. a \in Actors /\ own \in Nat
    BY <1>4 DEF Delivers, ActorsType
  <2>2. m \in Mail /\ m.kind = "ask"
    BY <1>2, <2>1 DEF Mail, AskMessage
  <2>3. m.own = 0 \/ (a \notin Forwarders /\ \E s \in Callers : m.own = counted[<<s, a>>])
    OBVIOUS
  <2>4. counted' \in [Callers \X Actors -> Nat]
    BY DEF ActorsType
  <2> HIDE DEF m
  <2>5. QED
    BY <1>1, <1>2, <1>3, <2>2, <2>3, <2>4, Sent
<1>5. CASE ~ Delivers(a)
  <2>1. mailbox' = mailbox
    BY <1>2, <1>5 DEF Deliver
  <2>2. QED
    BY <1>1, <1>3, <2>1, SeenUnchanged DEF ActorsType
<1>6. QED
  BY <1>4, <1>5

LEMMA Finished ==
  ASSUME ActorsType, OpenInv, NEW a \in Actors, Finish(a), opened' = opened,
         failures' = 0 => failures = 0
  PROVE  /\ state' \in [Actors -> States]
         /\ handling' \in [Actors -> User \cup AskMessage \cup {Nothing}]
         /\ OpenInv'
         /\ handling'[a] = Nothing /\ \A b \in Actors \ {a} : handling'[b] = handling[b]
         /\ \A b \in Actors : state'[b] \in {state[b], "STOPPING"}
<1>1. /\ handling' \in [Actors -> User \cup AskMessage \cup {Nothing}]
      /\ handling'[a] = Nothing /\ \A b \in Actors \ {a} : handling'[b] = handling[b]
  BY DEF Finish, ActorsType
<1>2. state' \in {state, [state EXCEPT ![a] = "STOPPING"]}
  BY DEF Finish, Heed, LeaveLoop
<1>3. /\ state' \in [Actors -> States] /\ \A b \in Actors \ {a} : state'[b] = state[b]
      /\ state'[a] \in {state[a], "STOPPING"}
  BY <1>2 DEF ActorsType, States
<1>4. OpenInv'
  BY <1>1, <1>3 DEF OpenInv
<1>5. QED
  BY <1>1, <1>3, <1>4

LEMMA OpenUnchanged ==
  ASSUME OpenInv, UNCHANGED <<state, opened, handling>>, failures' = 0 => failures = 0
  PROVE  OpenInv'
BY DEF OpenInv

LEMMA CutKept ==
  ASSUME CutOffInv, sys' = sys,
         \A a \in Actors :
           /\ handling'[a] \in {handling[a], Nothing}
           /\ state'[a] \in {state[a], "STOPPING", "STOPPED", "TORN"}
  PROVE  CutOffInv'
BY DEF CutOffInv, CutOff, Accepting

LEMMA CutUnchanged ==
  ASSUME CutOffInv, UNCHANGED <<sys, state, handling>>
  PROVE  CutOffInv'
BY DEF CutOffInv, CutOff

(* The callers.                                                             *)
LEMMA CallerStep ==
  ASSUME ActorsInv, NEW t \in Callers,
         \/ \E a \in Actors : Tell(t, a) \/ Ask(t, a) \/ TellSystem(t, a, Restart) \/ TellSystem(t, a, Stop)
         \/ AskReturns(t) \/ AskTimesOut(t)
  PROVE  ActorsInv'
<1>1. t \in Askers /\ asked[t] \in Nat /\ failures \in Nat
  BY DEF Askers, ActorsInv, ActorsType
<1>2. ASSUME NEW a \in Actors, Tell(t, a) PROVE ActorsInv'
  <2> DEFINE m == [kind |-> "user", by |-> t]
  <2>1. /\ Deliver(a, m) /\ asked' = [asked EXCEPT ![t] = @ + 1]
        /\ counted' = IF Delivers(a) THEN [counted EXCEPT ![<<t, a>>] = @ + 1] ELSE counted
        /\ UNCHANGED <<sys, actors, state, opened, handling, count, asking, registered, failures>>
    BY <1>2 DEF Tell, lifeVars
  <2>2. m \in Mail /\ m.kind = "user"
    BY <1>1 DEF Mail, User
  <2> HIDE DEF m
  <2>3. counted \in [Callers \X Actors -> Nat] /\ <<t, a>> \in Callers \X Actors
    BY DEF ActorsInv, ActorsType
  <2>4. counted' \in [Callers \X Actors -> Nat]
    BY <2>1, <2>3
  <2>5. \A b \in Actors, s \in Callers :
          \/ counted'[<<s, b>>] = counted[<<s, b>>]
          \/ b = a /\ Delivers(a) /\ m.kind = "user" /\ counted'[<<s, b>>] = counted[<<s, b>>] + 1
    BY <2>1, <2>2, <2>3
  <2>6. mailbox' \in [Actors -> Seq(Mail)] /\ SeenInv'
    BY <2>1, <2>2, <2>4, <2>5, Sent DEF ActorsInv
  <2>7. asked' \in [Askers -> Nat]
    BY <1>1, <2>1 DEF ActorsInv, ActorsType
  <2>8. ActorsType'
    BY <2>1, <2>4, <2>6, <2>7 DEF ActorsInv, ActorsType
  <2>9. QED
    BY <2>1, <2>6, <2>8, AsksUnchanged, OpenUnchanged, CutUnchanged DEF ActorsInv
<1>3. ASSUME NEW a \in Actors, NEW m \in {Restart, Stop}, TellSystem(t, a, m) PROVE ActorsInv'
  <2>1. /\ Deliver(a, m) /\ asked' = [asked EXCEPT ![t] = @ + 1]
        /\ UNCHANGED <<sys, actors, state, opened, handling, count, counted, asking, registered, failures>>
    BY <1>3 DEF TellSystem, lifeVars
  <2>2. m \in Mail /\ m.kind # "user" /\ m.kind # "ask"
    BY MailKinds
  <2>3. counted' \in [Callers \X Actors -> Nat]
    BY <2>1 DEF ActorsInv, ActorsType
  <2>4. mailbox' \in [Actors -> Seq(Mail)] /\ SeenInv'
    BY <2>1, <2>2, <2>3, Sent DEF ActorsInv
  <2>5. asked' \in [Askers -> Nat]
    BY <1>1, <2>1 DEF ActorsInv, ActorsType
  <2>6. ActorsType'
    BY <2>1, <2>3, <2>4, <2>5 DEF ActorsInv, ActorsType
  <2>7. QED
    BY <2>1, <2>4, <2>6, AsksUnchanged, OpenUnchanged, CutUnchanged DEF ActorsInv
<1>4. ASSUME NEW a \in Actors, Ask(t, a) PROVE ActorsInv'
  <2>1. /\ asking[t] = NotAsking /\ AskOf(t, a)
        /\ UNCHANGED <<sys, actors, state, opened, handling, count, counted, failures>>
    BY <1>4 DEF Ask, Sends, lifeVars
  <2>2. AsksInv' /\ SeenInv' /\ mailbox' \in [Actors -> Seq(Mail)] /\ asked' \in [Askers -> Nat]
    BY <1>1, <2>1, AskSent DEF ActorsInv
  <2>3. QED
    BY <2>1, <2>2, OpenUnchanged, CutUnchanged DEF ActorsInv, ActorsType
<1>5. ASSUME AskReturns(t) \/ AskTimesOut(t) PROVE ActorsInv'
  <2>1. /\ EndAsk(t)
        /\ UNCHANGED <<sys, actors, state, opened, mailbox, handling, count, asked, counted, failures>>
    BY <1>5 DEF AskReturns, AskTimesOut, lifeVars
  <2>2. /\ asking' \in [Askers -> {NotAsking} \cup AskRecord] /\ asking'[t] = NotAsking
        /\ \A s \in Askers \ {t} : asking'[s] = asking[s]
        /\ registered' = registered \ {<<t, asking[t].n>>}
    BY <1>1, <2>1 DEF EndAsk, ActorsInv, AsksInv
  <2>3. AsksInv'
    BY <1>1, <2>1, <2>2, AskEnds DEF ActorsInv
  <2>4. QED
    BY <2>1, <2>3, OpenUnchanged, CutUnchanged, SeenUnchanged DEF ActorsInv, ActorsType
<1>6. QED
  BY <1>2, <1>3, <1>4, <1>5

(* The system.                                                              *)
LEMMA SystemStep ==
  ASSUME ActorsInv, (\E a \in Actors : ActorOf(a)) \/ Shutdown \/ TimeOver \/ Down
  PROVE  ActorsInv'
<1>1. ASSUME NEW a \in Actors, ActorOf(a) PROVE ActorsInv'
  <2>1. /\ actors' = actors \cup {a}
        /\ UNCHANGED <<sys, state, opened, mailbox, handling, count, asking, registered, asked, counted, failures>>
    BY <1>1 DEF ActorOf, callVars
  <2>2. QED
    BY <2>1, AsksUnchanged, OpenUnchanged, CutUnchanged, SeenUnchanged DEF ActorsInv, ActorsType
<1>2. CASE Shutdown
  <2>1. /\ mailbox' = [a \in Actors |-> IF a \in actors THEN Append(mailbox[a], Stop) ELSE mailbox[a]]
        /\ sys = "running" /\ sys' = "stopping"
        /\ UNCHANGED <<actors, state, opened, handling, count, asking, registered, asked, counted, failures>>
    BY <1>2 DEF Shutdown, callVars
  <2>2. ASSUME NEW a \in Actors
        PROVE  /\ mailbox'[a] \in Seq(Mail)
               /\ NothingOwed(a) => NothingOwed(a)'
               /\ Abreast(a) => Abreast(a)'
    <3>1. mailbox[a] \in Seq(Mail)
      BY DEF ActorsInv, ActorsType
    <3>2. \A t \in Callers : counted[<<t, a>>] \in Nat /\ counted'[<<t, a>>] = counted[<<t, a>>]
      BY <2>1 DEF ActorsInv, ActorsType
    <3>3. handling'[a] = handling[a] /\ count'[a] = count[a] /\ ActorsType
      BY <2>1 DEF ActorsInv
    <3>4. CASE a \in actors
      <4>1. mailbox'[a] = Append(mailbox[a], Stop)
        BY <2>1, <3>4
      <4>2. Stop \in Mail /\ Stop.kind # "user" /\ Stop.kind # "ask"
        BY MailKinds
      <4>3. mailbox'[a] \in Seq(Mail)
        BY <3>1, <4>1, <4>2, AppendProperties
      <4>4. \A t \in Callers : counted'[<<t, a>>] \in Nat /\ counted'[<<t, a>>] <= counted[<<t, a>>] + 0
        BY <3>2
      <4>5. (NothingOwed(a) => NothingOwed(a)') /\ (Abreast(a) => Abreast(a)')
        BY <3>3, <4>1, <4>2, <4>4, Delivered
      <4>6. QED
        BY <4>3, <4>5
    <3>5. CASE a \notin actors
      <4>1. mailbox'[a] = mailbox[a]
        BY <2>1, <3>5
      <4>2. QED
        BY <3>1, <3>2, <3>3, <4>1, Undisturbed, StillNothingOwed
    <3>6. QED
      BY <3>4, <3>5
  <2>3. mailbox' \in [Actors -> Seq(Mail)]
    BY <2>1, <2>2
  <2>4. SeenInv'
    BY <2>1, <2>2 DEF ActorsInv, SeenInv, CutOff
  <2>5. QED
    BY <2>1, <2>3, <2>4, AsksUnchanged, OpenUnchanged DEF ActorsInv, ActorsType, CutOffInv, CutOff
<1>3. CASE Down
  <2>1. /\ actors' = {} /\ registered' = {}
        /\ asking' = [t \in Askers |-> IF asking[t].future = "open" /\ <<t, asking[t].n>> \in registered
                                         THEN [asking[t] EXCEPT !.future = "cancelled"] ELSE asking[t]]
        /\ (sys = "stopping" /\ sys' = "down") \/ (sys = "cancelled" /\ sys' = "forced")
        /\ UNCHANGED <<state, opened, mailbox, handling, count, asked, counted, failures>>
    BY <1>3 DEF Down
  <2>2. ASSUME NEW t \in Askers
        PROVE  /\ asking'[t] \in {NotAsking} \cup AskRecord
               /\ asking'[t].future = "done" => asking'[t] = asking[t]
    <3>1. asking[t] \in {NotAsking} \cup AskRecord
      BY DEF ActorsInv, AsksInv
    <3>2. CASE asking[t].future = "open" /\ <<t, asking[t].n>> \in registered
      <4>1. asking[t] \in AskRecord
        BY <3>1, <3>2 DEF NotAsking
      <4>2. asking'[t] = [asking[t] EXCEPT !.future = "cancelled"]
        BY <2>1, <3>2
      <4>3. QED
        BY <4>1, <4>2 DEF AskRecord
    <3>3. CASE ~ (asking[t].future = "open" /\ <<t, asking[t].n>> \in registered)
      BY <2>1, <3>1, <3>3
    <3>4. QED
      BY <3>2, <3>3
  <2>3. asking' \in [Askers -> {NotAsking} \cup AskRecord]
    BY <2>1, <2>2
  <2>4. AnswersOwn'
    BY <2>1, <2>2 DEF ActorsInv, AsksInv, AnswersOwn, Answered
  <2>5. AsksInv'
    BY <2>1, <2>3, <2>4 DEF AsksInv, NoAskLeftOver
  <2>6. SeenInv' /\ CutOffInv'
    BY <2>1 DEF ActorsInv, SeenInv, CutOffInv, NothingOwed, Abreast, Heard, CutOff
  <2>7. QED
    BY <2>1, <2>5, <2>6, OpenUnchanged DEF ActorsInv, ActorsType
<1>4. CASE TimeOver
  <2>1. /\ sys' = "cancelled" /\ state' = [a \in Actors |-> Cancelled(state[a])]
        /\ handling' = [a \in Actors |-> Nothing]
        /\ asking' = [t \in Askers |-> IF t \in Forwarders THEN NotAsking ELSE asking[t]]
        /\ registered' = {r \in registered : r[1] \notin Forwarders}
        /\ UNCHANGED <<actors, mailbox, count, asked, counted, failures>>
    BY <1>4 DEF TimeOver
  <2>2. \A a \in Actors : Cancelled(state[a]) \in States /\ Cancelled(state[a]) \notin Accepting
    BY DEF ActorsInv, ActorsType, States, Cancelled, Accepting
  <2>3. /\ state' \in [Actors -> States]
        /\ \A a \in Actors : state'[a] \notin Accepting /\ handling'[a] = Nothing
    BY <2>1, <2>2
  <2>4. ActorsType'
    BY <2>1, <2>3 DEF ActorsInv, ActorsType
  <2>5. OpenInv' /\ CutOffInv'
    BY <2>3 DEF OpenInv, CutOffInv, Accepting
  <2>6. SeenInv'
    <3>1. CutOff'
      BY <2>1 DEF CutOff
    <3>2. \A a \in Actors \cap Forwarders : NothingOwed(a)'
      BY <2>1, <2>3, StillNothingOwed DEF ActorsInv, SeenInv
    <3>3. QED
      BY <3>1, <3>2 DEF SeenInv
  <2>7. AsksInv'
    <3>1. /\ asking' \in [Askers -> {NotAsking} \cup AskRecord]
          /\ \A t \in Askers : asking'[t] = asking[t] \/ (t \in Forwarders /\ asking'[t] = NotAsking)
      BY <2>1 DEF ActorsInv, AsksInv
    <3>2. AnswersOwn'
      BY <2>1, <3>1 DEF ActorsInv, AsksInv, AnswersOwn, Answered, NotAsking
    <3>3. registered' \subseteq registered /\ \A r \in registered' : r[1] \notin Forwarders /\ r[1] \in Askers
      BY <2>1 DEF ActorsInv, AsksInv
    <3>4. NoAskLeftOver'
      BY <3>1, <3>3 DEF ActorsInv, AsksInv, NoAskLeftOver
    <3>5. QED
      BY <3>1, <3>2, <3>3, <3>4 DEF ActorsInv, AsksInv
  <2>8. QED
    BY <2>4, <2>5, <2>6, <2>7 DEF ActorsInv
<1>5. QED
  BY <1>1, <1>2, <1>3, <1>4

(* The life of an actor, and what it takes from its mailbox.                *)
LEMMA LifeStep ==
  ASSUME ActorsInv, NEW a \in Actors,
         Begin(a) \/ Started(a) \/ Stopped(a) \/ TakeStop(a) \/ TakeRestart(a) \/ Take(a)
  PROVE  ActorsInv'
<1>1. failures \in Nat /\ (failures' = failures + 1 => failures' \in Nat /\ failures' # 0)
  BY DEF ActorsInv, ActorsType
<1>2. CASE Begin(a) \/ Started(a) \/ Stopped(a)
  <2>1. /\ UNCHANGED <<sys, actors, mailbox, handling, count, asking, registered, asked, counted>>
        /\ failures' \in {failures, failures + 1}
    BY <1>2 DEF Begin, Started, Stopped, callVars, Fails
  <2>2. \E s \in States : state' = [state EXCEPT ![a] = s]
    <3>1. CASE Begin(a)
      BY <3>1 DEF Begin, States
    <3>2. CASE Started(a)
      BY <3>2 DEF Started, States
    <3>3. CASE Stopped(a)
      BY <3>3 DEF Stopped, States
    <3>4. QED
      BY <1>2, <3>1, <3>2, <3>3
  <2>3. state' \in [Actors -> States] /\ \A b \in Actors \ {a} : state'[b] = state[b]
    BY <2>2 DEF ActorsInv, ActorsType
  <2>4. ASSUME failures' = 0
        PROVE  /\ state'[a] = "RUNNING" => a \in opened'
               /\ handling[a] = Nothing
               /\ \A b \in Actors \ {a} : b \in opened => b \in opened'
    <3>1. failures = 0 /\ failures' # failures + 1
      BY <1>1, <2>1, <2>4
    <3>2. handling[a] # Nothing => state[a] = "RUNNING"
      BY <3>1 DEF ActorsInv, OpenInv
    <3>3. CASE Begin(a)
      BY <3>2, <3>3 DEF Begin, ActorsInv, ActorsType
    <3>4. CASE Started(a)
      BY <3>1, <3>2, <3>4 DEF Started, Fails, ActorsInv, ActorsType
    <3>5. CASE Stopped(a)
      BY <3>1, <3>2, <3>5 DEF Stopped, ActorsInv, ActorsType
    <3>6. QED
      BY <1>2, <3>3, <3>4, <3>5
  <2>5. OpenInv'
    BY <1>1, <2>1, <2>3, <2>4 DEF ActorsInv, OpenInv
  <2>6. CutOffInv'
    <3>1. CASE Begin(a)
      BY <2>1, <3>1 DEF Begin, CutOffInv, CutOff
    <3>2. CASE Started(a)
      BY <2>1, <3>2 DEF Started, ActorsInv, CutOffInv, CutOff, Accepting
    <3>3. CASE Stopped(a)
      <4>1. state'[a] \in {"STOPPED", "TORN"}
        BY <3>3 DEF Stopped, ActorsInv, ActorsType
      <4>2. QED
        BY <2>1, <2>3, <4>1, CutKept DEF ActorsInv
    <3>4. QED
      BY <1>2, <3>1, <3>2, <3>3
  <2>7. QED
    BY <1>1, <2>1, <2>3, <2>5, <2>6, AsksUnchanged, SeenUnchanged DEF ActorsInv, ActorsType
<1>3. CASE TakeStop(a) \/ TakeRestart(a) \/ Take(a)
  <2> DEFINE m == Head(mailbox[a])
  <2>1. /\ InGet(a) /\ mailbox[a] # <<>> /\ mailbox' = [mailbox EXCEPT ![a] = Tail(@)]
        /\ UNCHANGED <<sys, actors, count, asking, registered, asked, counted>>
        /\ failures' \in {failures, failures + 1}
    BY <1>3 DEF TakeStop, TakeRestart, Take, callVars, lifeVars, Fails
  <2>2. state[a] = "RUNNING" /\ handling[a] = Nothing /\ mailbox[a] \in Seq(Mail)
    BY <2>1 DEF InGet, ActorsInv, ActorsType
  <2>3. m \in Mail /\ Tail(mailbox[a]) \in Seq(Mail)
    BY <2>1, <2>2, HeadTailProperties
  <2>4. /\ mailbox' \in [Actors -> Seq(Mail)] /\ mailbox'[a] = Tail(mailbox[a])
        /\ \A b \in Actors \ {a} : mailbox'[b] = mailbox[b]
    BY <2>1, <2>3 DEF ActorsInv, ActorsType
  <2> HIDE DEF m
  <2>5. /\ handling' \in [Actors -> User \cup AskMessage \cup {Nothing}]
        /\ \A b \in Actors \ {a} : handling'[b] = handling[b]
        /\ handling'[a] = m \/ (handling'[a] = Nothing /\ m.kind # "user")
    <3>1. CASE handling' = handling /\ m \in {Stop, Restart}
      BY <2>2, <3>1, MailKinds DEF ActorsInv, ActorsType
    <3>2. CASE handling' = [handling EXCEPT ![a] = m] /\ m \notin {Stop, Restart}
      BY <2>3, <3>2 DEF ActorsInv, ActorsType, Mail
    <3>3. QED
      BY <1>3, <3>1, <3>2 DEF TakeStop, TakeRestart, Take, NextMessage, m
  <2>6. SeenInv'
    <3>1. /\ \A t \in Callers : counted'[<<t, a>>] = counted[<<t, a>>]
          /\ count'[a] = count[a] /\ sys' = sys /\ ActorsType /\ SeenInv
      BY <2>1 DEF ActorsInv
    <3>2. (NothingOwed(a) => NothingOwed(a)') /\ (Abreast(a) => Abreast(a)')
      BY <2>1, <2>2, <2>4, <2>5, <3>1, Taken DEF m
    <3>3. \A b \in Actors \ {a} : count'[b] = count[b]
      BY <2>1
    <3>4. \A b \in Actors \ {a}, t \in Callers : counted'[<<t, b>>] = counted[<<t, b>>]
      BY <2>1
    <3>5. failures' = 0 => failures = 0
      BY <1>1, <2>1
    <3>6. QED
      BY <2>4, <2>5, <3>1, <3>2, <3>3, <3>4, <3>5, SeenElsewhere
  <2>7. state' \in [Actors -> States] /\ OpenInv'
    <3>1. CASE TakeStop(a)
      <4>1. state' = [state EXCEPT ![a] = "STOPPING"] /\ UNCHANGED <<opened, handling, failures>>
        BY <3>1 DEF TakeStop, LeaveLoop
      <4>2. QED
        BY <2>2, <4>1 DEF ActorsInv, ActorsType, OpenInv, States
    <3>2. CASE TakeRestart(a)
      <4>1. /\ state' \in {state, [state EXCEPT ![a] = "STOPPING"]} /\ handling' = handling
            /\ \/ opened' = opened \cup {a} /\ failures' = failures
               \/ failures' = failures + 1
        BY <3>2 DEF TakeRestart, Heed, LeaveLoop, Fails
      <4>2. /\ state' \in [Actors -> States] /\ state'[a] \in {state[a], "STOPPING"}
            /\ \A b \in Actors \ {a} : state'[b] = state[b]
        BY <4>1 DEF ActorsInv, ActorsType, States
      <4>3. QED
        BY <1>1, <2>2, <4>1, <4>2 DEF ActorsInv, ActorsType, OpenInv
    <3>3. CASE Take(a)
      <4>1. UNCHANGED <<state, opened, failures>>
        BY <3>3 DEF Take, lifeVars
      <4>2. QED
        BY <2>2, <2>5, <4>1 DEF ActorsInv, ActorsType, OpenInv
    <3>4. QED
      BY <1>3, <3>1, <3>2, <3>3
  <2>8. CutOffInv'
    <3>1. ~ CutOff
      BY <2>2 DEF ActorsInv, CutOffInv, Accepting
    <3>2. QED
      BY <2>1, <3>1 DEF CutOffInv, CutOff
  <2>9. QED
    BY <1>1, <2>1, <2>4, <2>5, <2>6, <2>7, <2>8, AsksUnchanged DEF ActorsInv, ActorsType
<1>4. QED
  BY <1>2, <1>3

(* What an actor handles.                                                   *)
LEMMA CounterStep ==
  ASSUME ActorsInv, NEW a \in Actors, Count(a) \/ Get(a) \/ HandleError(a)
  PROVE  ActorsInv'
<1>1. /\ a \notin Forwarders /\ Finish(a)
      /\ UNCHANGED <<sys, actors, opened, mailbox, registered, asked, counted>>
  BY DEF Count, Get, HandleError, callVars
<1>2. failures \in Nat /\ count[a] \in Nat /\ failures' \in {failures, failures + 1}
  BY DEF ActorsInv, ActorsType, Count, Get, HandleError, Fails
<1>3. /\ state' \in [Actors -> States]
      /\ handling' \in [Actors -> User \cup AskMessage \cup {Nothing}]
      /\ OpenInv'
      /\ handling'[a] = Nothing /\ \A b \in Actors \ {a} : handling'[b] = handling[b]
      /\ \A b \in Actors : state'[b] \in {state[b], "STOPPING"}
  BY <1>1, <1>2, Finished DEF ActorsInv
<1>4. /\ count' \in [Actors -> Nat]
      /\ \A b \in Actors \ {a} : count'[b] = count[b]
      /\ \/ count'[a] = count[a] /\ handling[a].kind # "user"
         \/ count'[a] = count[a] + 1 /\ handling[a].kind = "user"
         \/ failures' # 0
  <2>1. CASE Count(a)
    BY <1>2, <2>1 DEF Count, ActorsInv, ActorsType
  <2>2. CASE Get(a)
    BY <2>2 DEF Get, ActorsInv, ActorsType
  <2>3. CASE HandleError(a)
    BY <1>2, <2>3 DEF HandleError, Fails, ActorsInv, ActorsType
  <2>4. QED
    BY <2>1, <2>2, <2>3
<1>5. SeenInv'
  <2>1. failures' # 0 \/ (Abreast(a) => Abreast(a)')
    BY <1>1, <1>3, <1>4, Undisturbed DEF ActorsInv
  <2>2. \A b \in Actors \ {a} : mailbox'[b] = mailbox[b]
    BY <1>1
  <2>3. \A b \in Actors \ {a}, t \in Callers : counted'[<<t, b>>] = counted[<<t, b>>]
    BY <1>1
  <2>4. QED
    BY <1>1, <1>2, <1>3, <1>4, <2>1, <2>2, <2>3, SeenElsewhere DEF ActorsInv
<1>6. AsksInv'
  <2>1. CASE asking' = asking
    BY <1>1, <1>2, <2>1, AsksUnchanged DEF ActorsInv
  <2>2. CASE Get(a) /\ HandleResponse(handling[a], count[a])
    <3>1. handling[a].kind = "ask" /\ failures' = failures
      BY <2>2 DEF Get
    <3>2. handling[a] \in AskMessage
      BY <3>1, MailKinds DEF ActorsInv, ActorsType
    <3>3. failures = 0 => handling[a].own <= count[a]
      <4>1. ~ CutOff
        BY <3>1, MailKinds DEF ActorsInv, CutOffInv
      <4>2. QED
        BY <1>1, <3>1, <4>1 DEF ActorsInv, SeenInv, Abreast
    <3>4. QED
      BY <1>1, <1>2, <2>2, <3>1, <3>2, <3>3, ResponseHandled DEF ActorsInv
  <2>3. QED
    BY <2>1, <2>2 DEF Count, Get, HandleError, callVars
<1>7. ActorsType'
  BY <1>1, <1>2, <1>3, <1>4 DEF ActorsInv, ActorsType
<1>8. CutOffInv'
  BY <1>1, <1>3, CutKept DEF ActorsInv
<1>9. QED
  BY <1>3, <1>5, <1>6, <1>7, <1>8 DEF ActorsInv

(* What a forwarder does is to begin an ask or to end one; what it has in   *)
(* hand is owed nothing.                                                    *)
LEMMA ForwarderStep ==
  ASSUME ActorsInv, NEW a \in Actors, Forward(a) \/ Forwarded(a) \/ ForwardTimesOut(a)
  PROVE  ActorsInv'
<1>1. /\ a \in Forwarders /\ a \in Askers /\ failures \in Nat
      /\ UNCHANGED <<sys, actors, opened, count, counted, failures>>
  BY DEF Forward, Forwarded, ForwardTimesOut, Askers, ActorsInv, ActorsType
<1>2. NothingOwed(a)
  BY <1>1 DEF ActorsInv, SeenInv
<1>3. ASSUME Finish(a), mailbox' = mailbox
      PROVE  /\ state' \in [Actors -> States]
             /\ handling' \in [Actors -> User \cup AskMessage \cup {Nothing}]
             /\ OpenInv' /\ SeenInv' /\ CutOffInv'
  <2>1. /\ state' \in [Actors -> States]
        /\ handling' \in [Actors -> User \cup AskMessage \cup {Nothing}]
        /\ OpenInv'
        /\ handling'[a] = Nothing /\ \A b \in Actors \ {a} : handling'[b] = handling[b]
        /\ \A b \in Actors : state'[b] \in {state[b], "STOPPING"}
    BY <1>1, <1>3, Finished DEF ActorsInv
  <2>2. NothingOwed(a)'
    BY <1>2, <1>3, <2>1, StillNothingOwed
  <2>3. \A b \in Actors \ {a} : mailbox'[b] = mailbox[b] /\ count'[b] = count[b]
    BY <1>1, <1>3
  <2>4. \A b \in Actors \ {a}, t \in Callers : counted'[<<t, b>>] = counted[<<t, b>>]
    BY <1>1
  <2>5. SeenInv'
    BY <1>1, <2>1, <2>2, <2>3, <2>4, SeenElsewhere DEF ActorsInv
  <2>6. CutOffInv'
    BY <1>1, <2>1, CutKept DEF ActorsInv
  <2>7. QED
    BY <2>1, <2>5, <2>6
<1>4. CASE Forward(a)
  <2>1. CASE AskOf(a, Target) /\ UNCHANGED <<handling, state>>
    <3>1. asking[a] = NotAsking
      BY <1>4 DEF Forward
    <3>2. Target \in actors => Target \in Actors
      BY DEF ActorsInv, ActorsType
    <3>3. AsksInv' /\ SeenInv' /\ mailbox' \in [Actors -> Seq(Mail)] /\ asked' \in [Askers -> Nat]
      BY <1>1, <2>1, <3>1, <3>2, AskSent DEF ActorsInv
    <3>4. QED
      BY <1>1, <2>1, <3>3, OpenUnchanged, CutUnchanged DEF ActorsInv, ActorsType
  <2>2. CASE Finish(a) /\ UNCHANGED <<asking, registered, asked, mailbox>>
    BY <1>1, <1>3, <2>2, AsksUnchanged DEF ActorsInv, ActorsType
  <2>3. QED
    BY <1>4, <2>1, <2>2 DEF Forward
<1>5. CASE Forwarded(a)
  <2> DEFINE m == handling[a]
             answers == m.kind = "ask" /\ Answered(a) /\ <<m.by, m.n>> \in registered
                        /\ asking[m.by].future = "open"
             new(t) == Answer(asking[t], m, asking[a].value)
  <2>1. /\ Finish(a) /\ UNCHANGED <<mailbox, asked>>
        /\ registered' = registered \ {<<a, asking[a].n>>}
        /\ asking' = [t \in Askers |->
             IF t = a THEN NotAsking
             ELSE IF answers /\ t = m.by THEN new(t) ELSE asking[t]]
    BY <1>5 DEF Forwarded
  <2>2. ASSUME answers
        PROVE  LET t == m.by
               IN /\ new(t) \in AskRecord /\ asking[t].future # "none" /\ new(t).future = "done"
                  /\ new(t).n = asking[t].n /\ new(t).for = asking[t].n
                  /\ new(t).value >= new(t).own
    <3>1. m \in AskMessage
      BY <2>2, MailKinds DEF ActorsInv, ActorsType
    <3>2. asking[a] \in AskRecord
      BY <1>1, <2>2 DEF Answered, NotAsking, ActorsInv, AsksInv
    <3>3. asking[a].value \in Nat
      BY <3>2 DEF AskRecord
    <3>4. m.own = 0
      BY <1>2, <2>2 DEF NothingOwed
    <3> DEFINE v == asking[a].value
    <3> HIDE DEF m, v
    <3>5. /\ asking[m.by].n = m.n
          /\ Answer(asking[m.by], m, v) \in AskRecord
          /\ Answer(asking[m.by], m, v).future = "done"
          /\ Answer(asking[m.by], m, v).n = m.n
          /\ Answer(asking[m.by], m, v).for = m.n
          /\ Answer(asking[m.by], m, v).value = v
          /\ Answer(asking[m.by], m, v).own = m.own
      BY <2>2, <3>1, <3>3, AnswerFits DEF ActorsInv, v
    <3>6. v >= 0
      BY <3>3 DEF v
    <3>7. QED
      BY <2>2, <3>4, <3>5, <3>6 DEF v
  <2> HIDE DEF new, answers, m
  <2>3. ASSUME NEW t \in Askers, t # a
        PROVE  \/ asking'[t] = asking[t]
               \/ /\ asking[t].future # "none" /\ asking'[t].future = "done"
                  /\ asking'[t].n = asking[t].n /\ asking'[t].for = asking[t].n
                  /\ asking'[t].value >= asking'[t].own /\ asking'[t] \in AskRecord
    <3>1. CASE answers /\ t = m.by
      <4>1. asking'[t] = new(t)
        BY <2>1, <2>3, <3>1
      <4>2. QED
        BY <2>2, <3>1, <4>1
    <3>2. CASE ~ (answers /\ t = m.by)
      BY <2>1, <2>3, <3>2
    <3>3. QED
      BY <3>1, <3>2
  <2>4. asking'[a] = NotAsking
    BY <1>1, <2>1
  <2>5. asking' \in [Askers -> {NotAsking} \cup AskRecord]
    <3>1. \A t \in Askers : asking[t] \in {NotAsking} \cup AskRecord
      BY DEF ActorsInv, AsksInv
    <3>2. DOMAIN asking' = Askers /\ asking' = [t \in Askers |-> asking'[t]]
      BY <2>1
    <3>3. \A t \in Askers : asking'[t] \in {NotAsking} \cup AskRecord
      BY <2>3, <2>4, <3>1
    <3>4. QED
      BY <3>2, <3>3
  <2>6. AsksInv'
    BY <1>1, <2>1, <2>3, <2>4, <2>5, AskEnds DEF ActorsInv
  <2>7. QED
    BY <1>1, <1>3, <2>1, <2>6 DEF ActorsInv, ActorsType
<1>6. CASE ForwardTimesOut(a)
  <2>1. /\ Finish(a) /\ UNCHANGED <<mailbox, asked>>
        /\ registered' = registered \ {<<a, asking[a].n>>}
        /\ asking' = [asking EXCEPT ![a] = NotAsking]
    BY <1>6 DEF ForwardTimesOut
  <2>2. /\ asking' \in [Askers -> {NotAsking} \cup AskRecord] /\ asking'[a] = NotAsking
        /\ \A t \in Askers \ {a} : asking'[t] = asking[t]
    BY <1>1, <2>1 DEF ActorsInv, AsksInv
  <2>3. AsksInv'
    BY <1>1, <2>1, <2>2, AskEnds DEF ActorsInv
  <2>4. QED
    BY <1>1, <1>3, <2>1, <2>3 DEF ActorsInv, ActorsType
<1>7. QED
  BY <1>4, <1>5, <1>6

LEMMA ActorsStep ==
  ASSUME ActorsInv, ActorsNext
  PROVE  ActorsInv'
<1>1. CASE \E a \in Actors : ActorStep(a)
  BY <1>1, LifeStep, CounterStep, ForwarderStep DEF ActorStep
<1>2. CASE ~ \E a \in Actors : ActorStep(a)
  BY <1>2, CallerStep, SystemStep DEF ActorsNext
<1>3. QED
  BY <1>1, <1>2

LEMMA ActorsBegin ==
  ASSUME ActorsInit
  PROVE  ActorsInv
<1>1. /\ sys = "running" /\ actors = {} /\ registered = {} /\ failures = 0
      /\ state = [a \in Actors |-> "CREATED"] /\ opened = {}
      /\ mailbox = [a \in Actors |-> <<>>] /\ handling = [a \in Actors |-> Nothing]
      /\ count = [a \in Actors |-> 0]
      /\ asking = [t \in Askers |-> NotAsking] /\ asked = [t \in Askers |-> 0]
      /\ counted = [p \in Callers \X Actors |-> 0]
  BY DEF ActorsInit
<1>2. <<>> \in Seq(Mail) /\ Len(<<>>) = 0
  BY EmptySeq
<1>3. ActorsType
  BY <1>1, <1>2 DEF ActorsType, States
<1>4. AsksInv
  BY <1>1 DEF AsksInv, AnswersOwn, Answered, NotAsking, NoAskLeftOver
<1>5. OpenInv /\ CutOffInv
  BY <1>1 DEF OpenInv, CutOffInv, CutOff
<1>6. ASSUME NEW a \in Actors PROVE NothingOwed(a) /\ Abreast(a)
  <2>1. mailbox[a] = <<>> /\ Len(mailbox[a]) = 0 /\ handling[a] = Nothing /\ count[a] = 0
    BY <1>1, <1>2
  <2>2. handling[a].kind = "nothing"
    BY <2>1, MailKinds
  <2>3. Told(mailbox[a], 0) \in Nat
    BY ToldType
  <2>4. \A t \in Callers : counted[<<t, a>>] = 0
    BY <1>1
  <2>5. QED
    BY <2>1, <2>2, <2>3, <2>4 DEF NothingOwed, Abreast, Heard
<1>7. QED
  BY <1>3, <1>4, <1>5, <1>6 DEF ActorsInv, SeenInv

-----------------------------------------------------------------------------
(* Sequences without repetition. *)

Elems(s) == {s[i] : i \in DOMAIN s}
Distinct(s) == \A i, j \in DOMAIN s : s[i] = s[j] => i = j

LEMMA DistinctTail ==
  ASSUME NEW Z, NEW s \in Seq(Z), s # <<>>
  PROVE  /\ Tail(s) \in Seq(Z) /\ Head(s) \in Elems(s) /\ Len(Tail(s)) = Len(s) - 1
         /\ Elems(s) = Elems(Tail(s)) \cup {Head(s)}
         /\ Distinct(s) => Distinct(Tail(s)) /\ Head(s) \notin Elems(Tail(s))
<1> DEFINE r == Tail(s)
           n == Len(r)
<1>1. /\ r \in Seq(Z) /\ n \in Nat /\ DOMAIN r = 1 .. n /\ DOMAIN s = 1 .. n + 1 /\ Len(s) = n + 1
      /\ Head(s) = s[1] /\ \A i \in 1 .. n : r[i] = s[i + 1]
  BY HeadTailProperties, LenProperties
<1> HIDE DEF r, n
<1>2. 1 \in 1 .. n + 1 /\ \A i \in 1 .. n : i + 1 \in 1 .. n + 1 /\ i + 1 # 1
  BY <1>1
<1>3. Elems(s) = Elems(r) \cup {s[1]}
  <2>1. ASSUME NEW i \in 1 .. n + 1, i # 1 PROVE s[i] \in Elems(r)
    <3>1. i - 1 \in 1 .. n /\ (i - 1) + 1 = i
      BY <1>1, <2>1
    <3>2. s[i] = r[i - 1]
      <4>1. r[i - 1] = s[(i - 1) + 1]
        BY <1>1, <3>1
      <4>2. QED
        BY <3>1, <4>1
    <3>3. QED
      BY <1>1, <3>1, <3>2 DEF Elems
  <2>2. ASSUME NEW x \in Elems(r) PROVE x \in Elems(s)
    <3>1. PICK i \in 1 .. n : x = r[i]
      BY <1>1, <2>2 DEF Elems
    <3>2. x = s[i + 1] /\ i + 1 \in 1 .. n + 1
      BY <1>1, <1>2, <3>1
    <3>3. QED
      BY <1>1, <3>2 DEF Elems
  <2>3. s[1] \in Elems(s)
    BY <1>1, <1>2 DEF Elems
  <2>4. ASSUME NEW x \in Elems(s) PROVE x \in Elems(r) \cup {s[1]}
    <3>1. \E i \in 1 .. n + 1 : x = s[i]
      BY <1>1, <2>4 DEF Elems
    <3>2. QED
      BY <2>1, <3>1
  <2>5. QED
    BY <2>2, <2>3, <2>4
<1>4. ASSUME Distinct(s) PROVE Distinct(r) /\ s[1] \notin Elems(r)
  <2>1. ASSUME NEW i \in 1 .. n, NEW j \in 1 .. n, r[i] = r[j] PROVE i = j
    <3>1. i + 1 \in DOMAIN s /\ j + 1 \in DOMAIN s
      BY <1>1, <1>2
    <3>2. s[i + 1] = s[j + 1]
      BY <1>1, <2>1
    <3>3. i + 1 = j + 1
      BY <1>4, <3>1, <3>2 DEF Distinct
    <3>4. QED
      BY <3>3
  <2>2. \A i \in 1 .. n : r[i] # s[1]
    BY <1>1, <1>2, <1>4 DEF Distinct
  <2>3. QED
    BY <1>1, <2>1, <2>2 DEF Distinct, Elems
<1>5. s[1] \in Elems(s)
  BY <1>1, <1>2 DEF Elems
<1>6. QED
  BY <1>1, <1>3, <1>4, <1>5 DEF r, n

LEMMA DistinctAppend ==
  ASSUME NEW Z, NEW s \in Seq(Z), NEW e \in Z
  PROVE  /\ Append(s, e) \in Seq(Z) /\ Len(Append(s, e)) = Len(s) + 1
         /\ Elems(Append(s, e)) = Elems(s) \cup {e}
         /\ Distinct(s) /\ e \notin Elems(s) => Distinct(Append(s, e))
<1> DEFINE r == Append(s, e)
           n == Len(s)
<1>1. /\ r \in Seq(Z) /\ n \in Nat /\ Len(r) = n + 1 /\ DOMAIN r = 1 .. n + 1 /\ DOMAIN s = 1 .. n
      /\ r[n + 1] = e /\ \A i \in 1 .. n : r[i] = s[i]
  BY AppendProperties, LenProperties
<1> HIDE DEF r, n
<1>2. \A i \in 1 .. n + 1 : i = n + 1 \/ i \in 1 .. n
  BY <1>1
<1>3. n + 1 \in 1 .. n + 1 /\ \A i \in 1 .. n : i \in 1 .. n + 1
  BY <1>1
<1>4. Elems(r) = Elems(s) \cup {e}
  BY <1>1, <1>2, <1>3 DEF Elems
<1>5. ASSUME Distinct(s), e \notin Elems(s) PROVE Distinct(r)
  <2>1. \A i \in 1 .. n : s[i] # e
    BY <1>1, <1>5 DEF Elems
  <2>2. QED
    BY <1>1, <1>2, <1>5, <2>1 DEF Distinct
<1>6. QED
  BY <1>1, <1>4, <1>5 DEF r, n

(* One sequence after the other. *)
LEMMA DistinctConcat ==
  ASSUME NEW Z, NEW s \in Seq(Z), NEW t \in Seq(Z)
  PROVE  /\ s \o t \in Seq(Z)
         /\ Elems(s \o t) = Elems(s) \cup Elems(t)
         /\ Distinct(s) /\ Distinct(t) /\ Elems(s) \cap Elems(t) = {} => Distinct(s \o t)
<1> DEFINE r == s \o t
           m == Len(s)
           n == Len(t)
<1>1. /\ r \in Seq(Z) /\ m \in Nat /\ n \in Nat /\ DOMAIN s = 1 .. m /\ DOMAIN t = 1 .. n
      /\ DOMAIN r = 1 .. m + n
      /\ \A i \in 1 .. m + n : r[i] = IF i <= m THEN s[i] ELSE t[i - m]
  BY ConcatProperties, LenProperties
<1> HIDE DEF r, m, n
<1>2. ASSUME NEW i \in 1 .. m + n
      PROVE  \/ i \in 1 .. m /\ r[i] = s[i]
             \/ i \notin 1 .. m /\ i - m \in 1 .. n /\ r[i] = t[i - m]
  BY <1>1
<1>3. \A i \in 1 .. m : i \in 1 .. m + n /\ r[i] = s[i]
  BY <1>1
<1>4. \A i \in 1 .. n : m + i \in 1 .. m + n /\ r[m + i] = t[i]
  BY <1>1
<1>5. Elems(r) = Elems(s) \cup Elems(t)
  <2>1. \A x \in Elems(r) : x \in Elems(s) \cup Elems(t)
    BY <1>1, <1>2 DEF Elems
  <2>2. \A x \in Elems(s) : x \in Elems(r)
    BY <1>1, <1>3 DEF Elems
  <2>3. ASSUME NEW x \in Elems(t) PROVE x \in Elems(r)
    <3>1. PICK i \in 1 .. n : x = t[i]
      BY <1>1, <2>3 DEF Elems
    <3>2. m + i \in 1 .. m + n /\ r[m + i] = x
      BY <1>4, <3>1
    <3>3. QED
      BY <1>1, <3>2 DEF Elems
  <2>4. QED
    BY <2>1, <2>2, <2>3
<1>6. ASSUME Distinct(s), Distinct(t), Elems(s) \cap Elems(t) = {},
             NEW i \in 1 .. m + n, NEW j \in 1 .. m + n, r[i] = r[j]
      PROVE  i = j
  <2>1. CASE i \in 1 .. m /\ j \in 1 .. m
    BY <1>1, <1>2, <1>6, <2>1 DEF Distinct
  <2>2. CASE i \notin 1 .. m /\ j \notin 1 .. m
    <3>1. i - m \in 1 .. n /\ j - m \in 1 .. n /\ t[i - m] = t[j - m]
      BY <1>2, <1>6, <2>2
    <3>2. i - m = j - m
      BY <1>1, <1>6, <3>1 DEF Distinct
    <3>3. QED
      BY <1>1, <3>2
  <2>3. CASE i \in 1 .. m /\ j \notin 1 .. m
    <3>1. r[i] \in Elems(s) /\ r[j] \in Elems(t)
      BY <1>1, <1>2, <2>3 DEF Elems
    <3>2. QED
      BY <1>6, <3>1
  <2>4. CASE i \notin 1 .. m /\ j \in 1 .. m
    <3>1. r[j] \in Elems(s) /\ r[i] \in Elems(t)
      BY <1>1, <1>2, <2>4 DEF Elems
    <3>2. QED
      BY <1>6, <3>1
  <2>5. QED
    BY <2>1, <2>2, <2>3, <2>4
<1>7. QED
  BY <1>1, <1>5, <1>6 DEF Distinct, r

(* Parts of a sequence. *)
LEMMA Parts ==
  ASSUME NEW Z, NEW s \in Seq(Z), NEW c \in 0 .. Len(s)
  PROVE  /\ SubSeq(s, 1, c) \in Seq(Z) /\ Len(SubSeq(s, 1, c)) = c
         /\ \A i \in 1 .. c : SubSeq(s, 1, c)[i] = s[i]
         /\ SubSeq(s, c + 1, Len(s)) \in Seq(Z) /\ Len(SubSeq(s, c + 1, Len(s))) = Len(s) - c
         /\ \A i \in 1 .. Len(s) - c : SubSeq(s, c + 1, Len(s))[i] = s[c + i]
<1> DEFINE n == Len(s)
<1>1. n \in Nat /\ \A i \in 1 .. n : s[i] \in Z
  BY LenProperties, ElementOfSeq
<1> HIDE DEF n
<1>2. c \in Nat /\ c <= n
  BY <1>1 DEF n
<1>3. /\ SubSeq(s, 1, c) \in Seq(Z) /\ Len(SubSeq(s, 1, c)) = c
      /\ \A i \in 1 .. c : SubSeq(s, 1, c)[i] = s[i]
  <2>1. \A i \in 1 .. c : s[i] \in Z /\ 1 + i - 1 = i
    BY <1>1, <1>2
  <2>2. 1 \in Int /\ c \in Int /\ (IF 1 <= c THEN c - 1 + 1 ELSE 0) = c
    BY <1>2
  <2>3. QED
    BY <2>1, <2>2, SubSeqProperties
<1>4. /\ SubSeq(s, c + 1, n) \in Seq(Z) /\ Len(SubSeq(s, c + 1, n)) = n - c
      /\ \A i \in 1 .. n - c : SubSeq(s, c + 1, n)[i] = s[c + i]
  <2>1. \A i \in c + 1 .. n : s[i] \in Z
    BY <1>1, <1>2
  <2>2. /\ c + 1 \in Int /\ n \in Int
        /\ (IF c + 1 <= n THEN n - (c + 1) + 1 ELSE 0) = n - c
        /\ \A i \in 1 .. n - c : i \in 1 .. n - (c + 1) + 1 /\ (c + 1) + i - 1 = c + i
    BY <1>1, <1>2
  <2>3. QED
    BY <2>1, <2>2, SubSeqProperties
<1>5. QED
  BY <1>3, <1>4 DEF n

Cut(s, c) == SubSeq(s, 1, c - 1) \o SubSeq(s, c + 1, Len(s))

LEMMA Removed ==
  ASSUME NEW Z, NEW s \in Seq(Z), NEW c \in 1 .. Len(s)
  PROVE  /\ Cut(s, c) \in Seq(Z) /\ Len(Cut(s, c)) = Len(s) - 1
         /\ \A i \in 1 .. Len(s) - 1 : Cut(s, c)[i] = IF i < c THEN s[i] ELSE s[i + 1]
         /\ Distinct(s) => Distinct(Cut(s, c)) /\ Elems(Cut(s, c)) = Elems(s) \ {s[c]}
<1> DEFINE n == Len(s)
           u == SubSeq(s, 1, c - 1)
           v == SubSeq(s, c + 1, n)
           r == Cut(s, c)
<1>1. n \in Nat /\ c - 1 \in 0 .. n /\ c \in 0 .. n /\ c \in 1 .. n /\ DOMAIN s = 1 .. n
  BY LenProperties
<1>2. /\ r = u \o v
      /\ u \in Seq(Z) /\ Len(u) = c - 1 /\ \A i \in 1 .. c - 1 : u[i] = s[i]
      /\ v \in Seq(Z) /\ Len(v) = n - c /\ \A i \in 1 .. n - c : v[i] = s[c + i]
  <2>1. r = u \o v
    BY DEF Cut
  <2>2. u \in Seq(Z) /\ Len(u) = c - 1 /\ \A i \in 1 .. c - 1 : u[i] = s[i]
    <3>1. c - 1 \in 0 .. Len(s)
      BY <1>1
    <3>2. QED
      BY <3>1, Parts
  <2>3. v \in Seq(Z) /\ Len(v) = n - c /\ \A i \in 1 .. n - c : v[i] = s[c + i]
    <3>1. c \in 0 .. Len(s)
      BY <1>1
    <3>2. QED
      BY <3>1, Parts
  <2>4. QED
    BY <2>1, <2>2, <2>3
<1> HIDE DEF u, v, n, r
<1>3. /\ r \in Seq(Z) /\ Len(r) = (c - 1) + (n - c)
      /\ \A i \in 1 .. (c - 1) + (n - c) : r[i] = IF i <= c - 1 THEN u[i] ELSE v[i - (c - 1)]
  <2>1. /\ u \o v \in Seq(Z) /\ Len(u \o v) = Len(u) + Len(v)
        /\ \A i \in 1 .. Len(u) + Len(v) : (u \o v)[i] = IF i <= Len(u) THEN u[i] ELSE v[i - Len(u)]
    BY <1>2, ConcatProperties
  <2>2. QED
    BY <1>2, <2>1, Zenon
<1>4. Len(r) = n - 1 /\ DOMAIN r = 1 .. n - 1
  <2>1. (c - 1) + (n - c) = n - 1
    BY <1>1
  <2>2. DOMAIN r = 1 .. Len(r)
    BY <1>3, LenProperties
  <2>3. QED
    BY <1>3, <2>1, <2>2
<1>5. ASSUME NEW i \in 1 .. n - 1 PROVE r[i] = IF i < c THEN s[i] ELSE s[i + 1]
  <2>1. i \in 1 .. (c - 1) + (n - c)
    BY <1>1
  <2>2. CASE i < c
    <3>1. i \in 1 .. c - 1 /\ i <= c - 1
      BY <1>1, <2>2
    <3>2. r[i] = u[i] /\ u[i] = s[i]
      BY <1>2, <1>3, <2>1, <3>1
    <3>3. QED
      BY <2>2, <3>2
  <2>3. CASE ~ (i < c)
    <3>1. i - (c - 1) \in 1 .. n - c /\ c + (i - (c - 1)) = i + 1 /\ ~ (i <= c - 1)
      BY <1>1, <2>3
    <3>2. r[i] = v[i - (c - 1)] /\ v[i - (c - 1)] = s[c + (i - (c - 1))]
      BY <1>2, <1>3, <2>1, <3>1
    <3>3. QED
      BY <2>3, <3>1, <3>2
  <2>4. QED
    BY <2>2, <2>3
<1>6. ASSUME Distinct(s) PROVE Distinct(r) /\ Elems(r) = Elems(s) \ {s[c]}
  <2> DEFINE f(i) == IF i < c THEN i ELSE i + 1
  <2>1. ASSUME NEW i \in 1 .. n - 1 PROVE f(i) \in 1 .. n /\ f(i) # c /\ r[i] = s[f(i)]
    <3>1. CASE i < c
      BY <1>1, <1>5, <3>1
    <3>2. CASE ~ (i < c)
      <4>1. f(i) = i + 1 /\ i + 1 \in 1 .. n /\ i + 1 # c
        BY <1>1, <3>2
      <4>2. r[i] = s[i + 1]
        BY <1>5, <3>2
      <4>3. QED
        BY <4>1, <4>2
    <3>3. QED
      BY <3>1, <3>2
  <2>2. \A i, j \in 1 .. n - 1 : f(i) = f(j) => i = j
    BY <1>1
  <2>3. \A k \in 1 .. n : k # c => \E i \in 1 .. n - 1 : f(i) = k
    <3> TAKE k \in 1 .. n
    <3>1. CASE k < c
      <4>1. k \in 1 .. n - 1 /\ f(k) = k
        BY <1>1, <3>1
      <4>2. QED
        BY <4>1
    <3>2. CASE k > c
      <4>1. k - 1 \in 1 .. n - 1 /\ f(k - 1) = k
        BY <1>1, <3>2
      <4>2. QED
        BY <4>1
    <3>3. QED
      BY <1>1, <3>1, <3>2
  <2> HIDE DEF f
  <2>0. \A i, j \in 1 .. n : s[i] = s[j] => i = j
    BY <1>1, <1>6 DEF Distinct
  <2>4. Distinct(r)
    <3>1. ASSUME NEW i \in 1 .. n - 1, NEW j \in 1 .. n - 1, r[i] = r[j] PROVE i = j
      <4>1. s[f(i)] = s[f(j)] /\ f(i) \in 1 .. n /\ f(j) \in 1 .. n
        BY <2>1, <3>1
      <4>2. f(i) = f(j)
        BY <2>0, <4>1
      <4>3. QED
        BY <2>2, <4>2
    <3>2. QED
      BY <1>4, <3>1 DEF Distinct
  <2>5. Elems(r) = Elems(s) \ {s[c]}
    <3>1. ASSUME NEW x \in Elems(r) PROVE x \in Elems(s) \ {s[c]}
      <4>1. PICK i \in 1 .. n - 1 : x = r[i]
        BY <1>4 DEF Elems
      <4>2. x = s[f(i)] /\ f(i) \in 1 .. n /\ f(i) # c
        BY <2>1, <4>1
      <4>3. QED
        BY <1>1, <2>0, <4>2 DEF Elems
    <3>2. ASSUME NEW x \in Elems(s) \ {s[c]} PROVE x \in Elems(r)
      <4>1. PICK k \in 1 .. n : x = s[k] /\ k # c
        BY <1>1 DEF Elems
      <4>2. PICK i \in 1 .. n - 1 : f(i) = k
        BY <2>3, <4>1
      <4>3. x = r[i]
        BY <2>1, <4>1, <4>2
      <4>4. QED
        BY <1>4, <4>3 DEF Elems
    <3>3. QED
      BY <3>1, <3>2
  <2>6. QED
    BY <2>4, <2>5
<1>7. QED
  BY <1>3, <1>4, <1>5, <1>6 DEF n, r

-----------------------------------------------------------------------------
(* The supervisor.  A child is made for a message of a user or for an end   *)
(* that was answered.  What is yet to make one is a message that waits, the *)
(* restart in hand, or, when one end restarts them all, a spec without a    *)
(* child.                                                                   *)

Reasons == {"none", "error"}
Wish == [kind : {"StartChild", "StopChild", "RestartChild"}, child : ChildIds]
Notice == [kind : {"ChildTerminated"}, child : ChildIds, actor_ref : Nat, reason : Reasons]
Note == Wish \cup Notice
Starts(n, c) == n.kind \in {"StartChild", "RestartChild"} /\ n.child = c
ToStart(q, c) == {i \in 1 .. Len(q) : Starts(q[i], c)}
Wanted(q, c) == Cardinality(ToStart(q, c))
InHand(g, c) == IF g.kind = "restart" /\ g.starts # <<>> /\ g.child = c THEN 1 ELSE 0
Left(y, sp, ch, c) == IF y \in S!OfAll /\ c \in Elems(sp) /\ ch[c] = 0 THEN 1 ELSE 0

SupType ==
  /\ inbox \in Seq(Note)
  /\ specs \in Seq(ChildIds) /\ Distinct(specs)
  /\ children \in [ChildIds -> Nat] /\ made \in [ChildIds -> Nat] /\ wished \in [ChildIds -> Nat]
  /\ records \in [ChildIds -> Nat] /\ granted \in [ChildIds -> Seq(Nat)]
  /\ alive \subseteq ChildIds \X Nat
  /\ watched \subseteq ChildIds \X Nat \X Reasons

DoingInv ==
  \/ doing = S!Idle
  \/ \E c \in ChildIds : \/ doing = S!Doing("stop", c, <<>>)
                         \/ doing = S!Doing("restart", c, <<>>) \/ doing = S!Doing("restart", c, <<c>>)
  \/ strategy \in S!OfAll /\ \E c \in ChildIds, s \in Seq(ChildIds) : doing = S!Doing(strategy, c, s)

(* What runs is one that was made, and referred to or disowned; what is     *)
(* reported as ended does not run.                                          *)
Known ==
  \A c \in ChildIds, i \in Nat :
    <<c, i>> \in alive => i \in 1 .. made[c] /\ (children[c] = i \/ <<c, i>> \in disowned)
Over(c, i, r) == i \in 1 .. made[c] /\ <<c, i>> \notin alive /\ (r = "error" => <<c, i>> \in raised)
Noticed ==
  /\ \A w \in watched : Over(w[1], w[2], w[3])
  /\ \A m \in Elems(inbox) : m.kind = "ChildTerminated" => Over(m.child, m.actor_ref, m.reason)

Specified(c) == children[c] # 0 => c \in Elems(specs)
Granted(c) ==
  /\ Policy[c] = "TEMPORARY" => granted[c] = <<>>
  /\ Policy[c] = "TRANSIENT" => \A i \in Elems(granted[c]) : <<c, i>> \in raised
  /\ records[c] <= MaxRestarts
Earned(c) ==
  made[c] + Wanted(inbox, c) + InHand(doing, c) + Left(strategy, specs, children, c)
    <= wished[c] + Len(granted[c])

SupInv ==
  /\ SupType /\ DoingInv /\ Known /\ Noticed
  /\ \A c \in ChildIds : Specified(c) /\ Granted(c) /\ Earned(c)

LEMMA WantedType ==
  ASSUME NEW q \in Seq(Note), NEW c
  PROVE  IsFiniteSet(ToStart(q, c)) /\ Wanted(q, c) \in Nat
<1>1. Len(q) \in Nat
  BY LenProperties
<1>2. IsFiniteSet(1 .. Len(q))
  BY <1>1, FS_Interval
<1>3. IsFiniteSet(ToStart(q, c))
  BY <1>2, FS_Subset DEF ToStart
<1>4. QED
  BY <1>3, FS_CardinalityType DEF Wanted

LEMMA NoteSent ==
  ASSUME NEW q \in Seq(Note), NEW m \in Note, NEW c
  PROVE  /\ Append(q, m) \in Seq(Note)
         /\ Wanted(Append(q, m), c) = Wanted(q, c) + (IF Starts(m, c) THEN 1 ELSE 0)
<1> DEFINE n == Len(q)
           r == Append(q, m)
<1>1. /\ r \in Seq(Note) /\ n \in Nat /\ Len(r) = n + 1 /\ r[n + 1] = m
      /\ \A i \in 1 .. n : r[i] = q[i]
  BY LenProperties, AppendProperties
<1> HIDE DEF r, n
<1>2. IsFiniteSet(ToStart(q, c)) /\ Wanted(q, c) \in Nat /\ n + 1 \notin ToStart(q, c)
  <2>1. ToStart(q, c) \subseteq 1 .. n /\ n + 1 \notin 1 .. n
    BY <1>1 DEF ToStart, n
  <2>2. QED
    BY <2>1, WantedType
<1>3. CASE Starts(m, c)
  <2>1. ToStart(r, c) = ToStart(q, c) \cup {n + 1}
    BY <1>1, <1>3 DEF ToStart, n
  <2>2. Cardinality(ToStart(q, c) \cup {n + 1}) = Cardinality(ToStart(q, c)) + 1
    BY <1>2, FS_AddElement
  <2>3. r \in Seq(Note) /\ Wanted(r, c) = Wanted(q, c) + 1
    BY <1>1, <2>1, <2>2 DEF Wanted
  <2>4. QED
    BY <1>3, <2>3 DEF r
<1>4. CASE ~ Starts(m, c)
  <2>1. ToStart(r, c) = ToStart(q, c)
    BY <1>1, <1>4 DEF ToStart, n
  <2>2. QED
    BY <1>1, <1>2, <1>4, <2>1 DEF Wanted, r
<1>5. QED
  BY <1>3, <1>4

LEMMA NoteTaken ==
  ASSUME NEW q \in Seq(Note), q # <<>>, NEW c
  PROVE  /\ Head(q) \in Note /\ Tail(q) \in Seq(Note)
         /\ Wanted(q, c) = Wanted(Tail(q), c) + (IF Starts(Head(q), c) THEN 1 ELSE 0)
<1> DEFINE r == Tail(q)
           n == Len(r)
<1>1. /\ Head(q) \in Note /\ r \in Seq(Note) /\ n \in Nat /\ Len(q) = n + 1
      /\ Head(q) = q[1] /\ \A i \in 1 .. n : r[i] = q[i + 1]
  BY HeadTailProperties, LenProperties
<1> HIDE DEF r, n
<1>2. /\ ToStart(q, c) \in SUBSET (1 .. n + 1) /\ ToStart(r, c) \in SUBSET (1 .. n)
      /\ Precedes(ToStart(r, c), ToStart(q, c), n)
      /\ 1 \in ToStart(q, c) <=> Starts(q[1], c)
  BY <1>1 DEF ToStart, n, Precedes
<1>3. Wanted(q, c) = Wanted(r, c) + (IF 1 \in ToStart(q, c) THEN 1 ELSE 0)
  BY <1>1, <1>2, ShiftDown DEF Wanted
<1>4. QED
  BY <1>1, <1>2, <1>3 DEF r

LEMMA Numbers ==
  ASSUME SupType, NEW c \in ChildIds
  PROVE  /\ made[c] \in Nat /\ wished[c] \in Nat /\ Len(granted[c]) \in Nat /\ Wanted(inbox, c) \in Nat
         /\ InHand(doing, c) \in 0 .. 1 /\ Left(strategy, specs, children, c) \in 0 .. 1
<1>1. granted[c] \in Seq(Nat) /\ inbox \in Seq(Note)
  BY DEF SupType
<1>2. Len(granted[c]) \in Nat /\ Wanted(inbox, c) \in Nat
  BY <1>1, LenProperties, WantedType
<1>3. InHand(doing, c) \in 0 .. 1 /\ Left(strategy, specs, children, c) \in 0 .. 1
  BY DEF InHand, Left
<1>4. QED
  BY <1>2, <1>3 DEF SupType

(* del self.child_specs[child_id]. *)
LEMMA WithoutIs ==
  ASSUME SupType, NEW c
  PROVE  /\ S!Without(c) \in Seq(ChildIds) /\ Distinct(S!Without(c))
         /\ Elems(S!Without(c)) = Elems(specs) \ {c}
<1>1. specs \in Seq(ChildIds) /\ Distinct(specs) /\ DOMAIN specs = 1 .. Len(specs)
  BY LenProperties DEF SupType
<1>2. S!ToSet(specs) = Elems(specs)
  BY DEF S!ToSet, Elems
<1>3. CASE c \in Elems(specs)
  <2> DEFINE i == CHOOSE j \in DOMAIN specs : specs[j] = c
  <2>1. i \in 1 .. Len(specs) /\ specs[i] = c
    BY <1>1, <1>3 DEF Elems
  <2>2. S!Without(c) = Cut(specs, i)
    BY <1>2, <1>3 DEF S!Without, S!RemoveAt, Cut
  <2> HIDE DEF i
  <2>3. QED
    BY <1>1, <2>1, <2>2, Removed
<1>4. CASE c \notin Elems(specs)
  <2>1. S!Without(c) = specs
    BY <1>2, <1>4 DEF S!Without
  <2>2. QED
    BY <1>1, <1>4, <2>1
<1>5. QED
  BY <1>3, <1>4

(* What ended stays so: a start runs an incarnation that is new.            *)
Fresh ==
  \A c \in ChildIds :
    /\ made'[c] \in Nat /\ made[c] <= made'[c]
    /\ \A i \in Nat : <<c, i>> \in alive' => <<c, i>> \in alive \/ made[c] < i

LEMMA OverKept ==
  ASSUME SupType, Fresh, raised \subseteq raised', NEW c \in ChildIds, NEW i, NEW r, Over(c, i, r)
  PROVE  Over(c, i, r)'
<1>1. made[c] \in Nat /\ made'[c] \in Nat /\ made[c] <= made'[c]
  BY DEF SupType, Fresh
<1>2. i \in 1 .. made[c] /\ i \in Nat /\ i \in 1 .. made'[c] /\ ~ (made[c] < i)
  BY <1>1 DEF Over
<1>3. <<c, i>> \notin alive'
  BY <1>2 DEF Over, Fresh
<1>4. QED
  BY <1>2, <1>3 DEF Over

(* Whatever is reported anew has ended.                                     *)
Reported ==
  /\ \A w \in watched' : w \in watched \/ Over(w[1], w[2], w[3])'
  /\ \A m \in Elems(inbox') :
       m.kind = "ChildTerminated" => m \in Elems(inbox) \/ Over(m.child, m.actor_ref, m.reason)'

LEMMA NoticedKept ==
  ASSUME SupType, Noticed, Fresh, raised \subseteq raised', Reported
  PROVE  Noticed'
<1>1. ASSUME NEW w \in watched' PROVE Over(w[1], w[2], w[3])'
  <2>1. CASE w \in watched
    <3>1. w[1] \in ChildIds /\ Over(w[1], w[2], w[3])
      BY <2>1 DEF SupType, Noticed
    <3>2. QED
      BY <3>1, OverKept
  <2>2. QED
    BY <1>1, <2>1 DEF Reported
<1>2. ASSUME NEW m \in Elems(inbox'), m.kind = "ChildTerminated" PROVE Over(m.child, m.actor_ref, m.reason)'
  <2>1. CASE m \in Elems(inbox)
    <3>1. m \in Note
      BY <2>1, ElementOfSeq DEF SupType, Elems
    <3>2. m.child \in ChildIds /\ Over(m.child, m.actor_ref, m.reason)
      BY <1>2, <2>1, <3>1 DEF Noticed, Note, Wish, Notice
    <3>3. QED
      BY <3>2, OverKept
  <2>2. QED
    BY <1>2, <2>1 DEF Reported
<1>3. QED
  BY <1>1, <1>2 DEF Noticed

(* Nothing is owed that was not earned.                                     *)
LEMMA EarnedKept ==
  ASSUME SupType, SupType', NEW c \in ChildIds, Earned(c),
         made'[c] + Wanted(inbox', c) + InHand(doing', c) + Left(strategy', specs', children', c)
           + wished[c] + Len(granted[c])
         <= made[c] + Wanted(inbox, c) + InHand(doing, c) + Left(strategy, specs, children, c)
           + wished'[c] + Len(granted'[c])
  PROVE  Earned(c)'
<1>1. /\ made[c] \in Nat /\ wished[c] \in Nat /\ Len(granted[c]) \in Nat /\ Wanted(inbox, c) \in Nat
      /\ InHand(doing, c) \in 0 .. 1 /\ Left(strategy, specs, children, c) \in 0 .. 1
  BY Numbers
<1>2. /\ made'[c] \in Nat /\ wished'[c] \in Nat /\ granted'[c] \in Seq(Nat) /\ inbox' \in Seq(Note)
  BY DEF SupType
<1>3. /\ Len(granted'[c]) \in Nat /\ Wanted(inbox', c) \in Nat
      /\ InHand(doing', c) \in 0 .. 1 /\ Left(strategy', specs', children', c) \in 0 .. 1
  BY <1>2, LenProperties, WantedType DEF InHand, Left
<1>4. /\ InHand(doing, c) \in Nat /\ Left(strategy, specs, children, c) \in Nat
      /\ InHand(doing', c) \in Nat /\ Left(strategy', specs', children', c) \in Nat
  BY <1>1, <1>3
<1>5. made[c] + Wanted(inbox, c) + InHand(doing, c) + Left(strategy, specs, children, c)
        <= wished[c] + Len(granted[c])
  BY DEF Earned
<1>6. made'[c] + Wanted(inbox', c) + InHand(doing', c) + Left(strategy', specs', children', c)
        <= wished'[c] + Len(granted'[c])
  <2> DEFINE A == made[c]
             B == Wanted(inbox, c)
             C == InHand(doing, c)
             D == Left(strategy, specs, children, c)
             E == wished[c]
             F == Len(granted[c])
             A1 == made'[c]
             B1 == Wanted(inbox', c)
             C1 == InHand(doing', c)
             D1 == Left(strategy', specs', children', c)
             E1 == wished'[c]
             F1 == Len(granted'[c])
  <2>1. /\ A \in Nat /\ B \in Nat /\ C \in Nat /\ D \in Nat /\ E \in Nat /\ F \in Nat
        /\ A1 \in Nat /\ B1 \in Nat /\ C1 \in Nat /\ D1 \in Nat /\ E1 \in Nat /\ F1 \in Nat
    BY <1>1, <1>2, <1>3, <1>4
  <2>2. A + B + C + D <= E + F /\ A1 + B1 + C1 + D1 + E + F <= A + B + C + D + E1 + F1
    BY <1>5
  <2> HIDE DEF A, B, C, D, E, F, A1, B1, C1, D1, E1, F1
  <2>3. A1 + B1 + C1 + D1 <= E1 + F1
    BY ONLY <2>1, <2>2
  <2>4. QED
    BY <2>3 DEF A1, B1, C1, D1, E1, F1
<1>7. QED
  BY <1>6 DEF Earned

(* What leaves the books of the children alone.                             *)
OwesNoMore ==
  \A c \in ChildIds :
    Wanted(inbox', c) + InHand(doing', c) + wished[c] <= Wanted(inbox, c) + InHand(doing, c) + wished'[c]

LEMMA BooksKept ==
  ASSUME SupInv, UNCHANGED <<strategy, children, specs, made, granted, disowned>>,
         records' \in [ChildIds -> Nat], \A c \in ChildIds : records'[c] <= records[c],
         wished' \in [ChildIds -> Nat], inbox' \in Seq(Note),
         alive' \subseteq alive, watched' \subseteq ChildIds \X Nat \X Reasons, raised \subseteq raised',
         DoingInv', Reported, OwesNoMore
  PROVE  SupInv'
<1>1. SupType'
  BY DEF SupInv, SupType
<1>2. Fresh
  BY DEF SupInv, SupType, Fresh
<1>3. Noticed'
  BY <1>2, NoticedKept DEF SupInv
<1>4. Known'
  BY DEF SupInv, Known
<1>5. ASSUME NEW c \in ChildIds PROVE Specified(c)' /\ Granted(c)' /\ Earned(c)'
  <2>1. Specified(c) /\ Granted(c) /\ Earned(c) /\ records[c] \in Nat /\ records'[c] \in Nat
    BY DEF SupInv, SupType
  <2>2. Specified(c)'
    BY <2>1 DEF Specified
  <2>3. Granted(c)'
    <3>1. records'[c] <= MaxRestarts
      BY <2>1, ActorsAssumption DEF Granted
    <3>2. QED
      BY <2>1, <3>1 DEF Granted
  <2>4. Earned(c)'
    <3>1. Left(strategy', specs', children', c) = Left(strategy, specs, children, c)
      OBVIOUS
    <3>2. /\ made[c] \in Nat /\ wished[c] \in Nat /\ Len(granted[c]) \in Nat /\ Wanted(inbox, c) \in Nat
          /\ InHand(doing, c) \in 0 .. 1 /\ Left(strategy, specs, children, c) \in 0 .. 1
      BY Numbers DEF SupInv
    <3>3. wished'[c] \in Nat /\ Wanted(inbox', c) \in Nat /\ InHand(doing', c) \in 0 .. 1
      BY WantedType DEF InHand
    <3>4. Wanted(inbox', c) + InHand(doing', c) + wished[c] <= Wanted(inbox, c) + InHand(doing, c) + wished'[c]
      BY DEF OwesNoMore
    <3>5. made'[c] = made[c] /\ Len(granted'[c]) = Len(granted[c])
      OBVIOUS
    <3>6. made'[c] + Wanted(inbox', c) + InHand(doing', c) + Left(strategy', specs', children', c)
            + wished[c] + Len(granted[c])
          <= made[c] + Wanted(inbox, c) + InHand(doing, c) + Left(strategy, specs, children, c)
            + wished'[c] + Len(granted'[c])
      <4> DEFINE A == made[c]
                 B == Wanted(inbox, c)
                 C == InHand(doing, c)
                 D == Left(strategy, specs, children, c)
                 E == wished[c]
                 F == Len(granted[c])
                 B1 == Wanted(inbox', c)
                 C1 == InHand(doing', c)
                 E1 == wished'[c]
      <4>1. /\ A \in Nat /\ B \in Nat /\ C \in 0 .. 1 /\ D \in 0 .. 1 /\ E \in Nat /\ F \in Nat
            /\ B1 \in Nat /\ C1 \in 0 .. 1 /\ E1 \in Nat
        BY <3>2, <3>3
      <4>2. B1 + C1 + E <= B + C + E1
        BY <3>4
      <4> HIDE DEF A, B, C, D, E, F, B1, C1, E1
      <4>3. A + B1 + C1 + D + E + F <= A + B + C + D + E1 + F
        BY ONLY <4>1, <4>2
      <4>4. QED
        BY <3>1, <3>5, <4>3 DEF A, B, C, D, E, F, B1, C1, E1
    <3>7. SupType
      BY DEF SupInv
    <3>8. QED
      BY ONLY <1>1, <2>1, <3>6, <3>7, EarnedKept
  <2>5. QED
    BY <2>2, <2>3, <2>4
<1>6. QED
  BY <1>1, <1>3, <1>4, <1>5 DEF SupInv

(* A message that arrives is a note whose child is one of the supervisor's. *)
LEMMA Arrived ==
  ASSUME SupInv, inbox # <<>>
  PROVE  /\ S!It \in ChildIds /\ Tail(inbox) \in Seq(Note) /\ Elems(Tail(inbox)) \subseteq Elems(inbox)
         /\ Head(inbox) \in Elems(inbox) /\ Head(inbox) \in Note
         /\ \A d \in ChildIds :
              /\ Wanted(inbox, d) \in Nat /\ Wanted(Tail(inbox), d) \in Nat
              /\ Wanted(inbox, d) = Wanted(Tail(inbox), d)
                   + (IF Head(inbox).kind \in {"StartChild", "RestartChild"} /\ d = S!It THEN 1 ELSE 0)
<1>1. inbox \in Seq(Note)
  BY DEF SupInv, SupType
<1>2. Head(inbox) \in Note /\ Tail(inbox) \in Seq(Note)
  BY <1>1, NoteTaken
<1>3. ASSUME NEW d \in ChildIds
      PROVE  /\ Wanted(inbox, d) \in Nat /\ Wanted(Tail(inbox), d) \in Nat
             /\ Wanted(inbox, d) = Wanted(Tail(inbox), d) + (IF Starts(Head(inbox), d) THEN 1 ELSE 0)
  BY <1>1, <1>2, NoteTaken, WantedType
<1>4. S!It \in ChildIds
  BY <1>2 DEF Note, Wish, Notice, S!It
<1>5. \A d : Starts(Head(inbox), d) <=> Head(inbox).kind \in {"StartChild", "RestartChild"} /\ d = S!It
  BY DEF Starts, S!It
<1>6. Elems(Tail(inbox)) \subseteq Elems(inbox) /\ Head(inbox) \in Elems(inbox)
  BY <1>1, DistinctTail
<1>7. QED
  BY <1>2, <1>3, <1>4, <1>5, <1>6

LEMMA RequestStep ==
  ASSUME SupInv, NEW c \in ChildIds, NEW k \in RequestKinds, S!Request(k, c)
  PROVE  SupInv'
<1> DEFINE m == S!Message(k, c)
<1>0. inbox \in Seq(Note) /\ wished \in [ChildIds -> Nat]
  BY DEF SupInv, SupType
<1>1. m \in Wish /\ inbox' = Append(inbox, m)
  BY ActorsAssumption DEF S!Request, S!Message, Wish
<1>2. \A d : Starts(m, d) <=> k \in {"StartChild", "RestartChild"} /\ d = c
  BY DEF Starts, S!Message
<1> HIDE DEF m
<1>3. m \in Note /\ m.kind # "ChildTerminated"
  BY <1>1 DEF Note, Wish
<1>4. /\ inbox' \in Seq(Note) /\ Elems(inbox') = Elems(inbox) \cup {m}
      /\ \A d \in ChildIds : Wanted(inbox', d) = Wanted(inbox, d) + (IF Starts(m, d) THEN 1 ELSE 0)
  <2>1. ASSUME NEW d \in ChildIds
        PROVE  Wanted(inbox', d) = Wanted(inbox, d) + (IF Starts(m, d) THEN 1 ELSE 0)
    BY <1>0, <1>1, <1>3, NoteSent
  <2>2. inbox' \in Seq(Note) /\ Elems(inbox') = Elems(inbox) \cup {m}
    BY <1>0, <1>1, <1>3, DistinctAppend
  <2>3. QED
    BY <2>1, <2>2
<1>5. /\ wished' \in [ChildIds -> Nat]
      /\ \A d \in ChildIds : wished'[d] = wished[d] + (IF k # "StopChild" /\ d = c THEN 1 ELSE 0)
  BY <1>0 DEF S!Request
<1>6. /\ UNCHANGED <<strategy, doing, children, specs, alive, made, watched, records, raised, granted, disowned>>
  BY DEF S!Request
<1>7. OwesNoMore
  <2>1. ASSUME NEW d \in ChildIds
        PROVE  Wanted(inbox', d) + InHand(doing', d) + wished[d] <= Wanted(inbox, d) + InHand(doing, d) + wished'[d]
    <3>1. Wanted(inbox, d) \in Nat /\ wished[d] \in Nat /\ InHand(doing, d) \in 0 .. 1
      BY Numbers DEF SupInv
    <3>2. /\ Wanted(inbox', d) = Wanted(inbox, d) + (IF Starts(m, d) THEN 1 ELSE 0)
          /\ wished'[d] = wished[d] + (IF k # "StopChild" /\ d = c THEN 1 ELSE 0)
          /\ InHand(doing', d) = InHand(doing, d)
      BY <1>4, <1>5, <1>6
    <3>3. Starts(m, d) => k # "StopChild" /\ d = c
      BY <1>2
    <3>4. QED
      BY <3>1, <3>2, <3>3
  <2>2. QED
    BY <2>1 DEF OwesNoMore
<1>8. Reported
  BY <1>3, <1>4, <1>6 DEF Reported
<1>9. DoingInv'
  BY <1>6 DEF SupInv, DoingInv
<1>10. records \in [ChildIds -> Nat] /\ watched \subseteq ChildIds \X Nat \X Reasons
  BY DEF SupInv, SupType
<1>11. /\ records' \in [ChildIds -> Nat] /\ \A d \in ChildIds : records'[d] <= records[d]
       /\ alive' \subseteq alive /\ watched' \subseteq ChildIds \X Nat \X Reasons
  BY <1>6, <1>10
<1>12. QED
  BY <1>4, <1>5, <1>6, <1>7, <1>8, <1>9, <1>11, BooksKept

LEMMA DieStep ==
  ASSUME SupInv, NEW c \in ChildIds, NEW r \in Reasons, S!Die(c, r)
  PROVE  SupInv'
<1>1. PICK i \in 1 .. made[c] :
        /\ alive' = alive \ {<<c, i>>} /\ watched' = watched \cup {<<c, i, r>>}
        /\ raised' = IF r = "error" THEN raised \cup {<<c, i>>} ELSE raised
  BY DEF S!Die
<1>2. UNCHANGED <<strategy, inbox, doing, children, specs, made, records, wished, granted, disowned>>
  BY DEF S!Die
<1>3. i \in Nat
  BY DEF SupInv, SupType
<1>4. /\ alive' \subseteq alive /\ watched' \subseteq ChildIds \X Nat \X Reasons /\ raised \subseteq raised'
  BY <1>1, <1>3 DEF SupInv, SupType
<1>5. Over(c, i, r)'
  BY <1>1, <1>2 DEF Over
<1>6. Reported
  BY <1>1, <1>2, <1>5 DEF Reported
<1>7. OwesNoMore
  BY <1>2, Numbers DEF OwesNoMore, SupInv
<1>8. DoingInv'
  BY <1>2 DEF SupInv, DoingInv
<1>9. records \in [ChildIds -> Nat] /\ wished \in [ChildIds -> Nat] /\ inbox \in Seq(Note)
  BY DEF SupInv, SupType
<1>10. /\ records' \in [ChildIds -> Nat] /\ \A d \in ChildIds : records'[d] <= records[d]
       /\ wished' \in [ChildIds -> Nat] /\ inbox' \in Seq(Note)
  BY <1>2, <1>9
<1>11. QED
  BY <1>2, <1>4, <1>6, <1>7, <1>8, <1>10, BooksKept

LEMMA ForgetStep ==
  ASSUME SupInv, NEW c \in ChildIds, S!Forget(c)
  PROVE  SupInv'
<1>1. records[c] > 0 /\ records' = [records EXCEPT ![c] = @ - 1]
  BY DEF S!Forget
<1>2. UNCHANGED <<strategy, inbox, doing, children, specs, made, wished, granted, disowned, alive, watched, raised>>
  BY DEF S!Forget, S!ofUsers
<1>3. records' \in [ChildIds -> Nat] /\ \A d \in ChildIds : records'[d] <= records[d]
  BY <1>1 DEF SupInv, SupType
<1>4. Reported
  BY <1>2 DEF Reported
<1>5. OwesNoMore
  BY <1>2, Numbers DEF OwesNoMore, SupInv
<1>6. /\ DoingInv' /\ wished' \in [ChildIds -> Nat] /\ inbox' \in Seq(Note)
      /\ alive' \subseteq alive /\ watched' \subseteq ChildIds \X Nat \X Reasons
  BY <1>2 DEF SupInv, SupType, DoingInv
<1>7. QED
  BY <1>2, <1>3, <1>4, <1>5, <1>6, BooksKept

LEMMA NotifyStep ==
  ASSUME SupInv, NEW w \in watched, S!Notify(w)
  PROVE  SupInv'
<1> DEFINE m == S!ChildTerminated(w[1], w[2], w[3])
<1>0. inbox \in Seq(Note) /\ w[1] \in ChildIds /\ w[2] \in Nat /\ w[3] \in Reasons
  BY DEF SupInv, SupType
<1>1. m \in Notice /\ inbox' = Append(inbox, m) /\ watched' = watched \ {w}
  BY <1>0 DEF S!Notify, S!ChildTerminated, Notice
<1>2. /\ \A d : ~ Starts(m, d)
      /\ m.child = w[1] /\ m.actor_ref = w[2] /\ m.reason = w[3]
  BY DEF Starts, S!ChildTerminated
<1> HIDE DEF m
<1>3. m \in Note
  BY <1>1 DEF Note
<1>4. inbox' \in Seq(Note) /\ Elems(inbox') = Elems(inbox) \cup {m}
  BY <1>0, <1>1, <1>3, DistinctAppend
<1>5. UNCHANGED <<strategy, doing, children, specs, made, records, wished, alive, raised, granted, disowned>>
  BY DEF S!Notify, S!ofUsers
<1>6. OwesNoMore
  <2>1. ASSUME NEW d \in ChildIds
        PROVE  Wanted(inbox', d) + InHand(doing', d) + wished[d] <= Wanted(inbox, d) + InHand(doing, d) + wished'[d]
    <3>1. Wanted(inbox, d) \in Nat /\ wished[d] \in Nat /\ InHand(doing, d) \in 0 .. 1
      BY Numbers DEF SupInv
    <3>2. Wanted(inbox', d) = Wanted(inbox, d)
      BY <1>0, <1>1, <1>2, <1>3, <3>1, NoteSent
    <3>3. QED
      BY <1>5, <3>1, <3>2
  <2>2. QED
    BY <2>1 DEF OwesNoMore
<1>7. Over(w[1], w[2], w[3])'
  <2>1. Over(w[1], w[2], w[3])
    BY DEF SupInv, Noticed
  <2>2. QED
    BY <1>5, <2>1 DEF Over
<1>8. Reported
  BY <1>1, <1>2, <1>4, <1>7 DEF Reported
<1>9. DoingInv'
  BY <1>5 DEF SupInv, DoingInv
<1>10. /\ records \in [ChildIds -> Nat] /\ wished \in [ChildIds -> Nat]
       /\ watched \subseteq ChildIds \X Nat \X Reasons
  BY DEF SupInv, SupType
<1>11. /\ records' \in [ChildIds -> Nat] /\ \A d \in ChildIds : records'[d] <= records[d]
       /\ wished' \in [ChildIds -> Nat] /\ alive' \subseteq alive
       /\ watched' \subseteq ChildIds \X Nat \X Reasons
  BY <1>1, <1>5, <1>10
<1>12. QED
  BY <1>4, <1>5, <1>6, <1>8, <1>9, <1>11, BooksKept

(* A start changes the books of its own child, which nobody referred to.    *)
LEMMA StartHandled ==
  ASSUME SupInv, NEW c \in ChildIds, S!HandleStartChild(c), UNCHANGED disowned
  PROVE  /\ specs' \in Seq(ChildIds) /\ Distinct(specs')
         /\ children' \in [ChildIds -> Nat] /\ made' \in [ChildIds -> Nat]
         /\ alive' \subseteq ChildIds \X Nat
         /\ Known' /\ Fresh /\ \A d \in ChildIds : Specified(d)'
         /\ \A d \in ChildIds \ {c} :
              made'[d] = made[d] /\ Left(strategy, specs', children', d) = Left(strategy, specs, children, d)
         /\ \/ made'[c] = made[c] /\ Left(strategy, specs', children', c) = Left(strategy, specs, children, c)
            \/ /\ made'[c] = made[c] + 1 /\ children[c] = 0
               /\ Left(strategy, specs', children', c) = 0
<1>0. /\ specs \in Seq(ChildIds) /\ Distinct(specs)
      /\ children \in [ChildIds -> Nat] /\ made \in [ChildIds -> Nat]
      /\ alive \subseteq ChildIds \X Nat /\ Known /\ \A d \in ChildIds : Specified(d)
  BY DEF SupInv, SupType
<1>1. CASE UNCHANGED <<children, specs, alive, made>>
  <2>1. Known' /\ \A d \in ChildIds : Specified(d)'
    BY <1>0, <1>1 DEF Known, Specified
  <2>2. Fresh
    BY <1>0, <1>1 DEF Fresh
  <2>3. QED
    BY <1>0, <1>1, <2>1, <2>2
<1>2. CASE children[c] = 0 /\ S!StartActor(c)
  <2>0. /\ ~ S!Running(c)
        /\ made' = [made EXCEPT ![c] = @ + 1]
        /\ alive' = alive \cup {<<c, made[c] + 1>>}
        /\ children' = [children EXCEPT ![c] = made[c] + 1]
        /\ specs' = S!Added(c)
    BY <1>2 DEF S!StartActor
  <2>1. made[c] \in Nat /\ made[c] + 1 \in Nat /\ made[c] + 1 # 0 /\ made[c] + 1 \in 1 .. made[c] + 1
    BY <1>0
  <2>2. specs' \in Seq(ChildIds) /\ Distinct(specs') /\ Elems(specs') = Elems(specs) \cup {c}
    <3>1. S!ToSet(specs) = Elems(specs)
      BY DEF S!ToSet, Elems
    <3>2. CASE c \in Elems(specs)
      BY <1>0, <2>0, <3>1, <3>2 DEF S!Added
    <3>3. CASE c \notin Elems(specs)
      BY <1>0, <2>0, <3>1, <3>3, DistinctAppend DEF S!Added
    <3>4. QED
      BY <3>2, <3>3
  <2>3. /\ children' \in [ChildIds -> Nat] /\ made' \in [ChildIds -> Nat]
        /\ made'[c] = made[c] + 1 /\ children'[c] = made[c] + 1
        /\ \A d \in ChildIds \ {c} : made'[d] = made[d] /\ children'[d] = children[d]
    BY <1>0, <2>0, <2>1
  <2>4. alive' \subseteq ChildIds \X Nat
    BY <1>0, <2>0, <2>1
  <2>5. \A d \in ChildIds : Specified(d)'
    BY <1>0, <2>2, <2>3 DEF Specified
  <2>6. \A i \in Nat : <<c, i>> \notin alive
    BY <1>0, <2>0 DEF S!Running, Known
  <2>7. ASSUME NEW d \in ChildIds, NEW i \in Nat, <<d, i>> \in alive'
        PROVE  /\ i \in 1 .. made'[d] /\ (children'[d] = i \/ <<d, i>> \in disowned')
               /\ <<d, i>> \in alive \/ made[d] < i
    <3>1. CASE d = c
      <4>1. i = made[c] + 1
        BY <2>0, <2>6, <2>7, <3>1
      <4>2. QED
        BY <2>1, <2>3, <3>1, <4>1
    <3>2. CASE d # c
      <4>1. <<d, i>> \in alive
        BY <2>0, <2>7, <3>2
      <4>2. i \in 1 .. made[d] /\ (children[d] = i \/ <<d, i>> \in disowned)
        BY <1>0, <4>1 DEF Known
      <4>3. QED
        BY <2>3, <3>2, <4>1, <4>2
    <3>3. QED
      BY <3>1, <3>2
  <2>8. Known'
    BY <2>7 DEF Known
  <2>9. Fresh
    <3>1. ASSUME NEW d \in ChildIds PROVE made'[d] \in Nat /\ made[d] <= made'[d]
      <4>1. made[d] \in Nat /\ made[c] \in Nat
        BY <1>0
      <4>2. made'[d] = made[d] \/ made'[d] = made[d] + 1
        BY <2>3
      <4>3. QED
        BY <4>1, <4>2
    <3>2. QED
      BY <2>7, <3>1 DEF Fresh
  <2>10. /\ \A d \in ChildIds \ {c} : Left(strategy, specs', children', d) = Left(strategy, specs, children, d)
         /\ Left(strategy, specs', children', c) = 0
    BY <2>1, <2>2, <2>3 DEF Left
  <2>11. QED
    BY <1>2, <2>2, <2>3, <2>4, <2>5, <2>8, <2>9, <2>10
<1>3. QED
  BY <1>1, <1>2 DEF S!HandleStartChild, S!StartFails

(* ... and what it starts was owed.                                         *)
Pays(c) ==
  /\ \A d \in ChildIds \ {c} :
       Wanted(inbox', d) + InHand(doing', d) <= Wanted(inbox, d) + InHand(doing, d)
  /\ \/ Wanted(inbox', c) + InHand(doing', c) + 1 <= Wanted(inbox, c) + InHand(doing, c)
     \/ /\ Wanted(inbox', c) + InHand(doing', c) <= Wanted(inbox, c) + InHand(doing, c)
        /\ strategy \in S!OfAll /\ c \in Elems(specs)

LEMMA StartKeeps ==
  ASSUME SupInv, NEW c \in ChildIds, S!HandleStartChild(c),
         UNCHANGED <<strategy, watched, records, wished, raised, granted, disowned>>,
         inbox' \in Seq(Note), Elems(inbox') \subseteq Elems(inbox), DoingInv', Pays(c)
  PROVE  SupInv'
<1>1. /\ specs' \in Seq(ChildIds) /\ Distinct(specs')
      /\ children' \in [ChildIds -> Nat] /\ made' \in [ChildIds -> Nat]
      /\ alive' \subseteq ChildIds \X Nat
  BY StartHandled
<1>2. Known' /\ Fresh /\ \A d \in ChildIds : Specified(d)'
  BY StartHandled
<1>3. /\ \A d \in ChildIds \ {c} :
           made'[d] = made[d] /\ Left(strategy, specs', children', d) = Left(strategy, specs, children, d)
      /\ \/ made'[c] = made[c] /\ Left(strategy, specs', children', c) = Left(strategy, specs, children, c)
         \/ /\ made'[c] = made[c] + 1 /\ children[c] = 0
            /\ Left(strategy, specs', children', c) = 0
  BY StartHandled
<1>4. SupType'
  BY <1>1 DEF SupInv, SupType
<1>5. Noticed'
  <2>1. Reported
    BY DEF Reported
  <2>2. QED
    BY <1>2, <2>1, NoticedKept DEF SupInv
<1>6. ASSUME NEW d \in ChildIds PROVE Granted(d)' /\ Earned(d)'
  <2>1. Granted(d) /\ Earned(d)
    BY DEF SupInv
  <2>2. Granted(d)'
    BY <2>1 DEF Granted
  <2>3. /\ made[d] \in Nat /\ wished[d] \in Nat /\ Len(granted[d]) \in Nat /\ Wanted(inbox, d) \in Nat
        /\ InHand(doing, d) \in 0 .. 1 /\ Left(strategy, specs, children, d) \in 0 .. 1
    BY Numbers DEF SupInv
  <2>4. Wanted(inbox', d) \in Nat /\ InHand(doing', d) \in 0 .. 1
    BY WantedType DEF InHand
  <2>5. /\ made'[d] \in Nat /\ Left(strategy', specs', children', d) \in 0 .. 1
        /\ wished'[d] = wished[d] /\ Len(granted'[d]) = Len(granted[d])
    BY <1>1 DEF Left
  <2>6. made'[d] + Wanted(inbox', d) + InHand(doing', d) + Left(strategy', specs', children', d)
          + wished[d] + Len(granted[d])
        <= made[d] + Wanted(inbox, d) + InHand(doing, d) + Left(strategy, specs, children, d)
          + wished'[d] + Len(granted'[d])
    <3> DEFINE A == made[d]
               B == Wanted(inbox, d)
               C == InHand(doing, d)
               D == Left(strategy, specs, children, d)
               E == wished[d]
               F == Len(granted[d])
               A1 == made'[d]
               B1 == Wanted(inbox', d)
               C1 == InHand(doing', d)
               D1 == Left(strategy', specs', children', d)
    <3>1. /\ A \in Nat /\ B \in Nat /\ C \in 0 .. 1 /\ D \in 0 .. 1 /\ E \in Nat /\ F \in Nat
          /\ A1 \in Nat /\ B1 \in Nat /\ C1 \in 0 .. 1 /\ D1 \in 0 .. 1
      BY <2>3, <2>4, <2>5
    <3>2. \/ B1 + C1 <= B + C /\ A1 = A /\ D1 = D
          \/ /\ B1 + C1 + 1 <= B + C \/ (B1 + C1 <= B + C /\ (children[d] = 0 => D = 1))
             /\ (A1 = A /\ D1 = D) \/ (A1 = A + 1 /\ children[d] = 0 /\ D1 = 0)
      <4>1. CASE d # c
        BY <1>3, <4>1 DEF Pays
      <4>2. CASE d = c
        <5>1. B1 + C1 + 1 <= B + C \/ (B1 + C1 <= B + C /\ strategy \in S!OfAll /\ d \in Elems(specs))
          BY <4>2 DEF Pays
        <5>2. strategy \in S!OfAll /\ d \in Elems(specs) /\ children[d] = 0 => D = 1
          BY DEF Left
        <5>3. strategy' = strategy
          OBVIOUS
        <5>4. \/ made'[d] = made[d] /\ Left(strategy, specs', children', d) = Left(strategy, specs, children, d)
              \/ /\ made'[d] = made[d] + 1 /\ children[d] = 0
                 /\ Left(strategy, specs', children', d) = 0
          BY ONLY <1>3, <4>2
        <5>5. (A1 = A /\ D1 = D) \/ (A1 = A + 1 /\ children[d] = 0 /\ D1 = 0)
          BY ONLY <5>3, <5>4
        <5> HIDE DEF A, B, C, D, E, F, A1, B1, C1, D1
        <5>6. CASE B1 + C1 + 1 <= B + C
          BY ONLY <5>5, <5>6
        <5>7. CASE B1 + C1 <= B + C /\ strategy \in S!OfAll /\ d \in Elems(specs)
          BY ONLY <5>2, <5>5, <5>7
        <5>8. QED
          BY ONLY <5>1, <5>6, <5>7
      <4>3. QED
        BY <4>1, <4>2
    <3> HIDE DEF A, B, C, D, E, F, A1, B1, C1, D1
    <3>3. A1 + B1 + C1 + D1 + E + F <= A + B + C + D + E + F
      BY ONLY <3>1, <3>2
    <3>4. QED
      BY <2>5, <3>3 DEF A, B, C, D, E, F, A1, B1, C1, D1
  <2>7. SupType
    BY DEF SupInv
  <2>8. QED
    BY <1>4, <2>1, <2>2, <2>6, <2>7, EarnedKept
<1>7. QED
  BY <1>2, <1>4, <1>5, <1>6 DEF SupInv

LEMMA ReceiveStartStep ==
  ASSUME SupInv, S!ReceiveStart
  PROVE  SupInv'
<1> DEFINE c == S!It
<1>1. /\ inbox # <<>> /\ Head(inbox).kind = "StartChild" /\ inbox' = Tail(inbox)
      /\ S!HandleStartChild(c)
      /\ UNCHANGED <<strategy, doing, watched, records, wished, raised, granted, disowned>>
  BY DEF S!ReceiveStart, S!Arrives, S!ofUsers
<1>2. /\ c \in ChildIds /\ inbox' \in Seq(Note) /\ Elems(inbox') \subseteq Elems(inbox)
      /\ \A d \in ChildIds : /\ Wanted(inbox, d) \in Nat /\ Wanted(inbox', d) \in Nat
                             /\ Wanted(inbox, d) = Wanted(inbox', d) + (IF d = c THEN 1 ELSE 0)
  BY <1>1, Arrived
<1> HIDE DEF c
<1>3. Pays(c)
  <2>1. \A d \in ChildIds : InHand(doing, d) \in 0 .. 1 /\ InHand(doing', d) = InHand(doing, d)
    BY <1>1 DEF InHand
  <2>2. QED
    BY <1>2, <2>1 DEF Pays
<1>4. DoingInv'
  BY <1>1 DEF SupInv, DoingInv
<1>5. QED
  BY <1>1, <1>2, <1>3, <1>4, StartKeeps

LEMMA ReceiveOrderStep ==
  ASSUME SupInv, S!ReceiveStop \/ S!ReceiveRestart
  PROVE  SupInv'
<1> DEFINE c == S!It
<1>1. /\ inbox # <<>> /\ inbox' = Tail(inbox) /\ doing = S!Idle
      /\ UNCHANGED <<strategy, children, specs, alive, made, watched, records, wished, raised, granted, disowned>>
      /\ \/ doing' = doing \/ doing' = S!Doing("stop", c, <<>>)
         \/ Head(inbox).kind = "RestartChild" /\ doing' = S!Doing("restart", c, <<c>>)
  BY DEF S!ReceiveStop, S!ReceiveRestart, S!Arrives, S!ofUsers
<1>2. /\ c \in ChildIds /\ inbox' \in Seq(Note) /\ Elems(inbox') \subseteq Elems(inbox)
      /\ \A d \in ChildIds :
           /\ Wanted(inbox, d) \in Nat /\ Wanted(inbox', d) \in Nat
           /\ Wanted(inbox, d) = Wanted(inbox', d)
                + (IF Head(inbox).kind \in {"StartChild", "RestartChild"} /\ d = c THEN 1 ELSE 0)
  BY <1>1, Arrived
<1> HIDE DEF c
<1>3. DoingInv'
  BY <1>1, <1>2 DEF SupInv, DoingInv
<1>4. OwesNoMore
  <2>1. ASSUME NEW d \in ChildIds
        PROVE  Wanted(inbox', d) + InHand(doing', d) + wished[d] <= Wanted(inbox, d) + InHand(doing, d) + wished'[d]
    <3>1. /\ wished[d] \in Nat /\ wished'[d] = wished[d]
          /\ Wanted(inbox, d) \in Nat /\ Wanted(inbox', d) \in Nat
          /\ Wanted(inbox, d) = Wanted(inbox', d)
               + (IF Head(inbox).kind \in {"StartChild", "RestartChild"} /\ d = c THEN 1 ELSE 0)
      BY <1>1, <1>2 DEF SupInv, SupType
    <3>2. InHand(doing, d) = 0
      BY <1>1 DEF InHand, S!Idle
    <3>3. \/ InHand(doing', d) = 0
          \/ Head(inbox).kind = "RestartChild" /\ d = c /\ InHand(doing', d) = 1
      BY <1>1 DEF InHand, S!Idle, S!Doing
    <3>4. QED
      BY <3>1, <3>2, <3>3
  <2>2. QED
    BY <2>1 DEF OwesNoMore
<1>5. Reported
  BY <1>1, <1>2 DEF Reported
<1>6. /\ records' \in [ChildIds -> Nat] /\ \A d \in ChildIds : records'[d] <= records[d]
      /\ wished' \in [ChildIds -> Nat] /\ alive' \subseteq alive
      /\ watched' \subseteq ChildIds \X Nat \X Reasons
  BY <1>1 DEF SupInv, SupType
<1>7. QED
  BY <1>1, <1>2, <1>3, <1>4, <1>5, <1>6, BooksKept

(* The two that let go of a child: its entry goes, and its spec may.        *)
LEMMA LetGo ==
  ASSUME SupType, \A d \in ChildIds : Specified(d), NEW c, children' = [children EXCEPT ![c] = 0],
         specs' \in {S!Without(c), specs}
  PROVE  /\ specs' \in Seq(ChildIds) /\ Distinct(specs') /\ children' \in [ChildIds -> Nat]
         /\ \A d \in ChildIds : Specified(d)'
         /\ \A d \in ChildIds \ {c} :
              /\ children'[d] = children[d]
              /\ Left(strategy, specs', children', d) = Left(strategy, specs, children, d)
         /\ c \in ChildIds => children'[c] = 0
         /\ specs' = S!Without(c) => Left(strategy, specs', children', c) = 0
<1>1. /\ specs \in Seq(ChildIds) /\ Distinct(specs)
      /\ S!Without(c) \in Seq(ChildIds) /\ Distinct(S!Without(c))
      /\ Elems(S!Without(c)) = Elems(specs) \ {c}
  BY WithoutIs DEF SupType
<1>2. specs' \in Seq(ChildIds) /\ Distinct(specs')
  BY <1>1
<1>3. /\ \A d : d # c => (d \in Elems(specs') <=> d \in Elems(specs))
      /\ specs' = S!Without(c) => c \notin Elems(specs')
  BY <1>1
<1>4. /\ children' \in [ChildIds -> Nat]
      /\ \A d \in ChildIds : children'[d] = IF d = c THEN 0 ELSE children[d]
  BY DEF SupType
<1>5. ASSUME NEW d \in ChildIds PROVE Specified(d)'
  BY <1>3, <1>4 DEF Specified
<1>6. \A d \in ChildIds \ {c} : Left(strategy, specs', children', d) = Left(strategy, specs, children, d)
  BY <1>3, <1>4 DEF Left
<1>7. QED
  BY <1>2, <1>3, <1>4, <1>5, <1>6 DEF Left

(* An end that was answered is one that the policy and the limit let        *)
(* restart.                                                                 *)
LEMMA AnswerGranted ==
  ASSUME SupInv, NEW c \in ChildIds, NEW n \in Notice, n.child = c, n \in Elems(inbox),
         S!ShouldRestart(c, n.reason), S!CanRestart(c), raised' = raised,
         records' = [records EXCEPT ![c] = @ + 1],
         granted' = [granted EXCEPT ![c] = Append(@, n.actor_ref)]
  PROVE  /\ records' \in [ChildIds -> Nat] /\ granted' \in [ChildIds -> Seq(Nat)]
         /\ Len(granted'[c]) = Len(granted[c]) + 1
         /\ \A d \in ChildIds \ {c} : granted'[d] = granted[d]
         /\ \A d \in ChildIds : Granted(d)'
<1>1. /\ records \in [ChildIds -> Nat] /\ granted \in [ChildIds -> Seq(Nat)] /\ granted[c] \in Seq(Nat)
      /\ n.actor_ref \in Nat /\ n.reason \in Reasons /\ n.kind = "ChildTerminated"
  BY DEF SupInv, SupType, Notice
<1> DEFINE more == Append(granted[c], n.actor_ref)
<1>2. more \in Seq(Nat) /\ Len(more) = Len(granted[c]) + 1 /\ Elems(more) = Elems(granted[c]) \cup {n.actor_ref}
  <2>1. ASSUME NEW q \in Seq(Nat), NEW i \in Nat
        PROVE  /\ Append(q, i) \in Seq(Nat) /\ Len(Append(q, i)) = Len(q) + 1
               /\ Elems(Append(q, i)) = Elems(q) \cup {i}
    BY DistinctAppend
  <2>2. QED
    BY ONLY <1>1, <2>1
<1>3. granted' = [granted EXCEPT ![c] = more]
  OBVIOUS
<1> HIDE DEF more
<1>4. /\ records' \in [ChildIds -> Nat] /\ records'[c] = records[c] + 1
      /\ \A d \in ChildIds \ {c} : records'[d] = records[d]
  BY <1>1
<1>5. /\ granted' \in [ChildIds -> Seq(Nat)] /\ granted'[c] = more
      /\ \A d \in ChildIds \ {c} : granted'[d] = granted[d]
  BY <1>1, <1>2, <1>3
<1>6. Granted(c)'
  <2>1. records'[c] <= MaxRestarts
    BY <1>1, <1>4, ActorsAssumption DEF S!CanRestart
  <2>2. Policy[c] # "TEMPORARY"
    BY DEF S!ShouldRestart
  <2>3. ASSUME Policy[c] = "TRANSIENT", NEW i \in Elems(more) PROVE <<c, i>> \in raised
    <3>1. n.reason = "error"
      BY <1>1, <2>3 DEF S!ShouldRestart, Reasons
    <3>2. Over(c, n.actor_ref, n.reason)
      BY <1>1 DEF SupInv, Noticed
    <3>3. CASE i = n.actor_ref
      BY <3>1, <3>2, <3>3 DEF Over
    <3>4. CASE i \in Elems(granted[c])
      BY <2>3, <3>4 DEF SupInv, Granted
    <3>5. QED
      BY <1>2, <2>3, <3>3, <3>4
  <2>4. QED
    BY <1>5, <2>1, <2>2, <2>3 DEF Granted
<1>7. ASSUME NEW d \in ChildIds \ {c} PROVE Granted(d)'
  BY <1>4, <1>5, <1>7 DEF SupInv, Granted
<1>8. QED
  BY <1>2, <1>4, <1>5, <1>6, <1>7

LEMMA TerminatedStep ==
  ASSUME SupInv, S!ReceiveTerminated
  PROVE  SupInv'
<1> DEFINE c == S!It
           n == Head(inbox)
           again == S!Message("RestartChild", c)
<1>1. /\ inbox # <<>> /\ n.kind = "ChildTerminated" /\ doing = S!Idle /\ n.child = c
      /\ children' = [children EXCEPT ![c] = 0]
      /\ disowned' = IF children[c] \in {0, n.actor_ref} THEN disowned ELSE disowned \cup {<<c, children[c]>>}
      /\ UNCHANGED <<strategy, alive, made, watched, wished, raised>>
  BY DEF S!ReceiveTerminated, S!Arrives, S!ofUsers, S!It
<1>2. \/ S!GivesUp(c)
      \/ /\ S!ShouldRestart(c, n.reason) /\ S!CanRestart(c) /\ S!ApplyStrategy(c)
  BY DEF S!ReceiveTerminated
<1>3. /\ c \in ChildIds /\ Tail(inbox) \in Seq(Note) /\ Elems(Tail(inbox)) \subseteq Elems(inbox)
      /\ n \in Elems(inbox) /\ n \in Note
  BY <1>1, Arrived
<1>4. ASSUME NEW d \in ChildIds
      PROVE  Wanted(inbox, d) \in Nat /\ Wanted(Tail(inbox), d) = Wanted(inbox, d)
  <2>1. /\ Wanted(inbox, d) \in Nat /\ Wanted(Tail(inbox), d) \in Nat
        /\ Wanted(inbox, d) = Wanted(Tail(inbox), d)
             + (IF n.kind \in {"StartChild", "RestartChild"} /\ d = c THEN 1 ELSE 0)
    BY <1>1, Arrived
  <2>2. QED
    BY <1>1, <2>1
<1>5. again \in Note /\ again.kind # "ChildTerminated" /\ \A d : Starts(again, d) <=> d = c
  BY <1>3 DEF S!Message, Note, Wish, Starts
<1>6. n \in Notice
  BY <1>1, <1>3 DEF Note, Wish
<1>7. SupType /\ Known /\ Noticed /\ \A d \in ChildIds : Specified(d) /\ Granted(d) /\ Earned(d)
  BY DEF SupInv
<1>8. specs' \in {S!Without(c), specs}
  BY <1>2 DEF S!GivesUp, S!ApplyStrategy
<1> HIDE DEF again, c
<1>9. /\ specs' \in Seq(ChildIds) /\ Distinct(specs') /\ children' \in [ChildIds -> Nat]
      /\ children'[c] = 0 /\ \A d \in ChildIds \ {c} : children'[d] = children[d]
  BY <1>1, <1>3, <1>7, <1>8, LetGo
<1>10. \A d \in ChildIds : Specified(d)'
  BY <1>1, <1>3, <1>7, <1>8, LetGo
<1>11. /\ \A d \in ChildIds \ {c} : Left(strategy, specs', children', d) = Left(strategy, specs, children, d)
       /\ specs' = S!Without(c) => Left(strategy, specs', children', c) = 0
  BY <1>1, <1>3, <1>7, <1>8, LetGo
<1>12. Known'
  <2>1. Over(c, n.actor_ref, n.reason)
    BY <1>1, <1>3, <1>7 DEF Noticed
  <2>2. ASSUME NEW d \in ChildIds, NEW i \in Nat, <<d, i>> \in alive'
        PROVE  i \in 1 .. made'[d] /\ (children'[d] = i \/ <<d, i>> \in disowned')
    <3>1. i \in 1 .. made[d] /\ (children[d] = i \/ <<d, i>> \in disowned)
      BY <1>1, <1>7, <2>2 DEF Known
    <3>2. disowned \subseteq disowned'
      BY <1>1
    <3>3. CASE d = c /\ children[d] = i
      <4>1. i # n.actor_ref
        BY <1>1, <2>1, <2>2, <3>3 DEF Over
      <4>2. i # 0
        BY <3>1
      <4>3. <<d, i>> \in disowned'
        BY <1>1, <3>3, <4>1, <4>2
      <4>4. QED
        BY <1>1, <3>1, <4>3
    <3>4. CASE d # c
      BY <1>1, <1>9, <3>1, <3>2, <3>4
    <3>5. QED
      BY <1>1, <3>1, <3>2, <3>3, <3>4
  <2>3. QED
    BY <2>2 DEF Known
<1>13. Fresh
  BY <1>1, <1>7 DEF SupType, Fresh
<1>14. CASE S!GivesUp(c)
  <2>1. /\ specs' = S!Without(c) /\ inbox' = Tail(inbox) /\ UNCHANGED <<doing, records, granted>>
    BY <1>14 DEF S!GivesUp
  <2>2. SupType'
    BY <1>1, <1>3, <1>7, <1>9, <2>1 DEF SupType
  <2>3. Noticed'
    <3>1. Reported
      BY <1>1, <1>3, <2>1 DEF Reported
    <3>2. QED
      BY <1>1, <1>7, <1>13, <3>1, NoticedKept
  <2>4. DoingInv'
    BY <1>1, <2>1 DEF DoingInv
  <2>5. ASSUME NEW d \in ChildIds PROVE Granted(d)' /\ Earned(d)'
    <3>1. Granted(d)'
      BY <1>1, <1>7, <2>1 DEF Granted
    <3>2. /\ made[d] \in Nat /\ wished[d] \in Nat /\ Len(granted[d]) \in Nat /\ Wanted(inbox, d) \in Nat
          /\ InHand(doing, d) \in 0 .. 1 /\ Left(strategy, specs, children, d) \in 0 .. 1
      BY <1>7, Numbers
    <3>3. Wanted(inbox', d) = Wanted(inbox, d) /\ InHand(doing', d) = InHand(doing, d)
      BY <1>4, <2>1
    <3>4. Left(strategy', specs', children', d) \in 0 .. Left(strategy, specs, children, d)
      <4>1. Left(strategy', specs', children', d) = Left(strategy, specs, children, d)
              \/ Left(strategy', specs', children', d) = 0
        BY <1>1, <1>11, <2>1
      <4>2. QED
        BY <3>2, <4>1
    <3>5. made'[d] = made[d] /\ wished'[d] = wished[d] /\ Len(granted'[d]) = Len(granted[d])
      BY <1>1, <2>1
    <3>6. made'[d] + Wanted(inbox', d) + InHand(doing', d) + Left(strategy', specs', children', d)
            + wished[d] + Len(granted[d])
          <= made[d] + Wanted(inbox, d) + InHand(doing, d) + Left(strategy, specs, children, d)
            + wished'[d] + Len(granted'[d])
      BY <3>2, <3>3, <3>4, <3>5
    <3>7. QED
      BY <1>7, <2>2, <3>1, <3>6, EarnedKept
  <2>6. QED
    BY <1>10, <1>12, <2>2, <2>3, <2>4, <2>5 DEF SupInv
<1>15. CASE S!ShouldRestart(c, n.reason) /\ S!CanRestart(c) /\ S!ApplyStrategy(c)
  <2>1. /\ specs' = specs
        /\ records' = [records EXCEPT ![c] = @ + 1]
        /\ granted' = [granted EXCEPT ![c] = Append(@, n.actor_ref)]
        /\ inbox' = IF strategy = "ONE_FOR_ONE" THEN Append(Tail(inbox), again) ELSE Tail(inbox)
        /\ IF strategy \notin S!OfAll THEN doing' = doing ELSE doing' = S!Doing(strategy, c, specs)
    BY <1>15 DEF S!ApplyStrategy, again
  <2>2. /\ records' \in [ChildIds -> Nat] /\ granted' \in [ChildIds -> Seq(Nat)]
        /\ Len(granted'[c]) = Len(granted[c]) + 1
        /\ \A d \in ChildIds \ {c} : granted'[d] = granted[d]
        /\ \A d \in ChildIds : Granted(d)'
    BY <1>1, <1>3, <1>6, <1>15, <2>1, AnswerGranted
  <2>3. /\ inbox' \in Seq(Note) /\ Elems(inbox') \subseteq Elems(inbox) \cup {again}
        /\ \A d \in ChildIds :
             Wanted(inbox', d) = Wanted(inbox, d) + (IF strategy = "ONE_FOR_ONE" /\ d = c THEN 1 ELSE 0)
    <3>1. CASE strategy = "ONE_FOR_ONE"
      <4>1. inbox' = Append(Tail(inbox), again)
        BY <2>1, <3>1
      <4>2. inbox' \in Seq(Note) /\ Elems(inbox') = Elems(Tail(inbox)) \cup {again}
        <5>1. ASSUME NEW q \in Seq(Note), NEW m \in Note
              PROVE  Append(q, m) \in Seq(Note) /\ Elems(Append(q, m)) = Elems(q) \cup {m}
          BY DistinctAppend
        <5>2. QED
          BY ONLY <1>3, <1>5, <4>1, <5>1
      <4>3. ASSUME NEW d \in ChildIds
            PROVE  Wanted(inbox', d) = Wanted(inbox, d) + (IF d = c THEN 1 ELSE 0)
        <5>1. Wanted(inbox', d) = Wanted(Tail(inbox), d) + (IF Starts(again, d) THEN 1 ELSE 0)
          BY <1>3, <1>5, <4>1, NoteSent
        <5>2. QED
          BY <1>4, <1>5, <5>1
      <4>4. QED
        BY <1>3, <3>1, <4>2, <4>3
    <3>2. CASE strategy # "ONE_FOR_ONE"
      BY <1>3, <1>4, <2>1, <3>2
    <3>3. QED
      BY <3>1, <3>2
  <2>4. SupType'
    BY <1>1, <1>3, <1>7, <1>9, <2>2, <2>3 DEF SupType
  <2>5. Noticed'
    <3>1. Reported
      BY <1>1, <1>5, <2>3 DEF Reported
    <3>2. QED
      BY <1>1, <1>7, <1>13, <3>1, NoticedKept
  <2>6. DoingInv'
    BY <1>1, <1>3, <1>7, <2>1 DEF DoingInv, SupType
  <2>7. ASSUME NEW d \in ChildIds PROVE Earned(d)'
    <3>2. /\ made[d] \in Nat /\ wished[d] \in Nat /\ Len(granted[d]) \in Nat /\ Wanted(inbox, d) \in Nat
          /\ InHand(doing, d) \in 0 .. 1 /\ Left(strategy, specs, children, d) \in 0 .. 1
      BY <1>7, Numbers
    <3>3. InHand(doing', d) = InHand(doing, d)
      <4>1. InHand(doing, d) = 0
        BY <1>1 DEF InHand, S!Idle
      <4>2. doing' = doing \/ (doing' = S!Doing(strategy, c, specs) /\ strategy \in S!OfAll)
        BY <2>1
      <4>3. InHand(doing', d) = 0
        BY <4>1, <4>2 DEF InHand, S!Doing, S!OfAll
      <4>4. QED
        BY <4>1, <4>3
    <3>4. made'[d] = made[d] /\ wished'[d] = wished[d]
      BY <1>1
    <3>5. CASE d # c
      <4>1. /\ Len(granted'[d]) = Len(granted[d]) /\ Wanted(inbox', d) = Wanted(inbox, d)
            /\ Left(strategy', specs', children', d) = Left(strategy, specs, children, d)
        <5>1. Wanted(inbox', d) = Wanted(inbox, d) + 0
          BY <2>3, <3>5
        <5>2. Left(strategy', specs', children', d) = Left(strategy, specs, children, d)
          BY <1>1, <1>11, <3>5
        <5>3. Len(granted'[d]) = Len(granted[d])
          BY <2>2, <3>5
        <5>4. QED
          BY <3>2, <5>1, <5>2, <5>3
      <4>2. made'[d] + Wanted(inbox', d) + InHand(doing', d) + Left(strategy', specs', children', d)
              + wished[d] + Len(granted[d])
            <= made[d] + Wanted(inbox, d) + InHand(doing, d) + Left(strategy, specs, children, d)
              + wished'[d] + Len(granted'[d])
        BY <3>2, <3>3, <3>4, <4>1
      <4>3. QED
        BY <1>7, <2>4, <4>2, EarnedKept
    <3>6. CASE d = c
      <4>1. Left(strategy', specs', children', d) \in 0 .. 1
            /\ (strategy = "ONE_FOR_ONE" => Left(strategy', specs', children', d) = 0)
        BY <1>1 DEF Left, S!OfAll
      <4>2. /\ Len(granted'[d]) = Len(granted[d]) + 1
            /\ Wanted(inbox', d) = Wanted(inbox, d) + (IF strategy = "ONE_FOR_ONE" THEN 1 ELSE 0)
        BY <2>2, <2>3, <3>6
      <4>3. made'[d] + Wanted(inbox', d) + InHand(doing', d) + Left(strategy', specs', children', d)
              + wished[d] + Len(granted[d])
            <= made[d] + Wanted(inbox, d) + InHand(doing, d) + Left(strategy, specs, children, d)
              + wished'[d] + Len(granted'[d])
        <5> DEFINE A == made[d]
                   B == Wanted(inbox, d)
                   C == InHand(doing, d)
                   D == Left(strategy, specs, children, d)
                   E == wished[d]
                   F == Len(granted[d])
                   B1 == Wanted(inbox', d)
                   D1 == Left(strategy', specs', children', d)
                   F1 == Len(granted'[d])
        <5>1. /\ A \in Nat /\ B \in Nat /\ C \in 0 .. 1 /\ D \in 0 .. 1 /\ E \in Nat /\ F \in Nat
              /\ D1 \in 0 .. 1 /\ F1 = F + 1 /\ ((B1 = B + 1 /\ D1 = 0) \/ B1 = B + 0)
          BY <3>2, <4>1, <4>2
        <5> HIDE DEF A, B, C, D, E, F, B1, D1, F1
        <5>2. A + B1 + C + D1 + E + F <= A + B + C + D + E + F1
          BY ONLY <5>1
        <5>3. QED
          BY <3>3, <3>4, <5>2 DEF A, B, C, D, E, F, B1, D1, F1
      <4>4. QED
        BY <1>7, <2>4, <4>3, EarnedKept
    <3>7. QED
      BY <3>5, <3>6
  <2>8. QED
    BY <1>10, <1>12, <2>2, <2>4, <2>5, <2>6, <2>7 DEF SupInv
<1>16. QED
  BY <1>2, <1>14, <1>15

LEMMA StopStep ==
  ASSUME SupInv, S!HandleStopChild
  PROVE  SupInv'
<1> DEFINE c == Head(todo)
           one == <<c, children[c]>>
<1>1. UNCHANGED <<strategy, inbox, doing, made, records, wished, raised, granted, disowned>>
  BY DEF S!HandleStopChild, S!ofUsers
<1>2. SupType /\ DoingInv /\ Known /\ Noticed /\ \A d \in ChildIds : Specified(d) /\ Granted(d) /\ Earned(d)
  BY DEF SupInv
<1>3. CASE S!StopFails
  <2>1. UNCHANGED <<children, specs, alive, watched>>
    BY <1>3 DEF S!StopFails
  <2>2. OwesNoMore
    BY <1>1, <1>2, Numbers DEF OwesNoMore
  <2>3. Reported
    BY <1>1, <2>1 DEF Reported
  <2>4. /\ records' \in [ChildIds -> Nat] /\ \A d \in ChildIds : records'[d] <= records[d]
        /\ wished' \in [ChildIds -> Nat] /\ inbox' \in Seq(Note) /\ alive' \subseteq alive
        /\ watched' \subseteq ChildIds \X Nat \X Reasons
    BY <1>1, <1>2, <2>1 DEF SupType
  <2>5. DoingInv'
    BY <1>1, <1>2 DEF DoingInv
  <2>6. QED
    BY <1>1, <2>1, <2>2, <2>3, <2>4, <2>5, BooksKept
<1>4. CASE S!StopActor
  <2>1. /\ alive' = alive \ {one}
        /\ watched' = IF one \in alive THEN watched \cup {<<c, children[c], "none">>} ELSE watched
        /\ children' = [children EXCEPT ![c] = 0]
        /\ specs' = S!Without(c)
    BY <1>4 DEF S!StopActor
  <2> HIDE DEF c
  <2>2. /\ specs' \in Seq(ChildIds) /\ Distinct(specs') /\ children' \in [ChildIds -> Nat]
        /\ \A d \in ChildIds \ {c} : children'[d] = children[d]
    BY <1>2, <2>1, LetGo
  <2>3. \A d \in ChildIds : Specified(d)'
    BY <1>2, <2>1, LetGo
  <2>4. /\ \A d \in ChildIds \ {c} : Left(strategy, specs', children', d) = Left(strategy, specs, children, d)
        /\ Left(strategy, specs', children', c) = 0
    BY <1>2, <2>1, LetGo
  <2>5. one \in alive => c \in ChildIds /\ children[c] \in 1 .. made[c] /\ children[c] \in Nat
    BY <1>2 DEF SupType, Known
  <2>6. alive' \subseteq alive /\ watched' \subseteq ChildIds \X Nat \X Reasons
    <3>1. watched \subseteq ChildIds \X Nat \X Reasons
      BY <1>2 DEF SupType
    <3>2. CASE one \in alive
      BY <2>1, <2>5, <3>1, <3>2 DEF Reasons
    <3>3. CASE one \notin alive
      BY <2>1, <3>1, <3>3
    <3>4. QED
      BY <2>1, <3>2, <3>3
  <2>7. SupType'
    BY <1>1, <1>2, <2>2, <2>6 DEF SupType
  <2>8. Fresh
    BY <1>1, <1>2, <2>6 DEF SupType, Fresh
  <2>9. Noticed'
    <3>0. PICK a, i : a = c /\ i = children[c]
      OBVIOUS
    <3>1. ASSUME one \in alive PROVE Over(a, i, "none")'
      BY <1>1, <2>1, <2>5, <3>0, <3>1 DEF Over
    <3>2. Reported
      <4>1. watched' = IF one \in alive THEN watched \cup {<<a, i, "none">>} ELSE watched
        BY <2>1, <3>0
      <4> HIDE DEF one
      <4>2. QED
        BY <1>1, <3>1, <4>1 DEF Reported
    <3>3. QED
      BY <1>1, <1>2, <2>8, <3>2, NoticedKept
  <2>10. Known'
    <3>1. ASSUME NEW d \in ChildIds, NEW i \in Nat, <<d, i>> \in alive'
          PROVE  i \in 1 .. made'[d] /\ (children'[d] = i \/ <<d, i>> \in disowned')
      <4>1. i \in 1 .. made[d] /\ (children[d] = i \/ <<d, i>> \in disowned)
        BY <1>2, <2>6, <3>1 DEF Known
      <4>2. CASE d = c
        <5>1. children[d] # i
          BY <2>1, <3>1, <4>2
        <5>2. QED
          BY <1>1, <4>1, <5>1
      <4>3. CASE d # c
        BY <1>1, <2>2, <4>1, <4>3
      <4>4. QED
        BY <4>2, <4>3
    <3>2. QED
      BY <3>1 DEF Known
  <2>11. DoingInv'
    BY <1>1, <1>2 DEF DoingInv
  <2>12. ASSUME NEW d \in ChildIds PROVE Granted(d)' /\ Earned(d)'
    <3>1. Granted(d)'
      BY <1>1, <1>2 DEF Granted
    <3>2. /\ made[d] \in Nat /\ wished[d] \in Nat /\ Len(granted[d]) \in Nat /\ Wanted(inbox, d) \in Nat
          /\ InHand(doing, d) \in 0 .. 1 /\ Left(strategy, specs, children, d) \in 0 .. 1
      BY <1>2, Numbers
    <3>3. /\ Wanted(inbox', d) = Wanted(inbox, d) /\ InHand(doing', d) = InHand(doing, d)
          /\ made'[d] = made[d] /\ wished'[d] = wished[d] /\ Len(granted'[d]) = Len(granted[d])
      BY <1>1
    <3>4. Left(strategy', specs', children', d) \in {0, Left(strategy, specs, children, d)}
      BY <1>1, <2>4
    <3>5. made'[d] + Wanted(inbox', d) + InHand(doing', d) + Left(strategy', specs', children', d)
            + wished[d] + Len(granted[d])
          <= made[d] + Wanted(inbox, d) + InHand(doing, d) + Left(strategy, specs, children, d)
            + wished'[d] + Len(granted'[d])
      BY <3>2, <3>3, <3>4
    <3>6. QED
      BY <1>2, <2>7, <3>1, <3>5, EarnedKept
  <2>13. QED
    BY <2>3, <2>7, <2>9, <2>10, <2>11, <2>12 DEF SupInv
<1>5. QED
  BY <1>3, <1>4 DEF S!HandleStopChild

LEMMA RestartStep ==
  ASSUME SupInv, S!Restart
  PROVE  SupInv'
<1>1. /\ UNCHANGED <<strategy, inbox, watched, records, wished, raised, granted, disowned>>
      /\ doing # S!Idle
  BY DEF S!Restart, S!ofUsers
<1>2. /\ SupType /\ DoingInv /\ inbox' \in Seq(Note) /\ Elems(inbox') \subseteq Elems(inbox)
      /\ records' \in [ChildIds -> Nat] /\ \A d \in ChildIds : records'[d] <= records[d]
      /\ wished' \in [ChildIds -> Nat]
  BY <1>1 DEF SupInv, SupType
<1>3. ASSUME doing.starts # <<>>, Head(doing.starts) \in S!ToSet(specs),
             S!HandleStartChild(Head(doing.starts)), doing' = [doing EXCEPT !.starts = Tail(@)]
      PROVE  SupInv'
  <2> DEFINE c == Head(doing.starts)
  <2>1. c \in Elems(specs) /\ S!HandleStartChild(c)
    BY <1>3 DEF S!ToSet, Elems
  <2>2. c \in ChildIds
    BY <1>2, <2>1, ElementOfSeq, LenProperties DEF Elems, SupType
  <2>3. CASE \E d \in ChildIds : doing = S!Doing("restart", d, <<d>>)
    <3>1. PICK d \in ChildIds : doing = S!Doing("restart", d, <<d>>)
      BY <2>3
    <3>2. Head(<<d>>) = d /\ Tail(<<d>>) = <<>> /\ <<d>> # <<>>
      OBVIOUS
    <3>3. c = d /\ doing' = S!Doing("restart", d, <<>>)
      BY <1>3, <3>1, <3>2 DEF S!Doing
    <3>4. DoingInv'
      BY <3>3 DEF DoingInv
    <3>5. /\ InHand(doing, c) = 1 /\ \A e \in ChildIds : InHand(doing', e) = 0 /\ InHand(doing, e) \in 0 .. 1
      BY <3>1, <3>2, <3>3 DEF InHand, S!Doing
    <3>6. Pays(c)
      <4>1. \A e \in ChildIds : Wanted(inbox, e) \in Nat /\ Wanted(inbox', e) = Wanted(inbox, e)
        BY <1>1, <1>2, Numbers
      <4>2. QED
        BY <2>2, <3>5, <4>1 DEF Pays
    <3>7. QED
      BY <1>1, <1>2, <2>1, <2>2, <3>4, <3>6, StartKeeps
  <2>4. CASE strategy \in S!OfAll /\ \E d \in ChildIds, s \in Seq(ChildIds) : doing = S!Doing(strategy, d, s)
    <3>1. PICK d \in ChildIds, s \in Seq(ChildIds) : doing = S!Doing(strategy, d, s)
      BY <2>4
    <3>2. s # <<>> /\ doing' = S!Doing(strategy, d, Tail(s)) /\ Tail(s) \in Seq(ChildIds)
      BY <1>3, <3>1, HeadTailProperties DEF S!Doing
    <3>3. DoingInv'
      BY <1>1, <2>4, <3>2 DEF DoingInv
    <3>4. \A e \in ChildIds : InHand(doing, e) = 0 /\ InHand(doing', e) = 0
      BY <2>4, <3>1, <3>2 DEF InHand, S!Doing, S!OfAll
    <3>5. Pays(c)
      <4>1. \A e \in ChildIds : Wanted(inbox, e) \in Nat /\ Wanted(inbox', e) = Wanted(inbox, e)
        BY <1>1, <1>2, Numbers
      <4>2. QED
        BY <2>1, <2>2, <2>4, <3>4, <4>1 DEF Pays
    <3>6. QED
      BY <1>1, <1>2, <2>1, <2>2, <3>3, <3>5, StartKeeps
  <2>5. QED
    BY <1>1, <1>2, <1>3, <2>3, <2>4 DEF DoingInv, S!Doing
<1>4. ASSUME doing' = S!Idle, UNCHANGED <<children, specs, alive, made>>
      PROVE  SupInv'
  <2>1. OwesNoMore
    <3>1. ASSUME NEW d \in ChildIds
          PROVE  Wanted(inbox', d) + InHand(doing', d) + wished[d] <= Wanted(inbox, d) + InHand(doing, d) + wished'[d]
      <4>1. Wanted(inbox, d) \in Nat /\ wished[d] \in Nat /\ InHand(doing, d) \in 0 .. 1
        BY <1>2, Numbers
      <4>2. InHand(doing', d) = 0 /\ Wanted(inbox', d) = Wanted(inbox, d) /\ wished'[d] = wished[d]
        BY <1>1, <1>4 DEF InHand, S!Idle
      <4>3. QED
        BY <4>1, <4>2
    <3>2. QED
      BY <3>1 DEF OwesNoMore
  <2>2. Reported
    BY <1>1 DEF Reported
  <2>3. alive' \subseteq alive /\ watched' \subseteq ChildIds \X Nat \X Reasons /\ DoingInv'
    BY <1>1, <1>2, <1>4 DEF SupType, DoingInv
  <2>4. QED
    BY <1>1, <1>2, <1>4, <2>1, <2>2, <2>3, BooksKept
<1>5. QED
  BY <1>3, <1>4 DEF S!Restart

LEMMA SupStep ==
  ASSUME SupInv, S!SupNext
  PROVE  SupInv'
<1>1. "none" \in Reasons /\ "error" \in Reasons
  BY DEF Reasons
<1>2. QED
  BY <1>1, RequestStep, DieStep, ForgetStep, NotifyStep, ReceiveStartStep, ReceiveOrderStep, TerminatedStep,
     StopStep, RestartStep, Zenon DEF S!SupNext, S!Handler

LEMMA SupBegin ==
  ASSUME S!SupInit
  PROVE  SupInv
<1>1. /\ inbox = <<>> /\ inbox \in Seq(Note) /\ specs = <<>> /\ specs \in Seq(ChildIds)
      /\ doing = S!Idle /\ alive = {} /\ watched = {}
      /\ granted = [c \in ChildIds |-> <<>>]
  BY DEF S!SupInit
<1>2. Distinct(specs) /\ Elems(specs) = {} /\ Elems(inbox) = {}
  BY <1>1 DEF Distinct, Elems
<1>3. SupType
  <2>1. granted \in [ChildIds -> Seq(Nat)]
    BY <1>1
  <2>2. QED
    BY <1>1, <1>2, <2>1 DEF S!SupInit, SupType
<1>4. DoingInv /\ Known /\ Noticed
  BY <1>1, <1>2 DEF DoingInv, Known, Noticed
<1>5. ASSUME NEW c \in ChildIds PROVE Specified(c) /\ Granted(c) /\ Earned(c)
  <2>1. children[c] = 0 /\ made[c] = 0 /\ wished[c] = 0 /\ records[c] = 0 /\ granted[c] = <<>>
    BY DEF S!SupInit
  <2>2. ToStart(inbox, c) = {}
    BY <1>1 DEF ToStart
  <2>3. Wanted(inbox, c) = 0
    BY <2>2, FS_EmptySet DEF Wanted
  <2>4. InHand(doing, c) = 0 /\ Left(strategy, specs, children, c) = 0
    BY <1>1, <1>2 DEF InHand, Left, S!Idle
  <2>5. Len(granted[c]) = 0 /\ Elems(granted[c]) = {}
    BY <2>1 DEF Elems
  <2>6. Specified(c) /\ Granted(c)
    BY <2>1, <2>5, ActorsAssumption DEF Specified, Granted
  <2>7. Earned(c)
    BY <2>1, <2>3, <2>4, <2>5 DEF Earned
  <2>8. QED
    BY <2>6, <2>7
<1>6. QED
  BY <1>3, <1>4, <1>5 DEF SupInv

LEMMA SupHolds == SupInv => S!ChildrenAsSpecified
<1> SUFFICES ASSUME SupInv PROVE S!ChildrenAsSpecified
  OBVIOUS
<1>1. S!IsInjective(specs)
  BY DEF SupInv, SupType, Distinct, S!IsInjective
<1>2. \A s : S!ToSet(s) = Elems(s)
  BY DEF S!ToSet, Elems
<1>3. \A one \in alive : children[one[1]] = one[2] \/ one \in disowned
  BY DEF SupInv, SupType, Known
<1>4. S!BooksMatch
  BY <1>1, <1>2, <1>3 DEF S!BooksMatch, SupInv, Specified
<1>5. ASSUME NEW c \in ChildIds
      PROVE  /\ made[c] <= wished[c] + Len(granted[c])
             /\ Policy[c] = "TEMPORARY" => granted[c] = <<>>
             /\ Policy[c] = "TRANSIENT" => \A i \in Elems(granted[c]) : <<c, i>> \in raised
             /\ records[c] <= MaxRestarts
  <2>1. /\ made[c] \in Nat /\ wished[c] \in Nat /\ Len(granted[c]) \in Nat /\ Wanted(inbox, c) \in Nat
        /\ InHand(doing, c) \in 0 .. 1 /\ Left(strategy, specs, children, c) \in 0 .. 1
    BY Numbers DEF SupInv
  <2>2. Earned(c) /\ Granted(c)
    BY DEF SupInv
  <2>3. made[c] <= wished[c] + Len(granted[c])
    BY <2>1, <2>2 DEF Earned
  <2>4. QED
    BY <2>2, <2>3 DEF Granted
<1>6. S!RestartsEarned
  BY <1>2, <1>5 DEF S!RestartsEarned
<1>7. QED
  BY <1>4, <1>6 DEF S!ChildrenAsSpecified

-----------------------------------------------------------------------------
(* Sequences in order: of numbers, all or but for those of U, and by        *)
(* priority.                                                                *)
Below(x, y, U) == x < y \/ x \in U \/ y \in U
AscBut(q, U) == \A i, j \in DOMAIN q : i < j => Below(q[i], q[j], U)
Asc(q) == \A i, j \in DOMAIN q : i < j => q[i] < q[j]
Sorted(q, pr) == \A i, j \in DOMAIN q : i < j => pr[q[i]] <= pr[q[j]]

LEMMA ButAppend ==
  ASSUME NEW Z, NEW q \in Seq(Z), NEW e \in Z, NEW U, AscBut(q, U), \A x \in Elems(q) : Below(x, e, U)
  PROVE  AscBut(Append(q, e), U)
<1> DEFINE r == Append(q, e)
           n == Len(q)
<1>1. /\ n \in Nat /\ DOMAIN r = 1 .. n + 1 /\ DOMAIN q = 1 .. n
      /\ r[n + 1] = e /\ \A i \in 1 .. n : r[i] = q[i]
  BY AppendProperties, LenProperties
<1> HIDE DEF r, n
<1>2. ASSUME NEW i \in 1 .. n + 1, NEW j \in 1 .. n + 1, i < j PROVE Below(r[i], r[j], U)
  <2>1. i \in 1 .. n
    BY <1>1, <1>2
  <2>2. CASE j = n + 1
    BY <1>1, <2>1, <2>2 DEF Elems
  <2>3. CASE j \in 1 .. n
    BY <1>1, <1>2, <2>1, <2>3 DEF AscBut
  <2>4. QED
    BY <1>1, <2>2, <2>3
<1>3. QED
  BY <1>1, <1>2 DEF AscBut, r

LEMMA ButTail ==
  ASSUME NEW Z, NEW q \in Seq(Z), NEW U, q # <<>>, AscBut(q, U)
  PROVE  AscBut(Tail(q), U) /\ \A x \in Elems(Tail(q)) : Below(Head(q), x, U)
<1> DEFINE r == Tail(q)
           n == Len(r)
<1>1. /\ n \in Nat /\ DOMAIN r = 1 .. n /\ DOMAIN q = 1 .. n + 1
      /\ Head(q) = q[1] /\ \A i \in 1 .. n : r[i] = q[i + 1]
  BY HeadTailProperties, LenProperties
<1> HIDE DEF r, n
<1>2. 1 \in 1 .. n + 1 /\ \A i \in 1 .. n : i + 1 \in 1 .. n + 1 /\ 1 < i + 1
  BY <1>1
<1>3. ASSUME NEW i \in 1 .. n, NEW j \in 1 .. n, i < j PROVE Below(r[i], r[j], U)
  <2>1. i + 1 < j + 1
    BY <1>3
  <2>2. QED
    BY <1>1, <1>2, <2>1 DEF AscBut
<1>4. \A x \in Elems(r) : Below(Head(q), x, U)
  BY <1>1, <1>2 DEF AscBut, Elems
<1>5. QED
  BY <1>1, <1>3, <1>4 DEF AscBut, r

LEMMA ButConcat ==
  ASSUME NEW Z, NEW s \in Seq(Z), NEW t \in Seq(Z), NEW U, AscBut(s, U), AscBut(t, U),
         \A x \in Elems(s) : \A y \in Elems(t) : Below(x, y, U)
  PROVE  AscBut(s \o t, U)
<1> DEFINE r == s \o t
           m == Len(s)
           n == Len(t)
<1>1. /\ m \in Nat /\ n \in Nat /\ DOMAIN s = 1 .. m /\ DOMAIN t = 1 .. n /\ DOMAIN r = 1 .. m + n
      /\ \A i \in 1 .. m + n : r[i] = IF i <= m THEN s[i] ELSE t[i - m]
  BY ConcatProperties, LenProperties
<1> HIDE DEF r, m, n
<1>2. ASSUME NEW i \in 1 .. m + n, NEW j \in 1 .. m + n, i < j PROVE Below(r[i], r[j], U)
  <2>1. CASE j <= m
    <3>1. i \in 1 .. m /\ j \in 1 .. m /\ i <= m
      BY <1>1, <1>2, <2>1
    <3>2. QED
      BY <1>1, <1>2, <2>1, <3>1 DEF AscBut
  <2>2. CASE i <= m /\ ~ (j <= m)
    <3>1. i \in 1 .. m /\ j - m \in 1 .. n
      BY <1>1, <1>2, <2>2
    <3>2. s[i] \in Elems(s) /\ t[j - m] \in Elems(t)
      BY <1>1, <3>1 DEF Elems
    <3>3. QED
      BY <1>1, <2>2, <3>2
  <2>3. CASE ~ (i <= m)
    <3>1. i - m \in 1 .. n /\ j - m \in 1 .. n /\ i - m < j - m /\ ~ (j <= m)
      BY <1>1, <1>2, <2>3
    <3>2. QED
      BY <1>1, <2>3, <3>1 DEF AscBut
  <2>4. QED
    BY <2>1, <2>2, <2>3
<1>3. QED
  BY <1>1, <1>2 DEF AscBut, r

LEMMA ButCut ==
  ASSUME NEW Z, NEW q \in Seq(Z), NEW c \in 1 .. Len(q), NEW U, AscBut(q, U)
  PROVE  AscBut(Cut(q, c), U)
<1> DEFINE r == Cut(q, c)
           n == Len(q)
<1>1. n \in Nat /\ DOMAIN q = 1 .. n
  BY LenProperties
<1>2. /\ r \in Seq(Z) /\ Len(r) = n - 1
      /\ \A i \in 1 .. n - 1 : r[i] = IF i < c THEN q[i] ELSE q[i + 1]
  BY Removed
<1>3. DOMAIN r = 1 .. n - 1
  BY <1>2, LenProperties
<1>4. c \in 1 .. n
  OBVIOUS
<1> HIDE DEF r, n
<1>5. ASSUME NEW i \in 1 .. n - 1, NEW j \in 1 .. n - 1, i < j PROVE Below(r[i], r[j], U)
  <2>1. /\ i \in 1 .. n /\ i + 1 \in 1 .. n /\ j \in 1 .. n /\ j + 1 \in 1 .. n
        /\ i < j + 1 /\ i + 1 < j + 1 /\ (j < c => i < c)
    BY <1>1, <1>4, <1>5
  <2>2. r[i] = (IF i < c THEN q[i] ELSE q[i + 1]) /\ r[j] = IF j < c THEN q[j] ELSE q[j + 1]
    BY <1>2
  <2>3. QED
    BY <1>1, <1>5, <2>1, <2>2 DEF AscBut
<1>6. QED
  BY <1>3, <1>5 DEF AscBut, r

LEMMA AscIs == ASSUME NEW q PROVE Asc(q) <=> AscBut(q, {})
BY DEF Asc, AscBut, Below

LEMMA AscAppend ==
  ASSUME NEW Z, NEW q \in Seq(Z), NEW e \in Z, Asc(q), \A x \in Elems(q) : x < e
  PROVE  Asc(Append(q, e))
<1>1. AscBut(q, {}) /\ \A x \in Elems(q) : Below(x, e, {})
  BY AscIs DEF Below
<1>2. AscBut(Append(q, e), {})
  BY <1>1, ButAppend
<1>3. QED
  BY <1>2, AscIs

LEMMA AscTail ==
  ASSUME NEW Z, NEW q \in Seq(Z), q # <<>>, Asc(q)
  PROVE  Asc(Tail(q)) /\ \A x \in Elems(Tail(q)) : Head(q) < x
<1>1. AscBut(q, {})
  BY AscIs
<1>2. AscBut(Tail(q), {}) /\ \A x \in Elems(Tail(q)) : Below(Head(q), x, {})
  BY <1>1, ButTail
<1>3. QED
  BY <1>2, AscIs DEF Below

LEMMA AscConcat ==
  ASSUME NEW Z, NEW s \in Seq(Z), NEW t \in Seq(Z), Asc(s), Asc(t), \A x \in Elems(s) : \A y \in Elems(t) : x < y
  PROVE  Asc(s \o t)
<1>1. AscBut(s, {}) /\ AscBut(t, {}) /\ \A x \in Elems(s) : \A y \in Elems(t) : Below(x, y, {})
  BY AscIs DEF Below
<1>2. AscBut(s \o t, {})
  BY <1>1, ButConcat
<1>3. QED
  BY <1>2, AscIs

LEMMA SortedTail ==
  ASSUME NEW Z, NEW q \in Seq(Z), q # <<>>, NEW pr, Sorted(q, pr)
  PROVE  Sorted(Tail(q), pr)
<1> DEFINE r == Tail(q)
           n == Len(r)
<1>1. /\ n \in Nat /\ DOMAIN r = 1 .. n /\ DOMAIN q = 1 .. n + 1
      /\ \A i \in 1 .. n : r[i] = q[i + 1]
  BY HeadTailProperties, LenProperties
<1> HIDE DEF r, n
<1>2. ASSUME NEW i \in 1 .. n, NEW j \in 1 .. n, i < j PROVE pr[r[i]] <= pr[r[j]]
  <2>1. i + 1 \in 1 .. n + 1 /\ j + 1 \in 1 .. n + 1 /\ i + 1 < j + 1
    BY <1>1, <1>2
  <2>2. QED
    BY <1>1, <2>1 DEF Sorted
<1>3. QED
  BY <1>1, <1>2 DEF Sorted, r

(* q with e put behind its first k.                                         *)
Behind(q, k, e) == SubSeq(q, 1, k) \o <<e>> \o SubSeq(q, k + 1, Len(q))

LEMMA Inserted ==
  ASSUME NEW Z, NEW q \in Seq(Z), NEW k \in 0 .. Len(q), NEW e \in Z
  PROVE  /\ Behind(q, k, e) \in Seq(Z) /\ Len(Behind(q, k, e)) = Len(q) + 1
         /\ \A i \in 1 .. k : Behind(q, k, e)[i] = q[i]
         /\ Behind(q, k, e)[k + 1] = e
         /\ \A i \in k + 1 .. Len(q) : Behind(q, k, e)[i + 1] = q[i]
<1> DEFINE n == Len(q)
           u == SubSeq(q, 1, k)
           v == SubSeq(q, k + 1, n)
           o == <<e>>
           w == u \o o
           r == w \o v
<1>1. n \in Nat /\ k \in 0 .. n
  BY LenProperties
<1>2. /\ u \in Seq(Z) /\ Len(u) = k /\ \A i \in 1 .. k : u[i] = q[i]
      /\ v \in Seq(Z) /\ Len(v) = n - k /\ \A i \in 1 .. n - k : v[i] = q[k + i]
  BY <1>1, Parts
<1>3. Behind(q, k, e) = r
  BY DEF Behind
<1>4. o \in Seq(Z) /\ Len(o) = 1 /\ o[1] = e
  OBVIOUS
<1> HIDE DEF u, v, n, o
<1>5. /\ w \in Seq(Z) /\ Len(w) = k + 1
      /\ \A i \in 1 .. k + 1 : w[i] = IF i <= k THEN u[i] ELSE e
  <2>1. /\ w \in Seq(Z) /\ Len(w) = Len(u) + 1
        /\ \A i \in 1 .. Len(u) + 1 : w[i] = IF i <= Len(u) THEN u[i] ELSE o[i - Len(u)]
    <3>1. u \in Seq(Z) /\ o \in Seq(Z) /\ Len(o) = 1
      BY <1>2, <1>4
    <3> HIDE DEF w
    <3>2. /\ u \o o \in Seq(Z) /\ Len(u \o o) = Len(u) + Len(o)
          /\ \A i \in 1 .. Len(u) + Len(o) : (u \o o)[i] = IF i <= Len(u) THEN u[i] ELSE o[i - Len(u)]
      BY <3>1, ConcatProperties
    <3>3. QED
      BY <3>1, <3>2, Zenon DEF w
  <2>2. \A i \in 1 .. k + 1 : ~ (i <= k) => i - k = 1
    BY <1>1
  <2>3. QED
    BY <1>2, <1>4, <2>1, <2>2
<1> HIDE DEF w
<1>6. /\ r \in Seq(Z) /\ Len(r) = (k + 1) + (n - k)
      /\ \A i \in 1 .. (k + 1) + (n - k) : r[i] = IF i <= k + 1 THEN w[i] ELSE v[i - (k + 1)]
  <2>1. /\ w \o v \in Seq(Z) /\ Len(w \o v) = Len(w) + Len(v)
        /\ \A i \in 1 .. Len(w) + Len(v) : (w \o v)[i] = IF i <= Len(w) THEN w[i] ELSE v[i - Len(w)]
    <3>1. w \in Seq(Z) /\ v \in Seq(Z)
      BY <1>2, <1>5
    <3>2. QED
      BY <3>1, ConcatProperties
  <2>2. QED
    BY <1>2, <1>5, <2>1, Zenon
<1> HIDE DEF r
<1>7. ASSUME NEW i \in 1 .. n + 1 PROVE r[i] = IF i <= k THEN q[i] ELSE IF i = k + 1 THEN e ELSE q[i - 1]
  <2>1. i \in 1 .. (k + 1) + (n - k)
    BY <1>1
  <2>2. CASE i <= k + 1
    <3>1. i \in 1 .. k + 1 /\ (i <= k => i \in 1 .. k) /\ (~ (i <= k) => i = k + 1)
      BY <1>1, <2>2
    <3>2. QED
      BY <1>2, <1>5, <1>6, <2>1, <2>2, <3>1
  <2>3. CASE ~ (i <= k + 1)
    <3>1. i - (k + 1) \in 1 .. n - k /\ k + (i - (k + 1)) = i - 1 /\ ~ (i <= k) /\ i # k + 1
      BY <1>1, <2>3
    <3>2. r[i] = v[i - (k + 1)] /\ v[i - (k + 1)] = q[k + (i - (k + 1))]
      BY <1>2, <1>6, <2>1, <2>3, <3>1
    <3>3. QED
      BY <3>1, <3>2
  <2>4. QED
    BY <2>2, <2>3
<1>8. Len(r) = n + 1
  BY <1>1, <1>6
<1>9. \A i \in 1 .. k : i \in 1 .. n + 1 /\ i <= k
  BY <1>1
<1>10. k + 1 \in 1 .. n + 1 /\ ~ (k + 1 <= k)
  BY <1>1
<1>11. \A i \in k + 1 .. n : i + 1 \in 1 .. n + 1 /\ ~ (i + 1 <= k) /\ i + 1 # k + 1 /\ (i + 1) - 1 = i
  BY <1>1
<1>12. \A i \in 1 .. k : r[i] = q[i]
  BY <1>7, <1>9
<1>13. r[k + 1] = e
  BY <1>7, <1>10
<1>14. \A i \in k + 1 .. n : r[i + 1] = q[i]
  BY <1>7, <1>11
<1>15. QED
  BY <1>3, <1>6, <1>8, <1>12, <1>13, <1>14 DEF n

(* A message put behind none that is less urgent and before none that is    *)
(* more.                                                                    *)
Fits(q, k, p, pr) == (\A i \in 1 .. k : pr[q[i]] <= p) /\ \A i \in k + 1 .. Len(q) : p <= pr[q[i]]
Joins(m, p, q, pr, qr) ==
  (\A x \in Elems(q) : x # m /\ pr[x] \in Nat /\ qr[x] = pr[x]) /\ qr[m] = p

LEMMA HeapInsert ==
  ASSUME NEW Z \in SUBSET Nat, NEW q \in Seq(Z), NEW m \in Z, NEW p \in Nat, NEW pr, NEW qr,
         Sorted(q, pr), Distinct(q), Joins(m, p, q, pr, qr), NEW k \in 0 .. Len(q), Fits(q, k, p, pr)
  PROVE  /\ Behind(q, k, m) \in Seq(Z) /\ Len(Behind(q, k, m)) = Len(q) + 1
         /\ Elems(Behind(q, k, m)) = Elems(q) \cup {m}
         /\ Distinct(Behind(q, k, m)) /\ Sorted(Behind(q, k, m), qr)
<1> DEFINE n == Len(q)
           r == Behind(q, k, m)
<1>1. n \in Nat /\ DOMAIN q = 1 .. n /\ \A i \in 1 .. n : q[i] \in Z
  BY LenProperties, ElementOfSeq
<1>2. \A i \in 1 .. n : q[i] # m /\ pr[q[i]] \in Nat /\ qr[q[i]] = pr[q[i]]
  BY <1>1 DEF Elems, Joins
<1>3. \A i, j \in 1 .. n : i < j => q[i] # q[j]
  BY <1>1 DEF Distinct
<1>4. k \in 0 .. n
  OBVIOUS
<1>5. /\ \A i \in 1 .. k : pr[q[i]] <= p
      /\ \A i \in k + 1 .. n : p <= pr[q[i]]
  BY DEF Fits
<1>6. /\ r \in Seq(Z) /\ Len(r) = n + 1
      /\ \A i \in 1 .. k : r[i] = q[i]
      /\ r[k + 1] = m
      /\ \A i \in k + 1 .. n : r[i + 1] = q[i]
  <2> HIDE DEF r
  <2>1. Behind(q, k, m) \in Seq(Z)
    BY Inserted
  <2>2. Len(Behind(q, k, m)) = Len(q) + 1
    BY Inserted
  <2>3. \A i \in 1 .. k : Behind(q, k, m)[i] = q[i]
    BY Inserted
  <2>4. Behind(q, k, m)[k + 1] = m
    BY Inserted
  <2>5. \A i \in k + 1 .. Len(q) : Behind(q, k, m)[i + 1] = q[i]
    BY Inserted
  <2>6. QED
    BY <2>1, <2>2, <2>3, <2>4, <2>5 DEF r
<1> HIDE DEF r, n
<1>7. DOMAIN r = 1 .. n + 1
  BY <1>6, LenProperties
<1>8. \A i \in 1 .. n + 1 : \/ i \in 1 .. k /\ i \in 1 .. n /\ r[i] = q[i]
                            \/ i = k + 1 /\ r[i] = m
                            \/ i - 1 \in k + 1 .. n /\ i - 1 \in 1 .. n /\ r[i] = q[i - 1]
  <2> TAKE i \in 1 .. n + 1
  <2>1. CASE i <= k
    <3>1. i \in 1 .. k /\ i \in 1 .. n
      BY <1>1, <1>4, <2>1
    <3>2. QED
      BY <1>6, <3>1
  <2>2. CASE i = k + 1
    BY <1>6, <2>2
  <2>3. CASE i > k + 1
    <3>1. i - 1 \in k + 1 .. n /\ i - 1 \in 1 .. n /\ (i - 1) + 1 = i
      BY <1>1, <1>4, <2>3
    <3>2. r[(i - 1) + 1] = q[i - 1]
      BY <1>6, <3>1
    <3>3. QED
      BY <3>1, <3>2
  <2>4. QED
    BY <1>1, <1>4, <2>1, <2>2, <2>3
<1>9. Elems(r) = Elems(q) \cup {m}
  <2>1. ASSUME NEW x \in Elems(r) PROVE x \in Elems(q) \cup {m}
    <3>1. PICK i \in 1 .. n + 1 : x = r[i]
      BY <1>7 DEF Elems
    <3>2. QED
      BY <1>1, <1>8, <3>1 DEF Elems
  <2>2. ASSUME NEW i \in 1 .. n PROVE q[i] \in Elems(r)
    <3>1. CASE i \in 1 .. k
      <4>1. i \in 1 .. n + 1 /\ r[i] = q[i]
        BY <1>1, <1>6, <3>1
      <4>2. QED
        BY <1>7, <4>1 DEF Elems
    <3>2. CASE i \in k + 1 .. n
      <4>1. i + 1 \in 1 .. n + 1 /\ r[i + 1] = q[i]
        BY <1>1, <1>6, <3>2
      <4>2. QED
        BY <1>7, <4>1 DEF Elems
    <3>3. QED
      BY <1>1, <1>4, <3>1, <3>2
  <2>3. m \in Elems(r)
    <3>1. k + 1 \in 1 .. n + 1
      BY <1>1, <1>4
    <3>2. QED
      BY <1>6, <1>7, <3>1 DEF Elems
  <2>4. QED
    BY <1>1, <2>1, <2>2, <2>3 DEF Elems
<1>10. ASSUME NEW i \in 1 .. n + 1, NEW j \in 1 .. n + 1, i < j
       PROVE  qr[r[i]] <= qr[r[j]] /\ r[i] # r[j]
  <2>0. m \in Nat /\ p \in Nat /\ qr[m] = p
    BY DEF Joins
  <2>1. CASE i \in 1 .. k /\ i \in 1 .. n /\ r[i] = q[i]
    <3>0. q[i] # m /\ pr[q[i]] \in Nat /\ qr[q[i]] = pr[q[i]] /\ pr[q[i]] <= p
      BY <1>2, <1>5, <2>1
    <3>1. CASE j \in 1 .. k /\ j \in 1 .. n /\ r[j] = q[j]
      <4>1. pr[q[i]] <= pr[q[j]] /\ q[i] # q[j]
        BY <1>1, <1>3, <1>10, <2>1, <3>1 DEF Sorted
      <4>2. QED
        BY <1>2, <2>1, <3>0, <3>1, <4>1
    <3>2. CASE j = k + 1 /\ r[j] = m
      BY <2>0, <2>1, <3>0, <3>2
    <3>3. CASE j - 1 \in k + 1 .. n /\ j - 1 \in 1 .. n /\ r[j] = q[j - 1]
      <4>1. p <= pr[q[j - 1]] /\ pr[q[j - 1]] \in Nat /\ qr[q[j - 1]] = pr[q[j - 1]]
        BY <1>2, <1>5, <3>3
      <4>2. i < j - 1
        BY <1>1, <1>4, <2>1, <3>3
      <4>3. q[i] # q[j - 1]
        BY <1>3, <2>1, <3>3, <4>2
      <4>4. qr[q[i]] <= qr[q[j - 1]]
        BY <2>0, <3>0, <4>1
      <4>5. QED
        BY <2>1, <3>3, <4>3, <4>4
    <3>4. QED
      BY <1>8, <3>1, <3>2, <3>3
  <2>2. CASE i = k + 1 /\ r[i] = m
    <3>1. j - 1 \in k + 1 .. n /\ j - 1 \in 1 .. n /\ r[j] = q[j - 1]
      BY <1>1, <1>4, <1>8, <1>10, <2>2
    <3>2. p <= pr[q[j - 1]] /\ qr[q[j - 1]] = pr[q[j - 1]] /\ q[j - 1] # m
      BY <1>2, <1>5, <3>1
    <3>3. QED
      BY <2>0, <2>2, <3>1, <3>2
  <2>3. CASE i - 1 \in k + 1 .. n /\ i - 1 \in 1 .. n /\ r[i] = q[i - 1]
    <3>1. j - 1 \in 1 .. n /\ r[j] = q[j - 1] /\ i - 1 < j - 1
      <4>1. i > k + 1 /\ i < j /\ i \in Int /\ j \in Int /\ k \in Int
        BY <1>1, <1>4, <1>10, <2>3
      <4>2. ~ (j \in 1 .. k) /\ j # k + 1 /\ i - 1 < j - 1
        BY <4>1
      <4>3. QED
        BY <1>8, <4>2
    <3>2. pr[q[i - 1]] <= pr[q[j - 1]] /\ q[i - 1] # q[j - 1]
      BY <1>1, <1>3, <2>3, <3>1 DEF Sorted
    <3>3. qr[q[i - 1]] = pr[q[i - 1]] /\ qr[q[j - 1]] = pr[q[j - 1]]
      BY <1>2, <2>3, <3>1
    <3>4. QED
      BY <2>3, <3>1, <3>2, <3>3
  <2>4. QED
    BY <1>8, <2>1, <2>2, <2>3
<1>11. Sorted(r, qr)
  BY <1>7, <1>10 DEF Sorted
<1>12. Distinct(r)
  <2>1. ASSUME NEW i \in 1 .. n + 1, NEW j \in 1 .. n + 1, r[i] = r[j] PROVE i = j
    <3>1. ~ (i < j) /\ ~ (j < i)
      BY <1>10, <2>1
    <3>2. QED
      BY <3>1
  <2>2. QED
    BY <1>7, <2>1 DEF Distinct
<1>13. QED
  BY <1>6, <1>9, <1>11, <1>12 DEF r, n

-----------------------------------------------------------------------------
(* The mailboxes.  Every message up to the nth is in one place.             *)
Where == {"refused", "dropped", "blocked", "stash", "taken", "queue"}
In(X, f, n, place) == \A m : m \in X <=> m \in 1 .. n /\ f[m] = place
KeptAt(R, D, B, Z, T, Q, n, f, g) ==
  /\ f \in [1 .. n -> Where] /\ g \in [1 .. n -> Receivers]
  /\ In(R, f, n, "refused") /\ In(D, f, n, "dropped") /\ In(B, f, n, "blocked")
  /\ In(Z, f, n, "stash") /\ In(T, f, n, "taken")
  /\ \A w \in Receivers : \A m : m \in Q[w] <=> m \in 1 .. n /\ f[m] = "queue" /\ g[m] = w
Split(R, D, B, Z, T, Q, n) == \E f, g : KeptAt(R, D, B, Z, T, Q, n, f, g)

LEMMA SplitParts ==
  ASSUME NEW R, NEW D, NEW B, NEW Z, NEW T, NEW Q, NEW n, Split(R, D, B, Z, T, Q, n)
  PROVE  /\ R \cup D \cup B \cup Z \cup T \subseteq 1 .. n
         /\ \A w \in Receivers : Q[w] \subseteq 1 .. n
         /\ \A m \in 1 .. n : m \in R \cup D \cup B \cup Z \cup T \/ \E w \in Receivers : m \in Q[w]
         /\ \A m \in R : m \notin D \cup B \cup Z \cup T
         /\ \A m \in D : m \notin B \cup Z \cup T
         /\ \A m \in B : m \notin Z \cup T
         /\ \A m \in Z : m \notin T
         /\ \A w \in Receivers : \A m \in Q[w] :
              m \notin R \cup D \cup B \cup Z \cup T /\ \A v \in Receivers : m \in Q[v] => v = w
<1>0. PICK f, g : KeptAt(R, D, B, Z, T, Q, n, f, g)
  BY DEF Split
<1>1. /\ f \in [1 .. n -> Where] /\ g \in [1 .. n -> Receivers]
      /\ In(R, f, n, "refused") /\ In(D, f, n, "dropped") /\ In(B, f, n, "blocked")
      /\ In(Z, f, n, "stash") /\ In(T, f, n, "taken")
      /\ \A w \in Receivers : \A m : m \in Q[w] <=> m \in 1 .. n /\ f[m] = "queue" /\ g[m] = w
  BY <1>0 DEF KeptAt
<1>2. \A m \in 1 .. n : f[m] \in Where /\ g[m] \in Receivers
  BY <1>1
<1>3. QED
  BY <1>1, <1>2 DEF In, Where

Shift(X, Moving, here) == (X \ Moving) \cup (IF here THEN Moving ELSE {})

(* A set of messages, or the next one, is moved to a place.                 *)
LEMMA Moved ==
  ASSUME NEW R, NEW D, NEW B, NEW Z, NEW T, NEW Q, NEW n \in Nat, Split(R, D, B, Z, T, Q, n),
         NEW Moving, NEW place \in Where, NEW box \in Receivers, NEW k \in {n, n + 1},
         IF k = n THEN Moving \subseteq 1 .. n ELSE Moving = {n + 1},
         NEW Q1, \A w \in Receivers : Q1[w] = Shift(Q[w], Moving, place = "queue" /\ w = box)
  PROVE  Split(Shift(R, Moving, place = "refused"), Shift(D, Moving, place = "dropped"),
               Shift(B, Moving, place = "blocked"), Shift(Z, Moving, place = "stash"),
               Shift(T, Moving, place = "taken"), Q1, k)
<1>0. PICK f, g : KeptAt(R, D, B, Z, T, Q, n, f, g)
  BY DEF Split
<1>1. /\ f \in [1 .. n -> Where] /\ g \in [1 .. n -> Receivers]
      /\ In(R, f, n, "refused") /\ In(D, f, n, "dropped") /\ In(B, f, n, "blocked")
      /\ In(Z, f, n, "stash") /\ In(T, f, n, "taken")
      /\ \A w \in Receivers : \A m : m \in Q[w] <=> m \in 1 .. n /\ f[m] = "queue" /\ g[m] = w
  BY <1>0 DEF KeptAt
<1> DEFINE h == [m \in 1 .. k |-> IF m \in Moving THEN place ELSE f[m]]
           b == [m \in 1 .. k |-> IF m \in Moving THEN box ELSE g[m]]
<1>2. \A m : m \in 1 .. k <=> m \in 1 .. n \/ m \in Moving
  <2>1. CASE k = n
    BY <2>1
  <2>2. CASE k = n + 1
    <3>1. Moving = {n + 1}
      BY <2>2
    <3>2. QED
      BY <2>2, <3>1
  <2>3. QED
    BY <2>1, <2>2
<1>3. \A m \in 1 .. n : f[m] \in Where /\ g[m] \in Receivers
  BY <1>1
<1>4. /\ h \in [1 .. k -> Where] /\ b \in [1 .. k -> Receivers]
      /\ \A m \in 1 .. k : /\ m \in Moving => h[m] = place /\ b[m] = box
                           /\ m \notin Moving => m \in 1 .. n /\ h[m] = f[m] /\ b[m] = g[m]
  BY <1>2, <1>3
<1> HIDE DEF h, b
<1>5. ASSUME NEW X, NEW p, In(X, f, n, p) PROVE In(Shift(X, Moving, place = p), h, k, p)
  BY <1>2, <1>4, <1>5 DEF In, Shift
<1>6. /\ In(Shift(R, Moving, place = "refused"), h, k, "refused")
      /\ In(Shift(D, Moving, place = "dropped"), h, k, "dropped")
      /\ In(Shift(B, Moving, place = "blocked"), h, k, "blocked")
      /\ In(Shift(Z, Moving, place = "stash"), h, k, "stash")
      /\ In(Shift(T, Moving, place = "taken"), h, k, "taken")
  BY <1>1, <1>5
<1>7. \A w \in Receivers : \A m : m \in Q1[w] <=> m \in 1 .. k /\ h[m] = "queue" /\ b[m] = w
  BY <1>1, <1>2, <1>4 DEF Shift
<1>8. QED
  <2>1. KeptAt(Shift(R, Moving, place = "refused"), Shift(D, Moving, place = "dropped"),
               Shift(B, Moving, place = "blocked"), Shift(Z, Moving, place = "stash"),
               Shift(T, Moving, place = "taken"), Q1, k, h, b)
    BY <1>4, <1>6, <1>7 DEF KeptAt
  <2>2. QED
    BY <2>1 DEF Split

(* The first of a queue is dropped and the next message put into the queue. *)
Adds(Y, X, m) == \A x : x \in Y <=> x \in X \/ x = m
Replaces(Q1, Q, box, e, k) ==
  /\ e \in Q[box]
  /\ \A w \in Receivers : Q1[w] = IF w = box THEN (Q[w] \ {e}) \cup {k} ELSE Q[w]
LEMMA Replaced ==
  ASSUME NEW R, NEW D, NEW B, NEW Z, NEW T, NEW Q, NEW n \in Nat, Split(R, D, B, Z, T, Q, n),
         NEW box \in Receivers, NEW e, NEW k \in {n, n + 1}, k # n, NEW D1, Adds(D1, D, e),
         NEW Q1, Replaces(Q1, Q, box, e, k)
  PROVE  Split(R, D1, B, Z, T, Q1, k)
<1>0. PICK f, g : KeptAt(R, D, B, Z, T, Q, n, f, g)
  BY DEF Split
<1>1. /\ f \in [1 .. n -> Where] /\ g \in [1 .. n -> Receivers]
      /\ In(R, f, n, "refused") /\ In(D, f, n, "dropped") /\ In(B, f, n, "blocked")
      /\ In(Z, f, n, "stash") /\ In(T, f, n, "taken")
      /\ \A w \in Receivers : \A m : m \in Q[w] <=> m \in 1 .. n /\ f[m] = "queue" /\ g[m] = w
  BY <1>0 DEF KeptAt
<1> DEFINE h == [m \in 1 .. k |-> IF m = k THEN "queue" ELSE IF m = e THEN "dropped" ELSE f[m]]
           b == [m \in 1 .. k |-> IF m = k THEN box ELSE g[m]]
<1>2. \A m : m \in 1 .. k <=> m \in 1 .. n \/ m = k
  <2>1. k = n + 1
    OBVIOUS
  <2>2. QED
    BY <2>1
<1>3. (\A m \in 1 .. n : f[m] \in Where /\ g[m] \in Receivers) /\ k \notin 1 .. n
  BY <1>1
<1>4. e \in 1 .. n /\ f[e] = "queue" /\ g[e] = box
  BY <1>1 DEF Replaces
<1>5. /\ h \in [1 .. k -> Where] /\ b \in [1 .. k -> Receivers]
      /\ h[k] = "queue" /\ b[k] = box
      /\ h[e] = "dropped"
      /\ \A m \in 1 .. n : b[m] = g[m] /\ (m # e => h[m] = f[m])
  BY <1>2, <1>3, <1>4 DEF Where
<1> HIDE DEF h, b
<1>6. ASSUME NEW X, NEW p \in {"refused", "blocked", "stash", "taken"}, In(X, f, n, p)
      PROVE  In(X, h, k, p)
  BY <1>2, <1>3, <1>4, <1>5, <1>6 DEF In
<1>7. /\ In(R, h, k, "refused") /\ In(B, h, k, "blocked")
      /\ In(Z, h, k, "stash") /\ In(T, h, k, "taken")
  BY <1>1, <1>6
<1>8. In(D1, h, k, "dropped")
  BY <1>1, <1>2, <1>3, <1>4, <1>5 DEF In, Adds
<1>9. ASSUME NEW w \in Receivers, NEW m
      PROVE  m \in Q1[w] <=> m \in 1 .. k /\ h[m] = "queue" /\ b[m] = w
  <2>1. m \in Q1[w] <=> (w = box /\ m = k) \/ (m \in Q[w] /\ (w = box => m # e))
    BY DEF Replaces
  <2>2. e \in Q[w] => w = box
    BY <1>1, <1>4
  <2>3. CASE m = k
    BY <1>1, <1>2, <1>3, <1>5, <2>1, <2>3
  <2>4. CASE m = e
    BY <1>3, <1>4, <1>5, <2>1, <2>2, <2>4
  <2>5. CASE m # k /\ m # e
    BY <1>1, <1>2, <1>5, <2>1, <2>5
  <2>6. QED
    BY <2>3, <2>4, <2>5
<1>10. \A w \in Receivers : \A m : m \in Q1[w] <=> m \in 1 .. k /\ h[m] = "queue" /\ b[m] = w
  BY <1>9
<1>11. h \in [1 .. k -> Where] /\ b \in [1 .. k -> Receivers]
  BY <1>5
<1>12. QED
  <2>1. KeptAt(R, D1, B, Z, T, Q1, k, h, b)
    BY <1>7, <1>8, <1>10, <1>11 DEF KeptAt
  <2>2. QED
    BY <2>1 DEF Split

Messages == 1 .. MaxMail
Queued == [w \in Receivers |-> Elems(mail[w])]

MailType ==
  /\ kind \in M!Kinds /\ sent \in 0 .. MaxMail
  /\ mail \in [Receivers -> Seq(Messages)] /\ stash \in Seq(Messages) /\ taken \in Seq(Messages)
  /\ priority \in [Messages -> Nat]
  /\ held \subseteq Elems(taken)
  /\ kind # "block" => blocked = {}
  /\ kind # "stash" => stash = <<>>

Once ==
  /\ Split(refused, dropped, blocked, Elems(stash), Elems(taken), Queued, sent)
  /\ Distinct(stash) /\ Distinct(taken) /\ \A w \in Receivers : Distinct(mail[w])

(* The order that each class keeps, in its queue and of what was taken to   *)
(* what is queued.                                                          *)
Fifo == {"drop_new", "drop_old", "unbounded"}
First == mail[M!Shared]
Before(X, Y) == \A x \in X : \A y \in Y : x < y
FifoInv == kind \in Fifo => Asc(taken) /\ Asc(First) /\ Before(Elems(taken), Elems(First))
SharesInv == kind = "balancing" => \A w \in Receivers : Asc(mail[w])
HeapInv == kind = "priority" => Sorted(First, priority)
StashInv ==
  kind = "stash" =>
    /\ AscBut(taken, unstashed) /\ AscBut(First, unstashed)
    /\ \A x \in Elems(taken) : \A y \in Elems(First) : Below(x, y, unstashed)
DroppedInv == kind = "drop_old" => Before(dropped, Elems(First))
RoomInv == kind \in M!Bounded \cup {"priority"} => Len(First) <= MailRoom

MailInv == MailType /\ Once /\ FifoInv /\ SharesInv /\ HeapInv /\ StashInv /\ DroppedInv /\ RoomInv

LEMMA SharedIs == M!Shared \in Receivers
BY ActorsAssumption DEF M!Shared

LEMMA MailFacts ==
  ASSUME MailInv
  PROVE  /\ sent \in Nat /\ MaxMail \in Nat /\ sent <= MaxMail
         /\ First \in Seq(Messages) /\ Len(First) \in Nat
         /\ \A w \in Receivers : mail[w] \in Seq(Messages) /\ Elems(mail[w]) \subseteq 1 .. sent
         /\ refused \cup dropped \cup blocked \cup Elems(stash) \cup Elems(taken) \subseteq 1 .. sent
         /\ Elems(First) \subseteq 1 .. sent
         /\ 1 .. sent \subseteq Messages
         /\ Messages \subseteq Nat
<1>1. sent \in Nat /\ MaxMail \in Nat /\ sent <= MaxMail
  BY ActorsAssumption DEF MailInv, MailType
<1>2. \A w \in Receivers : mail[w] \in Seq(Messages)
  BY DEF MailInv, MailType
<1>3. First \in Seq(Messages) /\ Len(First) \in Nat
  BY <1>2, SharedIs, LenProperties DEF First
<1>4. /\ refused \cup dropped \cup blocked \cup Elems(stash) \cup Elems(taken) \subseteq 1 .. sent
      /\ \A w \in Receivers : Queued[w] \subseteq 1 .. sent
  BY SplitParts DEF MailInv, Once
<1>5. \A w \in Receivers : Elems(mail[w]) \subseteq 1 .. sent
  BY <1>4 DEF Queued
<1>6. Elems(First) \subseteq 1 .. sent
  BY <1>5, SharedIs DEF First
<1>7. 1 .. sent \subseteq Messages /\ Messages \subseteq Nat
  BY <1>1 DEF Messages
<1>8. QED
  BY <1>1, <1>2, <1>3, <1>4, <1>5, <1>6, <1>7

Moves(X, place, box) ==
  /\ refused' = Shift(refused, X, place = "refused")
  /\ dropped' = Shift(dropped, X, place = "dropped")
  /\ blocked' = Shift(blocked, X, place = "blocked")
  /\ Elems(stash') = Shift(Elems(stash), X, place = "stash")
  /\ Elems(taken') = Shift(Elems(taken), X, place = "taken")
  /\ \A w \in Receivers : Elems(mail'[w]) = Shift(Elems(mail[w]), X, place = "queue" /\ w = box)
Comes(X) == (sent' = sent /\ X \subseteq 1 .. sent) \/ (sent' = sent + 1 /\ X = {sent + 1})

LEMMA KeptMoved ==
  ASSUME MailInv, NEW X, NEW place \in Where, NEW box \in Receivers, Comes(X), Moves(X, place, box)
  PROVE  Split(refused', dropped', blocked', Elems(stash'), Elems(taken'), Queued', sent')
<1>1. sent \in Nat /\ sent' \in {sent, sent + 1} /\ IF sent' = sent THEN X \subseteq 1 .. sent ELSE X = {sent + 1}
  BY MailFacts DEF Comes
<1>2. \A w \in Receivers : Queued'[w] = Shift(Queued[w], X, place = "queue" /\ w = box)
  BY DEF Queued, Moves
<1>3. Split(refused, dropped, blocked, Elems(stash), Elems(taken), Queued, sent)
  BY DEF MailInv, Once
<1> DEFINE Q1 == Queued'
           k == sent'
<1>4. /\ \A w \in Receivers : Q1[w] = Shift(Queued[w], X, place = "queue" /\ w = box)
      /\ k \in {sent, sent + 1} /\ IF k = sent THEN X \subseteq 1 .. sent ELSE X = {sent + 1}
  BY <1>1, <1>2
<1> HIDE DEF Q1, k
<1>5. Split(Shift(refused, X, place = "refused"), Shift(dropped, X, place = "dropped"),
            Shift(blocked, X, place = "blocked"), Shift(Elems(stash), X, place = "stash"),
            Shift(Elems(taken), X, place = "taken"), Q1, k)
  BY <1>1, <1>3, <1>4, Moved
<1>6. QED
  BY <1>5 DEF Q1, k, Moves

LEMMA MailUnchanged ==
  ASSUME MailInv, UNCHANGED <<kind, mail, priority, blocked, stash, sent, refused, dropped, taken, unstashed>>,
         held' \subseteq held
  PROVE  MailInv'
<1>1. MailType'
  BY DEF MailInv, MailType
<1>2. Once'
  BY DEF MailInv, Once, Queued
<1>3. FifoInv' /\ SharesInv' /\ HeapInv' /\ StashInv' /\ DroppedInv' /\ RoomInv'
  BY DEF MailInv, FifoInv, SharesInv, HeapInv, StashInv, DroppedInv, RoomInv, First
<1>4. QED
  BY <1>1, <1>2, <1>3 DEF MailInv

(* A message goes to the end of a queue.                                    *)
LEMMA Entered ==
  ASSUME MailInv, NEW w \in Receivers, NEW m \in Messages, M!Put(w, m)
  PROVE  /\ mail' \in [Receivers -> Seq(Messages)]
         /\ \A v \in Receivers \ {w} : mail'[v] = mail[v]
         /\ Elems(mail'[w]) = Elems(mail[w]) \cup {m}
         /\ Len(mail'[w]) = Len(mail[w]) + 1
         /\ m \notin Elems(mail[w]) => Distinct(mail'[w])
         /\ Asc(mail[w]) /\ (\A x \in Elems(mail[w]) : x < m) => Asc(mail'[w])
         /\ AscBut(mail[w], unstashed) /\ (\A x \in Elems(mail[w]) : x < m) => AscBut(mail'[w], unstashed)
<1>1. mail[w] \in Seq(Messages) /\ Distinct(mail[w]) /\ mail \in [Receivers -> Seq(Messages)]
  BY DEF MailInv, MailType, Once
<1>2. mail' = [mail EXCEPT ![w] = Append(mail[w], m)]
  BY DEF M!Put
<1>3. Append(mail[w], m) \in Seq(Messages)
  BY <1>1, DistinctAppend
<1>4. /\ mail' \in [Receivers -> Seq(Messages)] /\ mail'[w] = Append(mail[w], m)
      /\ \A v \in Receivers \ {w} : mail'[v] = mail[v]
  BY <1>1, <1>2, <1>3
<1>5. /\ Elems(mail'[w]) = Elems(mail[w]) \cup {m} /\ Len(mail'[w]) = Len(mail[w]) + 1
      /\ m \notin Elems(mail[w]) => Distinct(mail'[w])
  BY <1>1, <1>4, DistinctAppend
<1>6. Asc(mail[w]) /\ (\A x \in Elems(mail[w]) : x < m) => Asc(mail'[w])
  BY <1>1, <1>4, AscAppend
<1>7. ASSUME AscBut(mail[w], unstashed), \A x \in Elems(mail[w]) : x < m PROVE AscBut(mail'[w], unstashed)
  <2>1. \A x \in Elems(mail[w]) : Below(x, m, unstashed)
    BY <1>7 DEF Below
  <2>2. AscBut(Append(mail[w], m), unstashed)
    BY <1>1, <1>7, <2>1, ButAppend
  <2>3. QED
    BY <1>4, <2>2
<1>8. QED
  BY <1>4, <1>5, <1>6, <1>7

(* The first of a queue is taken out of it.                                 *)
LEMMA TakenOut ==
  ASSUME MailInv, NEW w \in Receivers, mail[w] # <<>>, mail' = [mail EXCEPT ![w] = Tail(@)]
  PROVE  /\ mail' \in [Receivers -> Seq(Messages)]
         /\ \A v \in Receivers \ {w} : mail'[v] = mail[v]
         /\ Head(mail[w]) \in Elems(mail[w]) /\ Head(mail[w]) \in Messages
         /\ Elems(mail'[w]) = Elems(mail[w]) \ {Head(mail[w])}
         /\ Len(mail'[w]) = Len(mail[w]) - 1 /\ Distinct(mail'[w])
         /\ Asc(mail[w]) => Asc(mail'[w]) /\ \A x \in Elems(mail'[w]) : Head(mail[w]) < x
         /\ AscBut(mail[w], unstashed) =>
              AscBut(mail'[w], unstashed) /\ \A x \in Elems(mail'[w]) : Below(Head(mail[w]), x, unstashed)
         /\ Sorted(mail[w], priority) => Sorted(mail'[w], priority)
<1>1. mail[w] \in Seq(Messages) /\ Distinct(mail[w]) /\ mail \in [Receivers -> Seq(Messages)]
  BY DEF MailInv, MailType, Once
<1>2. /\ Tail(mail[w]) \in Seq(Messages) /\ Head(mail[w]) \in Elems(mail[w])
      /\ Len(Tail(mail[w])) = Len(mail[w]) - 1
      /\ Elems(mail[w]) = Elems(Tail(mail[w])) \cup {Head(mail[w])}
      /\ Distinct(Tail(mail[w])) /\ Head(mail[w]) \notin Elems(Tail(mail[w]))
  BY <1>1, DistinctTail
<1>3. Head(mail[w]) \in Messages
  BY <1>1, HeadTailProperties
<1>4. /\ mail' \in [Receivers -> Seq(Messages)] /\ mail'[w] = Tail(mail[w])
      /\ \A v \in Receivers \ {w} : mail'[v] = mail[v]
  BY <1>1, <1>2
<1>5. Asc(mail[w]) => Asc(Tail(mail[w])) /\ \A x \in Elems(Tail(mail[w])) : Head(mail[w]) < x
  BY <1>1, AscTail
<1>6. AscBut(mail[w], unstashed) =>
        /\ AscBut(Tail(mail[w]), unstashed)
        /\ \A x \in Elems(Tail(mail[w])) : Below(Head(mail[w]), x, unstashed)
  BY <1>1, ButTail
<1>7. Sorted(mail[w], priority) => Sorted(Tail(mail[w]), priority)
  BY <1>1, SortedTail
<1>8. QED
  BY <1>2, <1>3, <1>4, <1>5, <1>6, <1>7

LEMMA RefuseStep ==
  ASSUME MailInv, M!Call, M!Refuse, UNCHANGED <<kind, stash, taken, held, unstashed>>
  PROVE  MailInv'
<1>1. /\ sent' = sent + 1 /\ sent < MaxMail /\ refused' = refused \cup {sent + 1}
      /\ UNCHANGED <<mail, priority, blocked, dropped, kind, stash, taken, held, unstashed>>
  BY DEF M!Call, M!Refuse, M!New
<1>2. MailType'
  BY <1>1, MailFacts DEF MailInv, MailType
<1>3. Once'
  <2> DEFINE X == {sent + 1}
  <2>1. sent + 1 \notin 1 .. sent
    BY MailFacts
  <2>2. /\ sent + 1 \notin refused \cup dropped \cup blocked \cup Elems(stash) \cup Elems(taken)
        /\ \A w \in Receivers : sent + 1 \notin Elems(mail[w])
    BY <2>1, MailFacts
  <2>3. /\ refused' = Shift(refused, X, "refused" = "refused")
        /\ dropped' = Shift(dropped, X, "refused" = "dropped")
        /\ blocked' = Shift(blocked, X, "refused" = "blocked")
        /\ Elems(stash') = Shift(Elems(stash), X, "refused" = "stash")
        /\ Elems(taken') = Shift(Elems(taken), X, "refused" = "taken")
        /\ \A w \in Receivers : Elems(mail'[w]) = Shift(Elems(mail[w]), X, "refused" = "queue" /\ w = M!Shared)
    BY <1>1, <2>2 DEF Shift
  <2>4. sent' = sent + 1 /\ X = {sent + 1} /\ "refused" \in Where /\ M!Shared \in Receivers
    BY <1>1, SharedIs DEF Where
  <2> HIDE DEF X
  <2>m. Moves(X, "refused", M!Shared) /\ Comes(X)
    BY <2>3, <2>4 DEF Moves, Comes
  <2>5. Split(refused', dropped', blocked', Elems(stash'), Elems(taken'), Queued', sent')
    BY <2>4, <2>m, KeptMoved
  <2>6. QED
    BY <1>1, <2>5 DEF MailInv, Once
<1>4. FifoInv' /\ SharesInv' /\ HeapInv' /\ StashInv' /\ DroppedInv' /\ RoomInv'
  BY <1>1 DEF MailInv, FifoInv, SharesInv, HeapInv, StashInv, DroppedInv, RoomInv, First
<1>5. QED
  BY <1>2, <1>3, <1>4 DEF MailInv

LEMMA AcceptStep ==
  ASSUME MailInv, M!Call, NEW w \in Receivers, M!Accept(w), UNCHANGED <<kind, stash, taken, held, unstashed>>,
         kind # "priority", kind = "balancing" \/ w = M!Shared, kind \in M!Bounded => ~ M!Full
  PROVE  MailInv'
<1> DEFINE new == sent + 1
<1>1. /\ sent' = new /\ sent < MaxMail /\ M!Put(w, new)
      /\ UNCHANGED <<priority, blocked, refused, dropped, kind, stash, taken, held, unstashed>>
  BY DEF M!Call, M!Accept, M!New
<1>2. new \in Messages /\ new \notin 1 .. sent /\ \A x \in 1 .. sent : x < new
  BY <1>1, MailFacts DEF Messages
<1>3. /\ new \notin refused \cup dropped \cup blocked \cup Elems(stash) \cup Elems(taken)
      /\ \A v \in Receivers : new \notin Elems(mail[v]) /\ \A x \in Elems(mail[v]) : x < new
      /\ \A x \in dropped \cup Elems(taken) : x < new
  BY <1>2, MailFacts
<1> HIDE DEF new
<1>4. /\ mail' \in [Receivers -> Seq(Messages)]
      /\ \A v \in Receivers \ {w} : mail'[v] = mail[v]
      /\ Elems(mail'[w]) = Elems(mail[w]) \cup {new} /\ Len(mail'[w]) = Len(mail[w]) + 1
      /\ Distinct(mail'[w])
      /\ Asc(mail[w]) => Asc(mail'[w])
      /\ AscBut(mail[w], unstashed) => AscBut(mail'[w], unstashed)
  BY <1>1, <1>2, <1>3, Entered
<1>5. MailType'
  <2>1. sent' \in 0 .. MaxMail
    BY <1>1, MailFacts DEF new
  <2>2. QED
    BY <1>1, <1>4, <2>1 DEF MailInv, MailType
<1>6. Once'
  <2> DEFINE X == {new}
  <2>3. /\ refused' = Shift(refused, X, "queue" = "refused")
        /\ dropped' = Shift(dropped, X, "queue" = "dropped")
        /\ blocked' = Shift(blocked, X, "queue" = "blocked")
        /\ Elems(stash') = Shift(Elems(stash), X, "queue" = "stash")
        /\ Elems(taken') = Shift(Elems(taken), X, "queue" = "taken")
    BY <1>1, <1>3 DEF Shift
  <2>4. ASSUME NEW v \in Receivers
        PROVE  Elems(mail'[v]) = Shift(Elems(mail[v]), X, "queue" = "queue" /\ v = w)
    BY <1>3, <1>4 DEF Shift
  <2>5. sent' = sent + 1 /\ X = {sent + 1} /\ "queue" \in Where
    BY <1>1 DEF Where, new
  <2> HIDE DEF X
  <2>m. Moves(X, "queue", w) /\ Comes(X)
    BY <2>3, <2>4, <2>5 DEF Moves, Comes
  <2>6. Split(refused', dropped', blocked', Elems(stash'), Elems(taken'), Queued', sent')
    BY <2>5, <2>m, KeptMoved
  <2>7. \A v \in Receivers : Distinct(mail'[v])
    BY <1>4 DEF MailInv, Once
  <2>8. QED
    BY <1>1, <2>6, <2>7 DEF MailInv, Once
<1>7. SharesInv'
  BY <1>1, <1>4 DEF MailInv, SharesInv
<1>8. FifoInv' /\ StashInv' /\ DroppedInv' /\ RoomInv'
  <2>1. CASE w = M!Shared
    <3>1. /\ First = mail[w] /\ First' = mail'[w] /\ Len(First) \in Nat
      BY <2>1, MailFacts DEF First
    <3>2. FifoInv' /\ DroppedInv'
      BY <1>1, <1>3, <1>4, <3>1 DEF MailInv, FifoInv, DroppedInv, Before
    <3>3. RoomInv'
      <4>1. kind \in M!Bounded => Len(First) < MailRoom
        BY <2>1, <3>1, ActorsAssumption DEF M!Full, First
      <4>2. kind \in M!Bounded => Len(First') <= MailRoom
        BY <1>4, <3>1, <4>1, ActorsAssumption
      <4>3. QED
        BY <1>1, <4>2 DEF RoomInv
    <3>4. StashInv'
      <4>1. ASSUME kind = "stash"
            PROVE  /\ AscBut(taken, unstashed) /\ AscBut(First', unstashed)
                   /\ \A x \in Elems(taken) : \A y \in Elems(First') : Below(x, y, unstashed)
        <5>1. /\ AscBut(taken, unstashed) /\ AscBut(First, unstashed)
              /\ \A x \in Elems(taken) : \A y \in Elems(First) : Below(x, y, unstashed)
          BY <4>1 DEF MailInv, StashInv
        <5>2. \A x \in Elems(taken) : Below(x, new, unstashed)
          BY <1>3 DEF Below
        <5>3. QED
          BY <1>4, <3>1, <5>1, <5>2
      <4>2. QED
        BY <1>1, <4>1 DEF StashInv
    <3>5. QED
      BY <3>2, <3>3, <3>4
  <2>2. CASE kind = "balancing"
    BY <1>1, <2>2 DEF FifoInv, StashInv, DroppedInv, RoomInv, Fifo, M!Bounded
  <2>3. QED
    BY <2>1, <2>2
<1>9. HeapInv'
  BY <1>1 DEF HeapInv
<1>10. QED
  BY <1>5, <1>6, <1>7, <1>8, <1>9 DEF MailInv

LEMMA DropOldStep ==
  ASSUME MailInv, M!Call, kind = "drop_old", M!Full,
         mail' = [mail EXCEPT ![M!Shared] = Append(Tail(@), M!New)],
         dropped' = dropped \cup {Head(mail[M!Shared])},
         UNCHANGED <<priority, blocked, refused, kind, stash, taken, held, unstashed>>
  PROVE  MailInv'
<1> DEFINE new == sent + 1
           s == M!Shared
           h == Head(mail[s])
           t == Tail(mail[s])
<1>1. /\ sent' = new /\ sent < MaxMail /\ s \in Receivers
      /\ mail' = [mail EXCEPT ![s] = Append(t, new)] /\ dropped' = dropped \cup {h}
  BY SharedIs DEF M!Call, M!New
<1>2. /\ new \in Messages /\ new \notin 1 .. sent /\ \A x \in 1 .. sent : x < new
  BY <1>1, MailFacts DEF Messages
<1>3. mail[s] # <<>>
  <2>1. mail[s] \in Seq(Messages) /\ MailRoom > 0 /\ Len(mail[s]) >= MailRoom
    BY <1>1, MailFacts, ActorsAssumption DEF M!Full
  <2>2. Len(mail[s]) # 0
    BY <2>1, LenProperties, ActorsAssumption
  <2>3. QED
    BY <2>2, EmptySeq
<1>4. mail[s] \in Seq(Messages) /\ Distinct(mail[s]) /\ mail \in [Receivers -> Seq(Messages)]
  BY <1>1 DEF MailInv, MailType, Once
<1>5. /\ t \in Seq(Messages) /\ h \in Elems(mail[s]) /\ Len(t) = Len(mail[s]) - 1
      /\ Elems(mail[s]) = Elems(t) \cup {h} /\ Distinct(t) /\ h \notin Elems(t)
  BY <1>3, <1>4, DistinctTail
<1>6. Asc(mail[s]) => Asc(t) /\ \A x \in Elems(t) : h < x
  BY <1>3, <1>4, AscTail
<1>7. /\ new \notin refused \cup dropped \cup blocked \cup Elems(stash) \cup Elems(taken)
      /\ \A v \in Receivers : new \notin Elems(mail[v])
      /\ \A x \in Elems(mail[s]) \cup dropped \cup Elems(taken) : x < new
  BY <1>1, <1>2, MailFacts
<1> HIDE DEF h, t, new, s
<1>8. /\ Append(t, new) \in Seq(Messages) /\ Len(Append(t, new)) = Len(t) + 1
      /\ Elems(Append(t, new)) = Elems(t) \cup {new}
      /\ Distinct(Append(t, new))
  <2>1. new \notin Elems(t)
    BY <1>1, <1>5, <1>7
  <2>2. QED
    BY <1>2, <1>5, <2>1, DistinctAppend
<1>9. Asc(t) => Asc(Append(t, new))
  BY <1>2, <1>5, <1>7, AscAppend
<1>10. /\ mail' \in [Receivers -> Seq(Messages)] /\ mail'[s] = Append(t, new)
       /\ \A v \in Receivers \ {s} : mail'[v] = mail[v]
  BY <1>1, <1>4, <1>8
<1>11. Len(mail[s]) \in Nat /\ Len(mail'[s]) = Len(mail[s])
  BY <1>1, <1>4, <1>5, <1>8, <1>10, LenProperties
<1>12. MailType'
  <2>1. sent' \in 0 .. MaxMail
    BY <1>1, MailFacts DEF new
  <2>2. QED
    BY <1>10, <2>1 DEF MailInv, MailType
<1>13. Once'
  <2>1. Split(refused, dropped, blocked, Elems(stash), Elems(taken), Queued, sent) /\ sent \in Nat
    BY MailFacts DEF MailInv, Once
  <2>2. h \in Queued[s] /\ s \in Receivers
    BY <1>1, <1>5 DEF Queued
  <2>3. Elems(mail'[s]) = (Elems(mail[s]) \ {h}) \cup {new}
    BY <1>5, <1>8, <1>10
  <2>4. \A w \in Receivers : Queued'[w] = IF w = s THEN (Queued[w] \ {h}) \cup {new} ELSE Queued[w]
    BY <1>10, <2>3 DEF Queued
  <2> DEFINE Q1 == Queued'
             D1 == dropped'
  <2>5. Replaces(Q1, Queued, s, h, new) /\ Adds(D1, dropped, h)
    BY <1>1, <2>2, <2>4 DEF Replaces, Adds
  <2>6. new \in {sent, sent + 1} /\ new # sent
    BY <2>1 DEF new
  <2> HIDE DEF Q1, D1
  <2>7. Split(refused, D1, blocked, Elems(stash), Elems(taken), Q1, new)
    BY <2>1, <2>2, <2>5, <2>6, Replaced
  <2>9. Split(refused', dropped', blocked', Elems(stash'), Elems(taken'), Queued', sent')
    BY <1>1, <2>7 DEF Q1, D1
  <2>10. \A v \in Receivers : Distinct(mail'[v])
    BY <1>8, <1>10 DEF MailInv, Once
  <2>11. QED
    BY <2>9, <2>10 DEF MailInv, Once
<1>14. FifoInv' /\ DroppedInv' /\ RoomInv'
  <2>1. First = mail[s] /\ First' = mail'[s]
    BY DEF First, s
  <2>2. /\ Asc(First) /\ Asc(taken) /\ Before(Elems(taken), Elems(First)) /\ Before(dropped, Elems(First))
        /\ Len(First) <= MailRoom
    BY DEF MailInv, FifoInv, Fifo, DroppedInv, RoomInv, M!Bounded
  <2>3. Asc(First') /\ Before(Elems(taken), Elems(First')) /\ Before(dropped', Elems(First'))
    <3>1. Elems(First') = Elems(t) \cup {new} /\ Elems(First) = Elems(t) \cup {h}
      BY <1>5, <1>8, <1>10, <2>1
    <3>2. Asc(First')
      BY <1>6, <1>9, <1>10, <2>1, <2>2
    <3>3. Before(Elems(taken), Elems(First'))
      BY <1>7, <2>2, <3>1 DEF Before
    <3>4. h < new /\ \A x \in Elems(t) : h < x
      BY <1>5, <1>6, <1>7, <2>1, <2>2
    <3>5. Before(dropped', Elems(First'))
      BY <1>1, <1>7, <2>2, <3>1, <3>4 DEF Before
    <3>6. QED
      BY <3>2, <3>3, <3>5
  <2>4. Len(First') <= MailRoom
    BY <1>11, <2>1, <2>2
  <2>5. QED
    BY <2>2, <2>3, <2>4 DEF FifoInv, DroppedInv, RoomInv
<1>15. SharesInv' /\ HeapInv' /\ StashInv'
  BY DEF SharesInv, HeapInv, StashInv
<1>16. QED
  BY <1>12, <1>13, <1>14, <1>15 DEF MailInv

LEMMA BlockStep ==
  ASSUME MailInv, M!Call, kind = "block", blocked' = blocked \cup {M!New},
         UNCHANGED <<mail, priority, refused, dropped, kind, stash, taken, held, unstashed>>
  PROVE  MailInv'
<1> DEFINE X == {sent + 1}
<1>1. sent' = sent + 1 /\ sent < MaxMail /\ blocked' = blocked \cup X
  BY DEF M!Call, M!New
<1>2. MailType'
  <2>1. sent' \in 0 .. MaxMail
    BY <1>1, MailFacts
  <2>2. QED
    BY <2>1 DEF MailInv, MailType
<1>3. Once'
  <2>1. sent + 1 \notin 1 .. sent
    BY MailFacts
  <2>2. /\ sent + 1 \notin refused \cup dropped \cup blocked \cup Elems(stash) \cup Elems(taken)
        /\ \A w \in Receivers : sent + 1 \notin Elems(mail[w])
    BY <2>1, MailFacts
  <2>3. /\ refused' = Shift(refused, X, "blocked" = "refused")
        /\ dropped' = Shift(dropped, X, "blocked" = "dropped")
        /\ blocked' = Shift(blocked, X, "blocked" = "blocked")
        /\ Elems(stash') = Shift(Elems(stash), X, "blocked" = "stash")
        /\ Elems(taken') = Shift(Elems(taken), X, "blocked" = "taken")
        /\ \A w \in Receivers : Elems(mail'[w]) = Shift(Elems(mail[w]), X, "blocked" = "queue" /\ w = M!Shared)
    BY <1>1, <2>2 DEF Shift
  <2>4. sent' = sent + 1 /\ X = {sent + 1} /\ "blocked" \in Where /\ M!Shared \in Receivers
    BY <1>1, SharedIs DEF Where
  <2> HIDE DEF X
  <2>m. Moves(X, "blocked", M!Shared) /\ Comes(X)
    BY <2>3, <2>4 DEF Moves, Comes
  <2>5. Split(refused', dropped', blocked', Elems(stash'), Elems(taken'), Queued', sent')
    BY <2>4, <2>m, KeptMoved
  <2>6. QED
    BY <2>5 DEF MailInv, Once
<1>4. FifoInv' /\ SharesInv' /\ HeapInv' /\ StashInv' /\ DroppedInv' /\ RoomInv'
  BY DEF MailInv, FifoInv, SharesInv, HeapInv, StashInv, DroppedInv, RoomInv, First
<1>5. QED
  BY <1>2, <1>3, <1>4 DEF MailInv

LEMMA UnblockStep ==
  ASSUME MailInv, NEW m \in blocked, M!Unblock(m)
  PROVE  MailInv'
<1> DEFINE s == M!Shared
<1>1. /\ kind = "block" /\ s \in Receivers /\ ~ M!Full /\ M!Put(s, m) /\ blocked' = blocked \ {m}
      /\ UNCHANGED <<kind, priority, stash, sent, refused, dropped, taken, held, unstashed>>
  BY SharedIs DEF M!Unblock, MailInv, MailType
<1>2. m \in 1 .. sent /\ m \in Messages
  BY MailFacts
<1>3. /\ m \notin refused \cup dropped \cup Elems(stash) \cup Elems(taken)
      /\ \A w \in Receivers : m \notin Elems(mail[w])
  <2>1. Split(refused, dropped, blocked, Elems(stash), Elems(taken), Queued, sent)
    BY DEF MailInv, Once
  <2>2. m \notin refused \cup dropped \cup Elems(stash) \cup Elems(taken) /\ \A w \in Receivers : m \notin Queued[w]
    BY <2>1, SplitParts
  <2>3. QED
    BY <2>2 DEF Queued
<1> HIDE DEF s
<1>4. /\ mail' \in [Receivers -> Seq(Messages)]
      /\ \A v \in Receivers \ {s} : mail'[v] = mail[v]
      /\ Elems(mail'[s]) = Elems(mail[s]) \cup {m} /\ Len(mail'[s]) = Len(mail[s]) + 1
      /\ Distinct(mail'[s])
  BY <1>1, <1>2, <1>3, Entered
<1>5. MailType'
  BY <1>1, <1>4 DEF MailInv, MailType
<1>6. Once'
  <2> DEFINE X == {m}
  <2>3. /\ refused' = Shift(refused, X, "queue" = "refused")
        /\ dropped' = Shift(dropped, X, "queue" = "dropped")
        /\ blocked' = Shift(blocked, X, "queue" = "blocked")
        /\ Elems(stash') = Shift(Elems(stash), X, "queue" = "stash")
        /\ Elems(taken') = Shift(Elems(taken), X, "queue" = "taken")
    BY <1>1, <1>3 DEF Shift
  <2>4. ASSUME NEW v \in Receivers
        PROVE  Elems(mail'[v]) = Shift(Elems(mail[v]), X, "queue" = "queue" /\ v = s)
    BY <1>3, <1>4 DEF Shift
  <2>5. sent' = sent /\ X \subseteq 1 .. sent /\ "queue" \in Where
    BY <1>1, <1>2 DEF Where
  <2> HIDE DEF X
  <2>m. Moves(X, "queue", s) /\ Comes(X)
    BY <1>1, <2>3, <2>4, <2>5 DEF Moves, Comes
  <2>6. Split(refused', dropped', blocked', Elems(stash'), Elems(taken'), Queued', sent')
    BY <1>1, <2>5, <2>m, KeptMoved
  <2>7. \A v \in Receivers : Distinct(mail'[v])
    BY <1>4 DEF MailInv, Once
  <2>8. QED
    BY <1>1, <2>6, <2>7 DEF MailInv, Once
<1>7. FifoInv' /\ SharesInv' /\ HeapInv' /\ StashInv' /\ DroppedInv'
  BY <1>1 DEF FifoInv, SharesInv, HeapInv, StashInv, DroppedInv, Fifo
<1>8. RoomInv'
  <2>1. Len(mail[s]) \in Nat /\ Len(mail[s]) < MailRoom
    BY <1>1, MailFacts, ActorsAssumption DEF M!Full, s, First
  <2>2. Len(mail'[s]) <= MailRoom
    BY <1>4, <2>1, ActorsAssumption
  <2>3. QED
    BY <2>2 DEF RoomInv, First, s
<1>9. QED
  BY <1>5, <1>6, <1>7, <1>8 DEF MailInv

LEMMA CountIs == ASSUME NEW T PROVE M!Cardinality(T) = Cardinality(T)
BY Zenon DEF M!Cardinality, Cardinality

(* A message with its priority is pushed.                                   *)
LEMMA PushStep ==
  ASSUME MailInv, M!Call, kind = "priority", ~ M!Full, NEW p \in 0 .. 1,
         priority' = [priority EXCEPT ![M!New] = p],
         NEW q1 \in M!PushHeap(M!New, p, mail[M!Shared]), mail' = [mail EXCEPT ![M!Shared] = q1],
         UNCHANGED <<blocked, refused, dropped, kind, stash, taken, held, unstashed>>
  PROVE  MailInv'
<1> DEFINE new == sent + 1
           s == M!Shared
           q == mail[s]
           r == mail'[s]
<1>1. /\ sent' = new /\ sent < MaxMail /\ s \in Receivers /\ p \in Nat
      /\ priority' = [priority EXCEPT ![new] = p]
      /\ q1 \in M!PushHeap(new, p, mail[s]) /\ mail' = [mail EXCEPT ![s] = q1]
      /\ UNCHANGED <<blocked, refused, dropped, kind, stash, taken, held, unstashed>>
  BY SharedIs DEF M!Call, M!New
<1>2. /\ new \in Messages /\ new \notin 1 .. sent /\ \A x \in 1 .. sent : x < new /\ x \in Messages
  BY <1>1, MailFacts DEF Messages
<1>3. /\ new \notin refused \cup dropped \cup blocked \cup Elems(stash) \cup Elems(taken)
      /\ \A v \in Receivers : new \notin Elems(mail[v])
      /\ \A x \in Elems(taken) \cup Elems(mail[s]) : x < new /\ x \in Messages /\ x # new
  BY <1>1, <1>2, MailFacts
<1>4. /\ priority \in [Messages -> Nat] /\ mail \in [Receivers -> Seq(Messages)]
      /\ q \in Seq(Messages) /\ Distinct(q) /\ Len(q) \in Nat /\ q = First
      /\ Messages \in SUBSET Nat
  BY <1>1, MailFacts DEF MailInv, MailType, Once, First
<1>5. Sorted(q, priority) /\ Len(q) < MailRoom
  BY <1>4, ActorsAssumption DEF MailInv, HeapInv, M!Full
<1> HIDE DEF new, s
<1>6. /\ priority' \in [Messages -> Nat] /\ priority'[new] = p
      /\ \A x \in Messages : x # new => priority'[x] = priority[x] /\ priority[x] \in Nat
  <2>1. new \in Messages /\ p \in Nat /\ priority' = [priority EXCEPT ![new] = p]
    BY <1>1, <1>2
  <2>2. QED
    BY <1>4, <2>1
<1> HIDE DEF q, r
<1>7. \A x \in Elems(q) : x # new /\ priority[x] \in Nat /\ priority'[x] = priority[x]
  BY <1>3, <1>6 DEF q
<1>8. PICK k \in 0 .. Len(q) : q1 = M!InsertAt(q, k + 1, new) /\ Fits(q, k, p, priority)
  BY <1>1 DEF M!PushHeap, Fits, q
<1>9. q1 = Behind(q, k, new)
  <2>1. (k + 1) - 1 = k
    OBVIOUS
  <2>2. QED
    BY <1>8, <2>1 DEF M!InsertAt, Behind
<1>10. /\ Behind(q, k, new) \in Seq(Messages) /\ Len(Behind(q, k, new)) = Len(q) + 1
       /\ Elems(Behind(q, k, new)) = Elems(q) \cup {new}
       /\ Distinct(Behind(q, k, new)) /\ Sorted(Behind(q, k, new), priority')
  <2> DEFINE pr == priority'
  <2>1. Joins(new, p, q, priority, pr)
    BY <1>6, <1>7 DEF Joins
  <2> HIDE DEF pr
  <2>2. /\ Behind(q, k, new) \in Seq(Messages) /\ Len(Behind(q, k, new)) = Len(q) + 1
        /\ Elems(Behind(q, k, new)) = Elems(q) \cup {new}
        /\ Distinct(Behind(q, k, new)) /\ Sorted(Behind(q, k, new), pr)
    BY <1>1, <1>2, <1>4, <1>5, <1>8, <2>1, HeapInsert
  <2>3. QED
    BY <2>2 DEF pr
<1>11. /\ mail' \in [Receivers -> Seq(Messages)]
       /\ r = Behind(q, k, new) /\ \A v \in Receivers : v # s => mail'[v] = mail[v]
  BY <1>1, <1>4, <1>9, <1>10 DEF q, r
<1>12. Elems(r) = Elems(q) \cup {new} /\ Distinct(r) /\ Sorted(r, priority') /\ Len(r) = Len(q) + 1
  BY <1>10, <1>11
<1>13. MailType'
  <2>1. sent' \in 0 .. MaxMail
    BY <1>1, MailFacts DEF new
  <2>2. QED
    BY <1>1, <1>6, <1>11, <2>1 DEF MailInv, MailType
<1>14. Once'
  <2> DEFINE X == {new}
  <2>3. /\ refused' = Shift(refused, X, "queue" = "refused")
        /\ dropped' = Shift(dropped, X, "queue" = "dropped")
        /\ blocked' = Shift(blocked, X, "queue" = "blocked")
        /\ Elems(stash') = Shift(Elems(stash), X, "queue" = "stash")
        /\ Elems(taken') = Shift(Elems(taken), X, "queue" = "taken")
    BY <1>1, <1>3 DEF Shift
  <2>4. ASSUME NEW v \in Receivers
        PROVE  Elems(mail'[v]) = Shift(Elems(mail[v]), X, "queue" = "queue" /\ v = s)
    <3>1. new \notin Elems(mail[v])
      BY <1>3
    <3>2. CASE v = s
      <4>1. Elems(mail'[v]) = Elems(mail[v]) \cup {new}
        BY <1>12, <3>2 DEF q, r
      <4>2. QED
        BY <3>1, <3>2, <4>1 DEF Shift
    <3>3. CASE v # s
      BY <1>11, <3>1, <3>3 DEF Shift
    <3>4. QED
      BY <3>2, <3>3
  <2>5. sent' = sent + 1 /\ X = {sent + 1} /\ "queue" \in Where /\ s \in Receivers
    BY <1>1 DEF Where, new
  <2> HIDE DEF X
  <2>m. Moves(X, "queue", s) /\ Comes(X)
    BY <2>3, <2>4, <2>5 DEF Moves, Comes
  <2>6. Split(refused', dropped', blocked', Elems(stash'), Elems(taken'), Queued', sent')
    BY <2>5, <2>m, KeptMoved
  <2>7. \A v \in Receivers : Distinct(mail'[v])
    BY <1>11, <1>12 DEF MailInv, Once, r
  <2>8. QED
    BY <1>1, <2>6, <2>7 DEF MailInv, Once
<1>15. HeapInv'
  BY <1>12 DEF HeapInv, First, r, s
<1>16. RoomInv'
  <2>1. Len(r) <= MailRoom
    BY <1>4, <1>5, <1>12, ActorsAssumption
  <2>2. QED
    BY <2>1 DEF RoomInv, First, r, s
<1>17. FifoInv' /\ SharesInv' /\ StashInv' /\ DroppedInv'
  BY <1>1 DEF FifoInv, SharesInv, StashInv, DroppedInv, Fifo
<1>18. QED
  BY <1>13, <1>14, <1>15, <1>16, <1>17 DEF MailInv

(* The first message of a queue is taken.                                   *)
LEMMA TakeFirstStep ==
  ASSUME MailInv, NEW w \in Receivers, kind = "balancing" \/ w = M!Shared, M!TakeFirst(w)
  PROVE  MailInv'
<1> DEFINE h == Head(mail[w])
<1>1. /\ mail[w] # <<>> /\ mail' = [mail EXCEPT ![w] = Tail(@)]
      /\ taken' = Append(taken, h) /\ held' = held \cup {h}
      /\ UNCHANGED <<kind, priority, blocked, stash, sent, refused, dropped, unstashed>>
  BY DEF M!TakeFirst
<1>2. /\ mail' \in [Receivers -> Seq(Messages)]
      /\ \A v \in Receivers \ {w} : mail'[v] = mail[v]
      /\ h \in Elems(mail[w]) /\ h \in Messages
      /\ Elems(mail'[w]) = Elems(mail[w]) \ {h}
      /\ Len(mail'[w]) = Len(mail[w]) - 1 /\ Distinct(mail'[w])
      /\ Asc(mail[w]) => Asc(mail'[w]) /\ \A x \in Elems(mail'[w]) : h < x
      /\ AscBut(mail[w], unstashed) =>
           AscBut(mail'[w], unstashed) /\ \A x \in Elems(mail'[w]) : Below(h, x, unstashed)
      /\ Sorted(mail[w], priority) => Sorted(mail'[w], priority)
  BY <1>1, TakenOut
<1>3. /\ h \notin refused \cup dropped \cup blocked \cup Elems(stash) \cup Elems(taken)
      /\ \A v \in Receivers : v # w => h \notin Elems(mail[v])
      /\ h \in 1 .. sent
  <2>1. Split(refused, dropped, blocked, Elems(stash), Elems(taken), Queued, sent)
    BY DEF MailInv, Once
  <2>2. \A v \in Receivers : Queued[v] = Elems(mail[v])
    BY DEF Queued
  <2>3. h \in Queued[w]
    BY <1>2, <2>2
  <2> HIDE DEF h
  <2>4. /\ h \notin refused \cup dropped \cup blocked \cup Elems(stash) \cup Elems(taken)
        /\ \A v \in Receivers : h \in Queued[v] => v = w
        /\ h \in 1 .. sent
    BY <2>1, <2>3, SplitParts
  <2>5. QED
    BY <2>2, <2>4
<1>4. /\ taken \in Seq(Messages) /\ Distinct(taken) /\ held \subseteq Elems(taken)
      /\ First \in Seq(Messages) /\ Len(First) \in Nat /\ Messages \subseteq Nat
  BY MailFacts DEF MailInv, MailType, Once
<1> HIDE DEF h
<1>5. /\ taken' \in Seq(Messages) /\ Elems(taken') = Elems(taken) \cup {h} /\ Distinct(taken')
      /\ held' \subseteq Elems(taken')
  <2>1. /\ Append(taken, h) \in Seq(Messages) /\ Elems(Append(taken, h)) = Elems(taken) \cup {h}
        /\ Distinct(Append(taken, h))
    BY <1>2, <1>3, <1>4, DistinctAppend
  <2>2. QED
    BY <1>1, <1>4, <2>1
<1>6. MailType'
  BY <1>1, <1>2, <1>5 DEF MailInv, MailType
<1>7. Once'
  <2> DEFINE X == {h}
  <2>3. /\ refused' = Shift(refused, X, "taken" = "refused")
        /\ dropped' = Shift(dropped, X, "taken" = "dropped")
        /\ blocked' = Shift(blocked, X, "taken" = "blocked")
        /\ Elems(stash') = Shift(Elems(stash), X, "taken" = "stash")
        /\ Elems(taken') = Shift(Elems(taken), X, "taken" = "taken")
    BY <1>1, <1>3, <1>5 DEF Shift
  <2>4. ASSUME NEW v \in Receivers
        PROVE  Elems(mail'[v]) = Shift(Elems(mail[v]), X, "taken" = "queue" /\ v = w)
    BY <1>2, <1>3 DEF Shift
  <2>5. sent' = sent /\ X \subseteq 1 .. sent /\ "taken" \in Where
    BY <1>1, <1>3 DEF Where
  <2> HIDE DEF X
  <2>6. Moves(X, "taken", w) /\ Comes(X)
    BY <2>3, <2>4, <2>5 DEF Moves, Comes
  <2>7. Split(refused', dropped', blocked', Elems(stash'), Elems(taken'), Queued', sent')
    BY <2>5, <2>6, KeptMoved
  <2>8. \A v \in Receivers : Distinct(mail'[v])
    BY <1>2 DEF MailInv, Once
  <2>9. QED
    BY <1>1, <1>5, <2>7, <2>8 DEF MailInv, Once
<1>8. SharesInv'
  BY <1>1, <1>2 DEF MailInv, SharesInv
<1>9. FifoInv' /\ DroppedInv' /\ HeapInv' /\ StashInv' /\ RoomInv'
  <2>1. CASE kind = "balancing"
    BY <1>1, <2>1 DEF FifoInv, DroppedInv, HeapInv, StashInv, RoomInv, Fifo, M!Bounded
  <2>2. CASE w = M!Shared
    <3>1. First = mail[w] /\ First' = mail'[w]
      BY <2>2 DEF First
    <3>2. FifoInv'
      <4>1. ASSUME kind \in Fifo PROVE Asc(taken') /\ Asc(First') /\ Before(Elems(taken'), Elems(First'))
        <5>1. /\ Asc(taken) /\ Asc(First) /\ Before(Elems(taken), Elems(First))
          BY <4>1 DEF MailInv, FifoInv
        <5>2. Asc(First') /\ \A x \in Elems(First') : h < x /\ x \in Elems(First)
          BY <1>2, <3>1, <5>1
        <5>3. \A x \in Elems(taken) : x < h
          BY <1>2, <3>1, <5>1 DEF Before
        <5>4. Asc(taken')
          BY <1>1, <1>2, <1>4, <5>1, <5>3, AscAppend
        <5>5. Before(Elems(taken'), Elems(First'))
          BY <1>5, <5>1, <5>2 DEF Before
        <5>6. QED
          BY <5>2, <5>4, <5>5
      <4>2. QED
        BY <1>1, <4>1 DEF FifoInv
    <3>3. HeapInv' /\ StashInv'
      <4>1. HeapInv'
        BY <1>1, <1>2, <3>1 DEF MailInv, HeapInv
      <4>2. ASSUME kind = "stash"
            PROVE  /\ AscBut(taken', unstashed) /\ AscBut(First', unstashed)
                   /\ \A x \in Elems(taken') : \A y \in Elems(First') : Below(x, y, unstashed)
        <5>1. /\ AscBut(taken, unstashed) /\ AscBut(First, unstashed)
              /\ \A x \in Elems(taken) : \A y \in Elems(First) : Below(x, y, unstashed)
          BY <4>2 DEF MailInv, StashInv
        <5>2. /\ AscBut(First', unstashed)
              /\ \A y \in Elems(First') : Below(h, y, unstashed) /\ y \in Elems(First)
          BY <1>2, <3>1, <5>1
        <5>3. \A x \in Elems(taken) : Below(x, h, unstashed)
          BY <1>2, <3>1, <5>1
        <5>4. AscBut(taken', unstashed)
          BY <1>1, <1>2, <1>4, <5>1, <5>3, ButAppend
        <5>5. QED
          BY <1>5, <5>1, <5>2, <5>4
      <4>3. QED
        BY <1>1, <4>1, <4>2 DEF StashInv
    <3>4. DroppedInv'
      BY <1>1, <1>2, <3>1 DEF MailInv, DroppedInv, Before
    <3>5. RoomInv'
      <4>1. Len(First') = Len(First) - 1
        BY <1>2, <3>1
      <4>2. ASSUME kind \in M!Bounded \cup {"priority"} PROVE Len(First') <= MailRoom
        <5>1. Len(First) <= MailRoom
          BY <4>2 DEF MailInv, RoomInv
        <5>2. QED
          BY <1>4, <4>1, <5>1, ActorsAssumption
      <4>3. QED
        BY <1>1, <4>2 DEF RoomInv
    <3>6. QED
      BY <3>2, <3>3, <3>4, <3>5
  <2>3. QED
    BY <2>1, <2>2
<1>10. QED
  BY <1>6, <1>7, <1>8, <1>9 DEF MailInv

(* A taken message is stashed.                                              *)
LEMMA StashStep ==
  ASSUME MailInv, NEW m \in held, M!Stash(m)
  PROVE  MailInv'
<1> DEFINE c == CHOOSE i \in DOMAIN taken : taken[i] = m
<1>1. /\ kind = "stash" /\ held' = held \ {m} /\ stash' = Append(stash, m)
      /\ taken' = Cut(taken, c)
      /\ UNCHANGED <<kind, mail, priority, blocked, sent, refused, dropped, unstashed>>
  BY DEF M!Stash, M!RemoveAt, Cut
<1>2. /\ taken \in Seq(Messages) /\ Distinct(taken) /\ stash \in Seq(Messages) /\ Distinct(stash)
      /\ held \subseteq Elems(taken)
  BY DEF MailInv, MailType, Once
<1>3. c \in DOMAIN taken /\ taken[c] = m
  BY <1>2 DEF Elems
<1> HIDE DEF c
<1>4. c \in 1 .. Len(taken) /\ m \in Messages /\ m \in Elems(taken)
  BY <1>2, <1>3, LenProperties, ElementOfSeq DEF Elems
<1>5. taken' \in Seq(Messages) /\ Distinct(taken') /\ Elems(taken') = Elems(taken) \ {m}
  <2>1. /\ Cut(taken, c) \in Seq(Messages) /\ Distinct(Cut(taken, c))
        /\ Elems(Cut(taken, c)) = Elems(taken) \ {taken[c]}
    <3>1. taken \in Seq(Messages) /\ c \in 1 .. Len(taken) /\ Distinct(taken)
      BY <1>2, <1>4
    <3>2. QED
      BY <3>1, Removed
  <2>2. QED
    BY <1>1, <1>3, <2>1
<1>6. /\ m \notin refused \cup dropped \cup blocked \cup Elems(stash)
      /\ \A v \in Receivers : m \notin Elems(mail[v])
      /\ m \in 1 .. sent
  <2>1. Split(refused, dropped, blocked, Elems(stash), Elems(taken), Queued, sent)
    BY DEF MailInv, Once
  <2>2. \A v \in Receivers : Queued[v] = Elems(mail[v])
    BY DEF Queued
  <2>3. /\ m \notin refused \cup dropped \cup blocked \cup Elems(stash)
        /\ \A v \in Receivers : m \notin Queued[v]
        /\ m \in 1 .. sent
    BY <1>4, <2>1, SplitParts
  <2>4. QED
    BY <2>2, <2>3
<1>7. stash' \in Seq(Messages) /\ Distinct(stash') /\ Elems(stash') = Elems(stash) \cup {m}
  BY <1>1, <1>2, <1>4, <1>6, DistinctAppend
<1>8. MailType'
  BY <1>1, <1>2, <1>5, <1>7 DEF MailInv, MailType
<1>9. Once'
  <2> DEFINE X == {m}
  <2>3. /\ refused' = Shift(refused, X, "stash" = "refused")
        /\ dropped' = Shift(dropped, X, "stash" = "dropped")
        /\ blocked' = Shift(blocked, X, "stash" = "blocked")
        /\ Elems(stash') = Shift(Elems(stash), X, "stash" = "stash")
        /\ Elems(taken') = Shift(Elems(taken), X, "stash" = "taken")
    BY <1>1, <1>5, <1>6, <1>7 DEF Shift
  <2>4. ASSUME NEW v \in Receivers
        PROVE  Elems(mail'[v]) = Shift(Elems(mail[v]), X, "stash" = "queue" /\ v = M!Shared)
    BY <1>1, <1>6 DEF Shift
  <2>5. sent' = sent /\ X \subseteq 1 .. sent /\ "stash" \in Where /\ M!Shared \in Receivers
    BY <1>1, <1>6, SharedIs DEF Where
  <2> HIDE DEF X
  <2>6. Moves(X, "stash", M!Shared) /\ Comes(X)
    BY <2>3, <2>4, <2>5 DEF Moves, Comes
  <2>7. Split(refused', dropped', blocked', Elems(stash'), Elems(taken'), Queued', sent')
    BY <2>5, <2>6, KeptMoved
  <2>8. QED
    BY <1>1, <1>5, <1>7, <2>7 DEF MailInv, Once
<1>10. FifoInv' /\ SharesInv' /\ HeapInv' /\ DroppedInv' /\ RoomInv'
  BY <1>1 DEF FifoInv, SharesInv, HeapInv, DroppedInv, RoomInv, Fifo, M!Bounded
<1>11. StashInv'
  <2>1. /\ AscBut(taken, unstashed) /\ AscBut(First, unstashed)
        /\ \A x \in Elems(taken) : \A y \in Elems(First) : Below(x, y, unstashed)
    BY <1>1 DEF MailInv, StashInv
  <2>2. AscBut(taken', unstashed)
    BY <1>1, <1>2, <1>4, <2>1, ButCut
  <2>3. First' = First /\ unstashed' = unstashed
    BY <1>1 DEF First
  <2>4. QED
    BY <1>5, <2>1, <2>2, <2>3 DEF StashInv
<1>12. QED
  BY <1>8, <1>9, <1>10, <1>11 DEF MailInv

(* Some of the stash goes back into the queue, or is dropped with it.       *)
LEMMA UnstashStep ==
  ASSUME MailInv, kind = "stash",
         NEW ms \in Seq(Messages), Distinct(ms), Elems(ms) \subseteq Elems(stash), M!Unstash(ms),
         stash' \in Seq(Messages), Distinct(stash'), Elems(stash') = Elems(stash) \ Elems(ms),
         UNCHANGED <<kind, priority, blocked, sent, refused, taken, held>>
  PROVE  MailInv'
<1> DEFINE X == Elems(ms)
           s == M!Shared
<1>1. /\ \/ dropped' = dropped \cup X /\ mail' = mail /\ unstashed' = unstashed
         \/ mail' = [mail EXCEPT ![s] = mail[s] \o ms] /\ dropped' = dropped /\ unstashed' = unstashed \cup X
      /\ s \in Receivers
  BY SharedIs DEF M!Unstash, M!ToSet, Elems
<1> HIDE DEF s
<1>2. /\ mail \in [Receivers -> Seq(Messages)] /\ mail[s] \in Seq(Messages)
      /\ \A v \in Receivers : Distinct(mail[v])
      /\ stash \in Seq(Messages) /\ held \subseteq Elems(taken)
  BY <1>1 DEF MailInv, MailType, Once
<1>3. /\ \A m \in X : m \notin refused \cup dropped \cup blocked \cup Elems(taken)
      /\ \A v \in Receivers : \A m \in X : m \notin Elems(mail[v])
      /\ X \subseteq 1 .. sent
  <2>1. Split(refused, dropped, blocked, Elems(stash), Elems(taken), Queued, sent)
    BY DEF MailInv, Once
  <2>2. \A v \in Receivers : Queued[v] = Elems(mail[v])
    BY DEF Queued
  <2> HIDE DEF X
  <2>3. /\ \A m \in Elems(stash) : m \notin refused \cup dropped \cup blocked \cup Elems(taken) /\ m \in 1 .. sent
        /\ \A v \in Receivers : \A m \in Elems(stash) : m \notin Queued[v]
    BY <2>1, SplitParts
  <2>4. X \subseteq Elems(stash)
    BY DEF X
  <2>5. QED
    BY <2>2, <2>3, <2>4
<1>4. /\ mail' \in [Receivers -> Seq(Messages)]
      /\ \A v \in Receivers : v # s => mail'[v] = mail[v]
      /\ \/ mail' = mail /\ dropped' = dropped \cup X
         \/ Elems(mail'[s]) = Elems(mail[s]) \cup X /\ Distinct(mail'[s]) /\ dropped' = dropped
  <2>1. mail[s] \o ms \in Seq(Messages)
    BY <1>2, DistinctConcat
  <2>2. Elems(mail[s] \o ms) = Elems(mail[s]) \cup X
    BY <1>2, DistinctConcat
  <2>3. Elems(mail[s]) \cap Elems(ms) = {}
    BY <1>1, <1>3
  <2>4. Distinct(mail[s] \o ms)
    BY <1>1, <1>2, <2>3, DistinctConcat
  <2>5. QED
    BY <1>1, <1>2, <2>1, <2>2, <2>4
<1>5. MailType'
  BY <1>2, <1>4 DEF MailInv, MailType
<1> HIDE DEF X
<1>6. Elems(stash') = Elems(stash) \ X /\ X \subseteq Elems(stash)
  BY DEF X
<1>7. Split(refused', dropped', blocked', Elems(stash'), Elems(taken'), Queued', sent')
  <2>1. CASE Elems(mail'[s]) = Elems(mail[s]) \cup X /\ dropped' = dropped
    <3>1. Elems(mail'[s]) = Elems(mail[s]) \cup X /\ dropped' = dropped
      BY <2>1
    <3>3. /\ refused' = Shift(refused, X, "queue" = "refused")
          /\ dropped' = Shift(dropped, X, "queue" = "dropped")
          /\ blocked' = Shift(blocked, X, "queue" = "blocked")
          /\ Elems(stash') = Shift(Elems(stash), X, "queue" = "stash")
          /\ Elems(taken') = Shift(Elems(taken), X, "queue" = "taken")
      BY <1>3, <1>6, <3>1 DEF Shift
    <3>4. ASSUME NEW v \in Receivers
          PROVE  Elems(mail'[v]) = Shift(Elems(mail[v]), X, "queue" = "queue" /\ v = s)
      BY <1>3, <1>4, <3>1 DEF Shift
    <3>5. sent' = sent /\ X \subseteq 1 .. sent /\ "queue" \in Where /\ s \in Receivers
      BY <1>1, <1>3 DEF Where
    <3>6. Moves(X, "queue", s) /\ Comes(X)
      BY <3>3, <3>4, <3>5 DEF Moves, Comes
    <3>7. QED
      BY <3>5, <3>6, KeptMoved
  <2>2. CASE mail' = mail /\ dropped' = dropped \cup X
    <3>3. /\ refused' = Shift(refused, X, "dropped" = "refused")
          /\ dropped' = Shift(dropped, X, "dropped" = "dropped")
          /\ blocked' = Shift(blocked, X, "dropped" = "blocked")
          /\ Elems(stash') = Shift(Elems(stash), X, "dropped" = "stash")
          /\ Elems(taken') = Shift(Elems(taken), X, "dropped" = "taken")
      BY <1>3, <1>6, <2>2 DEF Shift
    <3>4. ASSUME NEW v \in Receivers
          PROVE  Elems(mail'[v]) = Shift(Elems(mail[v]), X, "dropped" = "queue" /\ v = s)
      BY <1>3, <2>2 DEF Shift
    <3>5. sent' = sent /\ X \subseteq 1 .. sent /\ "dropped" \in Where /\ s \in Receivers
      BY <1>1, <1>3 DEF Where
    <3>6. Moves(X, "dropped", s) /\ Comes(X)
      BY <3>3, <3>4, <3>5 DEF Moves, Comes
    <3>7. QED
      BY <3>5, <3>6, KeptMoved
  <2>3. QED
    BY <1>4, <2>1, <2>2
<1>8. Once'
  BY <1>2, <1>4, <1>7 DEF MailInv, Once
<1>9. FifoInv' /\ SharesInv' /\ HeapInv' /\ DroppedInv' /\ RoomInv'
  BY DEF FifoInv, SharesInv, HeapInv, DroppedInv, RoomInv, Fifo, M!Bounded
<1>10. StashInv'
  <2>0. First = mail[s] /\ First' = mail'[s] /\ taken' = taken
    BY DEF First, s
  <2>1. /\ AscBut(taken, unstashed) /\ AscBut(mail[s], unstashed)
        /\ \A x \in Elems(taken) : \A y \in Elems(mail[s]) : Below(x, y, unstashed)
    BY <2>0 DEF MailInv, StashInv
  <2>2. CASE mail' = mail /\ unstashed' = unstashed
    BY <2>0, <2>1, <2>2 DEF StashInv
  <2>3. CASE mail'[s] = mail[s] \o ms /\ unstashed' = unstashed \cup X
    <3> DEFINE U == unstashed \cup X
    <3>1. \A x, y : (Below(x, y, unstashed) \/ x \in X \/ y \in X) => Below(x, y, U)
      BY DEF Below
    <3>2. AscBut(taken, U) /\ AscBut(mail[s], U)
      BY <2>1, <3>1 DEF AscBut
    <3>3. \A i \in DOMAIN ms : ms[i] \in X
      BY DEF X, Elems
    <3>4. AscBut(ms, U) /\ \A y \in X : \A x : Below(x, y, U)
      BY <3>1, <3>3 DEF AscBut
    <3>5. \A x \in Elems(mail[s]) : \A y \in Elems(ms) : Below(x, y, U)
      BY <3>4 DEF X
    <3> HIDE DEF U
    <3>6. AscBut(mail[s] \o ms, U)
      BY <1>2, <3>2, <3>4, <3>5, ButConcat
    <3>7. Elems(mail[s] \o ms) = Elems(mail[s]) \cup X
      BY <1>2, DistinctConcat DEF X
    <3>8. \A x \in Elems(taken) : \A y \in Elems(mail[s] \o ms) : Below(x, y, U)
      BY <2>1, <3>1, <3>4, <3>7
    <3>9. unstashed' = U
      BY <2>3 DEF U
    <3>10. QED
      BY <2>0, <2>3, <3>2, <3>6, <3>8, <3>9 DEF StashInv
  <2>4. QED
    BY <1>1, <1>2, <2>2, <2>3
<1>11. QED
  BY <1>5, <1>8, <1>9, <1>10 DEF MailInv

Backwards(q) == [i \in 1 .. Len(q) |-> q[(Len(q) - i) + 1]]
LEMMA BackwardsIs ==
  ASSUME NEW Z, NEW q \in Seq(Z)
  PROVE  /\ Backwards(q) \in Seq(Z) /\ Elems(Backwards(q)) = Elems(q)
         /\ Distinct(q) => Distinct(Backwards(q))
<1> DEFINE n == Len(q)
           r == Backwards(q)
<1>1. n \in Nat /\ DOMAIN q = 1 .. n /\ \A i \in 1 .. n : q[i] \in Z
  BY LenProperties, ElementOfSeq
<1>2. r = [i \in 1 .. n |-> q[(n - i) + 1]]
  BY DEF Backwards
<1> HIDE DEF n, r
<1>3. \A i \in 1 .. n : (n - i) + 1 \in 1 .. n /\ (n - ((n - i) + 1)) + 1 = i
  BY <1>1
<1>4. r \in [1 .. n -> Z]
  BY <1>1, <1>2, <1>3
<1>5. r \in Seq(Z)
  BY <1>1, <1>4, SeqDef
<1>6. DOMAIN r = 1 .. n /\ \A i \in 1 .. n : r[i] = q[(n - i) + 1] /\ q[i] = r[(n - i) + 1]
  BY <1>2, <1>3
<1>7. Elems(r) = Elems(q)
  BY <1>1, <1>3, <1>6 DEF Elems
<1>8. ASSUME Distinct(q) PROVE Distinct(r)
  <2>1. ASSUME NEW i \in 1 .. n, NEW j \in 1 .. n, r[i] = r[j] PROVE i = j
    <3>1. (n - i) + 1 = (n - j) + 1
      BY <1>1, <1>3, <1>6, <1>8, <2>1 DEF Distinct
    <3>2. QED
      BY <1>1, <3>1
  <2>2. QED
    BY <1>6, <2>1 DEF Distinct
<1>9. QED
  BY <1>5, <1>7, <1>8 DEF r

LEMMA UnstashAllStep ==
  ASSUME MailInv, M!UnstashAll
  PROVE  MailInv'
<1> DEFINE ms == M!Reverse(stash)
<1>1. /\ kind = "stash" /\ M!Unstash(ms) /\ stash' = <<>>
      /\ UNCHANGED <<kind, priority, blocked, sent, refused, taken, held>>
  BY DEF M!UnstashAll
<1>2. stash \in Seq(Messages) /\ Distinct(stash)
  BY DEF MailInv, MailType, Once
<1>3. ms \in Seq(Messages) /\ Elems(ms) = Elems(stash) /\ Distinct(ms)
  <2>1. ms = Backwards(stash)
    BY DEF M!Reverse, Backwards
  <2>2. QED
    BY <1>2, <2>1, BackwardsIs
<1>4. stash' \in Seq(Messages) /\ Distinct(stash') /\ Elems(stash') = {}
  BY <1>1 DEF Distinct, Elems
<1> HIDE DEF ms
<1>5. Elems(stash') = Elems(stash) \ Elems(ms) /\ Elems(ms) \subseteq Elems(stash)
  BY <1>3, <1>4
<1>6. QED
  BY <1>1, <1>3, <1>4, <1>5, UnstashStep

LEMMA UnstashOneStep ==
  ASSUME MailInv, M!UnstashOne
  PROVE  MailInv'
<1> DEFINE h == Head(stash)
           ms == <<h>>
<1>1. /\ kind = "stash" /\ M!Unstash(ms) /\ stash' = Tail(stash) /\ stash # <<>>
      /\ UNCHANGED <<kind, priority, blocked, sent, refused, taken, held>>
  BY DEF M!UnstashOne
<1>2. stash \in Seq(Messages) /\ Distinct(stash)
  BY DEF MailInv, MailType, Once
<1>3. /\ Tail(stash) \in Seq(Messages) /\ h \in Elems(stash) /\ h \in Messages
      /\ Elems(stash) = Elems(Tail(stash)) \cup {h}
      /\ Distinct(Tail(stash)) /\ h \notin Elems(Tail(stash))
  BY <1>1, <1>2, DistinctTail, HeadTailProperties
<1> HIDE DEF h
<1>4. ms \in Seq(Messages) /\ Elems(ms) = {h} /\ Distinct(ms)
  BY <1>3 DEF Elems, Distinct
<1> HIDE DEF ms
<1>5. /\ stash' \in Seq(Messages) /\ Distinct(stash')
      /\ Elems(stash') = Elems(stash) \ Elems(ms) /\ Elems(ms) \subseteq Elems(stash)
  BY <1>1, <1>3, <1>4
<1>6. QED
  BY <1>1, <1>4, <1>5, UnstashStep

(* Workers lists every receiver once.                                       *)
LEMMA WorkersAre ==
  \E n \in Nat \ {0} :
    /\ M!Workers \in [1 .. n -> Receivers] /\ Len(M!Workers) = n /\ DOMAIN M!Workers = 1 .. n
    /\ \A i, j \in 1 .. n : M!Workers[i] = M!Workers[j] => i = j
    /\ \A w \in Receivers : \E i \in 1 .. n : M!Workers[i] = w
<1> DEFINE n == Cardinality(Receivers)
           W == M!Workers
<1>1. /\ n \in Nat /\ n # 0 /\ IsFiniteSet(Receivers)
      /\ \E f \in [1 .. n -> Receivers] : \A i, j \in 1 .. n : f[i] = f[j] => i = j
  <2>1. IsFiniteSet(Receivers) /\ Receivers # {}
    BY ActorsAssumption
  <2>2. n \in Nat /\ ExistsBijection(1 .. n, Receivers)
    BY <2>1, FS_CardinalityType
  <2>3. n # 0
    BY <2>1, FS_EmptySet
  <2>4. PICK f \in Bijection(1 .. n, Receivers) : TRUE
    BY <2>2 DEF ExistsBijection
  <2>5. f \in [1 .. n -> Receivers] /\ \A i, j \in 1 .. n : f[i] = f[j] => i = j
    BY <2>4 DEF Bijection, Injection, IsInjective
  <2>6. QED
    BY <2>1, <2>2, <2>3, <2>5
<1>2. W = CHOOSE f \in [1 .. n -> Receivers] : M!IsInjective(f)
  BY CountIs DEF M!Workers, M!SetToSeq
<1>3. \E f \in [1 .. n -> Receivers] : M!IsInjective(f)
  BY <1>1 DEF M!IsInjective
<1> HIDE DEF n, W
<1>4. W \in [1 .. n -> Receivers] /\ M!IsInjective(W)
  BY <1>2, <1>3
<1>5. DOMAIN W = 1 .. n /\ \A i, j \in 1 .. n : W[i] = W[j] => i = j
  BY <1>4 DEF M!IsInjective
<1>6. Len(W) = n
  <2>1. W \in Seq(Receivers)
    BY <1>1, <1>4, SeqDef
  <2>2. DOMAIN W = 1 .. Len(W) /\ Len(W) \in Nat
    BY <2>1, LenProperties
  <2>3. QED
    BY <1>1, <1>5, <2>2
<1>7. \A w \in Receivers : \E i \in 1 .. n : W[i] = w
  <2>1. W \in Injection(1 .. n, Receivers)
    BY <1>4, <1>5 DEF Injection, IsInjective
  <2>2. Cardinality(1 .. n) = n
    BY <1>1, FS_Interval
  <2>3. W \in Surjection(1 .. n, Receivers)
    BY <1>1, <2>1, <2>2, FS_Injection DEF n
  <2>4. QED
    BY <2>3 DEF Surjection
<1>8. QED
  BY <1>1, <1>4, <1>5, <1>6, <1>7 DEF W

LEMMA ModIn ==
  ASSUME NEW x \in Int, NEW n \in Nat \ {0}
  PROVE  x % n \in 0 .. n - 1
OBVIOUS

LEMMA ModIs ==
  ASSUME NEW n \in Nat \ {0}, NEW q \in Nat, NEW r \in 0 .. n - 1
  PROVE  (q * n + r) % n = r
OBVIOUS

(* The turn of the balancing mailbox is a worker.                           *)
Turn == sent - Cardinality(refused)

LEMMA TurnIs ==
  ASSUME MailInv
  PROVE  /\ IsFiniteSet(refused) /\ Cardinality(refused) \in Nat /\ Turn \in Int
         /\ sent - M!Cardinality(refused) = Turn
<1>1. refused \subseteq 1 .. sent /\ sent \in Nat
  BY MailFacts
<1>2. IsFiniteSet(refused) /\ Cardinality(refused) \in Nat
  <2>1. IsFiniteSet(1 .. sent)
    BY <1>1, FS_Interval
  <2>2. IsFiniteSet(refused)
    BY <1>1, <2>1, FS_Subset
  <2>3. QED
    BY <2>2, FS_CardinalityType
<1>3. QED
  BY <1>1, <1>2, CountIs DEF Turn

LEMMA BalancedStep ==
  ASSUME MailInv, M!Call, M!Balanced, UNCHANGED <<kind, stash, taken, held, unstashed>>
  PROVE  MailInv'
<1>1. CASE M!Refuse
  BY <1>1, RefuseStep
<1>2. CASE ~ shutMail
  <2> DEFINE n == Len(M!Workers)
             w == M!Workers[(Turn % n) + 1]
  <2>1. kind = "balancing" /\ M!Accept(w)
    BY <1>2, TurnIs DEF M!Balanced
  <2>2. w \in Receivers
    <3>1. n \in Nat \ {0} /\ M!Workers \in [1 .. n -> Receivers]
      BY WorkersAre
    <3> HIDE DEF n
    <3>2. Turn % n \in 0 .. n - 1
      BY <3>1, TurnIs, ModIn
    <3>3. (Turn % n) + 1 \in 1 .. n
      BY <3>1, <3>2
    <3>4. QED
      BY <3>1, <3>3
  <2> HIDE DEF w
  <2>3. QED
    BY <2>1, <2>2, AcceptStep DEF M!Bounded
<1>3. QED
  BY <1>1, <1>2 DEF M!Balanced

LEMMA EnqueueStep ==
  ASSUME MailInv, M!Enqueue
  PROVE  MailInv'
<1>1. M!Call /\ UNCHANGED <<kind, shutMail, receiving, stash, taken, held, unstashed>>
  BY DEF M!Enqueue
<1>2. CASE M!Refuse
  BY <1>1, <1>2, RefuseStep
<1>3. ASSUME M!Accept(M!Shared), kind # "priority", kind \in M!Bounded => ~ M!Full
      PROVE  MailInv'
  BY <1>1, <1>3, SharedIs, AcceptStep
<1>4. CASE M!Unbounded
  BY <1>2, <1>3, <1>4 DEF M!Unbounded, M!Bounded
<1>5. CASE M!DropNew
  BY <1>2, <1>3, <1>5 DEF M!DropNew
<1>6. CASE M!DropOld
  <2>1. CASE ~ shutMail /\ M!Full
    BY <1>1, <1>6, <2>1, DropOldStep DEF M!DropOld
  <2>2. QED
    BY <1>2, <1>3, <1>6, <2>1 DEF M!DropOld
<1>7. CASE M!Block
  <2>1. CASE ~ shutMail /\ M!Full
    BY <1>1, <1>7, <2>1, BlockStep DEF M!Block
  <2>2. QED
    BY <1>2, <1>3, <1>7, <2>1 DEF M!Block
<1>8. CASE M!Balanced
  BY <1>1, <1>8, BalancedStep
<1>9. ASSUME NEW p \in 0 .. 1, M!Prioritized(p) PROVE MailInv'
  <2>1. CASE ~ shutMail /\ ~ M!Full
    <3>1. PICK q \in M!PushHeap(M!New, p, mail[M!Shared]) : mail' = [mail EXCEPT ![M!Shared] = q]
      BY <1>9, <2>1 DEF M!Prioritized
    <3>2. kind = "priority" /\ priority' = [priority EXCEPT ![M!New] = p] /\ UNCHANGED <<blocked, refused, dropped>>
      BY <1>9, <2>1 DEF M!Prioritized
    <3>3. QED
      BY <1>1, <2>1, <3>1, <3>2, PushStep
  <2>2. QED
    BY <1>2, <1>9, <2>1 DEF M!Prioritized
<1>10. QED
  BY <1>4, <1>5, <1>6, <1>7, <1>8, <1>9 DEF M!Enqueue

LEMMA DequeueStep ==
  ASSUME MailInv, NEW w \in Receivers, M!TakeFirst(M!Box(w))
  PROVE  MailInv'
<1>1. M!Box(w) \in Receivers /\ (kind = "balancing" \/ M!Box(w) = M!Shared)
  BY SharedIs DEF M!Box
<1>2. QED
  BY <1>1, TakeFirstStep

LEMMA MailStep ==
  ASSUME MailInv, M!MailNext
  PROVE  MailInv'
<1>1. CASE M!Enqueue
  BY <1>1, EnqueueStep
<1>2. CASE M!DequeueAny
  <2>1. PICK i \in DOMAIN M!Workers : M!TakeFirst(M!Workers[i])
    BY <1>2 DEF M!DequeueAny
  <2>2. M!Workers[i] \in Receivers
    BY WorkersAre
  <2>3. kind = "balancing"
    BY <1>2 DEF M!DequeueAny
  <2>4. QED
    BY <2>1, <2>2, <2>3, TakeFirstStep
<1>3. CASE M!CloseMail
  BY <1>3, MailUnchanged DEF M!CloseMail
<1>4. CASE M!UnstashAll
  BY <1>4, UnstashAllStep
<1>5. CASE M!UnstashOne
  BY <1>5, UnstashOneStep
<1>6. ASSUME NEW w \in Receivers, M!Dequeue(w) \/ M!Receive(w)
      PROVE  MailInv'
  BY <1>6, DequeueStep DEF M!Dequeue, M!Receive
<1>7. ASSUME NEW w \in Receivers, M!Await(w) \/ M!GiveUp(w)
      PROVE  MailInv'
  BY <1>7, MailUnchanged DEF M!Await, M!GiveUp
<1>8. ASSUME NEW m \in blocked, M!Unblock(m)
      PROVE  MailInv'
  BY <1>8, UnblockStep
<1>9. ASSUME NEW m \in held, M!Handle(m)
      PROVE  MailInv'
  BY <1>9, MailUnchanged DEF M!Handle
<1>10. ASSUME NEW m \in held, M!Stash(m)
       PROVE  MailInv'
  BY <1>10, StashStep
<1>11. QED
  BY <1>1, <1>2, <1>3, <1>4, <1>5, <1>6, <1>7, <1>8, <1>9, <1>10 DEF M!MailNext

LEMMA MailBegin ==
  ASSUME M!MailInit
  PROVE  MailInv
<1>1. /\ kind \in M!Kinds
      /\ mail = [w \in Receivers |-> <<>>] /\ blocked = {} /\ stash = <<>>
      /\ priority = [m \in Messages |-> 0]
      /\ sent = 0 /\ refused = {} /\ dropped = {} /\ taken = <<>> /\ held = {}
  BY DEF M!MailInit, Messages
<1> DEFINE e == <<>>
<1>2. /\ e \in Seq(Messages) /\ Elems(e) = {} /\ Distinct(e) /\ Len(e) = 0 /\ DOMAIN e = {}
      /\ Asc(e) /\ \A U : AscBut(e, U)
  BY DEF Elems, Distinct, Asc, AscBut
<1>3. stash = e /\ taken = e /\ \A w \in Receivers : mail[w] = e
  BY <1>1
<1> HIDE DEF e
<1>4. mail \in [Receivers -> Seq(Messages)] /\ priority \in [Messages -> Nat]
  BY <1>1, <1>2, <1>3
<1>5. MailType
  BY <1>1, <1>2, <1>3, <1>4, ActorsAssumption DEF MailType
<1>6. Split(refused, dropped, blocked, Elems(stash), Elems(taken), Queued, sent)
  <2>1. \A w \in Receivers : Queued[w] = {}
    BY <1>2, <1>3 DEF Queued
  <2> DEFINE f == [m \in {} |-> "queue"]
             g == [m \in {} |-> M!Shared]
  <2>2. 1 .. sent = {}
    BY <1>1
  <2>3. f \in [1 .. sent -> Where] /\ g \in [1 .. sent -> Receivers]
    BY <2>2
  <2> HIDE DEF f, g
  <2>4. KeptAt(refused, dropped, blocked, Elems(stash), Elems(taken), Queued, sent, f, g)
    BY <1>1, <1>2, <1>3, <2>1, <2>2, <2>3 DEF KeptAt, In
  <2>5. QED
    BY <2>4 DEF Split
<1>7. Once
  BY <1>2, <1>3, <1>6 DEF Once
<1>8. First = e
  BY <1>3, SharedIs DEF First
<1>9. FifoInv /\ SharesInv /\ DroppedInv /\ RoomInv
  BY <1>1, <1>2, <1>3, <1>8, ActorsAssumption DEF FifoInv, SharesInv, DroppedInv, RoomInv, Before
<1>10. HeapInv /\ StashInv
  BY <1>2, <1>3, <1>8 DEF HeapInv, StashInv, Sorted
<1>11. QED
  BY <1>5, <1>7, <1>9, <1>10 DEF MailInv

(* Before anything is taken the balancing mailbox has shared out q rounds   *)
(* and r messages of the next one.                                          *)
Lengths(n, q, r) ==
  \A i \in 1 .. n : /\ i <= r => Len(mail[M!Workers[i]]) = q + 1
                    /\ i > r => Len(mail[M!Workers[i]]) = q
EvenAt(n, q, r) == q \in Nat /\ r \in 0 .. n - 1 /\ Turn = q * n + r /\ Lengths(n, q, r)
EvenInv == kind = "balancing" /\ taken = <<>> => \E q, r : EvenAt(Len(M!Workers), q, r)

LEMMA EvenCall ==
  ASSUME MailInv, NEW q, NEW r, EvenAt(Len(M!Workers), q, r),
         M!Call, M!Balanced, UNCHANGED <<kind, stash, taken, held, unstashed>>
  PROVE  \E x, y : EvenAt(Len(M!Workers), x, y)'
<1> DEFINE n == Len(M!Workers)
           W == M!Workers
<1>1. n \in Nat \ {0} /\ W \in [1 .. n -> Receivers] /\ \A i, j \in 1 .. n : W[i] = W[j] => i = j
  BY WorkersAre
<1>2. q \in Nat /\ r \in 0 .. n - 1 /\ Turn = q * n + r /\ sent' = sent + 1 /\ sent \in Nat
  BY MailFacts DEF EvenAt, M!Call, M!New
<1>3. \A i \in 1 .. n : /\ i <= r => Len(mail[W[i]]) = q + 1
                        /\ i > r => Len(mail[W[i]]) = q
  BY DEF EvenAt, Lengths
<1>4. CASE M!Refuse
  <2>1. refused' = refused \cup {sent + 1} /\ mail' = mail
    BY <1>4 DEF M!Refuse, M!New
  <2>2. sent + 1 \notin refused
    BY MailFacts
  <2>3. Cardinality(refused') = Cardinality(refused) + 1
    BY <2>1, <2>2, TurnIs, FS_AddElement
  <2>4. Turn' = Turn
    BY <1>2, <2>3, TurnIs DEF Turn
  <2>5. EvenAt(n, q, r)'
    BY <1>2, <2>1, <2>4 DEF EvenAt, Lengths
  <2>6. QED
    BY <2>5
<1>5. CASE ~ shutMail
  <2>1. Turn % n = r
    <3> HIDE DEF n
    <3>1. QED
      BY <1>1, <1>2, ModIs
  <2>2. M!Accept(W[r + 1])
    BY <1>5, <2>1, TurnIs DEF M!Balanced
  <2>3. refused' = refused /\ M!Put(W[r + 1], sent + 1) /\ sent + 1 \in Messages
    <3>1. sent + 1 \in Messages
      BY <1>2, MailFacts DEF Messages, M!Call
    <3>2. QED
      BY <2>2, <3>1 DEF M!Accept, M!New
  <2>4. r + 1 \in 1 .. n /\ W[r + 1] \in Receivers
    <3> HIDE DEF n, W
    <3>1. r + 1 \in 1 .. n
      BY <1>1, <1>2
    <3>2. QED
      BY <1>1, <3>1
  <2>5. Turn' = Turn + 1
    BY <1>2, <2>3, TurnIs DEF Turn
  <2> DEFINE w == W[r + 1]
  <2>6. /\ \A v \in Receivers \ {w} : mail'[v] = mail[v]
        /\ Len(mail'[w]) = Len(mail[w]) + 1
    BY <2>3, <2>4, Entered
  <2> DEFINE L(i) == Len(mail'[W[i]])
  <2>7. \A i \in 1 .. n : /\ i <= r + 1 => L(i) = q + 1
                          /\ i > r + 1 => L(i) = q
    <3> HIDE DEF n, W, L
    <3> SUFFICES ASSUME NEW i \in 1 .. n
                 PROVE  (i <= r + 1 => L(i) = q + 1) /\ (i > r + 1 => L(i) = q)
      OBVIOUS
    <3>1. CASE i = r + 1
      <4>1. Len(mail[W[i]]) = q /\ L(i) = Len(mail[W[i]]) + 1
        BY <1>2, <1>3, <2>6, <3>1 DEF L
      <4>2. QED
        BY <1>2, <3>1, <4>1
    <3>2. CASE i # r + 1
      <4>1. W[i] # w /\ W[i] \in Receivers
        BY <1>1, <2>4, <3>2
      <4>2. L(i) = Len(mail[W[i]])
        BY <2>6, <4>1 DEF L
      <4>3. QED
        BY <1>1, <1>2, <1>3, <3>2, <4>2
    <3>3. QED
      BY <3>1, <3>2
  <2>8. CASE r + 1 \in 0 .. n - 1
    <3>1. Turn' = q * n + (r + 1)
      <4> HIDE DEF n
      <4>1. QED
        BY <1>1, <1>2, <2>5
    <3>2. EvenAt(n, q, r + 1)'
      BY <1>2, <2>7, <2>8, <3>1 DEF EvenAt, Lengths
    <3>3. QED
      BY <3>2
  <2>9. CASE r + 1 = n
    <3>1. Turn' = (q + 1) * n + 0
      <4> HIDE DEF n
      <4>1. (q + 1) * n = q * n + n /\ q * n \in Nat
        BY <1>1, <1>2
      <4>2. QED
        BY <1>1, <1>2, <2>5, <2>9, <4>1
    <3>2. \A i \in 1 .. n : L(i) = q + 1
      <4> HIDE DEF n, W, L
      <4>1. QED
        BY <1>1, <2>7, <2>9
    <3>3. q + 1 \in Nat /\ 0 \in 0 .. n - 1
      <4> HIDE DEF n
      <4>1. QED
        BY <1>1, <1>2
    <3>4. Lengths(n, q + 1, 0)'
      <4>1. \A i \in 1 .. n : ~ (i <= 0) /\ Len(mail'[W[i]]) = q + 1
        <5> HIDE DEF n, W
        <5>1. QED
          BY <1>1, <3>2 DEF L
      <4>2. QED
        BY <4>1 DEF Lengths
    <3>5. EvenAt(n, q + 1, 0)'
      BY <3>1, <3>3, <3>4 DEF EvenAt
    <3>6. QED
      BY <3>5
  <2>10. QED
    <3> HIDE DEF n
    <3>1. r + 1 \in 0 .. n - 1 \/ r + 1 = n
      BY <1>1, <1>2
    <3>2. QED
      BY <2>8, <2>9, <3>1
<1>6. QED
  BY <1>4, <1>5 DEF M!Balanced

LEMMA EvenStep ==
  ASSUME MailInv, EvenInv, M!MailNext
  PROVE  EvenInv'
<1> SUFFICES ASSUME kind' = "balancing", taken' = <<>>
             PROVE  \E q, r : EvenAt(Len(M!Workers), q, r)'
  BY DEF EvenInv
<1>1. /\ taken \in Seq(Messages)
      /\ kind = "balancing" => blocked = {}
  BY DEF MailInv, MailType
<1>2. ASSUME UNCHANGED <<kind, mail, sent, refused, taken>> PROVE \E q, r : EvenAt(Len(M!Workers), q, r)'
  <2>1. PICK q, r : EvenAt(Len(M!Workers), q, r)
    BY <1>2 DEF EvenInv
  <2>2. EvenAt(Len(M!Workers), q, r)'
    BY <1>2, <2>1 DEF EvenAt, Lengths, Turn
  <2>3. QED
    BY <2>2
<1>3. \A w \in Receivers : ~ M!TakeFirst(w)
  <2>1. ASSUME NEW w \in Receivers, M!TakeFirst(w) PROVE FALSE
    <3>1. mail[w] # <<>> /\ mail' = [mail EXCEPT ![w] = Tail(@)] /\ taken' = Append(taken, Head(mail[w]))
      BY <2>1 DEF M!TakeFirst
    <3>2. Head(mail[w]) \in Messages
      BY <3>1, TakenOut
    <3>3. Append(taken, Head(mail[w])) # <<>>
      BY <1>1, <3>2, AppendProperties
    <3>4. QED
      BY <3>1, <3>3
  <2>2. QED
    BY <2>1
<1>4. CASE M!Enqueue
  <2>1. M!Call /\ UNCHANGED <<kind, shutMail, receiving, stash, taken, held, unstashed>>
    BY <1>4 DEF M!Enqueue
  <2>2. kind = "balancing" /\ taken = <<>>
    BY <2>1
  <2>3. M!Balanced
    BY <1>4, <2>2 DEF M!Enqueue, M!Unbounded, M!DropNew, M!DropOld, M!Block, M!Prioritized
  <2>4. PICK q, r : EvenAt(Len(M!Workers), q, r)
    BY <2>2 DEF EvenInv
  <2>5. QED
    BY <2>1, <2>3, <2>4, EvenCall
<1>5. CASE M!DequeueAny
  <2>1. PICK i \in DOMAIN M!Workers : M!TakeFirst(M!Workers[i])
    BY <1>5 DEF M!DequeueAny
  <2>2. M!Workers[i] \in Receivers
    BY WorkersAre
  <2>3. QED
    BY <1>3, <2>1, <2>2
<1>6. CASE M!CloseMail
  BY <1>2, <1>6 DEF M!CloseMail
<1>7. CASE M!UnstashAll \/ M!UnstashOne
  BY <1>7 DEF M!UnstashAll, M!UnstashOne
<1>8. ASSUME NEW w \in Receivers, M!Dequeue(w) \/ M!Receive(w)
      PROVE  FALSE
  <2>1. M!Box(w) \in Receivers
    BY SharedIs DEF M!Box
  <2>2. QED
    BY <1>3, <1>8, <2>1 DEF M!Dequeue, M!Receive
<1>9. ASSUME NEW w \in Receivers, M!Await(w) \/ M!GiveUp(w)
      PROVE  UNCHANGED <<kind, mail, sent, refused, taken>>
  BY <1>9 DEF M!Await, M!GiveUp
<1>10. ASSUME NEW m \in blocked, M!Unblock(m)
       PROVE  FALSE
  BY <1>1, <1>10 DEF M!Unblock
<1>11. ASSUME NEW m \in held, M!Handle(m)
       PROVE  UNCHANGED <<kind, mail, sent, refused, taken>>
  BY <1>11 DEF M!Handle
<1>12. ASSUME NEW m \in held, M!Stash(m)
       PROVE  FALSE
  BY <1>12 DEF M!Stash
<1>13. QED
  BY <1>2, <1>4, <1>5, <1>6, <1>7, <1>8, <1>9, <1>10, <1>11, <1>12 DEF M!MailNext

LEMMA EvenBegin ==
  ASSUME M!MailInit
  PROVE  EvenInv
<1> DEFINE n == Len(M!Workers)
<1>1. n \in Nat \ {0} /\ \A i \in 1 .. n : M!Workers[i] \in Receivers
  BY WorkersAre
<1>2. sent = 0 /\ refused = {} /\ mail = [w \in Receivers |-> <<>>]
  BY DEF M!MailInit
<1>3. Turn = 0
  BY <1>2, FS_EmptySet DEF Turn
<1> HIDE DEF n
<1>4. \A i \in 1 .. n : Len(mail[M!Workers[i]]) = 0 /\ ~ (i <= 0)
  BY <1>1, <1>2
<1>5. 0 * n + 0 = 0 /\ 0 \in 0 .. n - 1
  BY <1>1
<1>6. EvenAt(n, 0, 0)
  BY <1>3, <1>4, <1>5 DEF EvenAt, Lengths
<1>7. QED
  BY <1>6 DEF EvenInv, n

LEMMA EvenHolds ==
  ASSUME EvenInv
  PROVE  M!SharedEvenly
<1> SUFFICES ASSUME kind = "balancing", taken = <<>>, NEW v \in Receivers, NEW w \in Receivers
             PROVE  Len(mail[v]) - Len(mail[w]) \in -1 .. 1
  BY DEF M!SharedEvenly
<1>1. PICK q, r : EvenAt(Len(M!Workers), q, r)
  BY DEF EvenInv
<1>2. ASSUME NEW u \in Receivers
      PROVE  Len(mail[u]) \in {q, q + 1}
  <2> DEFINE n == Len(M!Workers)
  <2>1. PICK i \in 1 .. n : M!Workers[i] = u
    BY WorkersAre
  <2>2. n \in Nat
    BY WorkersAre
  <2> HIDE DEF n
  <2>3. i <= r \/ i > r
    BY <1>1, <2>2 DEF EvenAt, n
  <2>4. QED
    BY <1>1, <2>1, <2>3 DEF EvenAt, Lengths, n
<1>3. q \in Nat
  BY <1>1 DEF EvenAt
<1>4. QED
  BY <1>2, <1>3

(* Where every message is, as the list of places.                           *)
Listed(R, D, B, Z, T, Q) == <<R, D, B, Z, T>> \o [i \in DOMAIN M!Workers |-> Q[M!Workers[i]]]

LEMMA ListedIs ==
  ASSUME NEW R, NEW D, NEW B, NEW Z, NEW T, NEW Q, NEW n, Split(R, D, B, Z, T, Q, n)
  PROVE  /\ UNION Elems(Listed(R, D, B, Z, T, Q)) = 1 .. n
         /\ \A i, j \in DOMAIN Listed(R, D, B, Z, T, Q) :
              i # j => Listed(R, D, B, Z, T, Q)[i] \cap Listed(R, D, B, Z, T, Q)[j] = {}
<1> DEFINE W == M!Workers
           k == Len(W)
           a == <<R, D, B, Z, T>>
           b == [i \in DOMAIN W |-> Q[W[i]]]
           p == Listed(R, D, B, Z, T, Q)
           P1 == SUBSET (1 .. n)
<1>1. /\ k \in Nat /\ DOMAIN W = 1 .. k /\ W \in [1 .. k -> Receivers]
      /\ \A i, j \in 1 .. k : W[i] = W[j] => i = j
      /\ \A w \in Receivers : \E i \in 1 .. k : W[i] = w
  BY WorkersAre
<1>2. /\ R \in P1 /\ D \in P1 /\ B \in P1 /\ Z \in P1 /\ T \in P1
      /\ \A w \in Receivers : Q[w] \in P1
  <2>1. R \cup D \cup B \cup Z \cup T \subseteq 1 .. n /\ \A w \in Receivers : Q[w] \subseteq 1 .. n
    BY SplitParts
  <2>2. QED
    BY <2>1
<1>3. /\ \A m \in 1 .. n : m \in R \cup D \cup B \cup Z \cup T \/ \E w \in Receivers : m \in Q[w]
      /\ R \cap D = {} /\ R \cap B = {} /\ R \cap Z = {} /\ R \cap T = {}
      /\ D \cap B = {} /\ D \cap Z = {} /\ D \cap T = {}
      /\ B \cap Z = {} /\ B \cap T = {} /\ Z \cap T = {}
      /\ \A w \in Receivers : /\ Q[w] \cap (R \cup D \cup B \cup Z \cup T) = {}
                              /\ \A v \in Receivers : w # v => Q[w] \cap Q[v] = {}
  <2>1. /\ \A m \in R : m \notin D \cup B \cup Z \cup T
        /\ \A m \in D : m \notin B \cup Z \cup T
        /\ \A m \in B : m \notin Z \cup T
        /\ \A m \in Z : m \notin T
    BY SplitParts
  <2>2. /\ \A m \in 1 .. n : m \in R \cup D \cup B \cup Z \cup T \/ \E w \in Receivers : m \in Q[w]
        /\ \A w \in Receivers : \A m \in Q[w] :
             m \notin R \cup D \cup B \cup Z \cup T /\ \A v \in Receivers : m \in Q[v] => v = w
    BY SplitParts
  <2>3. QED
    BY <2>1, <2>2
<1>4. /\ a \in Seq(P1) /\ Len(a) = 5
      /\ a[1] = R /\ a[2] = D /\ a[3] = B /\ a[4] = Z /\ a[5] = T
  <2> HIDE DEF P1
  <2>1. QED
    BY <1>2
<1> HIDE DEF W, k
<1>5. /\ b \in [1 .. k -> P1] /\ b \in Seq(P1) /\ Len(b) = k /\ \A i \in 1 .. k : b[i] = Q[W[i]]
  <2> HIDE DEF P1
  <2>1. b \in [1 .. k -> P1] /\ \A i \in 1 .. k : b[i] = Q[W[i]]
    BY <1>1, <1>2
  <2> HIDE DEF b
  <2>2. b \in Seq(P1)
    BY <1>1, <2>1, SeqDef
  <2>3. Len(b) = k
    BY <1>1, <2>1, <2>2, LenProperties
  <2>4. QED
    BY <2>1, <2>2, <2>3
<1>6. p = a \o b
  BY DEF Listed, W
<1> HIDE DEF a, b, p, P1
<1>7. /\ Len(p) = 5 + k /\ DOMAIN p = 1 .. 5 + k
      /\ \A i \in 1 .. 5 : p[i] = a[i]
      /\ \A i \in 6 .. 5 + k : i - 5 \in 1 .. k /\ p[i] = b[i - 5]
  <2>1. /\ a \o b \in Seq(P1) /\ Len(a \o b) = Len(a) + Len(b)
        /\ \A i \in 1 .. Len(a) + Len(b) : (a \o b)[i] = IF i <= Len(a) THEN a[i] ELSE b[i - Len(a)]
    <3>1. a \in Seq(P1) /\ b \in Seq(P1)
      BY <1>4, <1>5
    <3>2. QED
      BY <3>1, ConcatProperties
  <2>2. p \in Seq(P1) /\ Len(p) = 5 + k
    BY <1>4, <1>5, <1>6, <2>1
  <2>3. \A i \in 1 .. 5 + k : p[i] = IF i <= 5 THEN a[i] ELSE b[i - 5]
    BY <1>4, <1>5, <1>6, <2>1
  <2>4. DOMAIN p = 1 .. 5 + k
    BY <2>2, LenProperties
  <2>5. /\ \A i \in 1 .. 5 : i \in 1 .. 5 + k /\ i <= 5
        /\ \A i \in 6 .. 5 + k : i \in 1 .. 5 + k /\ ~ (i <= 5) /\ i - 5 \in 1 .. k
    BY <1>1
  <2>6. QED
    BY <2>2, <2>3, <2>4, <2>5
<1>8. \A i \in 1 .. 5 + k : i \in 1 .. 5 \/ i \in 6 .. 5 + k
  BY <1>1
<1>9. \A i \in 6 .. 5 + k : i - 5 \in 1 .. k /\ p[i] = Q[W[i - 5]] /\ W[i - 5] \in Receivers
  BY <1>1, <1>5, <1>7
<1>10. \A i \in 1 .. 5 : p[i] \in {R, D, B, Z, T}
  BY <1>4, <1>7
<1>11. p[1] = R /\ p[2] = D /\ p[3] = B /\ p[4] = Z /\ p[5] = T
  BY <1>4, <1>7
<1>12. UNION Elems(p) = 1 .. n
  <2>1. ASSUME NEW x \in Elems(p) PROVE x \subseteq 1 .. n
    <3>1. PICK i \in 1 .. 5 + k : x = p[i]
      BY <1>7 DEF Elems
    <3>2. CASE i \in 1 .. 5
      BY <1>2, <1>10, <3>1, <3>2 DEF P1
    <3>3. CASE i \in 6 .. 5 + k
      BY <1>2, <1>9, <3>1, <3>3 DEF P1
    <3>4. QED
      BY <1>8, <3>2, <3>3
  <2>2. R \in Elems(p) /\ D \in Elems(p) /\ B \in Elems(p) /\ Z \in Elems(p) /\ T \in Elems(p)
    <3>1. 1 \in DOMAIN p /\ 2 \in DOMAIN p /\ 3 \in DOMAIN p /\ 4 \in DOMAIN p /\ 5 \in DOMAIN p
      BY <1>1, <1>7
    <3>2. QED
      BY <1>11, <3>1 DEF Elems
  <2>3. ASSUME NEW w \in Receivers PROVE Q[w] \in Elems(p)
    <3>1. PICK i \in 1 .. k : W[i] = w
      BY <1>1
    <3>2. i + 5 \in 6 .. 5 + k /\ (i + 5) - 5 = i /\ i + 5 \in 1 .. 5 + k
      BY <1>1
    <3>3. p[i + 5] = Q[w]
      BY <1>9, <3>1, <3>2
    <3>4. QED
      BY <1>7, <3>2, <3>3 DEF Elems
  <2>4. QED
    BY <1>3, <2>1, <2>2, <2>3
<1>13. ASSUME NEW i \in 1 .. 5 + k, NEW j \in 1 .. 5 + k, i < j
       PROVE  p[i] \cap p[j] = {}
  <2>1. CASE i \in 1 .. 5 /\ j \in 1 .. 5
    <3>1. \/ i = 1 /\ j \in {2, 3, 4, 5}
          \/ i = 2 /\ j \in {3, 4, 5}
          \/ i = 3 /\ j \in {4, 5}
          \/ i = 4 /\ j = 5
      BY <1>13, <2>1
    <3>2. QED
      BY <1>3, <1>11, <3>1
  <2>2. CASE i \in 1 .. 5 /\ j \in 6 .. 5 + k
    BY <1>3, <1>9, <1>10, <2>2
  <2>3. CASE i \in 6 .. 5 + k /\ j \in 6 .. 5 + k
    <3>1. i - 5 # j - 5
      BY <1>13
    <3>2. W[i - 5] # W[j - 5]
      BY <1>1, <1>9, <2>3, <3>1
    <3>3. QED
      BY <1>3, <1>9, <2>3, <3>2
  <2>4. QED
    BY <1>1, <1>8, <1>13, <2>1, <2>2, <2>3
<1>14. \A i, j \in DOMAIN p : i # j => p[i] \cap p[j] = {}
  <2>1. ASSUME NEW i \in 1 .. 5 + k, NEW j \in 1 .. 5 + k, i # j PROVE p[i] \cap p[j] = {}
    <3>1. i < j \/ j < i
      BY <2>1
    <3>2. QED
      BY <1>13, <3>1
  <2>2. QED
    BY <1>7, <2>1
<1>15. QED
  BY <1>12, <1>14 DEF p

LEMMA MailHolds ==
  ASSUME MailInv
  PROVE  M!MailKept /\ M!MailInOrder
<1>1. M!MailKept
  <2> DEFINE p == Listed(refused, dropped, blocked, Elems(stash), Elems(taken), Queued)
  <2>1. UNION Elems(p) = 1 .. sent /\ \A i, j \in DOMAIN p : i # j => p[i] \cap p[j] = {}
    BY ListedIs DEF MailInv, Once
  <2>2. p = <<refused, dropped, blocked, M!ToSet(stash), M!ToSet(taken)>>
            \o [i \in DOMAIN M!Workers |-> M!InBoxes[M!Workers[i]]]
    BY DEF Listed, Queued, M!InBoxes, M!ToSet, Elems
  <2>3. M!ToSet(p) = Elems(p)
    BY DEF M!ToSet, Elems
  <2>4. M!IsInjective(taken) /\ \A w \in Receivers : M!IsInjective(mail[w])
    BY DEF MailInv, Once, Distinct, M!IsInjective
  <2> HIDE DEF p
  <2>5. QED
    BY <2>1, <2>2, <2>3, <2>4 DEF M!MailKept
<1>2. ASSUME kind \in Fifo PROVE M!InOrderOf(taken \o First)
  <2>1. Asc(taken) /\ Asc(First) /\ Before(Elems(taken), Elems(First))
    BY <1>2 DEF MailInv, FifoInv
  <2>2. taken \in Seq(Messages) /\ First \in Seq(Messages)
    BY MailFacts DEF MailInv, MailType
  <2>3. Asc(taken \o First)
    BY <2>1, <2>2, AscConcat DEF Before
  <2>4. QED
    BY <2>3 DEF Asc, M!InOrderOf
<1>3. ASSUME kind = "balancing", NEW w \in Receivers PROVE M!InOrderOf(mail[w])
  BY <1>3 DEF MailInv, SharesInv, Asc, M!InOrderOf
<1>4. kind = "priority" => M!ByPriority(First)
  BY DEF MailInv, HeapInv, Sorted, M!ByPriority
<1>5. ASSUME kind = "stash" PROVE M!InOrderBut(taken \o First, unstashed)
  <2>1. /\ AscBut(taken, unstashed) /\ AscBut(First, unstashed)
        /\ \A x \in Elems(taken) : \A y \in Elems(First) : Below(x, y, unstashed)
    BY <1>5 DEF MailInv, StashInv
  <2>2. taken \in Seq(Messages) /\ First \in Seq(Messages)
    BY MailFacts DEF MailInv, MailType
  <2>3. AscBut(taken \o First, unstashed)
    BY <2>1, <2>2, ButConcat
  <2>4. QED
    BY <2>3 DEF AscBut, Below, M!InOrderBut
<1>6. ASSUME kind = "drop_old", NEW m \in dropped, NEW x \in M!ToSet(First) PROVE m < x
  BY <1>6 DEF MailInv, DroppedInv, Before, M!ToSet, Elems
<1>7. kind \in M!Bounded \cup {"priority"} => Len(First) <= MailRoom
  BY DEF MailInv, RoomInv
<1>8. M!MailInOrder
  BY <1>2, <1>3, <1>4, <1>5, <1>6, <1>7 DEF M!MailInOrder, First, Fifo
<1>9. QED
  BY <1>1, <1>8

-----------------------------------------------------------------------------
(* The module: each part keeps its invariant, and no other part disturbs    *)
(* it.                                                                      *)
PatternsInv == PeersInv /\ BreakerInv /\ SagaInv
MailboxesInv == MailInv /\ EvenInv
IInv == ActorsInv /\ MailboxesInv /\ SupInv /\ PatternsInv

LEMMA PatternsBegin ==
  ASSUME P!PatternsInit
  PROVE  PatternsInv
<1>1. PeersInv
  <2>1. calls = [p \in Peers |-> 0] /\ replies = {} /\ Places = {"inside", "outside"}
    BY DEF P!PatternsInit, Places
  <2>2. awaiting = [s \in Peers \X Places |-> [n |-> 0, future |-> 0]]
    BY DEF P!PatternsInit, P!NoFuture, Places
  <2> HIDE DEF Places
  <2>3. calls \in [Peers -> Nat]
    BY <2>1
  <2>4. /\ awaiting \in [Peers \X Places -> [n : Nat, future : Nat]]
        /\ \A s \in Peers \X Places : awaiting[s].future \in {0, awaiting[s].n}
    BY <2>2
  <2>5. QED
    BY <2>1, <2>3, <2>4 DEF PeersInv, P!RepliesOwn
<1>2. BreakerInv
  BY ActorsAssumption DEF P!PatternsInit, BreakerInv, P!BreakerHolds
<1>3. SagaInv
  <2>1. /\ sagaState = "pending" /\ at = 1 /\ completed = <<>> /\ undo = <<>> /\ undone = <<>>
    BY DEF P!PatternsInit
  <2>2. /\ completed \in Seq(Nat) /\ undo \in Seq(Nat) /\ undone \in Seq(Nat)
        /\ at \in 1 .. Steps + 1
    BY <2>1, ActorsAssumption
  <2>3. EndsIn(completed, Done(at - 1))
    <3>1. Len(Done(0)) = 0 /\ Len(completed) \in Nat
      BY <2>2, DoneIs, LenProperties
    <3>2. EndsIn(completed, Done(0))
      BY <3>1 DEF EndsIn
    <3>3. at - 1 = 0
      BY <2>1
    <3>4. QED
      BY <3>2, <3>3
  <2>4. QED
    BY <2>1, <2>2, <2>3 DEF SagaInv
<1>4. QED
  BY <1>1, <1>2, <1>3 DEF PatternsInv

LEMMA InitInv == Init => IInv
<1> SUFFICES ASSUME Init PROVE IInv
  OBVIOUS
<1>1. ActorsInit /\ M!MailInit /\ S!SupInit /\ P!PatternsInit
  BY DEF Init
<1>2. QED
  BY <1>1, ActorsBegin, MailBegin, EvenBegin, SupBegin, PatternsBegin DEF IInv, MailboxesInv

(* What the other parts leave alone.                                        *)
LEMMA ActorsUnchanged ==
  ASSUME ActorsInv, UNCHANGED actorVars
  PROVE  ActorsInv'
<1>1. UNCHANGED <<sys, actors, state, stopFlag, mailbox, handling, opened, count,
                  asking, registered, asked, counted, failures>>
  BY DEF actorVars
<1>2. ActorsType' /\ OpenInv' /\ CutOffInv'
  BY <1>1 DEF ActorsInv, ActorsType, OpenInv, CutOffInv, CutOff
<1>3. AsksInv'
  BY <1>1 DEF ActorsInv, AsksInv, AnswersOwn, NoAskLeftOver, Answered
<1>4. SeenInv'
  BY <1>1 DEF ActorsInv, SeenInv, NothingOwed, Abreast, Heard, CutOff
<1>5. QED
  BY <1>2, <1>3, <1>4 DEF ActorsInv

LEMMA MailboxesUnchanged ==
  ASSUME MailboxesInv, UNCHANGED ofMail
  PROVE  MailboxesInv'
<1>1. UNCHANGED <<kind, mail, priority, blocked, stash, sent, refused, dropped, taken, held, unstashed>>
  BY DEF ofMail
<1>2. MailInv'
  BY <1>1, MailUnchanged DEF MailboxesInv
<1>3. ASSUME NEW q, NEW r, EvenAt(Len(M!Workers), q, r) PROVE EvenAt(Len(M!Workers), q, r)'
  BY <1>1, <1>3 DEF EvenAt, Lengths, Turn
<1>4. EvenInv'
  <2>1. EvenInv
    BY DEF MailboxesInv
  <2>2. QED
    BY <1>1, <1>3, <2>1 DEF EvenInv
<1>5. QED
  BY <1>2, <1>4 DEF MailboxesInv

LEMMA SupUnchanged ==
  ASSUME SupInv, UNCHANGED ofSupervisor
  PROVE  SupInv'
<1>1. UNCHANGED <<strategy, inbox, doing, children, specs, alive, made, watched, records,
                  wished, raised, granted, disowned>>
  BY DEF ofSupervisor
<1>2. SupType' /\ DoingInv'
  BY <1>1 DEF SupInv, SupType, DoingInv
<1>3. Known' /\ Noticed'
  BY <1>1 DEF SupInv, Known, Noticed, Over
<1>4. \A c \in ChildIds : Specified(c)' /\ Granted(c)' /\ Earned(c)'
  BY <1>1 DEF SupInv, Specified, Granted, Earned
<1>5. QED
  BY <1>2, <1>3, <1>4 DEF SupInv

LEMMA PeersUnchanged ==
  ASSUME PeersInv, UNCHANGED ofPeers
  PROVE  PeersInv'
BY DEF PeersInv, ofPeers, P!RepliesOwn

LEMMA BreakerUnchanged ==
  ASSUME BreakerInv, UNCHANGED ofBreaker
  PROVE  BreakerInv'
BY DEF BreakerInv, ofBreaker, P!BreakerHolds

LEMMA SagaUnchanged ==
  ASSUME SagaInv, UNCHANGED ofSaga
  PROVE  SagaInv'
BY DEF SagaInv, ofSaga

LEMMA NextInv == IInv /\ [Next]_vars => IInv'
<1> SUFFICES ASSUME IInv, [Next]_vars PROVE IInv'
  OBVIOUS
<1>0. ActorsInv /\ MailboxesInv /\ SupInv /\ PeersInv /\ BreakerInv /\ SagaInv /\ MailInv /\ EvenInv
  BY DEF IInv, PatternsInv, MailboxesInv
<1>1. CASE OfSystem(ActorsNext)
  <2>1. ActorsInv'
    BY <1>0, <1>1, ActorsStep DEF OfSystem
  <2>2. QED
    BY <1>0, <1>1, <2>1, MailboxesUnchanged, SupUnchanged, PeersUnchanged, BreakerUnchanged, SagaUnchanged
    DEF OfSystem, IInv, PatternsInv
<1>2. CASE OfMail(M!MailNext)
  <2>1. MailInv' /\ EvenInv'
    BY <1>0, <1>2, MailStep, EvenStep DEF OfMail
  <2>2. QED
    BY <1>0, <1>2, <2>1, ActorsUnchanged, SupUnchanged, PeersUnchanged, BreakerUnchanged, SagaUnchanged
    DEF OfMail, IInv, PatternsInv, MailboxesInv
<1>3. CASE OfSupervisor(S!SupNext)
  <2>1. SupInv'
    BY <1>0, <1>3, SupStep DEF OfSupervisor
  <2>2. QED
    BY <1>0, <1>3, <2>1, ActorsUnchanged, MailboxesUnchanged, PeersUnchanged, BreakerUnchanged, SagaUnchanged
    DEF OfSupervisor, IInv, PatternsInv
<1>4. CASE OfPeers(P!PeersNext)
  <2>1. PeersInv'
    BY <1>0, <1>4, PeersStep DEF OfPeers
  <2>2. QED
    BY <1>0, <1>4, <2>1, ActorsUnchanged, MailboxesUnchanged, SupUnchanged, BreakerUnchanged, SagaUnchanged
    DEF OfPeers, IInv, PatternsInv
<1>5. CASE OfBreaker(P!BreakerNext)
  <2>1. BreakerInv'
    BY <1>0, <1>5, BreakerStep DEF OfBreaker
  <2>2. QED
    BY <1>0, <1>5, <2>1, ActorsUnchanged, MailboxesUnchanged, SupUnchanged, PeersUnchanged, SagaUnchanged
    DEF OfBreaker, IInv, PatternsInv
<1>6. CASE OfSaga(P!SagaNext)
  <2>1. SagaInv'
    BY <1>0, <1>6, SagaStep DEF OfSaga
  <2>2. QED
    BY <1>0, <1>6, <2>1, ActorsUnchanged, MailboxesUnchanged, SupUnchanged, PeersUnchanged, BreakerUnchanged
    DEF OfSaga, IInv, PatternsInv
<1>7. CASE UNCHANGED vars
  BY <1>0, <1>7, ActorsUnchanged, MailboxesUnchanged, SupUnchanged, PeersUnchanged, BreakerUnchanged,
     SagaUnchanged DEF vars, IInv, PatternsInv
<1>8. QED
  BY <1>1, <1>2, <1>3, <1>4, <1>5, <1>6, <1>7 DEF Next

(* What the results follow from: every ask and every increment is accounted *)
(* for; every message of a mailbox has its place and its turn; what a       *)
(* supervisor runs is in its books or disowned, and what it has made, with  *)
(* what it is about to, is paid for by requests and granted restarts; and a *)
(* breaker and a saga remember what failed.                                 *)
THEOREM ActorsInvariant == Spec => []IInv
<1>1. IInv /\ [Next]_vars => IInv'
  BY NextInv
<1>2. QED
  BY <1>1, InitInv, PTL DEF Spec

(* An ask returns the answer to itself, or nothing, however many earlier    *)
(* ones have timed out, and the answer counts what its caller told before;  *)
(* an actor handles messages only between its pre_start and its post_stop;  *)
(* so it is with requests and responses between peers.                      *)
THEOREM AnswersOwned == Spec => []AnswersAreOwn
<1>1. IInv => AnswersAreOwn
  <2> SUFFICES ASSUME IInv PROVE AnswersAreOwn
    OBVIOUS
  <2>1. ActorsInv /\ P!RepliesOwn
    BY DEF IInv, PatternsInv, PeersInv
  <2>2. AnswersOwn /\ NoAskLeftOver
    BY <2>1 DEF ActorsInv, AsksInv
  <2>3. WorksWhileOpen
    BY <2>1 DEF ActorsInv, OpenInv, WorksWhileOpen
  <2>4. QED
    BY <2>1, <2>2, <2>3 DEF AnswersAreOwn
<1>2. QED
  BY <1>1, ActorsInvariant, PTL

(* Every message a mailbox was given is in exactly one place.  They are     *)
(* taken as they came: from the two that drop and from an unbounded one     *)
(* all, over a stash all but what was put back, from a balancing one those  *)
(* that wait for the same worker.  The next of a priority mailbox is none   *)
(* less urgent than another that waits; drop_old has dropped only what is   *)
(* older than all that waits; limits hold; and until one is taken, the      *)
(* balancing mailbox has shared its messages out evenly.                    *)
THEOREM MailStays == Spec => []MailIsKept
<1>1. IInv => MailIsKept
  BY MailHolds, EvenHolds DEF IInv, MailboxesInv, MailIsKept
<1>2. QED
  BY <1>1, ActorsInvariant, PTL

(* An enqueue is refused only by a closed mailbox or by a full one of the   *)
(* classes that refuse; and what was accepted is lost only as the oldest of *)
(* a full drop_old mailbox, or when a closed mailbox is to take back what   *)
(* was stashed.                                                             *)
THEOREM LostByPolicy == Spec => OnlyPolicyLoses
<1>1. ASSUME MailInv, M!MailNext
      PROVE  M!LosesByPolicy
  <2>1. ASSUME refused' = refused, dropped' = dropped PROVE M!LosesByPolicy
    BY <2>1 DEF M!LosesByPolicy
  <2>2. ASSUME M!Refuse, shutMail \/ (kind \in {"drop_new", "priority"} /\ M!Full) PROVE M!LosesByPolicy
    BY <2>2 DEF M!Refuse, M!LosesByPolicy
  <2>3. ASSUME NEW w, M!Accept(w) PROVE M!LosesByPolicy
    BY <2>1, <2>3 DEF M!Accept
  <2>4. CASE M!Enqueue
    <3>1. CASE M!Unbounded \/ M!DropNew
      BY <2>2, <2>3, <3>1 DEF M!Unbounded, M!DropNew
    <3>2. CASE M!DropOld
      <4>1. CASE ~ shutMail /\ M!Full
        BY <3>2, <4>1 DEF M!DropOld, M!LosesByPolicy
      <4>2. QED
        BY <2>2, <2>3, <3>2, <4>1 DEF M!DropOld
    <3>3. CASE M!Block
      BY <2>1, <2>2, <2>3, <3>3 DEF M!Block
    <3>4. CASE M!Balanced
      BY <2>2, <2>3, <3>4 DEF M!Balanced
    <3>5. ASSUME NEW p \in 0 .. 1, M!Prioritized(p) PROVE M!LosesByPolicy
      BY <2>1, <2>2, <3>5 DEF M!Prioritized
    <3>6. QED
      BY <2>4, <3>1, <3>2, <3>3, <3>4, <3>5 DEF M!Enqueue
  <2>5. ASSUME NEW w, M!TakeFirst(w) PROVE M!LosesByPolicy
    BY <2>1, <2>5 DEF M!TakeFirst
  <2>6. CASE M!DequeueAny \/ M!CloseMail
    BY <2>1, <2>5, <2>6 DEF M!DequeueAny, M!CloseMail
  <2>7. ASSUME NEW w \in Receivers, M!Dequeue(w) \/ M!Await(w) \/ M!Receive(w) \/ M!GiveUp(w)
        PROVE  M!LosesByPolicy
    BY <2>1, <2>5, <2>7 DEF M!Dequeue, M!Await, M!Receive, M!GiveUp
  <2>8. ASSUME NEW m, M!Unblock(m) \/ M!Handle(m) \/ M!Stash(m)
        PROVE  M!LosesByPolicy
    BY <2>1, <2>8 DEF M!Unblock, M!Handle, M!Stash
  <2>9. ASSUME NEW ms, Elems(ms) \subseteq Elems(stash), kind = "stash", refused' = refused, M!Unstash(ms)
        PROVE  M!LosesByPolicy
    <3>1. dropped' = dropped \/ (shutMail /\ dropped' = dropped \cup Elems(ms))
      BY <2>9 DEF M!Unstash, M!ToSet, Elems
    <3>2. M!ToSet(stash) = Elems(stash)
      BY DEF M!ToSet, Elems
    <3>3. QED
      BY <2>9, <3>1, <3>2 DEF M!LosesByPolicy
  <2>10. stash \in Seq(Messages)
    BY <1>1 DEF MailInv, MailType
  <2>11. CASE M!UnstashAll
    <3>1. M!Reverse(stash) = Backwards(stash)
      BY DEF M!Reverse, Backwards
    <3>2. Elems(M!Reverse(stash)) = Elems(stash)
      BY <2>10, <3>1, BackwardsIs
    <3>3. QED
      BY <2>9, <2>11, <3>2 DEF M!UnstashAll
  <2>12. CASE M!UnstashOne
    <3>1. Head(stash) \in Elems(stash)
      BY <2>10, <2>12, HeadTailProperties, LenProperties DEF M!UnstashOne, Elems
    <3>2. Elems(<<Head(stash)>>) \subseteq Elems(stash)
      BY <3>1 DEF Elems
    <3>3. QED
      BY <2>9, <2>12, <3>2 DEF M!UnstashOne
  <2>13. QED
    BY <1>1, <2>4, <2>6, <2>7, <2>8, <2>11, <2>12 DEF M!MailNext
<1>2. IInv /\ [Next]_vars => [M!LosesByPolicy]_ofMail
  <2> SUFFICES ASSUME IInv, [Next]_vars, ~ UNCHANGED ofMail PROVE M!LosesByPolicy
    OBVIOUS
  <2>1. OfMail(M!MailNext)
    BY DEF Next, vars, OfSystem, OfSupervisor, OfPeers, OfBreaker, OfSaga
  <2>2. QED
    BY <1>1, <2>1 DEF OfMail, IInv, MailboxesInv
<1>3. QED
  BY <1>2, ActorsInvariant, PTL DEF Spec, OnlyPolicyLoses

(* A supervisor lists each child once, and of what runs refers to each one  *)
(* it has not disowned; no child was made more often than it was asked for  *)
(* and ends were answered with a restart, which policy and limit allow each *)
(* time; a breaker that has seen enough failures is open; and a saga undoes *)
(* what it did, the last first.                                             *)
THEOREM Contained == Spec => []FailuresContained
<1>1. IInv => FailuresContained
  BY SupHolds, SagaUndoesHolds DEF IInv, PatternsInv, BreakerInv, FailuresContained
<1>2. QED
  BY <1>1, ActorsInvariant, PTL

=============================================================================
