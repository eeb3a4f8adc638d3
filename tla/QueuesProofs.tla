---------------------------- MODULE QueuesProofs ----------------------------
(***************************************************************************)
(* Proofs about the queues, buffers and channels of MCQueues: for any      *)
(* finite sets of producers and consumers with any timeouts, any items and *)
(* any capacity.                                                           *)
(***************************************************************************)
EXTENDS MCQueues, FiniteSetTheorems, TLAPS

-----------------------------------------------------------------------------
(* The invariant. *)

Of(k) == {t \in Tasks : pc[t] = k}

(* Who waits, or was woken and has not run, in either direction. *)
Callers ==
  /\ pc \in [Tasks -> {"idle", "put", "get"}]
  /\ arg \in [Tasks -> Items \cup {NoItem}]
  /\ Of("put") \subseteq Producers /\ Of("get") \subseteq Consumers
  /\ \A t \in Of("put") : arg[t] \in Items

Line(line, S) == line \in Seq(S) /\ IsInjective(line)

Lines == Line(putters, Of("put")) /\ Line(getters, Of("get"))

(* Those that were woken. *)
Putting == Of("put") \ Waiting(putters)
Getting == Of("get") \ Waiting(getters)

(* Whoever waits for an item finds the others busy with those that are      *)
(* there, and whoever waits for room finds none that nobody is about to     *)
(* take; but for w of them.                                                 *)
NobodyWaitsInVain(w) ==
  /\ getters # <<>> => Len(buffer) <= Cardinality(Getting) + w
  /\ putters # <<>> => Capacity <= Len(buffer) + Cardinality(Putting) + w

Blocking == {"block", "priority", "buffered", "enhanced"}

Contents ==
  /\ buffer \in Seq(Items) /\ accepted \in Seq(Items) /\ gone \in Seq(Items)
  /\ subject # "unbounded" => Len(buffer) <= Capacity
  /\ IF subject = "priority" THEN PriorityKept ELSE InOrder

QueueInv ==
  /\ Contents
  /\ subject \notin Blocking => Of("put") = {}

SyncInv ==
  /\ accepted \in Seq(Items) /\ gone \in Seq(Items \cup {NoItem}) /\ lost \in Nat
  /\ HandedOver
  /\ expired \subseteq Of("put") \cup Of("get")

(* Of a broadcast: who is in the list is receiving, and every place of the  *)
(* list is one of the other list too.                                       *)
BroadcastInv ==
  /\ putters = <<>> /\ getters = <<>>
  /\ Line(regs, Of("get"))
  /\ refs \in Seq(Consumers \cup {Dead}) /\ Len(regs) <= Len(refs)
  /\ box \in [Consumers -> Seq(Items \cup {NoItem})]
  /\ due \in [Consumers -> Int]
  /\ AllAreSentTo

IInv ==
  /\ Callers /\ Lines
  /\ subject \notin {"synchronous", "broadcast"} => QueueInv
  /\ subject \notin {"enhanced", "synchronous", "broadcast"} => NobodyWaitsInVain(0)
  /\ subject = "synchronous" => SyncInv
  /\ subject = "broadcast" => BroadcastInv

-----------------------------------------------------------------------------
(* Parts of sequences. *)

LEMMA FrontPart ==
  ASSUME NEW S, NEW q \in Seq(S), NEW k \in 0 .. Len(q)
  PROVE  /\ SubSeq(q, 1, k) \in Seq(S) /\ Len(SubSeq(q, 1, k)) = k
         /\ \A i \in 1 .. k : SubSeq(q, 1, k)[i] = q[i]
OBVIOUS

LEMMA RestPart ==
  ASSUME NEW S, NEW q \in Seq(S), NEW k \in 0 .. Len(q)
  PROVE  /\ SubSeq(q, k + 1, Len(q)) \in Seq(S) /\ Len(SubSeq(q, k + 1, Len(q))) = Len(q) - k
         /\ \A i \in 1 .. Len(q) - k : SubSeq(q, k + 1, Len(q))[i] = q[k + i]
OBVIOUS

LEMMA Within ==
  ASSUME NEW S, NEW q \in Seq(S), NEW T, \A i \in 1 .. Len(q) : q[i] \in T
  PROVE  q \in Seq(T)
OBVIOUS

LEMMA Joined ==
  ASSUME NEW S, NEW u \in Seq(S), NEW v \in Seq(S)
  PROVE  /\ u \o v \in Seq(S) /\ Len(u \o v) = Len(u) + Len(v)
         /\ \A i \in 1 .. Len(u) : (u \o v)[i] = u[i]
         /\ \A i \in 1 .. Len(v) : (u \o v)[Len(u) + i] = v[i]
OBVIOUS

-----------------------------------------------------------------------------
(* Lines of callers. *)

LEMMA LineWoken ==
  ASSUME NEW S, NEW line, Line(line, S), line # <<>>
  PROVE  /\ Line(Next1(line), S \ {Head(line)})
         /\ Waiting(Next1(line)) = Waiting(line) \ {Head(line)}
         /\ Head(line) \in Waiting(line) /\ Head(line) \in S
<1>1. /\ line \in Seq(S) /\ DOMAIN line = 1 .. Len(line) /\ Len(line) \in Nat \ {0}
      /\ \A a, b \in DOMAIN line : line[a] = line[b] => a = b
  BY DEF Line, IsInjective
<1>2. /\ Next1(line) = Tail(line) /\ Tail(line) \in Seq(S) /\ Head(line) = line[1]
      /\ Len(Tail(line)) = Len(line) - 1
      /\ \A i \in 1 .. Len(line) - 1 : Tail(line)[i] = line[i + 1]
  BY <1>1 DEF Next1
<1>3. DOMAIN Tail(line) = 1 .. Len(line) - 1
  BY <1>1, <1>2
<1>9. Tail(line) \in Seq(S \ {line[1]})
  <2>1. \A i \in 1 .. Len(line) - 1 : line[i + 1] \in S /\ line[i + 1] # line[1]
    BY <1>1
  <2>2. QED
    BY <1>2, <2>1, Within
<1>4. ASSUME NEW a \in DOMAIN Tail(line), NEW b \in DOMAIN Tail(line),
             Tail(line)[a] = Tail(line)[b]
      PROVE  a = b
  <2>1. a + 1 \in DOMAIN line /\ b + 1 \in DOMAIN line /\ line[a + 1] = line[b + 1]
    BY <1>1, <1>2, <1>3, <1>4
  <2>2. a + 1 = b + 1
    BY <1>1, <2>1
  <2>3. QED
    BY <1>1, <1>3, <2>2
<1>5. Waiting(Tail(line)) = Waiting(line) \ {line[1]}
  <2>1. ASSUME NEW i \in DOMAIN Tail(line) PROVE Tail(line)[i] \in Waiting(line) \ {line[1]}
    BY <1>1, <1>2, <1>3 DEF Waiting
  <2>2. ASSUME NEW i \in DOMAIN line, line[i] # line[1] PROVE line[i] \in Waiting(Tail(line))
    <3>1. i - 1 \in 1 .. Len(line) - 1 /\ Tail(line)[i - 1] = line[i]
      BY <1>1, <1>2, <2>2
    <3>2. QED
      BY <1>3, <3>1 DEF Waiting
  <2>3. QED
    BY <2>1, <2>2 DEF Waiting
<1>6. line[1] \in Waiting(line) /\ line[1] \in S
  BY <1>1 DEF Waiting
<1>8. QED
  BY <1>2, <1>4, <1>5, <1>6, <1>9 DEF Line, IsInjective

LEMMA LineLonger ==
  ASSUME NEW S, NEW line, Line(line, S), NEW t, t \notin Waiting(line)
  PROVE  /\ Line(Append(line, t), S \cup {t})
         /\ Waiting(Append(line, t)) = Waiting(line) \cup {t}
<1>1. /\ line \in Seq(S) /\ DOMAIN line = 1 .. Len(line) /\ Len(line) \in Nat
      /\ \A a, b \in DOMAIN line : line[a] = line[b] => a = b
  BY DEF Line, IsInjective
<1>2. line \in Seq(S \cup {t})
  BY <1>1
<1>3. /\ Append(line, t) \in Seq(S \cup {t})
      /\ DOMAIN Append(line, t) = 1 .. Len(line) + 1
      /\ \A i \in 1 .. Len(line) : Append(line, t)[i] = line[i]
      /\ Append(line, t)[Len(line) + 1] = t
  BY <1>1, <1>2
<1>4. \A i \in 1 .. Len(line) : line[i] # t
  BY <1>1 DEF Waiting
<1>5. \A a, b \in DOMAIN Append(line, t) : Append(line, t)[a] = Append(line, t)[b] => a = b
  BY <1>1, <1>3, <1>4
<1>6. Waiting(Append(line, t)) = Waiting(line) \cup {t}
  BY <1>1, <1>3 DEF Waiting
<1>7. QED
  BY <1>3, <1>5, <1>6 DEF Line, IsInjective

(* list.remove, for a caller that is in the line or not. *)
LEMMA LineWithout ==
  ASSUME NEW S, NEW line, Line(line, S), NEW t
  PROVE  /\ Line(Without(line, t), S \ {t})
         /\ Waiting(Without(line, t)) = Waiting(line) \ {t}
         /\ t \notin Waiting(line) => Without(line, t) = line
         /\ Len(Without(line, t)) <= Len(line)
<1>1. /\ line \in Seq(S) /\ DOMAIN line = 1 .. Len(line) /\ Len(line) \in Nat
      /\ \A a, b \in DOMAIN line : line[a] = line[b] => a = b
  BY DEF Line, IsInjective
<1>2. CASE t \notin Waiting(line)
  <2>1. line \in Seq(S \ {t})
    BY <1>1, <1>2 DEF Waiting
  <2>2. QED
    BY <1>1, <1>2, <2>1 DEF Without, Line, IsInjective
<1>3. CASE t \in Waiting(line)
  <2> DEFINE c == CHOOSE i \in DOMAIN line : line[i] = t
             n == Len(line)
             u == SubSeq(line, 1, c - 1)
             v == SubSeq(line, c + 1, n)
             r == Without(line, t)
  <2>1. c \in 1 .. n /\ line[c] = t
    BY <1>1, <1>3 DEF Waiting
  <2>2. r = u \o v
    BY <1>3 DEF Without, RemoveAt
  <2> HIDE DEF c, r
  <2>3. c - 1 \in 0 .. Len(line) /\ c \in 0 .. Len(line) /\ n \in Nat
    BY <1>1, <2>1
  <2>4. /\ u \in Seq(S) /\ Len(u) = c - 1 /\ \A i \in 1 .. c - 1 : u[i] = line[i]
        /\ v \in Seq(S) /\ Len(v) = n - c /\ \A i \in 1 .. n - c : v[i] = line[c + i]
    <3>1. line \in Seq(S)
      BY <1>1
    <3>2. u \in Seq(S) /\ Len(u) = c - 1 /\ \A i \in 1 .. c - 1 : u[i] = line[i]
      BY <2>3, <3>1, FrontPart
    <3>3. v \in Seq(S) /\ Len(v) = n - c /\ \A i \in 1 .. n - c : v[i] = line[c + i]
      BY <2>3, <3>1, RestPart
    <3>4. QED
      BY <3>2, <3>3
  <2> HIDE DEF u, v
  <2>5. /\ r \in Seq(S) /\ Len(r) = n - 1 /\ DOMAIN r = 1 .. n - 1
        /\ \A i \in 1 .. n - 1 : r[i] = IF i < c THEN line[i] ELSE line[i + 1]
    <3>0. /\ u \o v \in Seq(S) /\ Len(u \o v) = Len(u) + Len(v)
          /\ \A i \in 1 .. Len(u) : (u \o v)[i] = u[i]
          /\ \A i \in 1 .. Len(v) : (u \o v)[Len(u) + i] = v[i]
      <4>1. u \in Seq(S) /\ v \in Seq(S)
        BY <2>4
      <4>2. QED
        BY <4>1, Joined
    <3>1. r \in Seq(S) /\ Len(r) = n - 1
      BY <1>1, <2>2, <2>3, <2>4, <3>0
    <3>2. ASSUME NEW i \in 1 .. n - 1
          PROVE  r[i] = IF i < c THEN line[i] ELSE line[i + 1]
      <4>1. CASE i < c
        BY <1>1, <2>2, <2>3, <2>4, <3>0, <4>1
      <4>2. CASE i >= c
        <5>1. i - (c - 1) \in 1 .. n - c /\ r[i] = v[i - (c - 1)]
          BY <1>1, <2>2, <2>3, <2>4, <3>0, <4>2
        <5>2. v[i - (c - 1)] = line[c + (i - (c - 1))] /\ c + (i - (c - 1)) = i + 1
          BY <1>1, <2>3, <2>4, <5>1
        <5>3. QED
          BY <2>3, <4>2, <5>1, <5>2
      <4>3. QED
        BY <2>3, <4>1, <4>2
    <3>3. QED
      BY <2>3, <3>1, <3>2
  <2>51. ASSUME NEW i \in DOMAIN r
         PROVE  \E h \in 1 .. n : /\ h # c /\ r[i] = line[h]
                                 /\ h = IF i < c THEN i ELSE i + 1
    <3>1. CASE i < c
      <4>1. i \in 1 .. n /\ i # c /\ r[i] = line[i]
        BY <2>3, <2>5, <3>1
      <4>2. QED
        BY <3>1, <4>1
    <3>2. CASE i >= c
      <4>1. i + 1 \in 1 .. n /\ i + 1 # c /\ r[i] = line[i + 1] /\ ~ (i < c)
        BY <2>3, <2>5, <3>2
      <4>2. QED
        BY <4>1
    <3>3. QED
      BY <2>1, <2>3, <2>5, <3>1, <3>2
  <2>6. \A a, b \in DOMAIN r : r[a] = r[b] => a = b
    <3>1. ASSUME NEW a \in DOMAIN r, NEW b \in DOMAIN r, r[a] = r[b] PROVE a = b
      <4>1. PICK g \in 1 .. n : r[a] = line[g] /\ g = IF a < c THEN a ELSE a + 1
        BY <2>51
      <4>2. PICK h \in 1 .. n : r[b] = line[h] /\ h = IF b < c THEN b ELSE b + 1
        BY <2>51
      <4>3. g = h
        BY <1>1, <3>1, <4>1, <4>2
      <4>4. QED
        BY <2>1, <2>5, <4>1, <4>2, <4>3
    <3>2. QED
      BY <3>1
  <2>7. \A i \in DOMAIN r : r[i] \in Waiting(line) \ {t}
    BY <1>1, <2>1, <2>51 DEF Waiting
  <2>8. ASSUME NEW i \in DOMAIN line, line[i] # t PROVE line[i] \in Waiting(r)
    <3>1. CASE i < c
      <4>1. i \in DOMAIN r /\ r[i] = line[i]
        BY <1>1, <2>1, <2>5, <3>1
      <4>2. QED
        BY <4>1 DEF Waiting
    <3>2. CASE i > c
      <4>1. i - 1 \in DOMAIN r /\ r[i - 1] = line[i]
        BY <1>1, <2>1, <2>5, <3>2
      <4>2. QED
        BY <4>1 DEF Waiting
    <3>3. i # c
      BY <2>1, <2>8
    <3>4. QED
      BY <1>1, <2>1, <3>1, <3>2, <3>3
  <2>9. Waiting(r) = Waiting(line) \ {t}
    BY <2>7, <2>8 DEF Waiting
  <2>10. r \in Seq(S \ {t})
    BY <2>5, <2>7
  <2>11. Len(r) <= Len(line)
    BY <1>1, <2>5
  <2>12. QED
    BY <1>3, <2>6, <2>9, <2>10, <2>11 DEF Line, IsInjective, r
<1>4. QED
  BY <1>2, <1>3

LEMMA LineEmpty == \A S : Line(<<>>, S) /\ Waiting(<<>>) = {}
BY DEF Line, IsInjective, Waiting

LEMMA LineIn ==
  ASSUME NEW S, NEW line, Line(line, S)
  PROVE  Waiting(line) \subseteq S /\ \A T : S \subseteq T => Line(line, T)
<1>1. line \in Seq(S)
  BY DEF Line
<1>2. Waiting(line) \subseteq S
  BY <1>1 DEF Waiting
<1>3. ASSUME NEW T, S \subseteq T PROVE Line(line, T)
  <2>1. line \in Seq(T)
    BY <1>1, <1>3, Within
  <2>2. QED
    BY <2>1 DEF Line
<1>4. QED
  BY <1>2, <1>3

(* How many of S are awake when t, who is not in the line, leaves S and     *)
(* wakes the first of the line; when t leaves S and the line; and when t    *)
(* joins both.                                                              *)
LEMMA WakeFirst ==
  ASSUME NEW S, IsFiniteSet(S), NEW line, Line(line, S), NEW t, t \notin Waiting(line)
  PROVE  /\ Line(Next1(line), S \ {t})
         /\ Next1(line) # <<>> =>
              Cardinality((S \ {t}) \ Waiting(Next1(line)))
                = (IF t \in S THEN 0 ELSE 1) + Cardinality(S \ Waiting(line))
         /\ line = <<>> => Next1(line) = <<>>
<1>1. CASE line = <<>>
  BY <1>1, LineEmpty DEF Next1
<1>2. CASE line # <<>>
  <2> DEFINE h == Head(line)
             A == S \ Waiting(line)
  <2>1. /\ Line(Next1(line), S \ {h}) /\ Waiting(Next1(line)) = Waiting(line) \ {h}
        /\ h \in Waiting(line) /\ h \in S
    BY <1>2, LineWoken
  <2>2. Waiting(Next1(line)) \subseteq S \ {t}
    BY <2>1, LineIn
  <2>3. Line(Next1(line), S \ {t})
    <3>1. Next1(line) \in Seq(S \ {h}) /\ IsInjective(Next1(line))
      BY <2>1 DEF Line
    <3>2. \A i \in 1 .. Len(Next1(line)) : Next1(line)[i] \in S \ {t}
      BY <2>2, <3>1 DEF Waiting
    <3>3. QED
      BY <3>1, <3>2, Within DEF Line
  <2>4. IsFiniteSet(A) /\ h \notin A /\ Cardinality(A) \in Nat
    BY <2>1, FS_Subset, FS_CardinalityType
  <2>5. (S \ {t}) \ Waiting(Next1(line)) = (A \ {t}) \cup {h}
    BY <2>1
  <2>6. /\ IsFiniteSet(A \ {t}) /\ Cardinality(A \ {t}) = IF t \in A THEN Cardinality(A) - 1
                                                         ELSE Cardinality(A)
    BY <2>4, FS_RemoveElement
  <2>7. Cardinality((A \ {t}) \cup {h}) = Cardinality(A \ {t}) + 1
    BY <2>4, <2>6, FS_AddElement
  <2>8. t \in A <=> t \in S
    OBVIOUS
  <2>9. Cardinality((A \ {t}) \cup {h}) = (IF t \in S THEN 0 ELSE 1) + Cardinality(A)
    <3> HIDE DEF A, h
    <3>1. QED
      BY <2>4, <2>6, <2>7, <2>8
  <2>10. QED
    BY <1>2, <2>3, <2>5, <2>9
<1>3. QED
  BY <1>1, <1>2

LEMMA LeaveLine ==
  ASSUME NEW S, NEW line, Line(line, S), NEW t
  PROVE  /\ Line(Without(line, t), S \ {t})
         /\ (S \ {t}) \ Waiting(Without(line, t)) = (S \ Waiting(line)) \ {t}
         /\ t \notin Waiting(line) => Without(line, t) = line
BY LineWithout

LEMMA OneLess ==
  ASSUME NEW A, IsFiniteSet(A), NEW t
  PROVE  Cardinality(A \ {t}) = Cardinality(A) - (IF t \in A THEN 1 ELSE 0)
BY FS_RemoveElement, FS_CardinalityType

LEMMA WithoutOfEmpty == \A t : Without(<<>>, t) = <<>>
BY LineEmpty DEF Without

LEMMA JoinLine ==
  ASSUME NEW S, IsFiniteSet(S), NEW line, Line(line, S), NEW t, t \notin Waiting(line),
         NEW T, T = S \cup {t}
  PROVE  /\ Line(Append(line, t), T)
         /\ T \ Waiting(Append(line, t)) = (S \ Waiting(line)) \ {t}
<1>1. /\ Line(Append(line, t), S \cup {t})
      /\ Waiting(Append(line, t)) = Waiting(line) \cup {t}
  BY LineLonger
<1>2. QED
  BY <1>1

-----------------------------------------------------------------------------
(* Callers. *)

LEMMA CallersFacts ==
  ASSUME Callers, Lines
  PROVE  /\ IsFiniteSet(Tasks)
         /\ Of("put") \cap Of("get") = {}
         /\ IsFiniteSet(Of("put")) /\ IsFiniteSet(Of("get"))
         /\ IsFiniteSet(Putting) /\ Cardinality(Putting) \in Nat
         /\ IsFiniteSet(Getting) /\ Cardinality(Getting) \in Nat
         /\ Waiting(putters) \subseteq Of("put") /\ Waiting(getters) \subseteq Of("get")
         /\ \A t \in Tasks : Woken(t) <=> t \in Putting \cup Getting
<1>1. IsFiniteSet(Tasks)
  BY QueueAssumption, FS_Union DEF Tasks
<1>2. IsFiniteSet(Of("put")) /\ IsFiniteSet(Of("get"))
  BY <1>1, FS_Subset DEF Of
<1>3. Waiting(putters) \subseteq Of("put") /\ Waiting(getters) \subseteq Of("get")
  BY LineIn DEF Lines
<1>4. IsFiniteSet(Putting) /\ IsFiniteSet(Getting)
  BY <1>2, FS_Subset DEF Putting, Getting
<1>5. Of("put") \cap Of("get") = {}
  BY DEF Of
<1>6. \A t \in Tasks : Woken(t) <=> t \in Putting \cup Getting
  BY <1>3, <1>5 DEF Woken, Putting, Getting, Of, Callers
<1>7. QED
  BY <1>1, <1>2, <1>3, <1>4, <1>5, <1>6, FS_CardinalityType

LEMMA BecomesIdle ==
  ASSUME Callers, NEW t \in Tasks, Idle(t)
  PROVE  /\ Callers'
         /\ Of("put")' = Of("put") \ {t} /\ Of("get")' = Of("get") \ {t}
<1>1. /\ pc' = [pc EXCEPT ![t] = "idle"] /\ arg' = [arg EXCEPT ![t] = NoItem]
      /\ pc \in [Tasks -> {"idle", "put", "get"}] /\ arg \in [Tasks -> Items \cup {NoItem}]
  BY DEF Idle, Callers
<1>2. /\ pc' \in [Tasks -> {"idle", "put", "get"}] /\ arg' \in [Tasks -> Items \cup {NoItem}]
      /\ pc'[t] = "idle" /\ \A s \in Tasks \ {t} : pc'[s] = pc[s] /\ arg'[s] = arg[s]
  BY <1>1
<1>3. Of("put")' = Of("put") \ {t} /\ Of("get")' = Of("get") \ {t}
  BY <1>2 DEF Of
<1>4. \A s \in Of("put")' : arg'[s] \in Items
  BY <1>2, <1>3 DEF Callers, Of
<1>5. QED
  BY <1>2, <1>3, <1>4 DEF Callers

LEMMA BeginsToWait ==
  ASSUME Callers, NEW t \in Tasks, NEW k \in {"put", "get"}, pc[t] \in {"idle", k},
         pc' = [pc EXCEPT ![t] = k],
         NEW x \in Items \cup {NoItem}, arg' = [arg EXCEPT ![t] = x],
         k = "put" => x \in Items /\ t \in Producers, k = "get" => t \in Consumers
  PROVE  /\ Callers'
         /\ Of(k)' = Of(k) \cup {t}
         /\ k = "put" => Of("get")' = Of("get")
         /\ k = "get" => Of("put")' = Of("put")
<1>1. pc \in [Tasks -> {"idle", "put", "get"}] /\ arg \in [Tasks -> Items \cup {NoItem}]
  BY DEF Callers
<1>2. /\ pc' \in [Tasks -> {"idle", "put", "get"}] /\ arg' \in [Tasks -> Items \cup {NoItem}]
      /\ pc'[t] = k /\ arg'[t] = x
      /\ \A s \in Tasks \ {t} : pc'[s] = pc[s] /\ arg'[s] = arg[s]
  BY <1>1
<1>3. /\ Of(k)' = Of(k) \cup {t}
      /\ k = "put" => Of("get")' = Of("get")
      /\ k = "get" => Of("put")' = Of("put")
  BY <1>2 DEF Of
<1>4. \A s \in Of("put")' : arg'[s] \in Items
  BY <1>2, <1>3 DEF Callers, Of
<1>5. QED
  BY <1>2, <1>3, <1>4 DEF Callers

-----------------------------------------------------------------------------
(* The steps of a queue, whatever is in it: who waits is not forgotten.     *)

Settled(w) == Callers /\ Lines /\ NobodyWaitsInVain(w)

LEMMA PrimedSets ==
  /\ Putting = Of("put") \ Waiting(putters) /\ Putting' = Of("put")' \ Waiting(putters')
  /\ Getting = Of("get") \ Waiting(getters) /\ Getting' = Of("get")' \ Waiting(getters')
BY DEF Putting, Getting, Waiting

(* t puts an item in, or waits for room; the getters are told.              *)
LEMMA ItemEnters ==
  ASSUME NEW w \in Nat, Settled(w), NEW t \in Tasks, t \notin Of("get"), t \notin Waiting(putters),
         Idle(t), getters' = Next1(getters), putters' = putters,
         Len(buffer) \in Nat, Len(buffer') = Len(buffer) + 1
  PROVE  Settled(w)' /\ Of("put")' \subseteq Of("put")
<1>1. Callers /\ Lines /\ NobodyWaitsInVain(w)
  BY DEF Settled, Callers
<1>2. /\ Callers' /\ Of("put")' = Of("put") \ {t} /\ Of("get")' = Of("get")
  BY <1>1, BecomesIdle
<1>3. /\ IsFiniteSet(Of("put")) /\ IsFiniteSet(Of("get"))
      /\ IsFiniteSet(Putting) /\ Cardinality(Putting) \in Nat
      /\ IsFiniteSet(Getting) /\ Cardinality(Getting) \in Nat
  BY <1>1, CallersFacts
<1>4. /\ Line(putters, Of("put")) /\ Line(getters, Of("get")) /\ t \notin Waiting(getters)
  BY <1>1, LineIn DEF Lines
<1>5. /\ Line(putters', Of("put")') /\ Putting' = Putting \ {t}
      /\ Cardinality(Putting') = Cardinality(Putting) - (IF t \in Putting THEN 1 ELSE 0)
  <2>1. /\ Line(Without(putters, t), Of("put") \ {t}) /\ Without(putters, t) = putters
        /\ (Of("put") \ {t}) \ Waiting(Without(putters, t)) = (Of("put") \ Waiting(putters)) \ {t}
    BY <1>3, <1>4, LeaveLine
  <2>2. Cardinality(Putting \ {t}) = Cardinality(Putting) - (IF t \in Putting THEN 1 ELSE 0)
    BY <1>3, OneLess
  <2>3. QED
    BY <1>2, <2>1, <2>2, PrimedSets
<1>6. /\ Line(getters', Of("get")') /\ (getters = <<>> => getters' = <<>>)
      /\ getters' # <<>> => Cardinality(Getting') = 1 + Cardinality(Getting)
  <2>1. Of("get") \ {t} = Of("get")
    OBVIOUS
  <2>2. /\ Line(Next1(getters), Of("get") \ {t}) /\ (getters = <<>> => Next1(getters) = <<>>)
        /\ Next1(getters) # <<>> =>
              Cardinality((Of("get") \ {t}) \ Waiting(Next1(getters)))
                = (IF t \in Of("get") THEN 0 ELSE 1) + Cardinality(Of("get") \ Waiting(getters))
    BY <1>3, <1>4, WakeFirst
  <2>3. QED
    BY <1>2, <2>1, <2>2, PrimedSets
<1>7. NobodyWaitsInVain(w)'
  BY <1>1, <1>3, <1>5, <1>6, QueueAssumption DEF NobodyWaitsInVain
<1>8. getters = <<>> => Getting' = Getting
  BY <1>2, <1>6 DEF Getting
<1>9. QED
  BY <1>2, <1>5, <1>6, <1>7, <1>8 DEF Settled, Lines

(* t takes an item out; the putters are told. *)
LEMMA ItemLeaves ==
  ASSUME NEW w \in Nat, Settled(w), NEW t \in Tasks, t \notin Of("put"), t \notin Waiting(getters),
         Idle(t), putters' = Next1(putters), getters' = getters,
         Len(buffer) \in Nat \ {0}, Len(buffer') = Len(buffer) - 1
  PROVE  Settled(w)' /\ Of("put")' \subseteq Of("put")
<1>1. Callers /\ Lines /\ NobodyWaitsInVain(w)
  BY DEF Settled, Callers
<1>2. /\ Callers' /\ Of("put")' = Of("put") /\ Of("get")' = Of("get") \ {t}
  BY <1>1, BecomesIdle
<1>3. /\ IsFiniteSet(Of("put")) /\ IsFiniteSet(Of("get"))
      /\ IsFiniteSet(Putting) /\ Cardinality(Putting) \in Nat
      /\ IsFiniteSet(Getting) /\ Cardinality(Getting) \in Nat
  BY <1>1, CallersFacts
<1>4. /\ Line(putters, Of("put")) /\ Line(getters, Of("get")) /\ t \notin Waiting(putters)
  BY <1>1, LineIn DEF Lines
<1>5. /\ Line(getters', Of("get")') /\ Getting' = Getting \ {t}
      /\ Cardinality(Getting') = Cardinality(Getting) - (IF t \in Getting THEN 1 ELSE 0)
  <2>1. /\ Line(Without(getters, t), Of("get") \ {t}) /\ Without(getters, t) = getters
        /\ (Of("get") \ {t}) \ Waiting(Without(getters, t)) = (Of("get") \ Waiting(getters)) \ {t}
    BY <1>3, <1>4, LeaveLine
  <2>2. Cardinality(Getting \ {t}) = Cardinality(Getting) - (IF t \in Getting THEN 1 ELSE 0)
    BY <1>3, OneLess
  <2>3. QED
    BY <1>2, <2>1, <2>2, PrimedSets
<1>6. /\ Line(putters', Of("put")') /\ (putters = <<>> => putters' = <<>>)
      /\ putters' # <<>> => Cardinality(Putting') = 1 + Cardinality(Putting)
  <2>1. Of("put") \ {t} = Of("put")
    OBVIOUS
  <2>2. /\ Line(Next1(putters), Of("put") \ {t}) /\ (putters = <<>> => Next1(putters) = <<>>)
        /\ Next1(putters) # <<>> =>
              Cardinality((Of("put") \ {t}) \ Waiting(Next1(putters)))
                = (IF t \in Of("put") THEN 0 ELSE 1) + Cardinality(Of("put") \ Waiting(putters))
    BY <1>3, <1>4, WakeFirst
  <2>3. QED
    BY <1>2, <2>1, <2>2, PrimedSets
<1>7. NobodyWaitsInVain(w)'
  BY <1>1, <1>3, <1>5, <1>6, QueueAssumption DEF NobodyWaitsInVain
<1>8. putters = <<>> => Putting' = Putting
  BY <1>2, <1>6, PrimedSets
<1>9. QED
  BY <1>2, <1>5, <1>6, <1>7, <1>8 DEF Settled, Lines

(* t waits for room in a full queue, perhaps for the second time. *)
LEMMA WaitsForRoom ==
  ASSUME NEW w \in Nat, Settled(w),
         NEW t \in Producers, pc[t] \in {"idle", "put"}, t \notin Waiting(putters),
         NEW x \in Items, pc' = [pc EXCEPT ![t] = "put"], arg' = [arg EXCEPT ![t] = x],
         putters' = Append(putters, t),
         Len(buffer) \in Nat, Capacity <= Len(buffer),
         UNCHANGED <<buffer, getters>>
  PROVE  Settled(w)'
<1>1. Callers /\ Lines /\ NobodyWaitsInVain(w) /\ t \in Tasks
  BY DEF Settled, Callers, Tasks
<1>2. /\ Callers' /\ Of("put")' = Of("put") \cup {t} /\ Of("get")' = Of("get")
  BY <1>1, BeginsToWait
<1>3. /\ IsFiniteSet(Of("put")) /\ Cardinality(Getting) \in Nat
      /\ Line(putters, Of("put")) /\ Line(getters, Of("get"))
  BY <1>1, CallersFacts DEF Lines
<1>4. /\ Line(putters', Of("put")')
      /\ Of("put")' \ Waiting(putters') = (Of("put") \ Waiting(putters)) \ {t}
  <2>1. /\ Line(Append(putters, t), Of("put") \cup {t})
        /\ (Of("put") \cup {t}) \ Waiting(Append(putters, t)) = (Of("put") \ Waiting(putters)) \ {t}
    <3>1. t \notin Waiting(putters) /\ IsFiniteSet(Of("put")) /\ Line(putters, Of("put"))
      BY <1>3
    <3>2. QED
      BY ONLY <3>1, JoinLine
  <2>2. QED
    BY <1>2, <2>1
<1>5. /\ Line(putters', Of("put")') /\ Putting' = Putting \ {t}
      /\ Line(getters', Of("get")') /\ Getting' = Getting
  BY <1>2, <1>3, <1>4, PrimedSets
<1>6. IsFiniteSet(Tasks) /\ Putting' \subseteq Tasks
  BY <1>1, <1>5, CallersFacts DEF Putting, Of
<1>7. Cardinality(Putting') \in Nat
  BY <1>6, FS_Subset, FS_CardinalityType
<1>8. NobodyWaitsInVain(w)'
  BY <1>1, <1>3, <1>5, <1>7, QueueAssumption DEF NobodyWaitsInVain
<1>9. QED
  BY <1>2, <1>5, <1>8 DEF Settled, Lines

(* t waits for an item of an empty queue. *)
LEMMA WaitsForItem ==
  ASSUME NEW w \in Nat, Settled(w),
         NEW t \in Consumers, pc[t] \in {"idle", "get"}, t \notin Waiting(getters),
         pc' = [pc EXCEPT ![t] = "get"], getters' = Append(getters, t), buffer = <<>>,
         UNCHANGED <<buffer, putters, arg>>
  PROVE  Settled(w)' /\ Of("put")' = Of("put")
<1>1. Callers /\ Lines /\ NobodyWaitsInVain(w) /\ t \in Tasks
  BY DEF Settled, Callers, Tasks
<1>2. arg \in [Tasks -> Items \cup {NoItem}] /\ arg[t] \in Items \cup {NoItem}
      /\ arg' = [arg EXCEPT ![t] = arg[t]]
  BY <1>1 DEF Callers
<1>3. /\ Callers' /\ Of("get")' = Of("get") \cup {t} /\ Of("put")' = Of("put")
  BY <1>1, <1>2, BeginsToWait
<1>4. /\ IsFiniteSet(Of("get")) /\ Cardinality(Putting) \in Nat
      /\ Line(putters, Of("put")) /\ Line(getters, Of("get"))
  BY <1>1, CallersFacts DEF Lines
<1>5. /\ Line(getters', Of("get")')
      /\ Of("get")' \ Waiting(getters') = (Of("get") \ Waiting(getters)) \ {t}
  <2>1. /\ Line(Append(getters, t), Of("get") \cup {t})
        /\ (Of("get") \cup {t}) \ Waiting(Append(getters, t)) = (Of("get") \ Waiting(getters)) \ {t}
    <3>1. t \notin Waiting(getters) /\ IsFiniteSet(Of("get")) /\ Line(getters, Of("get"))
      BY <1>4
    <3>2. QED
      BY ONLY <3>1, JoinLine
  <2>2. QED
    BY <1>3, <2>1
<1>6. /\ Line(getters', Of("get")') /\ Getting' = Getting \ {t}
      /\ Line(putters', Of("put")') /\ Putting' = Putting
  BY <1>3, <1>4, <1>5, PrimedSets
<1>7. IsFiniteSet(Tasks) /\ Getting' \subseteq Tasks
  BY <1>1, <1>6, CallersFacts DEF Getting, Of
<1>8. Cardinality(Getting') \in Nat
  BY <1>7, FS_Subset, FS_CardinalityType
<1>9. NobodyWaitsInVain(w)'
  BY <1>1, <1>4, <1>6, <1>8, QueueAssumption DEF NobodyWaitsInVain
<1>10. QED
  BY <1>3, <1>6, <1>9 DEF Settled, Lines

LEMMA NobodyInLine ==
  ASSUME NEW line, Line(line, {})
  PROVE  line = <<>>
<1>1. line \in Seq({}) /\ Len(line) \in Nat
  BY DEF Line
<1>2. ASSUME Len(line) # 0 PROVE FALSE
  <2>1. 1 \in DOMAIN line /\ line[1] \in {}
    BY <1>1, <1>2
  <2>2. QED
    BY <2>1
<1>3. QED
  BY <1>1, <1>2

(* An item is put in the place of another, where nobody waits for room. *)
LEMMA ItemReplaced ==
  ASSUME NEW w \in Nat, Settled(w), Of("put") = {}, UNCHANGED <<pc, arg>>,
         NEW t \in Tasks, pc[t] = "idle",
         putters' = Next1(putters), getters' = Next1(getters),
         Len(buffer) \in Nat, Len(buffer') = Len(buffer)
  PROVE  Settled(w)' /\ Of("put")' = {}
<1>1. Callers /\ Lines /\ NobodyWaitsInVain(w)
  BY DEF Settled, Callers
<1>2. Callers' /\ Of("put")' = Of("put") /\ Of("get")' = Of("get")
  BY <1>1 DEF Callers, Of
<1>3. /\ IsFiniteSet(Of("get")) /\ Cardinality(Getting) \in Nat
      /\ Line(putters, Of("put")) /\ Line(getters, Of("get"))
      /\ t \notin Of("get") /\ t \notin Waiting(getters)
  BY <1>1, CallersFacts DEF Lines, Of
<1>4. putters = <<>> /\ putters' = <<>>
  <2>1. putters = <<>>
    BY <1>3, NobodyInLine
  <2>2. QED
    BY <2>1 DEF Next1
<1>5. Line(putters', Of("put")')
  BY <1>4, LineEmpty
<1>6. /\ Line(getters', Of("get")') /\ (getters = <<>> => getters' = <<>>)
      /\ getters' # <<>> => Cardinality(Getting') = 1 + Cardinality(Getting)
  <2>1. Of("get") \ {t} = Of("get")
    BY <1>3
  <2>2. /\ Line(Next1(getters), Of("get") \ {t}) /\ (getters = <<>> => Next1(getters) = <<>>)
        /\ Next1(getters) # <<>> =>
              Cardinality((Of("get") \ {t}) \ Waiting(Next1(getters)))
                = (IF t \in Of("get") THEN 0 ELSE 1) + Cardinality(Of("get") \ Waiting(getters))
    BY <1>3, WakeFirst
  <2>3. QED
    BY <1>2, <1>3, <2>1, <2>2, PrimedSets
<1>7. NobodyWaitsInVain(w)'
  BY <1>1, <1>3, <1>4, <1>6 DEF NobodyWaitsInVain
<1>8. QED
  BY <1>2, <1>5, <1>6, <1>7 DEF Settled, Lines

(* The call of t ends without an item: who was woken for nothing does not   *)
(* leave its item, or its room, to nobody.                                  *)
LEMMA EndsInVain ==
  ASSUME NEW w \in Nat, Settled(w), NEW t \in Tasks, Idle(t), Len(buffer) \in Nat,
         NEW v \in Nat, v >= w, buffer' = buffer,
         \/ /\ putters' = Without(putters, t)
            /\ t \in Putting => v > w \/ Capacity <= Len(buffer)
         \/ t \in Putting /\ putters' = Next1(putters),
         \/ /\ getters' = Without(getters, t)
            /\ t \in Getting => v > w \/ Len(buffer) = 0
         \/ t \in Getting /\ getters' = Next1(getters)
  PROVE  Settled(v)' /\ Of("put")' \subseteq Of("put")
<1>1. Callers /\ Lines /\ NobodyWaitsInVain(w)
  BY DEF Settled, Callers
<1>2. Callers' /\ Of("put")' = Of("put") \ {t} /\ Of("get")' = Of("get") \ {t}
  BY <1>1, BecomesIdle
<1>3. /\ IsFiniteSet(Of("put")) /\ IsFiniteSet(Of("get"))
      /\ IsFiniteSet(Putting) /\ Cardinality(Putting) \in Nat
      /\ IsFiniteSet(Getting) /\ Cardinality(Getting) \in Nat
      /\ Line(putters, Of("put")) /\ Line(getters, Of("get"))
  BY <1>1, CallersFacts DEF Lines
<1>4. /\ Line(putters', Of("put")') /\ (putters = <<>> => putters' = <<>>)
      /\ putters' # <<>> =>
              \/ Cardinality(Putting') = Cardinality(Putting)
              \/ /\ v > w \/ Capacity <= Len(buffer)
                 /\ Cardinality(Putting') = Cardinality(Putting) - 1
  <2>1. \/ /\ putters' = Without(putters, t)
           /\ t \in Putting => v > w \/ Capacity <= Len(buffer)
        \/ t \in Of("put") \ Waiting(putters) /\ putters' = Next1(putters)
    BY PrimedSets
  <2>2. /\ Line(putters', Of("put") \ {t}) /\ (putters = <<>> => putters' = <<>>)
        /\ putters' # <<>> =>
              \/ Cardinality((Of("put") \ {t}) \ Waiting(putters')) = Cardinality(Of("put") \ Waiting(putters))
              \/ /\ v > w \/ Capacity <= Len(buffer)
                 /\ Cardinality((Of("put") \ {t}) \ Waiting(putters'))
                      = Cardinality(Of("put") \ Waiting(putters)) - 1
    <3>1. CASE /\ putters' = Without(putters, t)
               /\ t \in Putting => v > w \/ Capacity <= Len(buffer)
      <4>1. /\ Line(Without(putters, t), Of("put") \ {t})
            /\ (Of("put") \ {t}) \ Waiting(Without(putters, t)) = (Of("put") \ Waiting(putters)) \ {t}
        <5>1. Line(putters, Of("put"))
          BY <1>3
        <5>2. QED
          BY ONLY <5>1, LeaveLine, SMTT(40)
      <4>2. Cardinality(Putting \ {t}) = Cardinality(Putting) - (IF t \in Putting THEN 1 ELSE 0)
        BY <1>3, OneLess
      <4>6. putters' = Without(putters, t) /\ (t \in Putting => v > w \/ Capacity <= Len(buffer))
        BY <3>1
      <4>4. putters = <<>> => putters' = <<>>
        BY ONLY <4>6, WithoutOfEmpty
      <4>5. Putting = Of("put") \ Waiting(putters)
        BY PrimedSets
      <4>7. /\ Line(putters', Of("put") \ {t})
            /\ Cardinality((Of("put") \ {t}) \ Waiting(putters'))
                 = Cardinality(Of("put") \ Waiting(putters)) - (IF t \in Putting THEN 1 ELSE 0)
        BY ONLY <4>1, <4>2, <4>5, <4>6
      <4>8. Cardinality(Of("put") \ Waiting(putters)) \in Nat
        BY <1>3, <4>5
      <4>9. QED
        BY ONLY <4>4, <4>6, <4>7, <4>8
    <3>2. CASE t \in Of("put") \ Waiting(putters) /\ putters' = Next1(putters)
      <4>1. /\ Line(Next1(putters), Of("put") \ {t}) /\ (putters = <<>> => Next1(putters) = <<>>)
            /\ Next1(putters) # <<>> =>
                 Cardinality((Of("put") \ {t}) \ Waiting(Next1(putters)))
                   = (IF t \in Of("put") THEN 0 ELSE 1) + Cardinality(Of("put") \ Waiting(putters))
        BY ONLY <1>3, <3>2, WakeFirst
      <4>2. QED
        BY <1>3, <3>2, <4>1, PrimedSets
    <3>3. QED
      BY <2>1, <3>1, <3>2
  <2>3. QED
    BY <1>2, <2>2, PrimedSets
<1>5. /\ Line(getters', Of("get")') /\ (getters = <<>> => getters' = <<>>)
      /\ getters' # <<>> =>
              \/ Cardinality(Getting') = Cardinality(Getting)
              \/ /\ v > w \/ Len(buffer) = 0
                 /\ Cardinality(Getting') = Cardinality(Getting) - 1
  <2>1. \/ /\ getters' = Without(getters, t)
           /\ t \in Getting => v > w \/ Len(buffer) = 0
        \/ t \in Of("get") \ Waiting(getters) /\ getters' = Next1(getters)
    BY PrimedSets
  <2>2. /\ Line(getters', Of("get") \ {t}) /\ (getters = <<>> => getters' = <<>>)
        /\ getters' # <<>> =>
              \/ Cardinality((Of("get") \ {t}) \ Waiting(getters')) = Cardinality(Of("get") \ Waiting(getters))
              \/ /\ v > w \/ Len(buffer) = 0
                 /\ Cardinality((Of("get") \ {t}) \ Waiting(getters'))
                      = Cardinality(Of("get") \ Waiting(getters)) - 1
    <3>1. CASE /\ getters' = Without(getters, t)
               /\ t \in Getting => v > w \/ Len(buffer) = 0
      <4>1. /\ Line(Without(getters, t), Of("get") \ {t})
            /\ (Of("get") \ {t}) \ Waiting(Without(getters, t)) = (Of("get") \ Waiting(getters)) \ {t}
        <5>1. Line(getters, Of("get"))
          BY <1>3
        <5>2. QED
          BY ONLY <5>1, LeaveLine, SMTT(40)
      <4>2. Cardinality(Getting \ {t}) = Cardinality(Getting) - (IF t \in Getting THEN 1 ELSE 0)
        BY <1>3, OneLess
      <4>6. getters' = Without(getters, t) /\ (t \in Getting => v > w \/ Len(buffer) = 0)
        BY <3>1
      <4>4. getters = <<>> => getters' = <<>>
        BY ONLY <4>6, WithoutOfEmpty
      <4>5. Getting = Of("get") \ Waiting(getters)
        BY PrimedSets
      <4>7. /\ Line(getters', Of("get") \ {t})
            /\ Cardinality((Of("get") \ {t}) \ Waiting(getters'))
                 = Cardinality(Of("get") \ Waiting(getters)) - (IF t \in Getting THEN 1 ELSE 0)
        BY ONLY <4>1, <4>2, <4>5, <4>6
      <4>8. Cardinality(Of("get") \ Waiting(getters)) \in Nat
        BY <1>3, <4>5
      <4>9. QED
        BY ONLY <4>4, <4>6, <4>7, <4>8
    <3>2. CASE t \in Of("get") \ Waiting(getters) /\ getters' = Next1(getters)
      <4>1. /\ Line(Next1(getters), Of("get") \ {t}) /\ (getters = <<>> => Next1(getters) = <<>>)
            /\ Next1(getters) # <<>> =>
                 Cardinality((Of("get") \ {t}) \ Waiting(Next1(getters)))
                   = (IF t \in Of("get") THEN 0 ELSE 1) + Cardinality(Of("get") \ Waiting(getters))
        BY ONLY <1>3, <3>2, WakeFirst
      <4>2. QED
        BY <1>3, <3>2, <4>1, PrimedSets
    <3>3. QED
      BY <2>1, <3>1, <3>2
  <2>3. QED
    BY <1>2, <2>2, PrimedSets
<1>6. Cardinality(Putting') \in Nat /\ Cardinality(Getting') \in Nat
  <2>1. Callers' /\ Lines'
    BY <1>2, <1>4, <1>5 DEF Lines
  <2>2. IsFiniteSet(Tasks) /\ Putting' \subseteq Tasks /\ Getting' \subseteq Tasks
    BY <1>1, CallersFacts DEF Putting, Getting, Of
  <2>3. QED
    BY <2>2, FS_Subset, FS_CardinalityType
<1>7. NobodyWaitsInVain(v)'
  <2>1. /\ getters # <<>> => Len(buffer) <= Cardinality(Getting) + w
        /\ putters # <<>> => Capacity <= Len(buffer) + Cardinality(Putting) + w
    BY <1>1 DEF NobodyWaitsInVain
  <2>2. Capacity \in Nat
    BY QueueAssumption
  <2>3. ASSUME getters' # <<>> PROVE Len(buffer) <= Cardinality(Getting') + v
    <3>1. \/ Cardinality(Getting') = Cardinality(Getting)
          \/ v > w \/ Len(buffer) = 0
      BY <1>5, <2>3
    <3>2. Cardinality(Getting) - 1 <= Cardinality(Getting')
      BY <1>3, <1>5, <2>3
    <3>3. getters # <<>>
      BY <1>5, <2>3
    <3>4. QED
      BY <1>3, <1>6, <2>1, <3>1, <3>2, <3>3
  <2>4. ASSUME putters' # <<>> PROVE Capacity <= Len(buffer) + Cardinality(Putting') + v
    <3>1. \/ Cardinality(Putting') = Cardinality(Putting)
          \/ v > w \/ Capacity <= Len(buffer)
      BY <1>4, <2>4
    <3>2. Cardinality(Putting) - 1 <= Cardinality(Putting')
      BY <1>3, <1>4, <2>4
    <3>3. putters # <<>>
      BY <1>4, <2>4
    <3>4. QED
      BY <1>3, <1>6, <2>1, <2>2, <3>1, <3>2, <3>3
  <2>5. QED
    BY <2>3, <2>4 DEF NobodyWaitsInVain
<1>8. QED
  BY <1>2, <1>4, <1>5, <1>7 DEF Settled, Lines

-----------------------------------------------------------------------------
(* What is in the queue. *)

(* r is s with y put in at position i. *)
OneMore(r, s, i, y) ==
  /\ i \in 1 .. Len(s) + 1 /\ Len(r) = Len(s) + 1
  /\ \A k \in 1 .. Len(s) + 1 : r[k] = IF k < i THEN s[k] ELSE IF k = i THEN y ELSE s[k - 1]

Recounted(r, s, y) ==
  \A x : /\ Count(x, s) \in Nat
         /\ Count(x, r) = Count(x, s) + (IF x = y THEN 1 ELSE 0)

LEMMA CountOneMore ==
  ASSUME NEW S, NEW s \in Seq(S), NEW r \in Seq(S), NEW i, NEW y, OneMore(r, s, i, y)
  PROVE  Recounted(r, s, y)
<1> SUFFICES ASSUME NEW x PROVE  /\ Count(x, s) \in Nat
                                 /\ Count(x, r) = Count(x, s) + (IF x = y THEN 1 ELSE 0)
  BY DEF Recounted
<1> DEFINE n == Len(s)
           A == {k \in 1 .. n : s[k] = x}
           B == {k \in 1 .. n + 1 : r[k] = x}
           f == [k \in A |-> IF k < i THEN k ELSE k + 1]
<1>1. n \in Nat /\ DOMAIN s = 1 .. n /\ DOMAIN r = 1 .. n + 1 /\ i \in 1 .. n + 1
  BY DEF OneMore
<1>2. Count(x, s) = Cardinality(A) /\ Count(x, r) = Cardinality(B)
  BY <1>1 DEF Count
<1>3. IsFiniteSet(A) /\ IsFiniteSet(B)
  <2>1. IsFiniteSet(1 .. n) /\ IsFiniteSet(1 .. n + 1)
    BY <1>1, FS_Interval
  <2>2. A \in SUBSET (1 .. n) /\ B \in SUBSET (1 .. n + 1)
    OBVIOUS
  <2> HIDE DEF A, B
  <2>3. QED
    BY <2>1, <2>2, FS_Subset
<1>4. r[i] = y /\ \A k \in 1 .. n : r[IF k < i THEN k ELSE k + 1] = s[k]
  BY <1>1 DEF OneMore
<1>5. f \in Bijection(A, B \ {i})
  <2>1. f \in [A -> B \ {i}]
    <3>1. ASSUME NEW k \in A
          PROVE  (IF k < i THEN k ELSE k + 1) \in B \ {i}
      BY <1>1, <1>4
    <3>2. QED
      BY <3>1
  <2>2. \A a, b \in A : f[a] = f[b] => a = b
    BY <1>1
  <2>3. ASSUME NEW k \in B \ {i} PROVE \E a \in A : f[a] = k
    <3>1. CASE k < i
      <4>1. k \in A /\ f[k] = k
        BY <1>1, <1>4, <3>1
      <4>2. QED
        BY <4>1
    <3>2. CASE k > i
      <4>1. k - 1 \in 1 .. n /\ (k - 1) + 1 = k /\ ~ (k - 1 < i)
        BY <1>1, <3>2
      <4>2. r[k] = s[k - 1]
        BY <1>4, <4>1
      <4>3. k - 1 \in A
        BY <4>1, <4>2
      <4>4. f[k - 1] = k
        BY <4>1, <4>3
      <4>5. QED
        BY <4>3, <4>4
    <3>3. k \in 1 .. n + 1 /\ k # i
      OBVIOUS
    <3>4. k < i \/ k > i
      BY <1>1, <3>3
    <3>5. QED
      BY <3>1, <3>2, <3>4
  <2>4. QED
    BY <2>1, <2>2, <2>3 DEF Bijection, Injection, Surjection, IsInjective
<1>6. Cardinality(B \ {i}) = Cardinality(A) /\ Cardinality(A) \in Nat
  BY <1>3, <1>5, FS_Bijection, FS_CardinalityType DEF ExistsBijection
<1>7. Cardinality(B \ {i}) = Cardinality(B) - (IF i \in B THEN 1 ELSE 0) /\ Cardinality(B) \in Nat
  BY <1>3, OneLess, FS_CardinalityType
<1>8. i \in B <=> x = y
  BY <1>1, <1>4
<1>9. QED
  <2> HIDE DEF A, B
  <2>1. QED
    BY <1>2, <1>6, <1>7, <1>8

LEMMA Appended ==
  ASSUME NEW S, NEW s \in Seq(S), NEW y \in S
  PROVE  Append(s, y) \in Seq(S) /\ OneMore(Append(s, y), s, Len(s) + 1, y)
BY DEF OneMore

LEMMA FirstTaken ==
  ASSUME NEW S, NEW s \in Seq(S), s # <<>>
  PROVE  /\ Tail(s) \in Seq(S) /\ Head(s) \in S /\ Len(s) \in Nat \ {0}
         /\ Len(Tail(s)) = Len(s) - 1
         /\ OneMore(s, Tail(s), 1, Head(s))
BY DEF OneMore

LEMMA Inserted ==
  ASSUME NEW S, NEW s \in Seq(S), NEW y \in S, NEW i \in 1 .. Len(s) + 1
  PROVE  InsertAt(s, i, y) \in Seq(S) /\ OneMore(InsertAt(s, i, y), s, i, y)
<1> DEFINE n == Len(s)
           u == SubSeq(s, 1, i - 1)
           v == SubSeq(s, i, n)
           a == u \o <<y>>
           q == InsertAt(s, i, y)
<1>1. n \in Nat /\ i - 1 \in 0 .. Len(s) /\ i = (i - 1) + 1
  OBVIOUS
<1>2. /\ u \in Seq(S) /\ Len(u) = i - 1 /\ \A k \in 1 .. i - 1 : u[k] = s[k]
  BY <1>1, FrontPart
<1>3. /\ v \in Seq(S) /\ Len(v) = n - (i - 1) /\ \A k \in 1 .. n - (i - 1) : v[k] = s[(i - 1) + k]
  <2>1. v = SubSeq(s, (i - 1) + 1, Len(s))
    BY <1>1
  <2>2. QED
    BY <1>1, <2>1, RestPart
<1>4. q = a \o v
  BY DEF InsertAt
<1> HIDE DEF u, v, q
<1>5. /\ a \in Seq(S) /\ Len(a) = i
      /\ \A k \in 1 .. i - 1 : a[k] = s[k]
      /\ a[i] = y
  BY <1>1, <1>2
<1> HIDE DEF a
<1>6. /\ q \in Seq(S) /\ Len(q) = i + Len(v)
      /\ \A k \in 1 .. i : q[k] = a[k]
      /\ \A k \in 1 .. Len(v) : q[i + k] = v[k]
  <2>1. /\ a \o v \in Seq(S) /\ Len(a \o v) = Len(a) + Len(v)
        /\ \A k \in 1 .. Len(a) : (a \o v)[k] = a[k]
        /\ \A k \in 1 .. Len(v) : (a \o v)[Len(a) + k] = v[k]
    BY <1>3, <1>5, Joined
  <2>2. QED
    BY <1>4, <1>5, <2>1
<1>7. ASSUME NEW k \in 1 .. n + 1
      PROVE  q[k] = IF k < i THEN s[k] ELSE IF k = i THEN y ELSE s[k - 1]
  <2>1. CASE k <= i
    BY <1>1, <1>5, <1>6, <2>1
  <2>2. CASE k > i
    <3>1. k - i \in 1 .. Len(v) /\ i + (k - i) = k /\ (i - 1) + (k - i) = k - 1
      BY <1>1, <1>3, <2>2
    <3>2. q[k] = v[k - i]
      BY <1>6, <3>1
    <3>3. v[k - i] = s[k - 1]
      BY <1>3, <3>1
    <3>4. QED
      BY <1>1, <2>2, <3>2, <3>3
  <2>3. QED
    BY <1>1, <2>1, <2>2
<1>8. Len(q) = n + 1
  BY <1>1, <1>3, <1>6
<1>9. QED
  BY <1>1, <1>6, <1>7, <1>8 DEF OneMore, q

LEMMA AppendBehind ==
  ASSUME NEW S, NEW d \in Seq(S), NEW b \in Seq(S), NEW x \in S
  PROVE  d \o Append(b, x) = Append(d \o b, x)
<1>1. /\ d \o b \in Seq(S) /\ Append(d \o b, x) \in Seq(S)
      /\ Append(b, x) \in Seq(S) /\ d \o Append(b, x) \in Seq(S)
      /\ Len(Append(d \o b, x)) = Len(d \o Append(b, x))
  OBVIOUS
<1>2. ASSUME NEW i \in 1 .. Len(Append(d \o b, x))
      PROVE  Append(d \o b, x)[i] = (d \o Append(b, x))[i]
  OBVIOUS
<1>3. QED
  BY <1>1, <1>2

LEMMA HeadMoves ==
  ASSUME NEW S, NEW d \in Seq(S), NEW b \in Seq(S), b # <<>>
  PROVE  Append(d, Head(b)) \o Tail(b) = d \o b
<1>1. /\ Head(b) \in S /\ Tail(b) \in Seq(S) /\ Len(b) \in Nat \ {0} /\ Len(Tail(b)) = Len(b) - 1
      /\ Head(b) = b[1] /\ \A i \in 1 .. Len(Tail(b)) : Tail(b)[i] = b[i + 1]
  OBVIOUS
<1>2. /\ Append(d, Head(b)) \o Tail(b) \in Seq(S) /\ d \o b \in Seq(S)
      /\ Len(Append(d, Head(b)) \o Tail(b)) = Len(d \o b)
  BY <1>1
<1>3. ASSUME NEW i \in 1 .. Len(Append(d, Head(b)) \o Tail(b))
      PROVE  (Append(d, Head(b)) \o Tail(b))[i] = (d \o b)[i]
  BY <1>1, <1>3
<1>4. QED
  BY <1>2, <1>3
-----------------------------------------------------------------------------
(* What is in the queue, after each of the steps. *)

LEMMA SameContents ==
  ASSUME Contents, UNCHANGED <<subject, buffer, accepted, gone>>
  PROVE  Contents'
BY DEF Contents, PriorityKept, InOrder, Count

LEMMA PutInKeeps ==
  ASSUME Contents, NEW x \in Items, PutIn(x), UNCHANGED <<subject, gone>>,
         subject # "priority", subject # "unbounded" => Len(buffer) < Capacity
  PROVE  Contents' /\ Len(buffer') = Len(buffer) + 1
<1>1. /\ buffer \in Seq(Items) /\ accepted \in Seq(Items) /\ gone \in Seq(Items)
      /\ buffer' = Append(buffer, x) /\ accepted' = Append(accepted, x) /\ gone' = gone
      /\ accepted = gone \o buffer
  BY DEF Contents, PutIn, InOrder
<1>2. accepted' = gone' \o buffer'
  <2>1. gone \o Append(buffer, x) = Append(gone \o buffer, x)
    BY <1>1, AppendBehind
  <2>2. QED
    BY <1>1, <2>1
<1>3. /\ buffer' \in Seq(Items) /\ accepted' \in Seq(Items) /\ gone' \in Seq(Items)
      /\ Len(buffer) \in Nat /\ Len(buffer') = Len(buffer) + 1
  BY <1>1
<1>4. QED
  BY <1>2, <1>3, QueueAssumption DEF Contents, InOrder

LEMMA TakeOutKeeps ==
  ASSUME Contents, TakeOut, buffer # <<>>, UNCHANGED <<subject, accepted>>
  PROVE  Contents' /\ Len(buffer) \in Nat \ {0} /\ Len(buffer') = Len(buffer) - 1
<1>1. /\ buffer \in Seq(Items) /\ accepted \in Seq(Items) /\ gone \in Seq(Items)
      /\ buffer' = Tail(buffer) /\ gone' = Append(gone, Head(buffer)) /\ accepted' = accepted
  BY DEF Contents, TakeOut
<1>2. /\ buffer' \in Seq(Items) /\ Head(buffer) \in Items /\ Len(buffer) \in Nat \ {0}
      /\ Len(buffer') = Len(buffer) - 1
      /\ OneMore(buffer, buffer', 1, Head(buffer))
  BY <1>1, FirstTaken
<1>3. gone' \in Seq(Items) /\ OneMore(gone', gone, Len(gone) + 1, Head(buffer))
  BY <1>1, <1>2, Appended
<1>4. CASE subject # "priority"
  <2>1. accepted = gone \o buffer
    BY <1>4 DEF Contents, InOrder
  <2>2. accepted' = gone' \o buffer'
    BY <1>1, <2>1, HeadMoves
  <2>3. Len(buffer') <= Capacity \/ subject' = "unbounded"
    BY <1>2, QueueAssumption DEF Contents
  <2>4. QED
    BY <1>1, <1>2, <1>3, <1>4, <2>2, <2>3 DEF Contents, InOrder
<1>5. CASE subject = "priority"
  <2>1. PriorityKept
    BY <1>5 DEF Contents
  <2>6. Recounted(buffer, buffer', Head(buffer))
    BY <1>1, <1>2, CountOneMore
  <2>7. Recounted(gone', gone, Head(buffer))
    BY <1>1, <1>3, CountOneMore
  <2>2. ASSUME NEW y \in Items
        PROVE  Count(y, accepted) = Count(y, gone') + Count(y, buffer')
    <3>1. /\ Count(y, buffer') \in Nat
          /\ Count(y, buffer) = Count(y, buffer') + (IF y = Head(buffer) THEN 1 ELSE 0)
      BY <2>6 DEF Recounted
    <3>2. /\ Count(y, gone) \in Nat
          /\ Count(y, gone') = Count(y, gone) + (IF y = Head(buffer) THEN 1 ELSE 0)
      BY <2>7 DEF Recounted
    <3>3. Count(y, accepted) = Count(y, gone) + Count(y, buffer)
      BY <2>1 DEF PriorityKept
    <3>4. QED
      BY <3>1, <3>2, <3>3
  <2>3. ASSUME NEW a \in DOMAIN buffer', NEW b \in DOMAIN buffer', a < b
        PROVE  buffer'[a] <= buffer'[b]
    <3>0. /\ DOMAIN buffer = 1 .. Len(buffer) /\ DOMAIN buffer' = 1 .. Len(buffer')
          /\ \A i \in 1 .. Len(buffer') : buffer'[i] = buffer[i + 1]
      BY <1>1, <1>2
    <3>1. /\ a + 1 \in DOMAIN buffer /\ b + 1 \in DOMAIN buffer /\ a + 1 < b + 1
          /\ buffer'[a] = buffer[a + 1] /\ buffer'[b] = buffer[b + 1]
      BY <1>2, <2>3, <3>0
    <3>2. QED
      BY <2>1, <3>1 DEF PriorityKept
  <2>4. PriorityKept'
    <3>1. \A y \in Items : Count(y, accepted') = Count(y, gone') + Count(y, buffer')
      BY <1>1, <2>2
    <3>2. QED
      BY <2>3, <3>1 DEF PriorityKept, Count
  <2>5. QED
    BY <1>1, <1>2, <1>3, <1>5, <2>4, QueueAssumption DEF Contents
<1>6. QED
  BY <1>2, <1>4, <1>5

LEMMA DropOldestKeeps ==
  ASSUME Contents, subject = "drop_oldest", subject' = subject,
         NEW t, NEW x \in Items, DropOldest(t, x)
  PROVE  Contents' /\ Len(buffer') = Len(buffer) /\ Len(buffer) \in Nat
<1>1. /\ buffer \in Seq(Items) /\ accepted \in Seq(Items) /\ gone \in Seq(Items)
      /\ buffer' = Append(Tail(buffer), x) /\ gone' = Append(gone, Head(buffer))
      /\ accepted' = Append(accepted, x)
      /\ accepted = gone \o buffer /\ Len(buffer) >= Capacity /\ Len(buffer) <= Capacity
  BY DEF Contents, DropOldest, InOrder, Full
<1>2. buffer # <<>>
  BY <1>1, QueueAssumption
<1>3. /\ Tail(buffer) \in Seq(Items) /\ Head(buffer) \in Items
      /\ Len(buffer) \in Nat \ {0} /\ Len(Tail(buffer)) = Len(buffer) - 1
      /\ gone' \in Seq(Items) /\ accepted' \in Seq(Items)
      /\ buffer' \in Seq(Items) /\ Len(buffer') = Len(buffer)
  BY <1>1, <1>2
<1>4. accepted = gone' \o Tail(buffer)
  BY <1>1, <1>2, HeadMoves
<1>5. accepted' = gone' \o buffer'
  <2>1. gone' \o Append(Tail(buffer), x) = Append(gone' \o Tail(buffer), x)
    BY <1>3, AppendBehind
  <2>2. QED
    BY <1>1, <1>4, <2>1
<1>6. QED
  BY <1>1, <1>3, <1>4, <1>5 DEF Contents, InOrder

LEMMA PriorityInKeeps ==
  ASSUME Contents, subject = "priority", subject' = subject,
         NEW t, NEW x \in Items, PriorityIn(t, x)
  PROVE  Contents' /\ Len(buffer) \in Nat /\ Len(buffer') = Len(buffer) + 1
<1>1. /\ buffer \in Seq(Items) /\ accepted \in Seq(Items) /\ gone \in Seq(Items)
      /\ accepted' = Append(accepted, x) /\ gone' = gone
      /\ PriorityKept /\ Len(buffer) < Capacity
  <2>1. buffer \in Seq(Items) /\ accepted \in Seq(Items) /\ gone \in Seq(Items) /\ PriorityKept
    BY DEF Contents
  <2>2. accepted' = Append(accepted, x) /\ gone' = gone /\ ~ Full
    BY DEF PriorityIn
  <2>3. Len(buffer) < Capacity
    BY <2>1, <2>2, QueueAssumption DEF Full
  <2>4. QED
    BY <2>1, <2>2, <2>3
<1>2. PICK i \in 1 .. Len(buffer) + 1 : /\ \A j \in DOMAIN buffer : buffer[j] <= x <=> j < i
                                        /\ buffer' = InsertAt(buffer, i, x)
  BY DEF PriorityIn
<1>3. buffer' \in Seq(Items) /\ OneMore(buffer', buffer, i, x)
  BY <1>1, <1>2, Inserted
<1>4. accepted' \in Seq(Items) /\ OneMore(accepted', accepted, Len(accepted) + 1, x)
  BY <1>1, Appended
<1>12. Recounted(buffer', buffer, x)
  BY <1>1, <1>3, CountOneMore
<1>13. Recounted(accepted', accepted, x)
  BY <1>1, <1>4, CountOneMore
<1>5. ASSUME NEW y \in Items PROVE Count(y, accepted') = Count(y, gone') + Count(y, buffer')
  <2>1. /\ Count(y, buffer) \in Nat
        /\ Count(y, buffer') = Count(y, buffer) + (IF y = x THEN 1 ELSE 0)
    BY <1>12 DEF Recounted
  <2>2. /\ Count(y, accepted) \in Nat
        /\ Count(y, accepted') = Count(y, accepted) + (IF y = x THEN 1 ELSE 0)
    BY <1>13 DEF Recounted
  <2>3. Count(y, accepted) = Count(y, gone) + Count(y, buffer)
    BY <1>1 DEF PriorityKept
  <2>4. CASE gone = <<>>
    <3>1. Count(y, gone) \in Nat
      <4>1. Count(y, gone) = Cardinality({})
        BY <2>4 DEF Count
      <4>2. QED
        BY <4>1, FS_EmptySet
    <3>2. QED
      BY <1>1, <2>1, <2>2, <2>3, <3>1
  <2>5. CASE gone # <<>>
    <3>1. Tail(gone) \in Seq(Items) /\ OneMore(gone, Tail(gone), 1, Head(gone))
      BY <1>1, <2>5, FirstTaken
    <3>2. /\ Count(y, Tail(gone)) \in Nat
          /\ Count(y, gone) = Count(y, Tail(gone)) + (IF y = Head(gone) THEN 1 ELSE 0)
      BY <1>1, <3>1, CountOneMore DEF Recounted
    <3>3. Count(y, gone) \in Nat /\ gone' = gone
      BY <1>1, <3>2
    <3>4. QED
      BY <2>1, <2>2, <2>3, <3>3
  <2>6. QED
    BY <2>4, <2>5
<1>6. /\ Len(buffer) \in Nat /\ DOMAIN buffer = 1 .. Len(buffer)
      /\ DOMAIN buffer' = 1 .. Len(buffer) + 1
      /\ Len(buffer') = Len(buffer) + 1 /\ x \in Int
      /\ \A k \in DOMAIN buffer : buffer[k] \in Int
  <2>1. x \in Int /\ \A y \in Items : y \in Int
    BY QueueAssumption
  <2>2. Len(buffer) \in Nat /\ DOMAIN buffer = 1 .. Len(buffer) /\ \A k \in DOMAIN buffer : buffer[k] \in Items
    BY <1>1
  <2>3. Len(buffer') = Len(buffer) + 1 /\ DOMAIN buffer' = 1 .. Len(buffer')
    BY <1>3 DEF OneMore
  <2>4. QED
    BY <2>1, <2>2, <2>3
<1>7. ASSUME NEW a \in DOMAIN buffer', NEW b \in DOMAIN buffer', a < b
      PROVE  buffer'[a] <= buffer'[b]
  <2>1. /\ buffer'[a] = IF a < i THEN buffer[a] ELSE IF a = i THEN x ELSE buffer[a - 1]
        /\ buffer'[b] = IF b < i THEN buffer[b] ELSE IF b = i THEN x ELSE buffer[b - 1]
    BY <1>3, <1>6 DEF OneMore
  <2>2. \A k, m \in DOMAIN buffer : k < m => buffer[k] <= buffer[m]
    BY <1>1 DEF PriorityKept
  <2>3. CASE b < i
    BY <1>2, <1>6, <1>7, <2>1, <2>2, <2>3
  <2>4. CASE b = i
    BY <1>2, <1>6, <1>7, <2>1, <2>4
  <2>5. CASE b > i /\ a < i
    <3>1. b - 1 \in DOMAIN buffer /\ a \in DOMAIN buffer /\ a < b - 1
      BY <1>2, <1>6, <1>7, <2>5
    <3>2. buffer'[a] = buffer[a] /\ buffer'[b] = buffer[b - 1]
      BY <1>2, <1>6, <2>1, <2>5
    <3>3. QED
      BY <2>2, <3>1, <3>2
  <2>6. CASE b > i /\ a = i
    <3>1. b - 1 \in DOMAIN buffer /\ ~ (b - 1 < i)
      BY <1>2, <1>6, <2>6
    <3>2. buffer'[a] = x /\ buffer'[b] = buffer[b - 1]
      BY <1>2, <1>6, <2>1, <2>6
    <3>3. ~ (buffer[b - 1] <= x)
      BY <1>2, <3>1
    <3>4. QED
      BY <1>6, <3>1, <3>2, <3>3
  <2>7. CASE b > i /\ a > i
    <3>1. b - 1 \in DOMAIN buffer /\ a - 1 \in DOMAIN buffer /\ a - 1 < b - 1
      BY <1>2, <1>6, <1>7, <2>7
    <3>2. buffer'[a] = buffer[a - 1] /\ buffer'[b] = buffer[b - 1]
      BY <1>2, <1>6, <2>1, <2>7
    <3>3. QED
      BY <2>2, <3>1, <3>2
  <2>8. QED
    BY <1>2, <1>6, <2>3, <2>4, <2>5, <2>6, <2>7
<1>8. PriorityKept'
  BY <1>5, <1>7 DEF PriorityKept, Count
<1>9. QED
  BY <1>1, <1>3, <1>4, <1>6, <1>8, QueueAssumption DEF Contents
-----------------------------------------------------------------------------
(* The actions of the queues. *)

QueueKept(w) == Settled(w) /\ QueueInv

LEMMA KeptIsInv ==
  \A w : QueueKept(w) <=> Callers /\ Lines /\ QueueInv /\ NobodyWaitsInVain(w)
BY DEF QueueKept, Settled

LEMMA PutStep ==
  ASSUME NEW w \in Nat, QueueKept(w), subject' = subject, subject # "priority",
         NEW t \in Producers, pc[t] \in {"idle", "put"}, t \notin Waiting(putters),
         NEW x \in Items, NEW room, PutOrWait(t, x, room),
         room /\ subject # "unbounded" => Len(buffer) < Capacity,
         ~ room => Capacity <= Len(buffer) /\ subject \in Blocking
  PROVE  QueueKept(w)'
<1>1. /\ Settled(w) /\ Contents /\ Callers /\ Lines /\ Len(buffer) \in Nat /\ t \in Tasks
      /\ t \notin Of("get")
      /\ subject \notin Blocking => Of("put") = {}
  <2>1. Settled(w) /\ QueueInv /\ Callers /\ Lines
    BY DEF QueueKept, Settled
  <2>2. Contents /\ Len(buffer) \in Nat
    BY <2>1 DEF QueueInv, Contents
  <2>3. t \in Tasks /\ t \notin Of("get")
    BY DEF Of, Tasks
  <2>4. QED
    BY <2>1, <2>2, <2>3 DEF QueueInv
<1>2. CASE room
  <2>1. /\ PutIn(x) /\ Idle(t) /\ UNCHANGED <<putters, gone>>
    BY <1>2 DEF PutOrWait
  <2>2. Contents' /\ Len(buffer') = Len(buffer) + 1
    BY <1>1, <1>2, <2>1, PutInKeeps
  <2>3. getters' = Next1(getters)
    BY <2>1 DEF PutIn
  <2>4. Settled(w)' /\ Of("put")' \subseteq Of("put")
    BY <1>1, <2>1, <2>2, <2>3, ItemEnters
  <2>5. QED
    BY <1>1, <2>2, <2>4 DEF QueueKept, Settled, QueueInv
<1>3. CASE ~ room
  <2>1. /\ putters' = Append(putters, t)
        /\ pc' = [pc EXCEPT ![t] = "put"] /\ arg' = [arg EXCEPT ![t] = x]
        /\ UNCHANGED <<buffer, getters, accepted, gone>>
    BY <1>3 DEF PutOrWait
  <2>2. Contents'
    BY <1>1, <2>1, SameContents
  <2>3. Settled(w)'
    BY <1>1, <1>3, <2>1, WaitsForRoom
  <2>4. QED
    BY <1>1, <1>3, <2>2, <2>3 DEF QueueKept, Settled, QueueInv
<1>4. QED
  BY <1>2, <1>3

LEMMA GetStep ==
  ASSUME NEW w \in Nat, QueueKept(w), subject' = subject,
         NEW t \in Consumers, pc[t] \in {"idle", "get"}, t \notin Waiting(getters),
         GetOrWait(t)
  PROVE  QueueKept(w)'
<1>1. /\ Settled(w) /\ Contents /\ t \in Tasks /\ t \notin Of("put")
      /\ subject \notin Blocking => Of("put") = {}
  BY DEF QueueKept, QueueInv, Of, Tasks
<1>2. CASE buffer # <<>>
  <2>1. /\ TakeOut /\ Idle(t) /\ UNCHANGED <<getters, accepted>>
    BY <1>2 DEF GetOrWait
  <2>2. Contents' /\ Len(buffer) \in Nat \ {0} /\ Len(buffer') = Len(buffer) - 1
    BY <1>1, <1>2, <2>1, TakeOutKeeps
  <2>3. putters' = Next1(putters)
    BY <2>1 DEF TakeOut
  <2>4. Settled(w)' /\ Of("put")' \subseteq Of("put")
    BY <1>1, <2>1, <2>2, <2>3, ItemLeaves
  <2>5. QED
    BY <1>1, <2>2, <2>4 DEF QueueKept, Settled, QueueInv
<1>3. CASE buffer = <<>>
  <2>1. /\ getters' = Append(getters, t)
        /\ pc' = [pc EXCEPT ![t] = "get"]
        /\ UNCHANGED <<buffer, putters, arg, accepted, gone>>
    BY <1>3 DEF GetOrWait
  <2>2. Contents'
    BY <1>1, <2>1, SameContents
  <2>3. Settled(w)' /\ Of("put")' = Of("put")
    BY <1>1, <1>3, <2>1, WaitsForItem
  <2>4. QED
    BY <1>1, <2>2, <2>3 DEF QueueKept, Settled, QueueInv
<1>4. QED
  BY <1>2, <1>3

LEMMA NewCall ==
  ASSUME NEW w \in Nat, QueueKept(w), NEW t \in Tasks, pc[t] = "idle"
  PROVE  t \notin Waiting(putters) /\ t \notin Waiting(getters)
<1>1. Callers /\ Lines
  BY DEF QueueKept, Settled
<1>2. QED
  BY <1>1, CallersFacts DEF Of

LEMMA RoomLeft ==
  ASSUME NEW w \in Nat, QueueKept(w)
  PROVE  /\ Len(buffer) \in Nat /\ (Full <=> Capacity <= Len(buffer))
         /\ (~ Full <=> Len(buffer) < Capacity)
         /\ buffer = <<>> <=> Len(buffer) = 0
<1>1. buffer \in Seq(Items)
  BY DEF QueueKept, QueueInv, Contents
<1>2. QED
  BY <1>1, QueueAssumption DEF Full

(* A woken caller looks again. *)
LEMMA ResumeStep ==
  ASSUME NEW w \in Nat, QueueKept(w), subject' = subject,
         NEW t \in Tasks, NEW room, Resume(t, room),
         pc[t] = "put" => subject # "priority",
         room /\ subject # "unbounded" => Len(buffer) < Capacity,
         ~ room => Capacity <= Len(buffer)
  PROVE  QueueKept(w)'
<1>1. Callers /\ Lines /\ QueueInv
  BY KeptIsInv
<1>2. Woken(t) /\ pc[t] \in {"put", "get"} /\ t \notin Waiting(putters) /\ t \notin Waiting(getters)
  BY <1>1 DEF Resume, Woken, Callers
<1>3. CASE pc[t] = "put"
  <2>1. t \in Producers /\ arg[t] \in Items /\ PutOrWait(t, arg[t], room) /\ subject \in Blocking
    BY <1>1, <1>3 DEF Resume, Callers, Of, QueueInv
  <2>2. QED
    BY <1>2, <1>3, <2>1, PutStep
<1>4. CASE pc[t] = "get"
  <2>1. t \in Consumers /\ GetOrWait(t)
    BY <1>1, <1>4 DEF Resume, Callers, Of
  <2>2. QED
    BY <1>2, <1>4, <2>1, GetStep
<1>5. QED
  BY <1>2, <1>3, <1>4

LEMMA VainStep ==
  ASSUME NEW w \in Nat, QueueKept(w), UNCHANGED <<subject, buffer, accepted, gone>>,
         NEW v \in Nat, Settled(v)', Of("put")' \subseteq Of("put")
  PROVE  QueueKept(v)'
<1>1. Contents'
  BY SameContents DEF QueueKept, QueueInv
<1>2. QED
  BY <1>1 DEF QueueKept, Settled, QueueInv

(* The time of a call is over. *)
LEMMA TimeOutStep ==
  ASSUME NEW w \in Nat, QueueKept(w), subject' = subject,
         NEW t \in Tasks, NEW room, TimeOut(t, room), ~ room => Capacity <= Len(buffer)
  PROVE  QueueKept(w)'
<1>1. Callers /\ Lines /\ Settled(w) /\ Len(buffer) \in Nat
      /\ (buffer = <<>> <=> Len(buffer) = 0)
  BY RoomLeft DEF QueueKept, Settled, Callers
<1>2. Idle(t) /\ UNCHANGED <<buffer, accepted, gone>>
  BY DEF TimeOut
<1>3. /\ t \in Putting <=> Woken(t) /\ pc[t] = "put"
      /\ t \in Getting <=> Woken(t) /\ pc[t] = "get"
  BY <1>1, CallersFacts DEF Putting, Getting, Of
<1>4. /\ \/ /\ putters' = Without(putters, t)
            /\ t \in Putting => w > w \/ Capacity <= Len(buffer)
         \/ t \in Putting /\ putters' = Next1(putters)
      /\ \/ /\ getters' = Without(getters, t)
            /\ t \in Getting => w > w \/ Len(buffer) = 0
         \/ t \in Getting /\ getters' = Next1(getters)
  BY <1>1, <1>3 DEF TimeOut
<1>5. Settled(w)' /\ Of("put")' \subseteq Of("put")
  <2>1. buffer' = buffer /\ w >= w
    BY <1>1, <1>2
  <2>2. QED
    BY <1>1, <1>2, <1>4, <2>1, EndsInVain
<1>6. QED
  BY <1>2, <1>5, VainStep

LEMMA DropOldestStep ==
  ASSUME NEW w \in Nat, QueueKept(w), subject' = subject, subject = "drop_oldest",
         NEW t \in Tasks, pc[t] = "idle", NEW x \in Items, DropOldest(t, x)
  PROVE  QueueKept(w)'
<1>1. Settled(w) /\ Contents /\ Of("put") = {}
  BY DEF QueueKept, QueueInv, Blocking
<1>2. Contents' /\ Len(buffer') = Len(buffer) /\ Len(buffer) \in Nat
  BY <1>1, DropOldestKeeps
<1>3. UNCHANGED <<pc, arg>> /\ putters' = Next1(putters) /\ getters' = Next1(getters)
  BY DEF DropOldest
<1>4. Settled(w)' /\ Of("put")' = {}
  BY <1>1, <1>2, <1>3, ItemReplaced
<1>5. QED
  BY <1>2, <1>4 DEF QueueKept, Settled, QueueInv

(* A put of the priority queue, of a new call or of a woken one. *)
LEMMA PriorityStep ==
  ASSUME NEW w \in Nat, QueueKept(w), subject' = subject, subject = "priority",
         NEW t \in Producers, pc[t] \in {"idle", "put"}, t \notin Waiting(putters),
         NEW x \in Items, PriorityIn(t, x) \/ (Full /\ PutOrWait(t, x, FALSE))
  PROVE  QueueKept(w)'
<1>1. Settled(w) /\ Contents /\ t \in Tasks /\ t \notin Of("get") /\ Len(buffer) \in Nat
      /\ (Full <=> Capacity <= Len(buffer))
  BY RoomLeft DEF QueueKept, QueueInv, Of, Tasks
<1>2. CASE PriorityIn(t, x)
  <2>1. Contents' /\ Len(buffer') = Len(buffer) + 1
    BY <1>1, <1>2, PriorityInKeeps
  <2>2. Idle(t) /\ getters' = Next1(getters) /\ putters' = putters
    BY <1>2 DEF PriorityIn
  <2>3. Settled(w)' /\ Of("put")' \subseteq Of("put")
    BY <1>1, <2>1, <2>2, ItemEnters
  <2>4. QED
    BY <2>1, <2>3 DEF QueueKept, Settled, QueueInv, Blocking
<1>3. CASE Full /\ PutOrWait(t, x, FALSE)
  <2>1. /\ putters' = Append(putters, t)
        /\ pc' = [pc EXCEPT ![t] = "put"] /\ arg' = [arg EXCEPT ![t] = x]
        /\ UNCHANGED <<buffer, getters, accepted, gone>>
    BY <1>3 DEF PutOrWait
  <2>2. Contents'
    BY <1>1, <2>1, SameContents
  <2>3. Capacity <= Len(buffer)
    BY <1>1, <1>3
  <2>4. Settled(w)'
    BY <1>1, <2>1, <2>3, WaitsForRoom
  <2>5. QED
    BY <2>2, <2>4 DEF QueueKept, Settled, QueueInv, Blocking
<1>4. QED
  BY <1>2, <1>3

LEMMA NothingHappens ==
  ASSUME NEW w \in Nat, QueueKept(w), UNCHANGED <<subject, buffer, putters, getters, pc, arg, accepted, gone>>
  PROVE  QueueKept(w)'
<1>1. Contents'
  BY SameContents DEF QueueKept, QueueInv
<1>2. Settled(w)'
  BY DEF QueueKept, Settled, Callers, Lines, NobodyWaitsInVain, Of, Putting, Getting, Waiting
<1>3. QED
  BY <1>1, <1>2 DEF QueueKept, Settled, QueueInv, Of, Putting, Getting, Waiting
LEMMA GetCall ==
  ASSUME NEW w \in Nat, QueueKept(w), subject' = subject, NEW t \in Tasks, CallsGet(t), GetOrWait(t)
  PROVE  QueueKept(w)'
<1>1. t \in Consumers /\ pc[t] = "idle" /\ t \notin Waiting(getters)
  BY NewCall DEF CallsGet
<1>2. QED
  BY <1>1, GetStep

LEMMA PutCall ==
  ASSUME NEW w \in Nat, QueueKept(w), subject' = subject, subject # "priority", NEW t \in Tasks, CallsPut(t),
         NEW x \in Items, NEW room, PutOrWait(t, x, room),
         room /\ subject # "unbounded" => Len(buffer) < Capacity,
         ~ room => Capacity <= Len(buffer) /\ subject \in Blocking
  PROVE  QueueKept(w)'
<1>1. t \in Producers /\ pc[t] = "idle" /\ t \notin Waiting(putters)
  BY NewCall DEF CallsPut
<1>2. pc[t] \in {"idle", "put"}
  BY <1>1
<1>3. QED
  BY <1>1, <1>2, PutStep

LEMMA BoundedStep ==
  ASSUME NEW w \in Nat, QueueKept(w), subject' = subject, subject \in Strategies, BoundedNext(subject)
  PROVE  QueueKept(w)'
<1>1. /\ (Full <=> Capacity <= Len(buffer)) /\ (~ Full <=> Len(buffer) < Capacity)
      /\ subject \notin {"priority", "unbounded"}
  BY RoomLeft DEF Strategies
<1>2. ASSUME NEW t \in Producers, NEW x \in Items, Put(subject, t, x) \/ PutNowait(subject, t, x)
      PROVE  QueueKept(w)'
  <2>1. CallsPut(t) /\ t \in Tasks /\ pc[t] = "idle"
    BY <1>2 DEF Put, PutNowait, CallsPut, Tasks
  <2>2. CASE ~ Full /\ PutOrWait(t, x, TRUE)
    BY <1>1, <2>1, <2>2, PutCall
  <2>3. CASE Full /\ subject = "block" /\ PutOrWait(t, x, FALSE)
    BY <1>1, <2>1, <2>3, PutCall DEF Blocking
  <2>4. CASE subject = "drop_oldest" /\ DropOldest(t, x)
    BY <2>1, <2>4, DropOldestStep
  <2>5. QED
    BY <1>2, <2>2, <2>3, <2>4 DEF Put, PutNowait
<1>3. ASSUME NEW t \in Consumers, Get(t) \/ GetNowait(t)
      PROVE  QueueKept(w)'
  BY <1>1, <1>3, GetCall DEF Get, GetNowait, Tasks
<1>4. ASSUME NEW t \in Tasks, Resume(t, ~ Full) PROVE QueueKept(w)'
  BY <1>1, <1>4, ResumeStep
<1>5. ASSUME NEW t \in Tasks, TimeOut(t, ~ Full) PROVE QueueKept(w)'
  BY <1>1, <1>5, TimeOutStep
<1>6. CASE Close
  BY <1>6, NothingHappens DEF Close
<1>7. QED
  BY <1>2, <1>3, <1>4, <1>5, <1>6 DEF BoundedNext

LEMMA PriorityNextStep ==
  ASSUME NEW w \in Nat, QueueKept(w), subject' = subject, subject = "priority", PriorityNext
  PROVE  QueueKept(w)'
<1>1. /\ (Full <=> Capacity <= Len(buffer)) /\ (~ Full <=> Len(buffer) < Capacity)
      /\ Callers /\ Lines
  BY RoomLeft DEF QueueKept, Settled
<1>2. ASSUME NEW t \in Producers, NEW x \in Items, PriorityPut(t, x) PROVE QueueKept(w)'
  <2>1. pc[t] = "idle" /\ t \in Tasks
    BY <1>2 DEF PriorityPut, CallsPut, Tasks
  <2>2. t \notin Waiting(putters)
    BY <2>1, NewCall
  <2>3. PriorityIn(t, x) \/ (Full /\ PutOrWait(t, x, FALSE))
    BY <1>2 DEF PriorityPut
  <2>4. QED
    BY <2>1, <2>2, <2>3, PriorityStep
<1>3. ASSUME NEW t \in Consumers, Get(t) PROVE QueueKept(w)'
  BY <1>3, GetCall DEF Get, Tasks
<1>4. ASSUME NEW t \in Tasks, PriorityResume(t) PROVE QueueKept(w)'
  <2>1. CASE pc[t] = "put"
    <3>1. /\ t \notin Waiting(putters)
          /\ PriorityIn(t, arg[t]) \/ (Full /\ PutOrWait(t, arg[t], FALSE))
      BY <1>4, <2>1 DEF PriorityResume, Woken
    <3>2. t \in Producers /\ arg[t] \in Items
      BY <1>1, <2>1 DEF Callers, Of
    <3>3. QED
      BY <2>1, <3>1, <3>2, PriorityStep
  <2>2. CASE pc[t] # "put"
    BY <1>1, <1>4, <2>2, ResumeStep DEF PriorityResume
  <2>3. QED
    BY <2>1, <2>2
<1>5. ASSUME NEW t \in Tasks, TimeOut(t, ~ Full) PROVE QueueKept(w)'
  BY <1>1, <1>5, TimeOutStep
<1>6. CASE Close
  BY <1>6, NothingHappens DEF Close
<1>7. QED
  BY <1>2, <1>3, <1>4, <1>5, <1>6 DEF PriorityNext

LEMMA ChannelStep ==
  ASSUME NEW w \in Nat, QueueKept(w), subject' = subject, NEW bounded, ChannelNext(bounded),
         \/ bounded = TRUE /\ subject = "buffered"
         \/ bounded = FALSE /\ subject = "unbounded"
  PROVE  QueueKept(w)'
<1> DEFINE room == Room(bounded)
<1>1. /\ room /\ subject # "unbounded" => Len(buffer) < Capacity
      /\ ~ room => Capacity <= Len(buffer) /\ subject \in Blocking
      /\ subject # "priority"
  BY RoomLeft DEF Room, Blocking
<1> HIDE DEF room
<1>2. ASSUME NEW t \in Producers, NEW x \in Items, Send(t, x, room) \/ SendNowait(t, x, room)
      PROVE  QueueKept(w)'
  <2>1. CallsPut(t) /\ t \in Tasks
    BY <1>2 DEF Send, SendNowait, Tasks
  <2>2. CASE Send(t, x, room)
    <3>1. PutOrWait(t, x, room)
      BY <2>2 DEF Send
    <3>2. QED
      BY <1>1, <2>1, <3>1, PutCall
  <2>3. CASE SendNowait(t, x, room)
    <3>1. room /\ PutOrWait(t, x, TRUE)
      BY <2>3 DEF SendNowait
    <3>2. QED
      BY <1>1, <2>1, <3>1, PutCall
  <2>4. QED
    BY <1>2, <2>2, <2>3
<1>3. ASSUME NEW t \in Consumers, Receive(t) \/ ReceiveNowait(t)
      PROVE  QueueKept(w)'
  BY <1>1, <1>3, GetCall DEF Receive, ReceiveNowait, Tasks
<1>4. ASSUME NEW t \in Tasks, Resume(t, room) PROVE QueueKept(w)'
  BY <1>1, <1>4, ResumeStep
<1>5. ASSUME NEW t \in Tasks, TimeOut(t, room) PROVE QueueKept(w)'
  BY <1>1, <1>5, TimeOutStep
<1>6. CASE Close
  BY <1>6, NothingHappens DEF Close
<1>7. QED
  BY <1>2, <1>3, <1>4, <1>5, <1>6 DEF ChannelNext, room
(* A call gives up: what it was woken for is left to nobody. *)
LEMMA GiveUpStep ==
  ASSUME NEW w \in Nat, QueueKept(w), subject' = subject, NEW t \in Tasks, GiveUp(t)
  PROVE  \/ QueueKept(w)'
         \/ t \in expired /\ Woken(t) /\ pc'[t] = "idle" /\ QueueKept(w + 1)'
<1>1. Callers /\ Lines /\ Settled(w) /\ Len(buffer) \in Nat
  BY RoomLeft DEF QueueKept, Settled, Callers
<1>2. /\ t \in expired /\ Idle(t) /\ UNCHANGED <<buffer, accepted, gone>>
      /\ putters' = Without(putters, t) /\ getters' = Without(getters, t)
  BY DEF GiveUp
<1>3. Woken(t) <=> t \in Putting \cup Getting
  BY <1>1, CallersFacts
<1>4. CASE Woken(t)
  <2>1. w + 1 \in Nat /\ w + 1 >= w /\ w + 1 > w
    OBVIOUS
  <2>2. Settled(w + 1)' /\ Of("put")' \subseteq Of("put")
    BY <1>1, <1>2, <2>1, EndsInVain
  <2>3. QueueKept(w + 1)'
    BY <1>2, <2>1, <2>2, VainStep
  <2>4. pc'[t] = "idle"
    BY <1>1, <1>2 DEF Idle, Callers
  <2>5. QED
    BY <1>2, <1>4, <2>3, <2>4
<1>5. CASE ~ Woken(t)
  <2>1. t \notin Putting /\ t \notin Getting /\ w >= w
    BY <1>3, <1>5
  <2>2. Settled(w)' /\ Of("put")' \subseteq Of("put")
    BY <1>1, <1>2, <2>1, EndsInVain
  <2>3. QED
    BY <1>2, <2>2, VainStep
<1>6. QED
  BY <1>4, <1>5

LEMMA EnhancedStep ==
  ASSUME NEW w \in Nat, QueueKept(w), subject' = subject, subject = "enhanced", EnhancedNext
  PROVE  \/ QueueKept(w)'
         \/ /\ \E t \in expired : Woken(t) /\ pc'[t] = "idle"
            /\ QueueKept(w + 1)'
<1>1. /\ (Full <=> Capacity <= Len(buffer)) /\ (~ Full <=> Len(buffer) < Capacity)
      /\ subject \in Blocking
  BY RoomLeft DEF Blocking
<1>2. ASSUME NEW t \in Producers, NEW x \in Items, ThreadPut(t, x) PROVE QueueKept(w)'
  BY <1>1, <1>2, PutCall DEF ThreadPut, Tasks
<1>3. ASSUME NEW t \in Consumers, ThreadGet(t) PROVE QueueKept(w)'
  BY <1>3, GetCall DEF ThreadGet, Tasks
<1>4. ASSUME NEW t \in Tasks, Resume(t, ~ Full) PROVE QueueKept(w)'
  BY <1>1, <1>4, ResumeStep
<1>5. ASSUME NEW t \in Tasks, Expire(t) PROVE QueueKept(w)'
  BY <1>5, NothingHappens DEF Expire
<1>6. ASSUME NEW t \in Tasks, GiveUp(t)
      PROVE  \/ QueueKept(w)'
             \/ /\ \E s \in expired : Woken(s) /\ pc'[s] = "idle"
                /\ QueueKept(w + 1)'
  BY <1>6, GiveUpStep
<1>7. QED
  BY <1>2, <1>3, <1>4, <1>5, <1>6 DEF EnhancedNext

(* So few are forgotten, in some number. *)
LEMMA ForgottenInSomeNumber ==
  ASSUME Callers, Lines, QueueInv
  PROVE  \E w \in Nat : QueueKept(w)
<1> DEFINE w == Len(buffer) + Capacity
<1>1. Len(buffer) \in Nat /\ w \in Nat
  BY QueueAssumption DEF QueueInv, Contents
<1>2. Cardinality(Putting) \in Nat /\ Cardinality(Getting) \in Nat
  BY CallersFacts
<1>3. NobodyWaitsInVain(w)
  BY <1>1, <1>2, QueueAssumption DEF NobodyWaitsInVain
<1>4. QueueKept(w)
  BY <1>3, KeptIsInv
<1>5. QED
  BY <1>1, <1>4

-----------------------------------------------------------------------------
(* The synchronous channel. *)

SyncKept == Callers /\ Lines /\ SyncInv

(* The receivers that have got a value and have not returned with it. *)
LEMMA OnTheWay ==
  ASSUME Callers, Lines
  PROVE  {t \in Consumers : Woken(t) /\ t \notin expired} = Getting \ expired
<1>1. \A t \in Tasks : Woken(t) <=> t \in Putting \cup Getting
  BY CallersFacts
<1>2. Putting \cap Consumers = {} /\ Getting \subseteq Consumers
  BY QueueAssumption DEF Callers, Putting, Getting
<1>3. QED
  BY <1>1, <1>2 DEF Tasks

LEMMA OnTheWayNext ==
  ASSUME Callers', Lines'
  PROVE  {t \in Consumers : Woken(t)' /\ t \notin expired'} = Getting' \ expired'
<1>1. IsFiniteSet(Tasks)
  BY QueueAssumption, FS_Union DEF Tasks
<1>2. Waiting(putters') \subseteq Of("put")' /\ Waiting(getters') \subseteq Of("get")'
  BY LineIn DEF Lines
<1>3. Of("put")' \subseteq Producers /\ Of("get")' \subseteq Consumers
  BY DEF Callers
<1>4. ASSUME NEW t \in Consumers PROVE Woken(t)' <=> t \in Getting'
  <2>1. t \notin Of("put")' /\ t \notin Waiting(putters') /\ t \in Tasks
    BY <1>2, <1>3, QueueAssumption DEF Tasks
  <2>2. pc'[t] \in {"idle", "put", "get"}
    BY <2>1 DEF Callers
  <2>3. QED
    BY <2>1, <2>2 DEF Woken, Getting, Of, Waiting
<1>5. Getting' \subseteq Consumers
  BY <1>3 DEF Getting
<1>6. QED
  BY <1>4, <1>5

LEMMA SyncFacts ==
  ASSUME SyncKept
  PROVE  /\ Line(putters, Of("put")) /\ Line(getters, Of("get"))
         /\ Waiting(putters) \subseteq Of("put") /\ Waiting(getters) \subseteq Of("get")
         /\ Of("put") \cap Of("get") = {}
         /\ IsFiniteSet(Getting \ expired) /\ Cardinality(Getting \ expired) \in Nat
         /\ Len(accepted) = Len(gone) + lost + Cardinality(Getting \ expired)
         /\ accepted \in Seq(Items) /\ gone \in Seq(Items \cup {NoItem}) /\ lost \in Nat
         /\ Len(accepted) \in Nat /\ Len(gone) \in Nat
         /\ expired \subseteq Of("put") \cup Of("get")
         /\ Callers
<1>1. Callers /\ Lines /\ SyncInv
  BY DEF SyncKept
<1>2. /\ IsFiniteSet(Getting)
      /\ Waiting(putters) \subseteq Of("put") /\ Waiting(getters) \subseteq Of("get")
      /\ Of("put") \cap Of("get") = {}
  BY <1>1, CallersFacts
<1>3. IsFiniteSet(Getting \ expired)
  BY <1>2, FS_Subset
<1>4. Cardinality(Getting \ expired) \in Nat
  BY <1>3, FS_CardinalityType
<1>5. {t \in Consumers : Woken(t) /\ t \notin expired} = Getting \ expired
  BY <1>1, OnTheWay
<1>6. Len(accepted) = Len(gone) + lost + Cardinality(Getting \ expired)
  BY <1>1, <1>5 DEF SyncInv, HandedOver
<1>7. QED
  BY <1>1, <1>2, <1>3, <1>4, <1>6 DEF Lines, SyncInv, Callers

LEMMA SyncAgain ==
  ASSUME Callers', Lines',
         accepted' \in Seq(Items), gone' \in Seq(Items \cup {NoItem}), lost' \in Nat,
         Len(accepted') = Len(gone') + lost' + Cardinality(Getting' \ expired'),
         expired' \subseteq Of("put")' \cup Of("get")'
  PROVE  SyncKept'
<1>1. {t \in Consumers : Woken(t)' /\ t \notin expired'} = Getting' \ expired'
  BY OnTheWayNext
<1>2. HandedOver'
  BY <1>1 DEF HandedOver
<1>3. QED
  BY <1>2 DEF SyncKept, SyncInv

LEMMA SendStep ==
  ASSUME SyncKept, NEW t \in Producers, NEW x \in Items, SyncSend(t, x)
  PROVE  SyncKept'
<1>1. /\ pc[t] = "idle" /\ t \in Tasks /\ getters' = Next1(getters)
      /\ UNCHANGED <<expired, gone, lost>>
  BY DEF SyncSend, CallsPut, Tasks
<1>2. /\ Line(putters, Of("put")) /\ Line(getters, Of("get"))
      /\ Waiting(putters) \subseteq Of("put") /\ Waiting(getters) \subseteq Of("get")
      /\ Of("put") \cap Of("get") = {} /\ Callers
  BY SyncFacts
<1>3. getters # <<>> => /\ Line(getters', Of("get"))
                        /\ Waiting(getters') = Waiting(getters) \ {Head(getters)}
                        /\ Head(getters) \in Waiting(getters) /\ Head(getters) \in Of("get")
  <2>1. SUFFICES ASSUME getters # <<>>
                 PROVE  /\ Line(Next1(getters), Of("get"))
                        /\ Waiting(Next1(getters)) = Waiting(getters) \ {Head(getters)}
                        /\ Head(getters) \in Waiting(getters) /\ Head(getters) \in Of("get")
    BY <1>1
  <2>2. /\ Line(Next1(getters), Of("get") \ {Head(getters)})
        /\ Waiting(Next1(getters)) = Waiting(getters) \ {Head(getters)}
        /\ Head(getters) \in Waiting(getters) /\ Head(getters) \in Of("get")
    BY <1>2, <2>1, LineWoken
  <2>3. Line(Next1(getters), Of("get"))
    BY <2>2, LineIn
  <2>4. QED
    BY <2>2, <2>3
<1>4. CASE getters # <<>> /\ Head(getters) \notin expired
  <2> DEFINE h == Head(getters)
  <2>1. /\ arg' = [arg EXCEPT ![h] = x] /\ accepted' = Append(accepted, x)
        /\ UNCHANGED <<putters, pc>>
    BY <1>4 DEF SyncSend
  <2>2. h \in Of("get") /\ h \in Waiting(getters) /\ Waiting(getters') = Waiting(getters) \ {h}
    BY <1>3, <1>4
  <2> HIDE DEF h
  <2>3. Of("put")' = Of("put") /\ Of("get")' = Of("get")
    BY <2>1 DEF Of
  <2>4. Callers'
    <3>1. arg' \in [Tasks -> Items \cup {NoItem}] /\ \A s \in Of("put") : arg'[s] \in Items
      BY <1>2, <2>1, <2>2 DEF Callers, Of
    <3>2. QED
      BY <1>2, <2>1, <2>3, <3>1 DEF Callers
  <2>5. Lines'
    BY <1>2, <1>3, <1>4, <2>1, <2>3 DEF Lines
  <2>6. h \notin expired
    BY <1>4 DEF h
  <2>7. Getting' \ expired' = (Getting \ expired) \cup {h} /\ h \notin Getting \ expired
    BY <1>1, <2>2, <2>3, <2>6, PrimedSets
  <2>8. Cardinality(Getting' \ expired') = Cardinality(Getting \ expired) + 1
    BY <2>7, SyncFacts, FS_AddElement
  <2>9. accepted' \in Seq(Items) /\ Len(accepted') = Len(accepted) + 1
    BY <2>1, SyncFacts
  <2>10. Len(accepted') = Len(gone') + lost' + Cardinality(Getting' \ expired')
    <3>1. /\ Len(accepted) = Len(gone) + lost + Cardinality(Getting \ expired)
          /\ Len(gone) \in Nat /\ lost \in Nat /\ Cardinality(Getting \ expired) \in Nat
      BY SyncFacts
    <3>2. gone' = gone /\ lost' = lost
      BY <1>1
    <3>3. QED
      BY ONLY <2>8, <2>9, <3>1, <3>2
  <2>12. gone' \in Seq(Items \cup {NoItem}) /\ lost' \in Nat
         /\ expired' \subseteq Of("put")' \cup Of("get")'
    BY <1>1, <2>3, SyncFacts
  <2>13. QED
    BY <2>4, <2>5, <2>9, <2>10, <2>12, SyncAgain
<1>5. CASE getters # <<>> => Head(getters) \in expired
  <2>1. /\ putters' = Append(putters, t) /\ UNCHANGED accepted
        /\ pc' = [pc EXCEPT ![t] = "put"] /\ arg' = [arg EXCEPT ![t] = x]
    BY <1>5 DEF SyncSend, Wait
  <2>3. Callers' /\ Of("put")' = Of("put") \cup {t} /\ Of("get")' = Of("get")
    BY <1>1, <1>2, <2>1, BeginsToWait
  <2>4. t \notin Waiting(putters) /\ t \notin Of("get") /\ t \notin Of("put")
    BY <1>1, <1>2 DEF Of
  <2>5. Line(putters', Of("put")')
    BY <1>2, <2>1, <2>3, <2>4, LineLonger
  <2>6. /\ Line(getters', Of("get")')
        /\ Waiting(getters) \ expired = Waiting(getters') \ expired
    <3>1. CASE getters = <<>>
      BY <1>1, <3>1, LineEmpty DEF Next1
    <3>2. CASE getters # <<>>
      BY <1>3, <1>5, <2>3, <3>2
    <3>3. QED
      BY <3>1, <3>2
  <2>7. Lines'
    BY <2>5, <2>6 DEF Lines
  <2>8. Getting' \ expired' = Getting \ expired
    BY <1>1, <2>3, <2>6, PrimedSets
  <2>10. /\ accepted' \in Seq(Items) /\ gone' \in Seq(Items \cup {NoItem}) /\ lost' \in Nat
         /\ Len(accepted') = Len(gone') + lost' + Cardinality(Getting' \ expired')
         /\ expired' \subseteq Of("put")' \cup Of("get")'
    BY <1>1, <2>1, <2>3, <2>8, SyncFacts
  <2>11. QED
    BY <2>3, <2>7, <2>10, SyncAgain
<1>6. QED
  BY <1>4, <1>5
LEMMA ReceiveStep ==
  ASSUME SyncKept, NEW t \in Consumers, SyncReceive(t)
  PROVE  SyncKept'
<1>1. /\ pc[t] = "idle" /\ t \in Tasks /\ putters' = Next1(putters)
      /\ UNCHANGED <<expired, lost>>
  BY DEF SyncReceive, CallsGet, Tasks
<1>2. /\ Line(putters, Of("put")) /\ Line(getters, Of("get"))
      /\ Waiting(putters) \subseteq Of("put") /\ Waiting(getters) \subseteq Of("get")
      /\ Of("put") \cap Of("get") = {} /\ Callers
  BY SyncFacts
<1>3. /\ Line(putters', Of("put"))
      /\ putters # <<>> => Head(putters) \in Of("put")
  <2>1. CASE putters = <<>>
    BY <1>1, <2>1, LineEmpty DEF Next1
  <2>2. CASE putters # <<>>
    <3>1. /\ Line(Next1(putters), Of("put") \ {Head(putters)})
          /\ Waiting(Next1(putters)) = Waiting(putters) \ {Head(putters)}
          /\ Head(putters) \in Waiting(putters) /\ Head(putters) \in Of("put")
      BY <1>2, <2>2, LineWoken
    <3>2. Line(Next1(putters), Of("put"))
      BY <3>1, LineIn
    <3>3. QED
      BY <1>1, <3>1, <3>2
  <2>3. QED
    BY <2>1, <2>2
<1>4. CASE putters # <<>> /\ Head(putters) \notin expired
  <2> DEFINE y == arg[Head(putters)]
  <2>1. /\ accepted' = Append(accepted, y) /\ gone' = Append(gone, y)
        /\ UNCHANGED <<getters, pc, arg>>
    BY <1>4 DEF SyncReceive
  <2>2. y \in Items
    BY <1>2, <1>3, <1>4 DEF Callers
  <2>3. Of("put")' = Of("put") /\ Of("get")' = Of("get") /\ Callers'
    BY <1>2, <2>1 DEF Of, Callers
  <2>4. Lines'
    BY <1>2, <1>3, <2>1, <2>3 DEF Lines
  <2>5. Getting' \ expired' = Getting \ expired
    BY <1>1, <2>1, <2>3, PrimedSets
  <2> HIDE DEF y
  <2>6. /\ accepted' \in Seq(Items) /\ Len(accepted') = Len(accepted) + 1
        /\ gone' \in Seq(Items \cup {NoItem}) /\ Len(gone') = Len(gone) + 1
    BY <2>1, <2>2, SyncFacts
  <2>7. Len(accepted') = Len(gone') + lost' + Cardinality(Getting' \ expired')
    <3>1. /\ Len(accepted) = Len(gone) + lost + Cardinality(Getting \ expired)
          /\ Len(gone) \in Nat /\ lost \in Nat /\ Cardinality(Getting \ expired) \in Nat
      BY SyncFacts
    <3>2. lost' = lost /\ Len(accepted') = Len(accepted) + 1 /\ Len(gone') = Len(gone) + 1
      BY <1>1, <2>6
    <3>3. Cardinality(Getting' \ expired') = Cardinality(Getting \ expired)
      BY <2>5, Zenon
    <3>4. QED
      BY ONLY <3>1, <3>2, <3>3
  <2>9. lost' \in Nat /\ expired' \subseteq Of("put")' \cup Of("get")'
    BY <1>1, <2>3, SyncFacts
  <2>10. QED
    BY <2>3, <2>4, <2>6, <2>7, <2>9, SyncAgain
<1>5. CASE putters # <<>> => Head(putters) \in expired
  <2>1. /\ getters' = Append(getters, t) /\ UNCHANGED <<accepted, gone>>
        /\ pc' = [pc EXCEPT ![t] = "get"] /\ arg' = [arg EXCEPT ![t] = NoItem]
    BY <1>5 DEF SyncReceive, Wait
  <2>3. Callers' /\ Of("get")' = Of("get") \cup {t} /\ Of("put")' = Of("put")
    BY <1>1, <1>2, <2>1, BeginsToWait
  <2>4. t \notin Waiting(getters) /\ t \notin Of("get")
    BY <1>1, <1>2 DEF Of
  <2>5. /\ Line(Append(getters, t), Of("get") \cup {t})
        /\ Waiting(Append(getters, t)) = Waiting(getters) \cup {t}
    BY <1>2, <2>4, LineLonger
  <2>6. Lines'
    BY <1>3, <2>1, <2>3, <2>5 DEF Lines
  <2>7. Getting' \ expired' = Getting \ expired
    BY <1>1, <2>1, <2>3, <2>4, <2>5, PrimedSets
  <2>9. /\ accepted' \in Seq(Items) /\ gone' \in Seq(Items \cup {NoItem}) /\ lost' \in Nat
        /\ Len(accepted') = Len(gone') + lost' + Cardinality(Getting' \ expired')
        /\ expired' \subseteq Of("put")' \cup Of("get")'
    BY <1>1, <2>1, <2>3, <2>7, SyncFacts
  <2>10. QED
    BY <2>3, <2>6, <2>9, SyncAgain
<1>6. QED
  BY <1>4, <1>5

LEMMA SyncSame ==
  ASSUME SyncKept, UNCHANGED <<putters, getters, pc, arg>>
  PROVE  Callers' /\ Lines' /\ Of("put")' = Of("put") /\ Of("get")' = Of("get")
         /\ Getting' = Getting
<1>1. Of("put")' = Of("put") /\ Of("get")' = Of("get")
  BY DEF Of
<1>2. QED
  BY <1>1, SyncFacts, PrimedSets DEF Callers, Lines, SyncKept

LEMMA ReturnStep ==
  ASSUME SyncKept, NEW t \in Tasks, Return(t)
  PROVE  SyncKept'
<1>1. /\ Woken(t) /\ t \notin expired /\ Idle(t)
      /\ gone' = IF pc[t] = "get" THEN Append(gone, arg[t]) ELSE gone
      /\ UNCHANGED <<putters, getters, expired, accepted, lost>>
  BY DEF Return
<1>2. Callers' /\ Of("put")' = Of("put") \ {t} /\ Of("get")' = Of("get") \ {t}
  BY <1>1, SyncFacts, BecomesIdle
<1>3. t \notin Waiting(putters) /\ t \notin Waiting(getters)
  BY <1>1 DEF Woken
<1>4. Lines'
  <2>1. /\ Line(Without(putters, t), Of("put") \ {t}) /\ Without(putters, t) = putters
        /\ (Of("put") \ {t}) \ Waiting(Without(putters, t)) = (Of("put") \ Waiting(putters)) \ {t}
    BY <1>3, SyncFacts, LeaveLine
  <2>2. /\ Line(Without(getters, t), Of("get") \ {t}) /\ Without(getters, t) = getters
        /\ (Of("get") \ {t}) \ Waiting(Without(getters, t)) = (Of("get") \ Waiting(getters)) \ {t}
    BY <1>3, SyncFacts, LeaveLine
  <2>3. QED
    BY <1>1, <1>2, <2>1, <2>2 DEF Lines
<1>5. Getting' \ expired' = (Getting \ expired) \ {t}
  BY <1>1, <1>2, PrimedSets
<1>6. t \in Getting \ expired <=> pc[t] = "get"
  BY <1>1, <1>3, PrimedSets DEF Of
<1>7. Cardinality(Getting' \ expired') = Cardinality(Getting \ expired) - (IF pc[t] = "get" THEN 1 ELSE 0)
  BY <1>5, <1>6, SyncFacts, OneLess
<1>8. /\ gone' \in Seq(Items \cup {NoItem})
      /\ Len(gone') = Len(gone) + (IF pc[t] = "get" THEN 1 ELSE 0)
  <2>1. arg[t] \in Items \cup {NoItem}
    BY SyncFacts DEF Callers
  <2>2. QED
    BY <1>1, <2>1, SyncFacts
<1>9. Len(accepted') = Len(gone') + lost' + Cardinality(Getting' \ expired')
  <2>1. /\ Len(accepted) = Len(gone) + lost + Cardinality(Getting \ expired)
        /\ Len(gone) \in Nat /\ lost \in Nat /\ Cardinality(Getting \ expired) \in Nat
    BY SyncFacts
  <2>2. accepted' = accepted /\ lost' = lost
    BY <1>1
  <2>3. QED
    BY ONLY <1>7, <1>8, <2>1, <2>2
<1>10. /\ accepted' \in Seq(Items) /\ lost' \in Nat
       /\ expired' \subseteq Of("put")' \cup Of("get")'
  BY <1>1, <1>2, SyncFacts
<1>11. QED
  BY <1>2, <1>4, <1>8, <1>9, <1>10, SyncAgain

LEMMA CancelStep ==
  ASSUME SyncKept, NEW t \in Tasks, CancelFuture(t)
  PROVE  SyncKept'
<1>1. /\ pc[t] # "idle" /\ t \notin expired /\ expired' = expired \cup {t}
      /\ lost' = IF Woken(t) /\ pc[t] = "get" THEN lost + 1 ELSE lost
      /\ UNCHANGED <<putters, getters, pc, arg, accepted, gone>>
  BY DEF CancelFuture
<1>2. Callers' /\ Lines' /\ Of("put")' = Of("put") /\ Of("get")' = Of("get")
      /\ Getting' = Getting
  BY <1>1, SyncSame
<1>3. Getting' \ expired' = (Getting \ expired) \ {t}
  BY <1>1, <1>2
<1>4. t \in Getting \ expired <=> Woken(t) /\ pc[t] = "get"
  <2>1. Woken(t) <=> t \in Putting \cup Getting
    BY CallersFacts DEF SyncKept
  <2>2. QED
    BY <1>1, <2>1 DEF Putting, Getting, Of
<1>5. Cardinality(Getting' \ expired') = Cardinality(Getting \ expired)
                                          - (IF Woken(t) /\ pc[t] = "get" THEN 1 ELSE 0)
  BY <1>3, <1>4, SyncFacts, OneLess
<1>6. lost' \in Nat /\ Len(accepted') = Len(gone') + lost' + Cardinality(Getting' \ expired')
  <2>1. /\ Len(accepted) = Len(gone) + lost + Cardinality(Getting \ expired)
        /\ Len(gone) \in Nat /\ lost \in Nat /\ Cardinality(Getting \ expired) \in Nat
    BY SyncFacts
  <2>2. accepted' = accepted /\ gone' = gone
    BY <1>1
  <2>3. QED
    BY <1>1, <1>5, <2>1, <2>2
<1>7. t \in Of("put") \cup Of("get")
  BY <1>1, SyncFacts DEF Callers, Of
<1>8. /\ accepted' \in Seq(Items) /\ gone' \in Seq(Items \cup {NoItem})
      /\ expired' \subseteq Of("put")' \cup Of("get")'
  BY <1>1, <1>2, <1>7, SyncFacts
<1>9. QED
  BY <1>2, <1>6, <1>8, SyncAgain

LEMMA EndCancelledStep ==
  ASSUME SyncKept, NEW t \in Tasks, EndCancelled(t)
  PROVE  SyncKept'
<1>1. /\ t \in expired /\ expired' = expired \ {t} /\ Idle(t)
      /\ putters' = Without(putters, t) /\ getters' = Without(getters, t)
      /\ UNCHANGED <<accepted, gone, lost>>
  BY DEF EndCancelled
<1>2. Callers' /\ Of("put")' = Of("put") \ {t} /\ Of("get")' = Of("get") \ {t}
  BY <1>1, SyncFacts, BecomesIdle
<1>3. /\ Line(Without(putters, t), Of("put") \ {t})
      /\ (Of("put") \ {t}) \ Waiting(Without(putters, t)) = (Of("put") \ Waiting(putters)) \ {t}
  <2>1. Line(putters, Of("put"))
    BY SyncFacts
  <2>2. QED
    BY ONLY <2>1, LeaveLine
<1>4. /\ Line(Without(getters, t), Of("get") \ {t})
      /\ (Of("get") \ {t}) \ Waiting(Without(getters, t)) = (Of("get") \ Waiting(getters)) \ {t}
  <2>1. Line(getters, Of("get"))
    BY SyncFacts
  <2>2. QED
    BY ONLY <2>1, LeaveLine
<1>5. Lines'
  BY <1>1, <1>2, <1>3, <1>4 DEF Lines
<1>6. Getting' \ expired' = Getting \ expired
  BY <1>1, <1>2, <1>4, PrimedSets
<1>8. /\ accepted' \in Seq(Items) /\ gone' \in Seq(Items \cup {NoItem}) /\ lost' \in Nat
      /\ Len(accepted') = Len(gone') + lost' + Cardinality(Getting' \ expired')
      /\ expired' \subseteq Of("put")' \cup Of("get")'
  BY <1>1, <1>2, <1>6, SyncFacts
<1>9. QED
  BY <1>2, <1>5, <1>8, SyncAgain

LEMMA CloseSyncStep ==
  ASSUME SyncKept, CloseSync
  PROVE  SyncKept'
<1>1. /\ expired' = expired \cup Waiting(putters) \cup Waiting(getters)
      /\ putters' = <<>> /\ getters' = <<>>
      /\ UNCHANGED <<pc, arg, accepted, gone, lost>>
  BY DEF CloseSync
<1>2. Callers' /\ Of("put")' = Of("put") /\ Of("get")' = Of("get")
  BY <1>1, SyncFacts DEF Callers, Of
<1>3. Lines'
  BY <1>1, LineEmpty DEF Lines
<1>4. Waiting(getters') = {}
  BY <1>1, LineEmpty
<1>5. Getting' \ expired' = Getting \ expired
  <2>1. /\ Waiting(putters) \subseteq Of("put") /\ Of("put") \cap Of("get") = {}
    BY SyncFacts
  <2>2. QED
    BY <1>1, <1>2, <1>4, <2>1, PrimedSets
<1>6. /\ accepted' \in Seq(Items) /\ gone' \in Seq(Items \cup {NoItem}) /\ lost' \in Nat
      /\ Len(accepted') = Len(gone') + lost' + Cardinality(Getting' \ expired')
      /\ expired' \subseteq Of("put")' \cup Of("get")'
      /\ putters' = <<>>
  BY <1>1, <1>2, <1>5, SyncFacts
<1>7. QED
  BY <1>2, <1>3, <1>6, SyncAgain

LEMMA SyncStep ==
  ASSUME SyncKept, SyncNext
  PROVE  SyncKept'
BY SendStep, ReceiveStep, ReturnStep, CancelStep, EndCancelledStep, CloseSyncStep DEF SyncNext

(* A sender and a receiver come to wait together only after one of them     *)
(* dropped the first of the other line.                                     *)
LEMMA PairKept ==
  ASSUME SyncKept, SyncNext \/ UNCHANGED <<putters, getters, expired>>
  PROVE  PairStep
<1>1. /\ Line(putters, Of("put")) /\ Line(getters, Of("get"))
      /\ Waiting(<<>>) = {}
  BY SyncFacts, LineEmpty
<1>2. ASSUME Waiting(putters') \ expired' \subseteq Waiting(putters) \ expired,
             Waiting(getters') \ expired' \subseteq Waiting(getters) \ expired
      PROVE  PairStep
  <2>1. Waiting(putters)' = Waiting(putters') /\ Waiting(getters)' = Waiting(getters')
    BY DEF Waiting
  <2>2. QED
    BY <1>2, <2>1 DEF PairStep, PairWaits
<1>3. ASSUME putters' = <<>> \/ getters' = <<>> PROVE PairStep
  <2>1. Waiting(putters)' = Waiting(putters') /\ Waiting(getters)' = Waiting(getters')
    BY DEF Waiting
  <2>2. QED
    BY <1>1, <1>3, <2>1 DEF PairStep, PairWaits
<1>4. ASSUME NEW t \in Producers, NEW x \in Items, SyncSend(t, x) PROVE PairStep
  <2>1. CASE getters = <<>>
    BY <1>3, <1>4, <2>1 DEF SyncSend, Next1
  <2>2. CASE getters # <<>> /\ Head(getters) \in expired
    <3>1. getters' = Tail(getters)
      BY <1>4, <2>2 DEF SyncSend, Next1
    <3>2. QED
      BY <2>2, <3>1 DEF PairStep, DropsFirst
  <2>3. CASE getters # <<>> /\ Head(getters) \notin expired
    <3>1. getters' = Next1(getters) /\ putters' = putters /\ expired' = expired
      BY <1>4, <2>3 DEF SyncSend
    <3>2. Waiting(Next1(getters)) \subseteq Waiting(getters)
      BY <1>1, <2>3, LineWoken
    <3>3. QED
      BY <1>2, <3>1, <3>2
  <2>4. QED
    BY <2>1, <2>2, <2>3
<1>5. ASSUME NEW t \in Consumers, SyncReceive(t) PROVE PairStep
  <2>1. CASE putters = <<>>
    BY <1>3, <1>5, <2>1 DEF SyncReceive, Next1
  <2>2. CASE putters # <<>> /\ Head(putters) \in expired
    <3>1. putters' = Tail(putters)
      BY <1>5, <2>2 DEF SyncReceive, Next1
    <3>2. QED
      BY <2>2, <3>1 DEF PairStep, DropsFirst
  <2>3. CASE putters # <<>> /\ Head(putters) \notin expired
    <3>1. putters' = Next1(putters) /\ getters' = getters /\ expired' = expired
      BY <1>5, <2>3 DEF SyncReceive
    <3>2. Waiting(Next1(putters)) \subseteq Waiting(putters)
      BY <1>1, <2>3, LineWoken
    <3>3. QED
      BY <1>2, <3>1, <3>2
  <2>4. QED
    BY <2>1, <2>2, <2>3
<1>6. ASSUME NEW t \in Tasks, Return(t) \/ CancelFuture(t) PROVE PairStep
  <2>1. putters' = putters /\ getters' = getters /\ expired \subseteq expired'
    BY <1>6 DEF Return, CancelFuture
  <2>2. QED
    BY <1>2, <2>1
<1>7. ASSUME NEW t \in Tasks, EndCancelled(t) PROVE PairStep
  <2>1. /\ putters' = Without(putters, t) /\ getters' = Without(getters, t)
        /\ expired' = expired \ {t}
    BY <1>7 DEF EndCancelled
  <2>2. Waiting(Without(putters, t)) = Waiting(putters) \ {t}
    BY <1>1, LineWithout
  <2>3. Waiting(Without(getters, t)) = Waiting(getters) \ {t}
    BY <1>1, LineWithout
  <2>4. QED
    BY <1>2, <2>1, <2>2, <2>3
<1>8. CASE CloseSync
  BY <1>3, <1>8 DEF CloseSync
<1>9. CASE UNCHANGED <<putters, getters, expired>>
  BY <1>2, <1>9
<1>10. QED
  BY <1>4, <1>5, <1>6, <1>7, <1>8, <1>9 DEF SyncNext
-----------------------------------------------------------------------------
(* The broadcast channel. *)

BroadcastKept == Callers /\ Lines /\ BroadcastInv

LEMMA BroadcastFacts ==
  ASSUME BroadcastKept
  PROVE  /\ Callers /\ putters = <<>> /\ getters = <<>>
         /\ Line(regs, Of("get")) /\ regs \in Seq(Of("get")) /\ Waiting(regs) \subseteq Of("get")
         /\ Of("get") \subseteq Consumers
         /\ refs \in Seq(Consumers \cup {Dead}) /\ Len(regs) <= Len(refs)
         /\ box \in [Consumers -> Seq(Items \cup {NoItem})]
         /\ due \in [Consumers -> Int]
         /\ \A c \in Waiting(regs) : Len(box[c]) = due[c]
BY LineIn DEF BroadcastKept, BroadcastInv, Callers, Line, AllAreSentTo

LEMMA BroadcastAgain ==
  ASSUME Callers', putters' = <<>>, getters' = <<>>,
         Line(regs', Of("get")'),
         refs' \in Seq(Consumers \cup {Dead}), Len(regs') <= Len(refs'),
         box' \in [Consumers -> Seq(Items \cup {NoItem})],
         due' \in [Consumers -> Int],
         \A c \in Waiting(regs') : Len(box'[c]) = due'[c]
  PROVE  BroadcastKept'
<1>1. Lines'
  BY LineEmpty DEF Lines
<1>2. Waiting(regs)' = Waiting(regs')
  BY DEF Waiting
<1>3. AllAreSentTo'
  BY <1>2 DEF AllAreSentTo
<1>4. QED
  BY <1>1, <1>3 DEF BroadcastKept, BroadcastInv

(* What _cleanup_receivers keeps: a part of the list, and all of it but     *)
(* what stands beside a dead reference.                                     *)
LEMMA CleanUpKeeps ==
  ASSUME NEW T, regs \in Seq(T), IsInjective(regs),
         refs \in Seq(Consumers \cup {Dead}), Len(regs) <= Len(refs), CleanUp
  PROVE  /\ Line(regs', T) /\ Waiting(regs') \subseteq Waiting(regs)
         /\ refs' \in Seq(Consumers \cup {Dead}) /\ Len(regs') = Len(refs')
         /\ \A c \in Waiting(regs) \ Waiting(regs') :
              \E i \in DOMAIN regs : regs[i] = c /\ refs[i] = Dead
<1> DEFINE living == {i \in DOMAIN regs : Alive(i)}
           n == Cardinality(living)
<1>1. PICK place \in Bijection(1 .. n, living) :
        /\ \A i, j \in DOMAIN place : i < j => place[i] < place[j]
        /\ regs' = [i \in DOMAIN place |-> regs[place[i]]]
        /\ refs' = [i \in DOMAIN place |-> refs[place[i]]]
  BY DEF CleanUp
<1>2. n \in Nat
  <2>1. Len(regs) \in Nat /\ DOMAIN regs = 1 .. Len(regs)
    OBVIOUS
  <2>2. IsFiniteSet(DOMAIN regs) /\ living \subseteq DOMAIN regs
    BY <2>1, FS_Interval
  <2>3. QED
    BY <2>2, FS_Subset, FS_CardinalityType
<1> HIDE DEF n
<1>3. /\ place \in [1 .. n -> living] /\ DOMAIN place = 1 .. n
      /\ \A i, j \in 1 .. n : place[i] = place[j] => i = j
      /\ \A k \in living : \E i \in 1 .. n : place[i] = k
  BY <1>1 DEF Bijection, Injection, Surjection, IsInjective
<1>4. \A i \in 1 .. n : place[i] \in DOMAIN regs /\ place[i] \in DOMAIN refs
  BY <1>3 DEF Alive
<1>5. regs' \in Seq(T) /\ DOMAIN regs' = 1 .. n /\ Len(regs') = n
      /\ \A i \in 1 .. n : regs'[i] = regs[place[i]]
  <2>1. regs' = [i \in 1 .. n |-> regs[place[i]]]
    BY <1>1, <1>3
  <2>2. \A i \in 1 .. n : regs[place[i]] \in T
    BY <1>4
  <2>3. regs' \in [1 .. n -> T]
    BY <2>1, <2>2
  <2>4. QED
    BY <1>2, <2>1, <2>3
<1>6. refs' \in Seq(Consumers \cup {Dead}) /\ Len(refs') = n
  <2>1. refs' = [i \in 1 .. n |-> refs[place[i]]]
    BY <1>1, <1>3
  <2>2. \A i \in 1 .. n : refs[place[i]] \in Consumers \cup {Dead}
    BY <1>4
  <2>3. refs' \in [1 .. n -> Consumers \cup {Dead}]
    BY <2>1, <2>2
  <2>4. QED
    BY <1>2, <2>1, <2>3
<1>7. IsInjective(regs')
  BY <1>3, <1>4, <1>5 DEF IsInjective
<1>8. Waiting(regs') \subseteq Waiting(regs)
  BY <1>4, <1>5 DEF Waiting
<1>9. ASSUME NEW c \in Waiting(regs) \ Waiting(regs')
      PROVE  \E i \in DOMAIN regs : regs[i] = c /\ refs[i] = Dead
  <2>1. PICK i \in DOMAIN regs : regs[i] = c
    BY DEF Waiting
  <2>2. i \notin living
    <3>1. SUFFICES ASSUME i \in living PROVE FALSE
      OBVIOUS
    <3>2. PICK k \in 1 .. n : place[k] = i
      BY <1>3, <3>1
    <3>3. c \in Waiting(regs')
      BY <1>5, <2>1, <3>2 DEF Waiting
    <3>4. QED
      BY <3>3
  <2>3. i \in DOMAIN refs
    <3>1. Len(regs) \in Nat /\ Len(refs) \in Nat /\ i \in 1 .. Len(regs)
      OBVIOUS
    <3>2. QED
      BY <3>1
  <2>4. QED
    BY <2>1, <2>2, <2>3 DEF Alive
<1>10. QED
  BY <1>5, <1>6, <1>7, <1>8, <1>9 DEF Line

(* A message, or the end, goes to all that are left. *)
LEMMA AllGet ==
  ASSUME BroadcastKept, UNCHANGED <<pc, arg, putters, getters>>,
         Line(regs', Of("get")), Waiting(regs') \subseteq Waiting(regs),
         refs' \in Seq(Consumers \cup {Dead}), Len(regs') <= Len(refs'),
         NEW x \in Items \cup {NoItem},
         box' = [c \in Consumers |-> IF c \in Waiting(regs') THEN Append(box[c], x) ELSE box[c]],
         due' = [c \in Consumers |-> IF pc[c] = "get" THEN due[c] + 1 ELSE due[c]]
  PROVE  BroadcastKept'
<1>1. Callers' /\ Of("get")' = Of("get") /\ Line(regs', Of("get")')
  BY BroadcastFacts DEF Callers, Of
<1>2. putters' = <<>> /\ getters' = <<>>
  BY BroadcastFacts
<1>3. /\ box \in [Consumers -> Seq(Items \cup {NoItem})] /\ due \in [Consumers -> Int]
      /\ Waiting(regs) \subseteq Of("get") /\ Of("get") \subseteq Consumers
      /\ \A c \in Waiting(regs) : Len(box[c]) = due[c]
  BY BroadcastFacts
<1>4. ASSUME NEW c \in Consumers
      PROVE  Append(box[c], x) \in Seq(Items \cup {NoItem})
             /\ Len(Append(box[c], x)) = Len(box[c]) + 1
  BY <1>3
<1>5. box' \in [Consumers -> Seq(Items \cup {NoItem})] /\ due' \in [Consumers -> Int]
  BY <1>3, <1>4
<1>6. ASSUME NEW c \in Waiting(regs') PROVE Len(box'[c]) = due'[c]
  <2>1. c \in Waiting(regs) /\ c \in Consumers /\ pc[c] = "get"
    BY <1>3 DEF Of
  <2>2. box'[c] = Append(box[c], x) /\ due'[c] = due[c] + 1
    BY <2>1
  <2>3. QED
    BY <1>3, <1>4, <2>1, <2>2
<1>7. QED
  BY <1>1, <1>2, <1>5, <1>6, BroadcastAgain

LEMMA BroadcastSendStep ==
  ASSUME BroadcastKept, NEW t \in Producers, NEW x \in Items, Broadcast(t, x)
  PROVE  BroadcastKept' /\ DropStep
<1>1. /\ CleanUp
      /\ box' = [c \in Consumers |-> IF c \in Waiting(regs') THEN Append(box[c], x) ELSE box[c]]
      /\ due' = [c \in Consumers |-> IF pc[c] = "get" THEN due[c] + 1 ELSE due[c]]
      /\ UNCHANGED <<pc, arg, putters, getters>>
  BY DEF Broadcast, unused
<1>2. /\ regs \in Seq(Of("get")) /\ IsInjective(regs)
      /\ refs \in Seq(Consumers \cup {Dead}) /\ Len(regs) <= Len(refs)
  BY BroadcastFacts DEF Line
<1>3. /\ Line(regs', Of("get")) /\ Waiting(regs') \subseteq Waiting(regs)
      /\ refs' \in Seq(Consumers \cup {Dead}) /\ Len(regs') = Len(refs')
      /\ \A c \in Waiting(regs) \ Waiting(regs') :
           \E i \in DOMAIN regs : regs[i] = c /\ refs[i] = Dead
  BY <1>1, <1>2, CleanUpKeeps
<1>4. Len(regs') <= Len(refs')
  <2>1. regs' \in Seq(Of("get")) /\ Len(regs') \in Nat
    BY <1>3 DEF Line
  <2>2. QED
    BY <1>3, <2>1
<1>5. BroadcastKept'
  BY <1>1, <1>3, <1>4, AllGet
<1>6. Waiting(regs)' = Waiting(regs')
  BY DEF Waiting
<1>7. QED
  BY <1>3, <1>5, <1>6 DEF DropStep

(* Whoever is in the list stays there, or returns from its call.            *)
LEMMA StaysOrEnds ==
  ASSUME NEW S, S \subseteq Waiting(regs'), \A c \in Waiting(regs) \ S : pc'[c] # "get"
  PROVE  DropStep
<1>1. Waiting(regs)' = Waiting(regs')
  BY DEF Waiting
<1>2. QED
  BY <1>1 DEF DropStep

LEMMA CloseBroadcastStep ==
  ASSUME BroadcastKept, CloseBroadcast
  PROVE  BroadcastKept' /\ DropStep
<1>1. /\ box' = [c \in Consumers |-> IF c \in Waiting(regs) THEN Append(box[c], NoItem) ELSE box[c]]
      /\ due' = [c \in Consumers |-> IF pc[c] = "get" THEN due[c] + 1 ELSE due[c]]
      /\ UNCHANGED <<regs, refs, pc, arg, putters, getters>>
  BY DEF CloseBroadcast, unused
<1>2. BroadcastKept'
  BY <1>1, BroadcastFacts, AllGet
<1>3. QED
  BY <1>1, <1>2, StaysOrEnds

LEMMA RegisterStep ==
  ASSUME BroadcastKept, NEW c \in Consumers, Register(c)
  PROVE  BroadcastKept' /\ DropStep
<1>1. /\ pc[c] = "idle" /\ c \in Tasks
      /\ regs' = Append(regs, c) /\ refs' = Append(refs, c)
      /\ box' = [box EXCEPT ![c] = IF c \in Dedicated THEN box[c] ELSE <<>>]
      /\ due' = [due EXCEPT ![c] = Len(box'[c])]
      /\ pc' = [pc EXCEPT ![c] = "get"]
      /\ UNCHANGED <<arg, putters, getters>>
  BY DEF Register, CallsGet, unused, Tasks
<1>2. arg[c] \in Items \cup {NoItem} /\ arg' = [arg EXCEPT ![c] = arg[c]]
  BY <1>1, BroadcastFacts DEF Callers
<1>3. Callers' /\ Of("get")' = Of("get") \cup {c}
  BY <1>1, <1>2, BroadcastFacts, BeginsToWait
<1>4. /\ Line(regs, Of("get")) /\ Waiting(regs) \subseteq Of("get")
      /\ Of("get") \subseteq Consumers
      /\ regs \in Seq(Of("get")) /\ refs \in Seq(Consumers \cup {Dead}) /\ Len(regs) <= Len(refs)
      /\ box \in [Consumers -> Seq(Items \cup {NoItem})] /\ due \in [Consumers -> Int]
      /\ \A d \in Waiting(regs) : Len(box[d]) = due[d]
  BY BroadcastFacts
<1>5. c \notin Waiting(regs)
  BY <1>1, <1>4 DEF Of
<1>6. /\ Line(regs', Of("get")') /\ Waiting(regs') = Waiting(regs) \cup {c}
  <2>1. /\ Line(Append(regs, c), Of("get") \cup {c})
        /\ Waiting(Append(regs, c)) = Waiting(regs) \cup {c}
    BY <1>4, <1>5, LineLonger
  <2>2. QED
    BY <1>1, <1>3, <2>1
<1>7. refs' \in Seq(Consumers \cup {Dead}) /\ Len(regs') <= Len(refs')
  <2>1. /\ Append(refs, c) \in Seq(Consumers \cup {Dead}) /\ Len(Append(refs, c)) = Len(refs) + 1
        /\ Len(Append(regs, c)) = Len(regs) + 1 /\ Len(regs) \in Nat /\ Len(refs) \in Nat
    BY <1>4
  <2>2. QED
    BY <1>1, <1>4, <2>1
<1>8. box' \in [Consumers -> Seq(Items \cup {NoItem})] /\ due' \in [Consumers -> Int]
      /\ due'[c] = Len(box'[c])
  <2>1. (IF c \in Dedicated THEN box[c] ELSE <<>>) \in Seq(Items \cup {NoItem})
    BY <1>4
  <2>2. box' \in [Consumers -> Seq(Items \cup {NoItem})]
    BY <1>1, <1>4, <2>1
  <2>3. Len(box'[c]) \in Nat
    BY <2>2
  <2>4. QED
    BY <1>1, <1>4, <2>2, <2>3
<1>9. ASSUME NEW d \in Waiting(regs') PROVE Len(box'[d]) = due'[d]
  <2>1. CASE d = c
    BY <1>8, <2>1
  <2>2. CASE d # c
    <3>1. d \in Waiting(regs) /\ d \in Consumers
      BY <1>4, <1>6, <2>2
    <3>2. box'[d] = box[d] /\ due'[d] = due[d]
      BY <1>1, <1>4, <2>2, <3>1
    <3>3. QED
      BY <1>4, <3>1, <3>2
  <2>3. QED
    BY <2>1, <2>2
<1>10. putters' = <<>> /\ getters' = <<>>
  BY <1>1, BroadcastFacts
<1>11. BroadcastKept'
  BY <1>3, <1>6, <1>7, <1>8, <1>9, <1>10, BroadcastAgain
<1>12. QED
  BY <1>6, <1>11, StaysOrEnds

LEMMA TakeMessageStep ==
  ASSUME BroadcastKept, NEW c \in Consumers, TakeMessage(c)
  PROVE  BroadcastKept' /\ DropStep
<1>1. /\ pc[c] = "get" /\ box[c] # <<>>
      /\ box' = [box EXCEPT ![c] = Tail(box[c])]
      /\ due' = [due EXCEPT ![c] = due[c] - 1]
      /\ UNCHANGED <<regs, refs, pc, arg, putters, getters>>
  BY DEF TakeMessage, unused
<1>2. Callers' /\ Of("get")' = Of("get")
  BY <1>1, BroadcastFacts DEF Callers, Of
<1>3. /\ Line(regs, Of("get")) /\ Waiting(regs) \subseteq Of("get") /\ Of("get") \subseteq Consumers
      /\ box \in [Consumers -> Seq(Items \cup {NoItem})] /\ due \in [Consumers -> Int]
      /\ \A d \in Waiting(regs) : Len(box[d]) = due[d]
  BY BroadcastFacts
<1>4. /\ Tail(box[c]) \in Seq(Items \cup {NoItem})
      /\ Len(Tail(box[c])) = Len(box[c]) - 1 /\ due[c] - 1 \in Int
  BY <1>1, <1>3
<1>5. box' \in [Consumers -> Seq(Items \cup {NoItem})] /\ due' \in [Consumers -> Int]
  BY <1>1, <1>3, <1>4
<1>6. ASSUME NEW d \in Waiting(regs') PROVE Len(box'[d]) = due'[d]
  <2>1. d \in Waiting(regs) /\ d \in Consumers
    BY <1>1, <1>3
  <2>2. CASE d = c
    BY <1>1, <1>3, <1>4, <2>1, <2>2
  <2>3. CASE d # c
    BY <1>1, <1>3, <2>1, <2>3
  <2>4. QED
    BY <2>2, <2>3
<1>7. /\ putters' = <<>> /\ getters' = <<>> /\ Line(regs', Of("get")')
      /\ refs' \in Seq(Consumers \cup {Dead}) /\ Len(regs') <= Len(refs')
  BY <1>1, <1>2, BroadcastFacts
<1>8. BroadcastKept'
  BY <1>2, <1>5, <1>6, <1>7, BroadcastAgain
<1>9. QED
  BY <1>1, <1>8, StaysOrEnds

(* A call of receive ends, or a receiver is closed: its queue leaves.       *)
LEMMA LeaveStep ==
  ASSUME BroadcastKept, NEW c \in Consumers, EndReceive(c) \/ CloseReceiver(c)
  PROVE  BroadcastKept' /\ DropStep
<1>1. /\ pc' = [pc EXCEPT ![c] = "idle"] /\ regs' = Without(regs, c)
      /\ UNCHANGED <<arg, putters, getters>>
  BY DEF EndReceive, CloseReceiver, unused
<1>2. /\ Line(regs, Of("get")) /\ Waiting(regs) \subseteq Of("get") /\ Of("get") \subseteq Consumers
      /\ regs \in Seq(Of("get")) /\ refs \in Seq(Consumers \cup {Dead}) /\ Len(regs) <= Len(refs)
      /\ box \in [Consumers -> Seq(Items \cup {NoItem})] /\ due \in [Consumers -> Int]
      /\ \A d \in Waiting(regs) : Len(box[d]) = due[d]
      /\ Callers /\ c \in Tasks
  BY BroadcastFacts DEF Tasks
<1>3. /\ Of("put")' \subseteq Of("put") /\ Of("get")' = Of("get") \ {c}
      /\ pc'[c] = "idle"
  BY <1>1, <1>2 DEF Of, Callers
<1>4. Callers'
  BY <1>1, <1>2, <1>3 DEF Callers
<1>5. /\ Line(regs', Of("get")') /\ Waiting(regs') = Waiting(regs) \ {c}
      /\ Len(regs') <= Len(regs)
  <2>1. /\ Line(Without(regs, c), Of("get") \ {c}) /\ Waiting(Without(regs, c)) = Waiting(regs) \ {c}
        /\ Len(Without(regs, c)) <= Len(regs)
    BY <1>2, LineWithout
  <2>2. QED
    BY <1>1, <1>3, <2>1
<1>6. refs' \in Seq(Consumers \cup {Dead}) /\ Len(refs') = Len(refs)
  <2>1. CASE refs' = [i \in DOMAIN refs |-> IF refs[i] = c THEN Dead ELSE refs[i]]
    <3>1. refs' \in [1 .. Len(refs) -> Consumers \cup {Dead}] /\ Len(refs) \in Nat
      BY <1>2, <2>1
    <3>2. QED
      BY <3>1
  <2>2. CASE refs' = refs
    BY <1>2, <2>2
  <2>3. QED
    BY <2>1, <2>2 DEF EndReceive, CloseReceiver
<1>7. Len(regs') <= Len(refs')
  <2>1. Len(regs) \in Nat /\ Len(refs) \in Nat /\ Len(regs') \in Nat
    BY <1>2, <1>5 DEF Line
  <2>2. QED
    BY <1>2, <1>5, <1>6, <2>1
<1>8. /\ box' \in [Consumers -> Seq(Items \cup {NoItem})] /\ due' \in [Consumers -> Int]
      /\ \A d \in Consumers \ {c} : box'[d] = box[d] /\ due'[d] = due[d]
  <2>1. CASE /\ box' = [box EXCEPT ![c] = <<>>] /\ due' = [due EXCEPT ![c] = 0]
    BY <1>2, <2>1
  <2>2. CASE box' = box /\ due' = due
    BY <1>2, <2>2
  <2>3. QED
    BY <2>1, <2>2 DEF EndReceive, CloseReceiver
<1>9. \A d \in Waiting(regs') : Len(box'[d]) = due'[d]
  BY <1>2, <1>5, <1>8
<1>10. putters' = <<>> /\ getters' = <<>>
  BY <1>1, BroadcastFacts
<1>11. BroadcastKept'
  BY <1>4, <1>5, <1>6, <1>7, <1>8, <1>9, <1>10, BroadcastAgain
<1>12. QED
  BY <1>3, <1>5, <1>11, StaysOrEnds

LEMMA BroadcastStep ==
  ASSUME BroadcastKept, BroadcastNext
  PROVE  BroadcastKept' /\ DropStep
BY BroadcastSendStep, CloseBroadcastStep, RegisterStep, TakeMessageStep, LeaveStep
   DEF BroadcastNext
-----------------------------------------------------------------------------
(* The invariant. *)

LEMMA InitInv ==
  ASSUME Init
  PROVE  IInv
<1>1. /\ buffer = <<>> /\ putters = <<>> /\ getters = <<>>
      /\ pc = [t \in Tasks |-> "idle"] /\ arg = [t \in Tasks |-> NoItem]
      /\ expired = {} /\ accepted = <<>> /\ gone = <<>> /\ lost = 0
      /\ regs = <<>> /\ refs = <<>>
      /\ box = [c \in Consumers |-> <<>>] /\ due = [c \in Consumers |-> 0]
  BY DEF Init, SyncInit, BroadcastInit, QueueInit
<1>2. Of("put") = {} /\ Of("get") = {} /\ Putting = {} /\ Getting = {}
  BY <1>1, LineEmpty DEF Of, Putting, Getting
<1>3. Callers /\ Lines
  BY <1>1, <1>2, LineEmpty DEF Callers, Lines
<1>4. QueueInv
  <2>1. ASSUME NEW x PROVE Count(x, <<>>) = 0
    <3>1. {i \in DOMAIN <<>> : <<>>[i] = x} = {}
      OBVIOUS
    <3>2. QED
      BY <3>1, FS_EmptySet DEF Count
  <2>2. PriorityKept
    BY <1>1, <2>1 DEF PriorityKept
  <2>3. InOrder
    BY <1>1 DEF InOrder
  <2>4. Contents
    BY <1>1, <2>2, <2>3, QueueAssumption DEF Contents
  <2>5. QED
    BY <1>2, <2>4 DEF QueueInv
<1>5. NobodyWaitsInVain(0)
  BY <1>1 DEF NobodyWaitsInVain
<1>6. SyncInv
  <2>1. {t \in Consumers : Woken(t) /\ t \notin expired} = {}
    BY <1>1 DEF Woken, Tasks
  <2>2. HandedOver
    <3>1. Cardinality({t \in Consumers : Woken(t) /\ t \notin expired}) = 0
      BY <2>1, FS_EmptySet, Zenon
    <3>2. QED
      BY <1>1, <3>1 DEF HandedOver
  <2>3. QED
    BY <1>1, <2>2 DEF SyncInv
<1>7. BroadcastInv
  <2>1. Line(regs, Of("get")) /\ Waiting(regs) = {}
    BY <1>1, <1>2, LineEmpty
  <2>2. QED
    BY <1>1, <2>1 DEF BroadcastInv, AllAreSentTo
<1>8. QED
  BY <1>3, <1>4, <1>5, <1>6, <1>7 DEF IInv

LEMMA NextInv ==
  ASSUME IInv, Next
  PROVE  IInv'
<1>1. subject' = subject
  BY DEF Next
<1>2. CASE subject \notin {"enhanced", "synchronous", "broadcast"}
  <2>1. QueueKept(0) /\ 0 \in Nat
    BY <1>2, KeptIsInv DEF IInv
  <2>2. ASSUME NEW s \in Strategies, subject = s, BoundedNext(s) PROVE QueueKept(0)'
    BY <1>1, <2>1, <2>2, BoundedStep
  <2>3. ASSUME subject = "buffered", ChannelNext(TRUE) PROVE QueueKept(0)'
    BY <1>1, <2>1, <2>3, ChannelStep
  <2>4. ASSUME subject = "unbounded", ChannelNext(FALSE) PROVE QueueKept(0)'
    BY <1>1, <2>1, <2>4, ChannelStep
  <2>5. QueueKept(0)'
    BY <1>1, <1>2, <2>1, <2>2, <2>3, <2>4, PriorityNextStep DEF Next
  <2>6. QED
    BY <1>1, <1>2, <2>5 DEF IInv, QueueKept, Settled
<1>3. CASE subject = "enhanced"
  <2>1. Callers /\ Lines /\ QueueInv /\ EnhancedNext
    BY <1>3 DEF Next, IInv, Strategies
  <2>2. PICK w \in Nat : QueueKept(w)
    BY <2>1, ForgottenInSomeNumber
  <2>3. QueueKept(w)' \/ QueueKept(w + 1)'
    BY <1>1, <1>3, <2>1, <2>2, EnhancedStep
  <2>4. QED
    BY <1>1, <1>3, <2>3 DEF IInv, QueueKept, Settled
<1>4. CASE subject = "synchronous"
  <2>1. SyncKept /\ SyncNext
    BY <1>4 DEF Next, IInv, SyncKept, Strategies
  <2>2. SyncKept'
    BY <2>1, SyncStep
  <2>3. QED
    BY <1>1, <1>4, <2>2 DEF IInv, SyncKept
<1>5. CASE subject = "broadcast"
  <2>1. BroadcastKept /\ BroadcastNext
    BY <1>5 DEF Next, IInv, BroadcastKept, Strategies
  <2>2. BroadcastKept'
    BY <2>1, BroadcastStep
  <2>3. QED
    BY <1>1, <1>5, <2>2 DEF IInv, BroadcastKept
<1>6. QED
  BY <1>2, <1>3, <1>4, <1>5

LEMMA StutterInv ==
  ASSUME IInv, UNCHANGED vars
  PROVE  IInv'
<1>1. /\ UNCHANGED <<subject, buffer, closed, putters, getters, pc, arg, expired>>
      /\ UNCHANGED <<accepted, gone, lost, regs, refs, box, due>>
  BY DEF vars, queueVars, ofBroadcast
<1>2. CASE subject \notin {"synchronous", "broadcast"}
  <2>1. Callers /\ Lines /\ QueueInv
    BY <1>2 DEF IInv
  <2>2. ASSUME NEW w \in Nat, QueueKept(w) PROVE QueueKept(w)'
    BY <1>1, <2>2, NothingHappens
  <2>3. Callers' /\ Lines' /\ QueueInv'
    BY <2>1, <2>2, ForgottenInSomeNumber DEF QueueKept, Settled
  <2>4. NobodyWaitsInVain(0) => NobodyWaitsInVain(0)'
    BY <2>1, <2>2, KeptIsInv DEF QueueKept, Settled
  <2>5. QED
    BY <1>1, <1>2, <2>3, <2>4 DEF IInv
<1>3. CASE subject = "synchronous"
  <2>1. SyncKept
    BY <1>3 DEF IInv, SyncKept
  <2>2. Callers' /\ Lines' /\ Of("put")' = Of("put") /\ Of("get")' = Of("get")
        /\ Getting' = Getting
    BY <1>1, <2>1, SyncSame
  <2>3. /\ accepted' \in Seq(Items) /\ gone' \in Seq(Items \cup {NoItem}) /\ lost' \in Nat
        /\ Len(accepted') = Len(gone') + lost' + Cardinality(Getting' \ expired')
        /\ expired' \subseteq Of("put")' \cup Of("get")'
    BY <1>1, <2>1, <2>2, SyncFacts
  <2>4. SyncKept'
    BY <2>2, <2>3, SyncAgain
  <2>5. QED
    BY <1>1, <1>3, <2>4 DEF IInv, SyncKept
<1>4. CASE subject = "broadcast"
  <2>1. BroadcastKept
    BY <1>4 DEF IInv, BroadcastKept
  <2>2. Callers' /\ Of("get")' = Of("get")
    BY <1>1, <2>1, BroadcastFacts DEF Callers, Of
  <2>3. BroadcastKept'
    BY <1>1, <2>1, <2>2, BroadcastFacts, BroadcastAgain
  <2>4. QED
    BY <1>1, <1>4, <2>3 DEF IInv, BroadcastKept
<1>5. QED
  BY <1>2, <1>3, <1>4

(* The invariant the results follow from: who waits or was woken is in its  *)
(* line at most once, and in every kind of queue the items and the wake-ups *)
(* add up.                                                                  *)
THEOREM QueuesInvariant == Spec => []IInv
<1>1. Init => IInv
  BY InitInv
<1>2. IInv /\ [Next]_vars => IInv'
  BY NextInv, StutterInv
<1>3. QED
  BY <1>1, <1>2, PTL DEF Spec

(* What is put into a queue, a buffer or a buffered channel comes out once, *)
(* in order, or by the order of the heap, no queue exceeds its capacity,    *)
(* and each value of the synchronous channel is received, on its way, or    *)
(* lost to a timeout.                                                       *)
THEOREM ItemsComeOut == Spec => []ItemsKept
<1>1. IInv => ItemsKept
  <2> SUFFICES ASSUME IInv PROVE ItemsKept
    OBVIOUS
  <2>1. ASSUME subject \notin {"synchronous", "broadcast"}
        PROVE  /\ subject # "priority" => InOrder
               /\ subject = "priority" => PriorityKept
               /\ subject # "unbounded" => Len(buffer) <= Capacity
               /\ subject \notin Blocking => putters = <<>>
    <3>1. Lines /\ QueueInv /\ Contents
      BY <2>1 DEF IInv, QueueInv
    <3>2. subject \notin Blocking => putters = <<>>
      BY <3>1, NobodyInLine DEF QueueInv, Lines
    <3>3. QED
      BY <3>1, <3>2 DEF Contents
  <2>2. subject = "synchronous" => HandedOver
    BY DEF IInv, SyncInv
  <2>3. QED
    BY <2>1, <2>2 DEF ItemsKept, Plain, Strategies, StrategyKept, Blocking
<1>2. QED
  BY <1>1, QueuesInvariant, PTL

LEMMA RunningAre ==
  ASSUME Callers, Lines
  PROVE  /\ {t \in Tasks : Woken(t) /\ pc[t] = "get"} = Getting
         /\ {t \in Tasks : Woken(t) /\ pc[t] = "put"} = Putting
<1>1. \A t \in Tasks : Woken(t) <=> t \in Putting \cup Getting
  BY CallersFacts
<1>2. QED
  BY <1>1 DEF Putting, Getting, Of

(* In the state after the step as well. *)
LEMMA ForgottenIsInVain ==
  ASSUME NEW w \in Nat, Callers, Lines
  PROVE  NobodyForgotten(w) <=> NobodyWaitsInVain(w)
BY RunningAre DEF NobodyForgotten, NobodyWaitsInVain

LEMMA RunningAreNext ==
  ASSUME Callers', Lines'
  PROVE  /\ {t \in Tasks : Woken(t)' /\ pc'[t] = "get"} = Getting'
         /\ {t \in Tasks : Woken(t)' /\ pc'[t] = "put"} = Putting'
<1>1. Waiting(putters') \subseteq Of("put")' /\ Waiting(getters') \subseteq Of("get")'
  BY LineIn DEF Lines
<1>2. Of("put")' \cap Of("get")' = {}
  BY DEF Of
<1>3. Waiting(putters)' = Waiting(putters') /\ Waiting(getters)' = Waiting(getters')
  BY DEF Waiting
<1>4. \A t \in Tasks : Woken(t)' <=> pc'[t] # "idle" /\ t \notin Waiting(putters') \cup Waiting(getters')
  BY <1>3 DEF Woken
<1>5. \A t \in Tasks : /\ t \in Of("put")' <=> pc'[t] = "put"
                       /\ t \in Of("get")' <=> pc'[t] = "get"
  BY DEF Of
<1>6. Getting' \subseteq Tasks /\ Putting' \subseteq Tasks
  BY DEF Getting, Putting, Of
<1>7. QED
  BY <1>1, <1>2, <1>4, <1>5, <1>6, PrimedSets

LEMMA ForgottenIsInVainNext ==
  ASSUME NEW w \in Nat, Callers', Lines'
  PROVE  NobodyForgotten(w)' <=> NobodyWaitsInVain(w)'
BY RunningAreNext DEF NobodyForgotten, NobodyWaitsInVain

(* At a queue, a bounded buffer or a channel over asyncio.Queue nobody      *)
(* waits beside what it waits for: every item, and every free place, that a *)
(* waiting caller could use is left to a caller that was woken.  And a      *)
(* receiver that is in the list of a broadcast was sent all since it        *)
(* registered.                                                              *)
THEOREM NobodyLeftWaiting == Spec => []NobodyPassedOver
<1>1. IInv => NobodyPassedOver
  <2> SUFFICES ASSUME IInv PROVE NobodyPassedOver
    OBVIOUS
  <2>1. ASSUME subject \notin {"enhanced", "synchronous", "broadcast"} PROVE NobodyForgotten(0)
    BY <2>1, ForgottenIsInVain DEF IInv
  <2>2. subject = "broadcast" => AllAreSentTo
    BY DEF IInv, BroadcastInv
  <2>3. QED
    BY <2>1, <2>2 DEF NobodyPassedOver
<1>2. QED
  BY <1>1, QueuesInvariant, PTL

(* Whoever is passed over at EnhancedCondition, at the synchronous or the   *)
(* broadcast channel is so by the one step each of them is named for: a     *)
(* notified thread whose time had run out gives up, a caller drops the      *)
(* first partner of the list, which was cancelled, and a receiver goes with *)
(* the dead reference that stands beside it.                                *)
THEOREM NobodyElseIsPassedOver == Spec => OnlyThesePassOver
<1>1. IInv /\ [Next]_vars => [subject = "enhanced" => WakeUpStep]_vars
  <2> SUFFICES ASSUME IInv, Next, subject = "enhanced" PROVE WakeUpStep
    OBVIOUS
  <2>1. Callers /\ Lines /\ QueueInv /\ EnhancedNext /\ subject' = subject
    BY DEF Next, IInv, Strategies
  <2>2. ASSUME NEW w \in 0 .. Capacity, NobodyForgotten(w)
        PROVE  \/ NobodyForgotten(w)'
               \/ /\ \E t \in expired : Woken(t) /\ pc'[t] = "idle"
                  /\ NobodyForgotten(w + 1)'
    <3>1. w \in Nat /\ w + 1 \in Nat
      BY QueueAssumption
    <3>2. QueueKept(w)
      BY <2>1, <2>2, <3>1, ForgottenIsInVain, KeptIsInv
    <3>3. \/ QueueKept(w)'
          \/ /\ \E t \in expired : Woken(t) /\ pc'[t] = "idle"
             /\ QueueKept(w + 1)'
      BY <2>1, <3>1, <3>2, EnhancedStep
    <3>4. ASSUME NEW v \in Nat, QueueKept(v)' PROVE NobodyForgotten(v)'
      <4>1. Callers' /\ Lines' /\ NobodyWaitsInVain(v)'
        BY <3>4 DEF QueueKept, Settled
      <4>2. QED
        BY <4>1, ForgottenIsInVainNext
    <3>5. QED
      BY <3>1, <3>3, <3>4
  <2>3. QED
    BY <2>2 DEF WakeUpStep
<1>2. IInv /\ [Next]_vars => [subject = "synchronous" => PairStep]_vars
  <2> SUFFICES ASSUME IInv, Next, subject = "synchronous" PROVE PairStep
    OBVIOUS
  <2>1. SyncKept /\ SyncNext
    BY DEF Next, IInv, SyncKept, Strategies
  <2>2. QED
    BY <2>1, PairKept
<1>3. IInv /\ [Next]_vars => [subject = "broadcast" => DropStep]_vars
  <2> SUFFICES ASSUME IInv, Next, subject = "broadcast" PROVE DropStep
    OBVIOUS
  <2>1. BroadcastKept /\ BroadcastNext
    BY DEF Next, IInv, BroadcastKept, Strategies
  <2>2. QED
    BY <2>1, BroadcastStep
<1>4. QED
  BY <1>1, <1>2, <1>3, QueuesInvariant, PTL DEF OnlyThesePassOver, Spec
=============================================================================
