------------------------- MODULE BoundedBufferProofs -------------------------
(***************************************************************************)
(* Proofs about BoundedBuffer: for every number of threads, every capacity *)
(* and every assignment of timeouts.                                       *)
(***************************************************************************)
EXTENDS BoundedBuffer, TLAPS, SequenceTheorems, FiniteSetTheorems

(* Moving the head of the buffer to the delivered items keeps the whole.   *)
LEMMA MoveHead ==
  ASSUME NEW S, NEW d \in Seq(S), NEW b \in Seq(S), b # << >>
  PROVE  Append(d, Head(b)) \o Tail(b) = d \o b
<1>1. Head(b) \in S /\ Tail(b) \in Seq(S) /\ Len(Tail(b)) = Len(b) - 1
      /\ Len(b) \in Nat \ {0}
      /\ \A i \in 1 .. Len(Tail(b)) : Tail(b)[i] = b[i + 1]
  BY HeadTailProperties, EmptySeq
<1>2. Append(d, Head(b)) \o Tail(b) \in Seq(S) /\ d \o b \in Seq(S)
  BY <1>1
<1>3. Len(Append(d, Head(b)) \o Tail(b)) = Len(d \o b)
  BY <1>1
<1>4. ASSUME NEW i \in 1 .. Len(Append(d, Head(b)) \o Tail(b))
      PROVE  (Append(d, Head(b)) \o Tail(b))[i] = (d \o b)[i]
  <2>1. CASE i <= Len(d)
    BY <1>1, <2>1
  <2>2. CASE i = Len(d) + 1
    BY <1>1, <2>2
  <2>3. CASE i > Len(d) + 1
    BY <1>1, <2>3
  <2>4. QED
    BY <1>1, <2>1, <2>2, <2>3
<1>5. QED
  BY <1>2, <1>3, <1>4, SeqEqual

-----------------------------------------------------------------------------
(* notify() removes at most one thread, and one if there is one.           *)
LEMMA NotifyCases ==
  ASSUME NEW W, NEW V \in AfterNotify(W)
  PROVE  \/ W = {} /\ V = {}
         \/ \E t \in W : V = W \ {t}
BY DEF AfterNotify

LEMMA NotifyShrinks ==
  ASSUME NEW W, NEW V \in AfterNotify(W)
  PROVE  V \subseteq W
BY NotifyCases

LEMMA InitType == Init => TypeOK
<1> SUFFICES ASSUME Init PROVE TypeOK
  OBVIOUS
<1>1. buffer \in Seq(Items) /\ accepted \in Seq(Items) /\ delivered \in Seq(Items)
  BY EmptySeq DEF Init
<1>2. Len(buffer) <= Capacity
  BY BufferAssumption DEF Init
<1>3. /\ pc \in [Threads -> {"idle", "waiting"}]
      /\ arg \in [Producers -> Items \cup {None}]
      /\ ret \in [Threads -> {"nothing", "True", "False", None} \cup Items]
      /\ \A p \in Producers : pc[p] # "waiting"
  BY DEF Init, Threads
<1>4. QED
  BY <1>1, <1>2, <1>3 DEF Init, TypeOK

LEMMA FinishPutType ==
  ASSUME TypeOK, NEW p \in Producers, NEW x \in Items, FinishPut(p, x),
         PutReady
  PROVE  /\ buffer' \in Seq(Items) /\ Len(buffer') <= Capacity
         /\ closed' \in BOOLEAN
         /\ notEmpty' \subseteq notEmpty
         /\ pc' = [pc EXCEPT ![p] = "idle"]
         /\ expired' = expired \ {p}
         /\ ret' \in [Threads -> {"nothing", "True", "False", None} \cup Items]
         /\ accepted' \in Seq(Items) /\ delivered' \in Seq(Items)
<1>1. CASE closed
  BY <1>1 DEF FinishPut, Return, TypeOK, Threads
<1>2. CASE ~closed
  <2>1. Len(Append(buffer, x)) <= Capacity /\ Append(buffer, x) \in Seq(Items)
    BY <1>2, BufferAssumption DEF TypeOK, PutReady
  <2>2. notEmpty' \subseteq notEmpty
    BY <1>2, NotifyShrinks DEF FinishPut
  <2>3. /\ pc' = [pc EXCEPT ![p] = "idle"]
        /\ expired' = expired \ {p}
        /\ ret' = [ret EXCEPT ![p] = "True"]
        /\ buffer' = Append(buffer, x) /\ accepted' = Append(accepted, x)
        /\ closed' = closed /\ delivered' = delivered
    BY <1>2 DEF FinishPut, Return
  <2>4. QED
    BY <2>1, <2>2, <2>3 DEF TypeOK, Threads
<1>3. QED
  BY <1>1, <1>2

LEMMA FinishGetType ==
  ASSUME TypeOK, NEW c \in Consumers, FinishGet(c)
  PROVE  /\ buffer' \in Seq(Items) /\ Len(buffer') <= Capacity
         /\ closed' \in BOOLEAN
         /\ notFull' \subseteq notFull
         /\ pc' = [pc EXCEPT ![c] = "idle"]
         /\ expired' = expired \ {c}
         /\ ret' \in [Threads -> {"nothing", "True", "False", None} \cup Items]
         /\ accepted' \in Seq(Items) /\ delivered' \in Seq(Items)
<1>1. CASE Len(buffer) = 0
  BY <1>1 DEF FinishGet, Return, TypeOK, Threads
<1>2. CASE Len(buffer) > 0
  <2>1. /\ Head(buffer) \in Items
        /\ Tail(buffer) \in Seq(Items)
        /\ Len(Tail(buffer)) <= Capacity
    BY <1>2, HeadTailProperties, EmptySeq, BufferAssumption DEF TypeOK
  <2>2. notFull' \subseteq notFull
    BY <1>2, NotifyShrinks DEF FinishGet
  <2>3. /\ pc' = [pc EXCEPT ![c] = "idle"]
        /\ expired' = expired \ {c}
        /\ ret' = [ret EXCEPT ![c] = Head(buffer)]
        /\ buffer' = Tail(buffer) /\ delivered' = Append(delivered, Head(buffer))
        /\ closed' = closed /\ accepted' = accepted
    BY <1>2 DEF FinishGet, Return
  <2>4. QED
    BY <2>1, <2>2, <2>3 DEF TypeOK, Threads
<1>3. QED
  BY <1>1, <1>2 DEF TypeOK

LEMMA TypeKept ==
  ASSUME TypeOK, NEW t \in Threads, NEW v \in {"idle", "waiting"},
         pc' = [pc EXCEPT ![t] = v],
         buffer' \in Seq(Items), Len(buffer') <= Capacity, closed' \in BOOLEAN,
         accepted' \in Seq(Items), delivered' \in Seq(Items),
         ret' \in [Threads -> {"nothing", "True", "False", None} \cup Items],
         notFull' \subseteq notFull \cup {t}, t \in notFull' => t \in Producers,
         notEmpty' \subseteq notEmpty \cup {t}, t \in notEmpty' => t \in Consumers,
         expired' \subseteq expired,
         v = "idle" => t \notin notFull' /\ t \notin notEmpty' /\ t \notin expired',
         arg' = arg \/ \E x \in Items : arg' = [arg EXCEPT ![t] = x],
         v = "waiting" /\ t \in Producers => arg'[t] \in Items
  PROVE  TypeOK'
<1>1. /\ pc \in [Threads -> {"idle", "waiting"}] /\ arg \in [Producers -> Items \cup {None}]
      /\ notFull \subseteq Producers /\ notEmpty \subseteq Consumers /\ expired \subseteq TimedCallers
      /\ \A s \in notFull \cup notEmpty \cup expired : pc[s] = "waiting"
      /\ \A p \in Producers : pc[p] = "waiting" => arg[p] \in Items
      /\ Producers \subseteq Threads /\ Consumers \subseteq Threads /\ TimedCallers \subseteq Threads
  BY BufferAssumption DEF TypeOK, Threads
<1>2. /\ pc' \in [Threads -> {"idle", "waiting"}]
      /\ \A s \in Threads : pc'[s] = IF s = t THEN v ELSE pc[s]
  BY <1>1
<1>3. /\ arg' \in [Producers -> Items \cup {None}]
      /\ \A p \in Producers : p # t => arg'[p] = arg[p]
  BY <1>1
<1>4. notFull' \subseteq Producers /\ notEmpty' \subseteq Consumers /\ expired' \subseteq TimedCallers
  BY <1>1
<1>5. ASSUME NEW s \in notFull' \cup notEmpty' \cup expired' PROVE pc'[s] = "waiting"
  <2>1. CASE s = t
    BY <1>2, <1>5, <2>1
  <2>2. CASE s # t
    BY <1>1, <1>2, <1>5, <2>2
  <2>3. QED
    BY <2>1, <2>2
<1>6. ASSUME NEW p \in Producers, pc'[p] = "waiting" PROVE arg'[p] \in Items
  <2>1. CASE p = t
    BY <1>1, <1>2, <1>6, <2>1
  <2>2. CASE p # t
    BY <1>1, <1>2, <1>3, <1>6, <2>2
  <2>3. QED
    BY <2>1, <2>2
<1>7. QED
  BY <1>2, <1>3, <1>4, <1>5, <1>6 DEF TypeOK

LEMMA StepType == TypeOK /\ [Next]_vars => TypeOK'
<1>1. ASSUME TypeOK, NEW p \in Producers, NEW x \in Items, Put(p, x)
      PROVE  TypeOK'
  <2>0. /\ p \in Threads /\ p \notin Consumers
        /\ notFull \subseteq Producers /\ notEmpty \subseteq Consumers
        /\ \A s \in notFull \cup notEmpty \cup expired : pc[s] = "waiting"
    BY <1>1, BufferAssumption DEF TypeOK, Threads
  <2>10. /\ buffer \in Seq(Items) /\ Len(buffer) <= Capacity /\ closed \in BOOLEAN
         /\ accepted \in Seq(Items) /\ delivered \in Seq(Items)
         /\ ret \in [Threads -> {"nothing", "True", "False", None} \cup Items]
    BY <1>1 DEF TypeOK
  <2>1. CASE PutReady
    <3>1. FinishPut(p, x) /\ notFull' = notFull /\ pc[p] = "idle" /\ arg' = [arg EXCEPT ![p] = x]
      BY <1>1, <2>1 DEF Put
    <3>3. /\ buffer' \in Seq(Items) /\ Len(buffer') <= Capacity /\ closed' \in BOOLEAN
          /\ notEmpty' \subseteq notEmpty /\ pc' = [pc EXCEPT ![p] = "idle"]
          /\ expired' = expired \ {p}
          /\ ret' \in [Threads -> {"nothing", "True", "False", None} \cup Items]
          /\ accepted' \in Seq(Items) /\ delivered' \in Seq(Items)
      BY <1>1, <2>1, <3>1, FinishPutType
    <3>4. p \notin notFull' /\ p \notin notEmpty' /\ p \notin expired'
      BY <2>0, <3>1, <3>3
    <3>5. QED
      BY <1>1, <2>0, <3>1, <3>3, <3>4, TypeKept
  <2>2. CASE ~PutReady
    <3>1. /\ pc' = [pc EXCEPT ![p] = "waiting"] /\ notFull' = notFull \cup {p} /\ arg' = [arg EXCEPT ![p] = x]
          /\ UNCHANGED <<buffer, closed, notEmpty, accepted, delivered, ret, expired>>
      BY <1>1, <2>2 DEF Put, StartWaiting
    <3>2. arg'[p] \in Items
      BY <1>1, <3>1 DEF TypeOK
    <3>3. p \notin notEmpty
      BY <2>0
    <3>4. QED
      BY <1>1, <2>0, <2>10, <3>1, <3>2, <3>3, TypeKept
  <2>3. QED
    BY <2>1, <2>2
<1>2. ASSUME TypeOK, NEW p \in Producers, ResumePut(p)
      PROVE  TypeOK'
  <2>0. /\ p \in Threads /\ p \notin Consumers
        /\ notFull \subseteq Producers /\ notEmpty \subseteq Consumers
        /\ \A s \in notFull \cup notEmpty \cup expired : pc[s] = "waiting"
    BY <1>2, BufferAssumption DEF TypeOK, Threads
  <2>10. /\ buffer \in Seq(Items) /\ Len(buffer) <= Capacity /\ closed \in BOOLEAN
         /\ accepted \in Seq(Items) /\ delivered \in Seq(Items)
         /\ ret \in [Threads -> {"nothing", "True", "False", None} \cup Items]
    BY <1>2 DEF TypeOK
  <2>1. CASE PutReady
    <3>1. FinishPut(p, arg[p]) /\ notFull' = notFull \ {p} /\ arg' = arg
      BY <1>2, <2>1 DEF ResumePut
    <3>2. arg[p] \in Items
      BY <1>2 DEF ResumePut, TypeOK
    <3>3. /\ buffer' \in Seq(Items) /\ Len(buffer') <= Capacity /\ closed' \in BOOLEAN
          /\ notEmpty' \subseteq notEmpty /\ pc' = [pc EXCEPT ![p] = "idle"]
          /\ expired' = expired \ {p}
          /\ ret' \in [Threads -> {"nothing", "True", "False", None} \cup Items]
          /\ accepted' \in Seq(Items) /\ delivered' \in Seq(Items)
      BY <1>2, <2>1, <3>1, <3>2, FinishPutType
    <3>4. p \notin notFull' /\ p \notin notEmpty' /\ p \notin expired'
      BY <2>0, <3>1, <3>3
    <3>5. QED
      BY <1>2, <2>0, <3>1, <3>3, <3>4, TypeKept
  <2>2. CASE ~PutReady /\ TimeUp(p)
    <3>1. /\ pc' = [pc EXCEPT ![p] = "idle"] /\ ret' = [ret EXCEPT ![p] = "False"]
          /\ expired' = expired \ {p} /\ notFull' = notFull \ {p}
          /\ UNCHANGED <<buffer, closed, notEmpty, accepted, delivered, arg>>
      BY <1>2, <2>2 DEF ResumePut, Return
    <3>2. p \notin notFull' /\ p \notin notEmpty' /\ p \notin expired'
      BY <2>0, <3>1
    <3>3. ret' \in [Threads -> {"nothing", "True", "False", None} \cup Items]
      BY <2>10, <3>1
    <3>4. QED
      BY <1>2, <2>0, <2>10, <3>1, <3>2, <3>3, TypeKept
  <2>3. CASE ~PutReady /\ ~TimeUp(p)
    <3>1. /\ pc' = [pc EXCEPT ![p] = "waiting"] /\ notFull' = notFull \cup {p} /\ arg' = arg
          /\ UNCHANGED <<buffer, closed, notEmpty, accepted, delivered, ret, expired>>
      BY <1>2, <2>3 DEF ResumePut, StartWaiting
    <3>2. arg'[p] \in Items
      BY <1>2, <3>1 DEF ResumePut, TypeOK
    <3>3. p \notin notEmpty
      BY <2>0
    <3>4. QED
      BY <1>2, <2>0, <2>10, <3>1, <3>2, <3>3, TypeKept
  <2>4. QED
    BY <2>1, <2>2, <2>3
<1>3. ASSUME TypeOK, NEW c \in Consumers, Get(c)
      PROVE  TypeOK'
  <2>0. /\ c \in Threads /\ c \notin Producers
        /\ notFull \subseteq Producers /\ notEmpty \subseteq Consumers
        /\ \A s \in notFull \cup notEmpty \cup expired : pc[s] = "waiting"
    BY <1>3, BufferAssumption DEF TypeOK, Threads
  <2>10. /\ buffer \in Seq(Items) /\ Len(buffer) <= Capacity /\ closed \in BOOLEAN
         /\ accepted \in Seq(Items) /\ delivered \in Seq(Items)
         /\ ret \in [Threads -> {"nothing", "True", "False", None} \cup Items]
    BY <1>3 DEF TypeOK
  <2>1. CASE GetReady
    <3>1. FinishGet(c) /\ notEmpty' = notEmpty /\ pc[c] = "idle" /\ arg' = arg
      BY <1>3, <2>1 DEF Get
    <3>3. /\ buffer' \in Seq(Items) /\ Len(buffer') <= Capacity /\ closed' \in BOOLEAN
          /\ notFull' \subseteq notFull /\ pc' = [pc EXCEPT ![c] = "idle"]
          /\ expired' = expired \ {c}
          /\ ret' \in [Threads -> {"nothing", "True", "False", None} \cup Items]
          /\ accepted' \in Seq(Items) /\ delivered' \in Seq(Items)
      BY <1>3, <2>1, <3>1, FinishGetType
    <3>4. c \notin notFull' /\ c \notin notEmpty' /\ c \notin expired'
      BY <2>0, <3>1, <3>3
    <3>5. QED
      BY <1>3, <2>0, <3>1, <3>3, <3>4, TypeKept
  <2>2. CASE ~GetReady
    <3>1. /\ pc' = [pc EXCEPT ![c] = "waiting"] /\ notEmpty' = notEmpty \cup {c} /\ arg' = arg
          /\ UNCHANGED <<buffer, closed, notFull, accepted, delivered, ret, expired>>
      BY <1>3, <2>2 DEF Get, StartWaiting
    <3>3. c \notin notFull
      BY <2>0
    <3>4. QED
      BY <1>3, <2>0, <2>10, <3>1, <3>3, TypeKept
  <2>3. QED
    BY <2>1, <2>2
<1>4. ASSUME TypeOK, NEW c \in Consumers, ResumeGet(c)
      PROVE  TypeOK'
  <2>0. /\ c \in Threads /\ c \notin Producers
        /\ notFull \subseteq Producers /\ notEmpty \subseteq Consumers
        /\ \A s \in notFull \cup notEmpty \cup expired : pc[s] = "waiting"
    BY <1>4, BufferAssumption DEF TypeOK, Threads
  <2>10. /\ buffer \in Seq(Items) /\ Len(buffer) <= Capacity /\ closed \in BOOLEAN
         /\ accepted \in Seq(Items) /\ delivered \in Seq(Items)
         /\ ret \in [Threads -> {"nothing", "True", "False", None} \cup Items]
    BY <1>4 DEF TypeOK
  <2>1. CASE GetReady
    <3>1. FinishGet(c) /\ notEmpty' = notEmpty \ {c} /\ arg' = arg
      BY <1>4, <2>1 DEF ResumeGet
    <3>3. /\ buffer' \in Seq(Items) /\ Len(buffer') <= Capacity /\ closed' \in BOOLEAN
          /\ notFull' \subseteq notFull /\ pc' = [pc EXCEPT ![c] = "idle"]
          /\ expired' = expired \ {c}
          /\ ret' \in [Threads -> {"nothing", "True", "False", None} \cup Items]
          /\ accepted' \in Seq(Items) /\ delivered' \in Seq(Items)
      BY <1>4, <2>1, <3>1, FinishGetType
    <3>4. c \notin notFull' /\ c \notin notEmpty' /\ c \notin expired'
      BY <2>0, <3>1, <3>3
    <3>5. QED
      BY <1>4, <2>0, <3>1, <3>3, <3>4, TypeKept
  <2>2. CASE ~GetReady /\ TimeUp(c)
    <3>1. /\ pc' = [pc EXCEPT ![c] = "idle"] /\ ret' = [ret EXCEPT ![c] = None]
          /\ expired' = expired \ {c} /\ notEmpty' = notEmpty \ {c}
          /\ UNCHANGED <<buffer, closed, notFull, accepted, delivered, arg>>
      BY <1>4, <2>2 DEF ResumeGet, Return
    <3>2. c \notin notFull' /\ c \notin notEmpty' /\ c \notin expired'
      BY <2>0, <3>1
    <3>3. ret' \in [Threads -> {"nothing", "True", "False", None} \cup Items]
      BY <2>10, <3>1
    <3>4. QED
      BY <1>4, <2>0, <2>10, <3>1, <3>2, <3>3, TypeKept
  <2>3. CASE ~GetReady /\ ~TimeUp(c)
    <3>1. /\ pc' = [pc EXCEPT ![c] = "waiting"] /\ notEmpty' = notEmpty \cup {c} /\ arg' = arg
          /\ UNCHANGED <<buffer, closed, notFull, accepted, delivered, ret, expired>>
      BY <1>4, <2>3 DEF ResumeGet, StartWaiting
    <3>3. c \notin notFull
      BY <2>0
    <3>4. QED
      BY <1>4, <2>0, <2>10, <3>1, <3>3, TypeKept
  <2>4. QED
    BY <2>1, <2>2, <2>3
<1>5. ASSUME TypeOK, NEW t \in Threads, Expire(t)
      PROVE  TypeOK'
  BY <1>5 DEF Expire, TypeOK
<1>6. ASSUME TypeOK, Close
      PROVE  TypeOK'
  BY <1>6 DEF Close, TypeOK
<1>7. ASSUME TypeOK, UNCHANGED vars
      PROVE  TypeOK'
  BY <1>7 DEF TypeOK, vars
<1>8. QED
  BY <1>1, <1>2, <1>3, <1>4, <1>5, <1>6, <1>7 DEF Next

(* Every reachable state has the declared types: in particular the buffer  *)
(* never holds more than Capacity items.                                   *)
THEOREM TypeCorrect == Spec => []TypeOK
<1>1. QED
  BY InitType, StepType, PTL DEF Spec

-----------------------------------------------------------------------------
(* What one step does to the buffer and the two histories: nothing, or it  *)
(* appends an item to the buffer, or it hands the head of the buffer out.  *)
Unmoved == UNCHANGED <<buffer, accepted, delivered>>
Appended(x) ==
  /\ ~closed
  /\ Len(buffer) < Capacity
  /\ buffer' = Append(buffer, x)
  /\ accepted' = Append(accepted, x)
  /\ delivered' = delivered
HandedOut ==
  /\ buffer # << >>
  /\ buffer' = Tail(buffer)
  /\ delivered' = Append(delivered, Head(buffer))
  /\ accepted' = accepted

LEMMA StepEffect ==
  ASSUME TypeOK, [Next]_vars
  PROVE  /\ closed => closed'
         /\ \/ Unmoved
            \/ (\E x \in Items : Appended(x)) /\ closed' = closed
            \/ HandedOut /\ closed' = closed
<1>1. ASSUME NEW p \in Producers, NEW x \in Items, FinishPut(p, x), PutReady
      PROVE  closed' = closed /\ (Unmoved \/ Appended(x))
  BY <1>1 DEF FinishPut, PutReady, Unmoved, Appended
<1>2. ASSUME NEW c \in Consumers, FinishGet(c)
      PROVE  closed' = closed /\ (Unmoved \/ HandedOut)
  <2>1. CASE Len(buffer) = 0
    BY <1>2, <2>1 DEF FinishGet, Unmoved
  <2>2. CASE Len(buffer) > 0
    BY <1>2, <2>2, EmptySeq DEF FinishGet, HandedOut, TypeOK
  <2>3. QED
    BY <2>1, <2>2 DEF TypeOK
<1>3. ASSUME NEW p \in Producers, NEW x \in Items, Put(p, x)
      PROVE  closed' = closed /\ (Unmoved \/ Appended(x))
  BY <1>1, <1>3 DEF Put, Unmoved
<1>4. ASSUME NEW p \in Producers, ResumePut(p)
      PROVE  closed' = closed /\ (Unmoved \/ \E x \in Items : Appended(x))
  <2>1. arg[p] \in Items
    BY <1>4 DEF ResumePut, TypeOK
  <2>2. CASE PutReady
    <3>1. FinishPut(p, arg[p])
      BY <1>4, <2>2 DEF ResumePut
    <3>2. QED
      BY <1>1, <2>1, <2>2, <3>1
  <2>3. CASE ~PutReady
    BY <1>4, <2>3 DEF ResumePut, Unmoved
  <2>4. QED
    BY <2>2, <2>3
<1>5. ASSUME NEW c \in Consumers, Get(c)
      PROVE  closed' = closed /\ (Unmoved \/ HandedOut)
  BY <1>2, <1>5 DEF Get, Unmoved
<1>6. ASSUME NEW c \in Consumers, ResumeGet(c)
      PROVE  closed' = closed /\ (Unmoved \/ HandedOut)
  BY <1>2, <1>6 DEF ResumeGet, Unmoved
<1>7. ASSUME NEW t \in Threads, Expire(t)
      PROVE  closed' = closed /\ Unmoved
  BY <1>7 DEF Expire, Unmoved
<1>8. ASSUME Close
      PROVE  closed' /\ Unmoved
  BY <1>8 DEF Close, Unmoved
<1>9. ASSUME UNCHANGED vars
      PROVE  closed' = closed /\ Unmoved
  BY <1>9 DEF vars, Unmoved
<1>10. QED
  BY <1>3, <1>4, <1>5, <1>6, <1>7, <1>8, <1>9 DEF Next, TypeOK

LEMMA StepFifo == TypeOK /\ Fifo /\ [Next]_vars => Fifo'
<1> SUFFICES ASSUME TypeOK, Fifo, [Next]_vars
             PROVE  Fifo'
  OBVIOUS
<1>1. CASE Unmoved
  BY <1>1 DEF Unmoved, Fifo
<1>2. ASSUME NEW x \in Items, Appended(x)
      PROVE  Fifo'
  <2>1. /\ delivered \in Seq(Items) /\ buffer \in Seq(Items)
        /\ accepted \in Seq(Items) /\ <<x>> \in Seq(Items)
    BY DEF TypeOK
  <2>2. Append(accepted, x) = accepted \o <<x>>
    BY <2>1, AppendIsConcat
  <2>3. Append(buffer, x) = buffer \o <<x>>
    BY <2>1, AppendIsConcat
  <2>4. (delivered \o buffer) \o <<x>> = delivered \o (buffer \o <<x>>)
    BY <2>1, ConcatAssociative
  <2>5. QED
    BY <1>2, <2>2, <2>3, <2>4, Zenon DEF Appended, Fifo
<1>3. CASE HandedOut
  <2>1. Append(delivered, Head(buffer)) \o Tail(buffer) = delivered \o buffer
    BY <1>3, MoveHead DEF TypeOK, HandedOut
  <2>2. QED
    BY <1>3, <2>1 DEF HandedOut, Fifo
<1>4. QED
  BY StepEffect, <1>1, <1>2, <1>3

(* Items are delivered once each and in the order of acceptance.           *)
THEOREM FifoOrder == Spec => []Fifo
<1>1. Init => Fifo
  BY ConcatEmptySeq, EmptySeq DEF Init, Fifo
<1>2. QED
  BY <1>1, StepFifo, TypeCorrect, PTL DEF Spec

(* A closed buffer accepts nothing, and stays closed.                      *)
THEOREM ClosedForGood == Spec => NothingAcceptedAfterClose
<1>1. TypeOK /\ [Next]_vars
        => [closed => accepted' = accepted /\ closed']_vars
  BY StepEffect DEF Unmoved, Appended, HandedOut
<1>2. QED
  BY <1>1, TypeCorrect, PTL DEF Spec, NothingAcceptedAfterClose

(* The buffer implements the closable first-in first-out channel.          *)
THEOREM Refinement == Spec => ImplementsChannel
<1>1. Init => Channel!ChanInit
  BY DEF Init, Channel!ChanInit
<1>2. TypeOK /\ Fifo /\ [Next]_vars => [Channel!ChanNext]_(Channel!chanVars)
  <2> SUFFICES ASSUME TypeOK, Fifo, [Next]_vars
               PROVE  Channel!ChanNext \/ UNCHANGED Channel!chanVars
    OBVIOUS
  <2>1. /\ Len(accepted) = Len(delivered) + Len(buffer)
        /\ Len(accepted) \in Nat /\ Len(delivered) \in Nat /\ Len(buffer) \in Nat
        /\ Capacity \in Nat
    BY ConcatProperties, LenProperties, BufferAssumption DEF Fifo, TypeOK
  <2>2. CASE Unmoved
    <3>1. closed \in BOOLEAN /\ closed' \in BOOLEAN
      BY StepType DEF TypeOK
    <3>2. CASE closed' = closed
      BY <2>2, <3>2 DEF Unmoved, Channel!chanVars
    <3>3. CASE closed'
      BY <2>2, <3>3 DEF Unmoved, Channel!ChanNext, Channel!Shut
    <3>4. QED
      BY <3>1, <3>2, <3>3, StepEffect
  <2>3. ASSUME NEW x \in Items, Appended(x), closed' = closed
        PROVE  Channel!Send(x)
    BY <2>1, <2>3 DEF Appended, Channel!Send
  <2>4. CASE HandedOut /\ closed' = closed
    <3>1. Len(buffer) > 0
      BY <2>4, EmptySeq DEF HandedOut, TypeOK
    <3>2. accepted[Len(delivered) + 1] = Head(buffer)
      BY <2>1, <3>1, ConcatProperties DEF Fifo, TypeOK
    <3>3. QED
      BY <2>1, <2>4, <3>1, <3>2
         DEF HandedOut, Channel!ChanNext, Channel!Receive
  <2>5. QED
    BY StepEffect, <2>2, <2>3, <2>4 DEF Channel!ChanNext
<1>3. QED
  BY <1>1, <1>2, TypeCorrect, FifoOrder, PTL DEF Spec, ImplementsChannel, Channel!ChanSpec

-----------------------------------------------------------------------------
(* No lost wakeup *)

LEMMA StepClosedWakesAll ==
  TypeOK /\ ClosedWakesAll /\ [Next]_vars => ClosedWakesAll'
<1> SUFFICES ASSUME TypeOK, ClosedWakesAll, [Next]_vars
             PROVE  ClosedWakesAll'
  OBVIOUS
<1> USE DEF ClosedWakesAll
<1>1. ASSUME NEW p \in Producers, NEW x \in Items, Put(p, x)
      PROVE  ClosedWakesAll'
  BY <1>1, NotifyShrinks DEF Put, FinishPut, PutReady
<1>2. ASSUME NEW p \in Producers, ResumePut(p)
      PROVE  ClosedWakesAll'
  BY <1>2, NotifyShrinks DEF ResumePut, FinishPut, PutReady
<1>3. ASSUME NEW c \in Consumers, Get(c)
      PROVE  ClosedWakesAll'
  BY <1>3, NotifyShrinks DEF Get, FinishGet, GetReady
<1>4. ASSUME NEW c \in Consumers, ResumeGet(c)
      PROVE  ClosedWakesAll'
  BY <1>4, NotifyShrinks DEF ResumeGet, FinishGet, GetReady
<1>5. ASSUME NEW t \in Threads, Expire(t)
      PROVE  ClosedWakesAll'
  BY <1>5 DEF Expire
<1>6. CASE Close
  BY <1>6 DEF Close
<1>7. CASE UNCHANGED vars
  BY <1>7 DEF vars
<1>8. QED
  BY <1>1, <1>2, <1>3, <1>4, <1>5, <1>6, <1>7 DEF Next

ConsumersAwake == notEmpty # {} => Len(buffer) <= Cardinality(WokenConsumers)
ProducersAwake ==
  notFull # {} => Capacity <= Len(buffer) + Cardinality(WokenProducers)

LEMMA WokenFinite ==
  ASSUME NEW S \in SUBSET Threads
  PROVE  IsFiniteSet(S) /\ Cardinality(S) \in Nat
BY BufferAssumption, FS_Subset, FS_CardinalityType

LEMMA RemoveAtMostOne ==
  ASSUME NEW S, NEW x, IsFiniteSet(S)
  PROVE  Cardinality(S \ {x}) >= Cardinality(S) - 1
<1>1. Cardinality(S) \in Nat
  BY FS_CardinalityType
<1>2. Cardinality(S \ {x}) = IF x \in S THEN Cardinality(S) - 1 ELSE Cardinality(S)
  BY FS_RemoveElement
<1>3. QED
  BY <1>1, <1>2

LEMMA WokenCount ==
  /\ WokenConsumers \in SUBSET Threads /\ WokenProducers \in SUBSET Threads
  /\ WokenConsumers' \in SUBSET Threads /\ WokenProducers' \in SUBSET Threads
  /\ Cardinality(WokenConsumers) \in Nat /\ Cardinality(WokenProducers) \in Nat
  /\ Cardinality(WokenConsumers') \in Nat /\ Cardinality(WokenProducers') \in Nat
<1>1. /\ WokenConsumers \in SUBSET Threads /\ WokenProducers \in SUBSET Threads
      /\ WokenConsumers' \in SUBSET Threads /\ WokenProducers' \in SUBSET Threads
  BY DEF WokenConsumers, WokenProducers, Threads
<1>2. QED
  BY <1>1, WokenFinite

(* A put wakes a consumer along with the item it adds.                     *)
LEMMA PutKeepsConsumersAwake ==
  ASSUME TypeOK, ConsumersAwake, NEW p \in Producers, NEW x \in Items,
         FinishPut(p, x)
  PROVE  ConsumersAwake'
<1> USE DEF ConsumersAwake
<1>1. \A c \in Consumers : pc'[c] = pc[c]
  BY BufferAssumption DEF FinishPut, Return, TypeOK, Threads
<1>2. CASE closed
  <2>1. WokenConsumers' = WokenConsumers
    BY <1>1, <1>2 DEF FinishPut, WokenConsumers
  <2>2. QED
    BY <1>2, <2>1 DEF FinishPut
<1>3. CASE ~closed /\ notEmpty = {}
  BY <1>3, NotifyCases DEF FinishPut
<1>4. CASE ~closed /\ notEmpty # {}
  <2>1. PICK t \in notEmpty : notEmpty' = notEmpty \ {t}
    BY <1>4, NotifyCases DEF FinishPut
  <2>2. WokenConsumers' = WokenConsumers \cup {t} /\ t \notin WokenConsumers
    BY <1>1, <2>1 DEF WokenConsumers, TypeOK
  <2>3. Cardinality(WokenConsumers') = Cardinality(WokenConsumers) + 1
    BY <2>2, WokenCount, WokenFinite, FS_AddElement
  <2>4. Len(buffer') = Len(buffer) + 1
    BY <1>4 DEF FinishPut, TypeOK
  <2>5. QED
    BY <1>4, <2>3, <2>4, WokenCount DEF TypeOK
<1>5. QED
  BY <1>2, <1>3, <1>4

(* A get wakes a producer along with the slot it frees.                    *)
LEMMA GetKeepsProducersAwake ==
  ASSUME TypeOK, ProducersAwake, NEW c \in Consumers, FinishGet(c)
  PROVE  ProducersAwake'
<1> USE DEF ProducersAwake
<1>1. \A p \in Producers : pc'[p] = pc[p]
  BY BufferAssumption DEF FinishGet, Return, TypeOK, Threads
<1>2. CASE Len(buffer) = 0
  <2>1. WokenProducers' = WokenProducers
    BY <1>1, <1>2 DEF FinishGet, WokenProducers
  <2>2. QED
    BY <1>2, <2>1 DEF FinishGet
<1>3. CASE Len(buffer) > 0 /\ notFull = {}
  BY <1>3, NotifyCases DEF FinishGet
<1>4. CASE Len(buffer) > 0 /\ notFull # {}
  <2>1. PICK t \in notFull : notFull' = notFull \ {t}
    BY <1>4, NotifyCases DEF FinishGet
  <2>2. WokenProducers' = WokenProducers \cup {t} /\ t \notin WokenProducers
    BY <1>1, <2>1 DEF WokenProducers, TypeOK
  <2>3. Cardinality(WokenProducers') = Cardinality(WokenProducers) + 1
    BY <2>2, WokenCount, WokenFinite, FS_AddElement
  <2>4. Len(buffer') = Len(buffer) - 1
    BY <1>4, EmptySeq, HeadTailProperties DEF FinishGet, TypeOK
  <2>5. QED
    BY <1>4, <2>3, <2>4, WokenCount, BufferAssumption DEF TypeOK
<1>5. QED
  BY <1>2, <1>3, <1>4 DEF TypeOK

LEMMA StepConsumersAwake ==
  TypeOK /\ ConsumersAwake /\ [Next]_vars => ConsumersAwake'
<1> SUFFICES ASSUME TypeOK, ConsumersAwake, [Next]_vars
             PROVE  ConsumersAwake'
  OBVIOUS
<1> USE DEF ConsumersAwake
<1>1. ASSUME NEW p \in Producers, pc' = [pc EXCEPT ![p] = "waiting"]
                               \/ pc' = [pc EXCEPT ![p] = "idle"],
             UNCHANGED <<buffer, notEmpty>>
      PROVE  ConsumersAwake'
  <2>1. WokenConsumers' = WokenConsumers
    BY <1>1, BufferAssumption DEF WokenConsumers, TypeOK, Threads
  <2>2. QED
    BY <1>1, <2>1
<1>2. ASSUME NEW p \in Producers, NEW x \in Items, Put(p, x)
      PROVE  ConsumersAwake'
  BY <1>1, <1>2, PutKeepsConsumersAwake DEF Put, StartWaiting
<1>3. ASSUME NEW p \in Producers, ResumePut(p)
      PROVE  ConsumersAwake'
  <2>1. CASE PutReady
    <3>1. FinishPut(p, arg[p]) /\ arg[p] \in Items
      BY <1>3, <2>1 DEF ResumePut, TypeOK
    <3>2. QED
      BY <3>1, PutKeepsConsumersAwake
  <2>2. CASE ~PutReady
    BY <1>1, <1>3, <2>2 DEF ResumePut, Return, StartWaiting
  <2>3. QED
    BY <2>1, <2>2
<1>4. ASSUME Len(buffer') = 0
      PROVE  ConsumersAwake'
  BY <1>4, WokenCount
<1>5. ASSUME NEW c \in Consumers, Get(c)
      PROVE  ConsumersAwake'
  <2>1. CASE ~GetReady
    BY <1>4, <1>5, <2>1 DEF Get, GetReady, TypeOK
  <2>2. CASE GetReady
    <3>1. WokenConsumers' = WokenConsumers /\ notEmpty' = notEmpty
      BY <1>5, <2>2 DEF Get, FinishGet, Return, WokenConsumers, TypeOK, Threads
    <3>2. Len(buffer') <= Len(buffer)
      BY <1>5, <2>2, EmptySeq, HeadTailProperties DEF Get, FinishGet, TypeOK
    <3>3. QED
      BY <3>1, <3>2, WokenCount DEF TypeOK
  <2>3. QED
    BY <2>1, <2>2
<1>6. ASSUME NEW c \in Consumers, ResumeGet(c)
      PROVE  ConsumersAwake'
  <2>1. CASE ~GetReady
    BY <1>4, <1>6, <2>1 DEF ResumeGet, GetReady, TypeOK
  <2>2. CASE GetReady /\ Len(buffer) = 0
    BY <1>4, <1>6, <2>2 DEF ResumeGet, FinishGet
  <2>3. CASE Len(buffer) > 0
    <3>1. FinishGet(c) /\ notEmpty' = notEmpty \ {c}
      BY <1>6, <2>3 DEF ResumeGet, GetReady
    <3>2. WokenConsumers' = WokenConsumers \ {c}
      BY <2>3, <3>1
         DEF FinishGet, Return, WokenConsumers, TypeOK, Threads
    <3>3. Cardinality(WokenConsumers') >= Cardinality(WokenConsumers) - 1
      <4>1. IsFiniteSet(WokenConsumers)
        BY WokenCount, WokenFinite
      <4>2. QED
        BY <3>2, <4>1, RemoveAtMostOne
    <3>4. Len(buffer') = Len(buffer) - 1
      BY <2>3, <3>1, EmptySeq, HeadTailProperties DEF FinishGet, TypeOK
    <3>5. QED
      BY <3>1, <3>3, <3>4, WokenCount DEF TypeOK
  <2>4. QED
    BY <2>1, <2>2, <2>3 DEF TypeOK
<1>7. ASSUME NEW t \in Threads, Expire(t)
      PROVE  ConsumersAwake'
  BY <1>7 DEF Expire, WokenConsumers
<1>8. CASE Close
  BY <1>8 DEF Close
<1>9. CASE UNCHANGED vars
  BY <1>9 DEF vars, WokenConsumers
<1>10. QED
  BY <1>2, <1>3, <1>5, <1>6, <1>7, <1>8, <1>9 DEF Next

LEMMA StepProducersAwake ==
  TypeOK /\ ClosedWakesAll /\ ProducersAwake /\ [Next]_vars => ProducersAwake'
<1> SUFFICES ASSUME TypeOK, ClosedWakesAll, ProducersAwake, [Next]_vars
             PROVE  ProducersAwake'
  OBVIOUS
<1> USE DEF ProducersAwake
<1>1. ASSUME NEW c \in Consumers, pc' = [pc EXCEPT ![c] = "waiting"]
                               \/ pc' = [pc EXCEPT ![c] = "idle"],
             UNCHANGED <<buffer, notFull>>
      PROVE  ProducersAwake'
  <2>1. WokenProducers' = WokenProducers
    BY <1>1, BufferAssumption DEF WokenProducers, TypeOK, Threads
  <2>2. QED
    BY <1>1, <2>1
<1>2. ASSUME NEW c \in Consumers, Get(c)
      PROVE  ProducersAwake'
  BY <1>1, <1>2, GetKeepsProducersAwake DEF Get, StartWaiting
<1>3. ASSUME NEW c \in Consumers, ResumeGet(c)
      PROVE  ProducersAwake'
  BY <1>1, <1>3, GetKeepsProducersAwake DEF ResumeGet, StartWaiting, Return
<1>4. ASSUME Len(buffer') >= Capacity
      PROVE  ProducersAwake'
  BY <1>4, WokenCount, BufferAssumption, StepType DEF TypeOK
<1>5. ASSUME NEW p \in Producers, NEW x \in Items, Put(p, x)
      PROVE  ProducersAwake'
  <2>1. CASE ~PutReady
    BY <1>4, <1>5, <2>1, BufferAssumption DEF Put, PutReady, TypeOK
  <2>2. CASE PutReady
    <3>1. WokenProducers' = WokenProducers /\ notFull' = notFull
      BY <1>5, <2>2
         DEF Put, FinishPut, Return, WokenProducers, TypeOK, Threads
    <3>2. Len(buffer') >= Len(buffer)
      BY <1>5, <2>2 DEF Put, FinishPut, TypeOK
    <3>3. QED
      BY <3>1, <3>2, WokenCount, BufferAssumption, StepType DEF TypeOK
  <2>3. QED
    BY <2>1, <2>2
<1>6. ASSUME NEW p \in Producers, ResumePut(p)
      PROVE  ProducersAwake'
  <2>1. CASE ~PutReady
    BY <1>4, <1>6, <2>1, BufferAssumption DEF ResumePut, PutReady, TypeOK
  <2>2. CASE closed
    BY <1>6, <2>2 DEF ResumePut, PutReady, ClosedWakesAll
  <2>3. CASE ~closed /\ PutReady
    <3>1. FinishPut(p, arg[p]) /\ notFull' = notFull \ {p}
      BY <1>6, <2>3 DEF ResumePut
    <3>2. WokenProducers' = WokenProducers \ {p}
      BY <2>3, <3>1
         DEF FinishPut, Return, WokenProducers, TypeOK, Threads
    <3>3. Cardinality(WokenProducers') >= Cardinality(WokenProducers) - 1
      <4>1. IsFiniteSet(WokenProducers)
        BY WokenCount, WokenFinite
      <4>2. QED
        BY <3>2, <4>1, RemoveAtMostOne
    <3>4. Len(buffer') = Len(buffer) + 1
      BY <2>3, <3>1 DEF FinishPut, TypeOK
    <3>5. QED
      BY <3>1, <3>3, <3>4, WokenCount, BufferAssumption DEF TypeOK
  <2>4. QED
    BY <2>1, <2>2, <2>3 DEF TypeOK
<1>7. ASSUME NEW t \in Threads, Expire(t)
      PROVE  ProducersAwake'
  BY <1>7 DEF Expire, WokenProducers
<1>8. CASE Close
  BY <1>8 DEF Close
<1>9. CASE UNCHANGED vars
  BY <1>9 DEF vars, WokenProducers
<1>10. QED
  BY <1>2, <1>3, <1>5, <1>6, <1>7, <1>8, <1>9 DEF Next

(* A thread sleeps on a condition only while enough awake threads of its   *)
(* kind are on their way to the lock to serve every item or free slot, so  *)
(* waking one thread per put and get is enough.                            *)
THEOREM NobodyForgotten == Spec => []NoLostWakeup
<1>1. Init => ClosedWakesAll /\ ConsumersAwake /\ ProducersAwake
  BY DEF Init, ClosedWakesAll, ConsumersAwake, ProducersAwake
<1>2. NoLostWakeup <=> ConsumersAwake /\ ProducersAwake
  BY DEF NoLostWakeup, ConsumersAwake, ProducersAwake
<1>3. QED
  BY <1>1, <1>2, StepClosedWakesAll, StepConsumersAwake, StepProducersAwake,
     TypeCorrect, PTL DEF Spec

-----------------------------------------------------------------------------
(* Failures *)

(* What a step may leave in ret as the answer to an untimed call.          *)
AnswersWell(t) ==
  /\ t \in Producers /\ ret'[t] = "False" => closed'
  /\ t \in Consumers /\ ret'[t] = None => closed' /\ buffer' = << >>

(* A call that returns changes the answer of its own thread only.          *)
LEMMA OwnAnswerOnly ==
  ASSUME TypeOK, NEW t \in Threads,
         (\E value : Return(t, value)) \/ StartWaiting(t)
  PROVE  \A s \in Threads \ {t} : ret'[s] = ret[s]
BY DEF Return, StartWaiting, TypeOK

LEMMA PutAnswers ==
  ASSUME TypeOK, NEW p \in Producers, p \notin TimedCallers,
         ResumePut(p) \/ \E x \in Items : Put(p, x)
  PROVE  ret'[p] = ret[p] \/ AnswersWell(p)
<1>1. p \notin Consumers /\ p \in DOMAIN ret /\ ~TimeUp(p)
  BY BufferAssumption DEF TypeOK, Threads, TimeUp
<1>2. ASSUME NEW x, FinishPut(p, x) PROVE AnswersWell(p)
  BY <1>1, <1>2 DEF FinishPut, Return, AnswersWell
<1>3. (\E x : FinishPut(p, x)) \/ StartWaiting(p)
  BY <1>1 DEF ResumePut, Put
<1>4. QED
  BY <1>2, <1>3 DEF StartWaiting

LEMMA GetAnswers ==
  ASSUME TypeOK, NEW c \in Consumers, c \notin TimedCallers,
         ResumeGet(c) \/ Get(c)
  PROVE  ret'[c] = ret[c] \/ AnswersWell(c)
<1>1. c \notin Producers /\ c \in DOMAIN ret /\ ~TimeUp(c)
  BY BufferAssumption DEF TypeOK, Threads, TimeUp
<1>2. ASSUME FinishGet(c) PROVE AnswersWell(c)
  <2>1. CASE Len(buffer) = 0
    BY <1>1, <1>2, <2>1, EmptySeq DEF FinishGet, AnswersWell, TypeOK
  <2>2. CASE Len(buffer) > 0
    <3>1. Head(buffer) \in Items /\ ret'[c] = Head(buffer)
      BY <1>1, <1>2, <2>2, HeadTailProperties, EmptySeq DEF FinishGet, Return, TypeOK
    <3>2. QED
      BY <1>1, <3>1, BufferAssumption DEF AnswersWell
  <2>3. QED
    BY <2>1, <2>2 DEF TypeOK
<1>3. FinishGet(c) \/ StartWaiting(c)
  BY <1>1 DEF ResumeGet, Get
<1>4. QED
  BY <1>2, <1>3 DEF StartWaiting

LEMMA StepAnswers ==
  ASSUME TypeOK, [Next]_vars, NEW t \in Threads \ TimedCallers
  PROVE  ret'[t] = ret[t] \/ AnswersWell(t)
<1>1. ASSUME NEW p \in Producers, ResumePut(p) \/ \E x \in Items : Put(p, x)
      PROVE  ret'[t] = ret[t] \/ AnswersWell(t)
  <2>1. (\E value : Return(p, value)) \/ StartWaiting(p)
    BY <1>1 DEF ResumePut, Put, FinishPut
  <2>2. QED
    BY <1>1, <2>1, OwnAnswerOnly, PutAnswers DEF Threads
<1>2. ASSUME NEW c \in Consumers, ResumeGet(c) \/ Get(c)
      PROVE  ret'[t] = ret[t] \/ AnswersWell(t)
  <2>1. (\E value : Return(c, value)) \/ StartWaiting(c)
    BY <1>2 DEF ResumeGet, Get, FinishGet
  <2>2. QED
    BY <1>2, <2>1, OwnAnswerOnly, GetAnswers DEF Threads
<1>3. ASSUME (\E s \in Threads : Expire(s)) \/ Close \/ UNCHANGED vars
      PROVE  ret' = ret
  BY <1>3 DEF Expire, Close, vars
<1>4. QED
  BY <1>1, <1>2, <1>3 DEF Next

(* An empty closed buffer stays one, so that no answer becomes wrong later. *)
LEMMA StepFailure ==
  ASSUME TypeOK, FailureMeansClosed, [Next]_vars
  PROVE  FailureMeansClosed'
<1>1. /\ closed => closed'
      /\ closed /\ buffer = << >> => buffer' = << >>
  BY StepEffect DEF Unmoved, Appended, HandedOut
<1>2. ASSUME NEW p \in Producers \ TimedCallers, ret'[p] = "False"
      PROVE  closed'
  BY <1>1, <1>2, StepAnswers DEF FailureMeansClosed, AnswersWell, Threads
<1>3. ASSUME NEW c \in Consumers \ TimedCallers, ret'[c] = None
      PROVE  closed' /\ buffer' = << >>
  BY <1>1, <1>3, StepAnswers DEF FailureMeansClosed, AnswersWell, Threads
<1>4. QED
  BY <1>2, <1>3 DEF FailureMeansClosed

(* An untimed put returns False, and an untimed get None, only after       *)
(* close(), and the latter only when nothing is left to get.               *)
THEOREM FailuresMeanClosed == Spec => []FailureMeansClosed
<1>1. Init => FailureMeansClosed
  BY BufferAssumption DEF Init, FailureMeansClosed, Threads
<1>2. TypeOK /\ FailureMeansClosed /\ [Next]_vars => FailureMeansClosed'
  BY StepFailure
<1>3. QED
  BY <1>1, <1>2, TypeCorrect, PTL DEF Spec

=============================================================================
