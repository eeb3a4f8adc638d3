-------------------------- MODULE BarriersProofs ----------------------------
(***************************************************************************)
(* Proofs about the barrier, the latch and the phaser.  CyclicBarrier: for *)
(* any number of threads and parties, any choice of timeouts, any failing  *)
(* action and any number of resets.  CountDownLatch: for any threads and   *)
(* count.  Phaser: for any clients and founders.                           *)
(***************************************************************************)
EXTENDS MCBarriers, FiniteSetTheorems, TLAPS

-----------------------------------------------------------------------------
(* The barrier *)

(* The generations that are over. *)
Over == tripped \cup cut

(* Nobody is ahead of the barrier, only past generations are over, and an   *)
(* intact barrier still waits for somebody.                                 *)
Generations ==
  /\ \A t \in Threads : mine[t] <= generation
  /\ \A g \in Over : g < generation
  /\ ~broken => count < Parties

(* Whoever waits without having been notified sleeps; a thread that waits   *)
(* for an earlier generation will find that it is over.                     *)
Woken ==
  /\ ~broken => Waiting \subseteq asleep
  /\ \A t \in Threads :
       pc[t] = "waiting" /\ mine[t] # generation => mine[t] \in Over

(* The threads that have, or may still get, the index they were given.      *)
Took(t) == pc[t] = "waiting" \/ outcome[t] = "passed"

(* The indices of a generation are given away from the top.                 *)
Indices ==
  /\ ~broken => \A t \in Waiting : index[t] >= Parties - count
  /\ \A s, t \in Threads :
       s # t /\ mine[s] = mine[t] /\ Took(s) /\ Took(t) => index[s] # index[t]

IInv == /\ TypeOK /\ Generations /\ Woken /\ Indices
        /\ CountIsWaiting /\ SleepersBelong /\ PassedTogether

-----------------------------------------------------------------------------
LEMMA WaitingFinite == IsFiniteSet(Waiting) /\ Cardinality(Waiting) \in Nat
<1>1. IsFiniteSet(Waiting)
  BY BarrierAssumption, FS_Subset DEF Waiting
<1>2. QED
  BY <1>1, FS_CardinalityType

LEMMA InitInvariant == Init => IInv
<1> SUFFICES ASSUME Init PROVE IInv
  OBVIOUS
<1> USE BarrierAssumption DEF Init
<1>1. TypeOK
  <2>1. count \in 0 .. Parties /\ generation \in 0 .. MaxGeneration
    BY DEF TypeOK
  <2>2. /\ mine \in [Threads -> 0 .. MaxGeneration]
        /\ index \in [Threads -> 0 .. Parties - 1]
    BY DEF TypeOK
  <2>3. /\ pc \in [Threads -> {"outside", "waiting"}]
        /\ outcome \in [Threads -> Outcomes]
    BY DEF TypeOK, Outcomes
  <2>4. /\ asleep \subseteq Threads /\ expired \subseteq TimedThreads
        /\ tripped \subseteq 0 .. MaxGeneration
        /\ cut \subseteq 0 .. MaxGeneration
    BY DEF TypeOK
  <2>5. broken \in BOOLEAN
    BY Zenon DEF TypeOK
  <2>6. QED
    BY <2>1, <2>2, <2>3, <2>4, <2>5 DEF TypeOK
<1>2. Waiting = {}
  BY DEF Waiting
<1>3. CountIsWaiting
  BY <1>2, FS_EmptySet DEF CountIsWaiting
<1>4. Generations /\ Woken /\ Indices
  BY <1>2 DEF Generations, Woken, Indices, Over, Took
<1>5. SleepersBelong /\ PassedTogether
  BY DEF SleepersBelong, PassedTogether
<1>6. QED
  BY <1>1, <1>3, <1>4, <1>5 DEF IInv

-----------------------------------------------------------------------------
(* Each action preserves the inductive invariant. *)

LEMMA StepRefuse ==
  ASSUME IInv, NEW t \in Threads, Refuse(t)
  PROVE  IInv'
<1> USE DEF IInv, Refuse, Finish, history
<1>1. TypeOK'
  BY DEF TypeOK, Outcomes
<1>2. Generations' /\ Woken' /\ CountIsWaiting' /\ SleepersBelong'
  BY DEF TypeOK, Generations, Woken, CountIsWaiting, SleepersBelong, Waiting, Over
<1>3. \A s \in Threads : Took(s)' => Took(s)
  BY DEF TypeOK, Took
<1>4. Indices'
  BY <1>3 DEF Indices, Waiting, TypeOK
<1>5. PassedTogether'
  BY DEF PassedTogether, TypeOK
<1>6. QED
  BY <1>1, <1>2, <1>4, <1>5

(* The last party runs the barrier action, which succeeds ...               *)
LEMMA StepTrip ==
  ASSUME IInv, NEW t \in Threads, pc[t] = "outside", ~broken,
         generation < MaxGeneration,
         mine' = [mine EXCEPT ![t] = generation],
         index' = [index EXCEPT ![t] = 0],
         NextGeneration, Finish(t, "passed"), cut' = cut
  PROVE  IInv'
<1> USE BarrierAssumption DEF IInv, NextGeneration, Finish
<1>1. \A s \in Threads :
        /\ mine'[s] = IF s = t THEN generation ELSE mine[s]
        /\ index'[s] = IF s = t THEN 0 ELSE index[s]
        /\ pc'[s] = pc[s]
        /\ outcome'[s] = IF s = t THEN "passed" ELSE outcome[s]
  BY DEF TypeOK
<1>2. TypeOK'
  BY DEF TypeOK, Outcomes
<1>3. Generations'
  BY <1>1 DEF Generations, Over, TypeOK
<1>4. Waiting' = {}
  BY <1>1 DEF Waiting, Generations, TypeOK
<1>5. CountIsWaiting' /\ SleepersBelong'
  BY <1>4, FS_EmptySet DEF CountIsWaiting, SleepersBelong
<1>6. Woken'
  BY <1>1, <1>4 DEF Woken, Over, TypeOK
<1>7. PassedTogether'
  BY <1>1 DEF PassedTogether, TypeOK
<1>8. ASSUME NEW s \in Threads, s # t, mine[s] = generation, Took(s)
      PROVE  index[s] # 0
  <2>1. pc[s] = "waiting"
    BY <1>8 DEF Took, PassedTogether, Generations, Over, TypeOK
  <2>2. index[s] >= Parties - count
    BY <1>8, <2>1 DEF Indices, Waiting
  <2>3. QED
    BY <2>2 DEF TypeOK, Generations
<1>9. \A s \in Threads \ {t} : Took(s)' <=> Took(s)
  BY <1>1 DEF Took
<1>10. ASSUME NEW r \in Threads, NEW s \in Threads, r # s, mine'[r] = mine'[s],
              Took(r)', Took(s)'
       PROVE  index'[r] # index'[s]
  <2>1. CASE r = t
    BY <1>1, <1>8, <1>9, <1>10, <2>1
  <2>2. CASE s = t
    BY <1>1, <1>8, <1>9, <1>10, <2>2
  <2>3. CASE r # t /\ s # t
    BY <1>1, <1>9, <1>10, <2>3 DEF Indices
  <2>4. QED
    BY <2>1, <2>2, <2>3
<1>11. Indices'
  BY <1>4, <1>10 DEF Indices
<1>12. QED
  BY <1>2, <1>3, <1>5, <1>6, <1>7, <1>11

(* ... or raises.                                                           *)
LEMMA StepActionFails ==
  ASSUME IInv, NEW t \in Threads, pc[t] = "outside", ~broken,
         generation < MaxGeneration, count + 1 = Parties,
         mine' = [mine EXCEPT ![t] = generation],
         index' = [index EXCEPT ![t] = 0],
         count' = count + 1, broken', asleep' = {}, Finish(t, "failed"),
         broken' \in BOOLEAN, generation' = generation,
         tripped' = tripped, cut' = cut
  PROVE  IInv'
<1> USE BarrierAssumption DEF IInv, Finish, history
<1>1. \A s \in Threads :
        /\ mine'[s] = IF s = t THEN generation ELSE mine[s]
        /\ s # t => index'[s] = index[s]
        /\ pc'[s] = pc[s]
        /\ outcome'[s] = IF s = t THEN "failed" ELSE outcome[s]
  BY DEF TypeOK
<1>2. TypeOK'
  BY DEF TypeOK, Outcomes
<1>3. Generations'
  BY <1>1 DEF Generations, Over, TypeOK
<1>4. Woken'
  BY <1>1 DEF Woken, Over, TypeOK
<1>5. CountIsWaiting' /\ SleepersBelong'
  BY DEF CountIsWaiting, SleepersBelong
<1>6. PassedTogether'
  BY <1>1 DEF PassedTogether, TypeOK
<1>7. ~Took(t)' /\ \A s \in Threads \ {t} : Took(s)' <=> Took(s)
  BY <1>1 DEF Took
<1>8. Indices'
  BY <1>1, <1>7 DEF Indices
<1>9. QED
  BY <1>2, <1>3, <1>4, <1>5, <1>6, <1>8

LEMMA StepArriveLast ==
  ASSUME IInv, NEW t \in Threads, ArriveLast(t)
  PROVE  IInv'
<1> USE DEF ArriveLast
<1>1. CASE NextGeneration /\ index' = [index EXCEPT ![t] = 0] /\ Finish(t, "passed")
           /\ UNCHANGED cut
  BY <1>1, StepTrip
<1>2. CASE /\ count' = count + 1 /\ Break /\ index' = [index EXCEPT ![t] = 0]
           /\ Finish(t, "failed") /\ UNCHANGED <<generation, history>>
  <2>1. broken' /\ broken' \in BOOLEAN /\ asleep' = {}
    BY <1>2, Zenon DEF Break
  <2>2. generation' = generation /\ tripped' = tripped /\ cut' = cut
    BY <1>2 DEF history
  <2>3. QED
    BY <1>2, <2>1, <2>2, StepActionFails
<1>3. QED
  BY <1>1, <1>2

LEMMA StepArrive ==
  ASSUME IInv, NEW t \in Threads, Arrive(t)
  PROVE  IInv'
<1> USE BarrierAssumption DEF IInv, Arrive, history
<1>1. \A s \in Threads :
        /\ mine'[s] = IF s = t THEN generation ELSE mine[s]
        /\ index'[s] = IF s = t THEN Parties - count - 1 ELSE index[s]
        /\ pc'[s] = IF s = t THEN "waiting" ELSE pc[s]
  BY DEF TypeOK
<1>2. Waiting' = Waiting \cup {t} /\ t \notin Waiting
  BY <1>1 DEF Waiting
<1>3. count \in Nat /\ count + 1 < Parties
  BY DEF TypeOK, Generations
<1>4. TypeOK'
  BY <1>3 DEF TypeOK
<1>5. Generations'
  BY <1>1, <1>3 DEF Generations, Over, TypeOK
<1>6. CountIsWaiting'
  BY <1>2, WaitingFinite, FS_AddElement DEF CountIsWaiting
<1>7. SleepersBelong' /\ Woken'
  BY <1>1, <1>2 DEF SleepersBelong, Woken, Over
<1>8. PassedTogether'
  BY <1>1 DEF PassedTogether
<1>9. ASSUME NEW s \in Threads, s # t, mine[s] = generation, Took(s)
      PROVE  index[s] # Parties - count - 1
  <2>1. pc[s] = "waiting"
    BY <1>9 DEF Took, PassedTogether, Generations, Over, TypeOK
  <2>2. index[s] >= Parties - count /\ index[s] \in Int
    BY <1>9, <2>1 DEF Indices, Waiting, TypeOK
  <2>3. QED
    BY <2>2, <1>3
<1>10. \A s \in Threads \ {t} : Took(s)' <=> Took(s)
  BY <1>1 DEF Took
<1>11. ASSUME NEW r \in Threads, NEW s \in Threads, r # s, mine'[r] = mine'[s],
              Took(r)', Took(s)'
       PROVE  index'[r] # index'[s]
  <2>1. CASE r = t
    BY <1>1, <1>9, <1>10, <1>11, <2>1
  <2>2. CASE s = t
    BY <1>1, <1>9, <1>10, <1>11, <2>2
  <2>3. CASE r # t /\ s # t
    BY <1>1, <1>10, <1>11, <2>3 DEF Indices
  <2>4. QED
    BY <2>1, <2>2, <2>3
<1>12. \A s \in Waiting' : index'[s] >= Parties - count'
  <2>1. ASSUME NEW s \in Waiting, s # t PROVE index'[s] >= Parties - count'
    <3>1. index[s] >= Parties - count /\ index[s] \in Int
      BY <2>1 DEF Indices, Waiting, TypeOK
    <3>2. QED
      BY <1>1, <1>3, <2>1, <3>1 DEF Waiting
  <2>2. QED
    BY <1>1, <1>2, <1>3, <2>1
<1>13. Indices'
  BY <1>11, <1>12 DEF Indices
<1>14. QED
  BY <1>4, <1>5, <1>6, <1>7, <1>8, <1>13

LEMMA StepResume ==
  ASSUME IInv, NEW t \in Threads, Resume(t)
  PROVE  IInv'
<1> USE DEF IInv, Resume, Finish, history
<1>1. TypeOK'
  BY DEF TypeOK, Outcomes
<1>2. ~broken => mine[t] \in Over
  BY DEF Woken, Waiting
<1>3. ~broken => Waiting' = Waiting
  BY DEF Woken, Waiting, TypeOK
<1>4. CountIsWaiting' /\ SleepersBelong'
  BY <1>3 DEF CountIsWaiting, SleepersBelong
<1>5. Generations' /\ Woken'
  BY <1>3 DEF Generations, Woken, Over, TypeOK
<1>6. PassedTogether'
  BY <1>2 DEF PassedTogether, Over, TypeOK
<1>7. \A s \in Threads : Took(s)' => Took(s)
  BY DEF TypeOK, Took
<1>8. Indices'
  BY <1>3, <1>7 DEF Indices, TypeOK
<1>9. QED
  BY <1>1, <1>4, <1>5, <1>6, <1>8

LEMMA StepTimeOut ==
  ASSUME IInv, NEW t \in Threads, TimeOut(t)
  PROVE  IInv'
<1> USE DEF IInv, TimeOut, Break, Finish, history
<1>1. TypeOK'
  BY DEF TypeOK, Outcomes
<1>2. CountIsWaiting' /\ SleepersBelong'
  BY DEF CountIsWaiting, SleepersBelong
<1>3. Generations' /\ Woken'
  BY DEF Generations, Woken, Over, TypeOK
<1>4. PassedTogether'
  BY DEF PassedTogether, TypeOK
<1>5. \A s \in Threads : Took(s)' => Took(s)
  BY DEF TypeOK, Took
<1>6. Indices'
  BY <1>5 DEF Indices
<1>7. QED
  BY <1>1, <1>2, <1>3, <1>4, <1>6

LEMMA StepReset ==
  ASSUME IInv, Reset
  PROVE  IInv'
<1> USE BarrierAssumption DEF IInv, Reset
<1>1. TypeOK'
  <2>1. count' \in 0 .. Parties /\ generation' \in 0 .. MaxGeneration
    BY DEF TypeOK
  <2>2. /\ mine' \in [Threads -> 0 .. MaxGeneration]
        /\ index' \in [Threads -> 0 .. Parties - 1]
    BY DEF TypeOK
  <2>3. /\ pc' \in [Threads -> {"outside", "waiting"}]
        /\ outcome' \in [Threads -> Outcomes]
    BY DEF TypeOK, Outcomes
  <2>4. /\ asleep' \subseteq Threads /\ expired' \subseteq TimedThreads
        /\ tripped' \subseteq 0 .. MaxGeneration
        /\ cut' \subseteq 0 .. MaxGeneration
    BY DEF TypeOK
  <2>5. broken' \in BOOLEAN
    BY Zenon DEF TypeOK
  <2>6. QED
    BY <2>1, <2>2, <2>3, <2>4, <2>5 DEF TypeOK
<1>2. Generations'
  BY DEF Generations, Over, TypeOK
<1>3. Waiting' = {}
  BY DEF Generations, Waiting, TypeOK
<1>4. asleep' = {}
  <2>1. CASE count > 0
    BY <2>1
  <2>2. CASE count = 0
    <3>1. ~broken => Waiting = {}
      BY <2>2, WaitingFinite, FS_EmptySet DEF CountIsWaiting
    <3>2. QED
      BY <2>2, <3>1 DEF SleepersBelong
  <2>3. QED
    BY <2>1, <2>2 DEF TypeOK
<1>5. CountIsWaiting' /\ SleepersBelong'
  BY <1>3, <1>4, FS_EmptySet DEF CountIsWaiting, SleepersBelong
<1>6. Woken'
  BY <1>3 DEF Woken, Over, TypeOK
<1>7. PassedTogether'
  BY DEF PassedTogether
<1>8. Indices'
  BY <1>3 DEF Indices, Took
<1>9. QED
  BY <1>1, <1>2, <1>5, <1>6, <1>7, <1>8

LEMMA StepExpire ==
  ASSUME IInv, NEW t \in Threads, Expire(t)
  PROVE  IInv'
BY DEF IInv, Expire, history, TypeOK, Generations, Woken, Indices, Took, Over,
       Waiting, CountIsWaiting, SleepersBelong, PassedTogether

LEMMA StepInvariant == IInv /\ [Next]_vars => IInv'
<1> SUFFICES ASSUME IInv, [Next]_vars PROVE IInv'
  OBVIOUS
<1>1. ASSUME NEW t \in Threads, Refuse(t) PROVE IInv'
  BY <1>1, StepRefuse
<1>2. ASSUME NEW t \in Threads, ArriveLast(t) PROVE IInv'
  BY <1>2, StepArriveLast
<1>3. ASSUME NEW t \in Threads, Arrive(t) PROVE IInv'
  BY <1>3, StepArrive
<1>4. ASSUME NEW t \in Threads, Resume(t) PROVE IInv'
  BY <1>4, StepResume
<1>5. ASSUME NEW t \in Threads, TimeOut(t) PROVE IInv'
  BY <1>5, StepTimeOut
<1>6. ASSUME NEW t \in Threads, Expire(t) PROVE IInv'
  BY <1>6, StepExpire
<1>7. CASE Reset
  BY <1>7, StepReset
<1>8. CASE UNCHANGED vars
  BY <1>8 DEF vars, history, IInv, TypeOK, Generations, Woken, Indices, Took,
     Over, Waiting, CountIsWaiting, SleepersBelong, PassedTogether
<1>9. QED
  BY <1>1, <1>2, <1>3, <1>4, <1>5, <1>6, <1>7, <1>8 DEF Next

LEMMA Invariance == Spec => []IInv
BY InitInvariant, StepInvariant, PTL DEF Spec

-----------------------------------------------------------------------------
(* Every variable of the barrier keeps its type; the count of CyclicBarrier *)
(* never exceeds its parties.                                               *)
THEOREM TypeCorrect == Spec => []TypeOK
<1>1. IInv => TypeOK
  BY DEF IInv
<1>2. QED
  BY <1>1, Invariance, PTL

(* The count by which an intact barrier decides is the number of threads    *)
(* that wait in the generation that runs.                                   *)
THEOREM CountIsRight == Spec => []CountIsWaiting
<1>1. IInv => CountIsWaiting
  BY DEF IInv
<1>2. QED
  BY <1>1, Invariance, PTL

(* Nobody sleeps on in a barrier that tripped, broke or was reset.          *)
THEOREM NoSleeperLeft == Spec => []SleepersBelong
<1>1. IInv => SleepersBelong
  BY DEF IInv
<1>2. QED
  BY <1>1, Invariance, PTL

(* wait() returns without an exception only in a generation whose parties   *)
(* all arrived, or that reset() ended.                                      *)
THEOREM NobodyPassesAlone == Spec => []PassedTogether
<1>1. IInv => PassedTogether
  BY DEF IInv
<1>2. QED
  BY <1>1, Invariance, PTL

(* The arrival index that wait() returns is unique in its generation.       *)
THEOREM UniqueIndex == Spec => []ArrivalIndex
<1>1. IInv => ArrivalIndex
  BY DEF IInv, Indices, Took, ArrivalIndex
<1>2. QED
  BY <1>1, Invariance, PTL

-----------------------------------------------------------------------------
(* The latch.  Who waits sleeps until the count is zero.                    *)

LatchInv ==
  /\ latchCount \in Nat
  /\ DOMAIN latchPc = Waiters /\ DOMAIN latchResult = Waiters
  /\ \A w \in Waiters : latchPc[w] = "waiting" /\ w \notin latchAsleep => latchCount = 0
  /\ Latch!LatchHolds

LEMMA LatchStart == Latch!Init => LatchInv
BY ClientsAssumption DEF Latch!Init, LatchInv, Latch!LatchHolds

LEMMA LatchStep ==
  ASSUME LatchInv, [Latch!Next]_Latch!latchVars PROVE LatchInv'
<1>1. ASSUME NEW w \in Waiters, Latch!AwaitLatch(w) PROVE LatchInv'
  BY <1>1 DEF LatchInv, Latch!AwaitLatch, Latch!Return, Latch!LatchHolds
<1>2. ASSUME NEW w \in Waiters, Latch!Resume(w) PROVE LatchInv'
  BY <1>2 DEF LatchInv, Latch!Resume, Latch!Return, Latch!LatchHolds
<1>3. ASSUME NEW w \in Waiters, Latch!TimeOut(w) PROVE LatchInv'
  BY <1>3 DEF LatchInv, Latch!TimeOut, Latch!Return, Latch!LatchHolds
<1>4. ASSUME NEW w \in Waiters, Latch!Expire(w) PROVE LatchInv'
  BY <1>4 DEF LatchInv, Latch!Expire, Latch!LatchHolds
<1>5. CASE Latch!CountDown
  BY <1>5 DEF LatchInv, Latch!CountDown, Latch!LatchHolds
<1>6. CASE UNCHANGED Latch!latchVars
  BY <1>6 DEF LatchInv, Latch!latchVars, Latch!LatchHolds
<1>7. QED
  BY <1>1, <1>2, <1>3, <1>4, <1>5, <1>6 DEF Latch!Next

-----------------------------------------------------------------------------
(* The phaser.  Until a party leaves, the counts are those of the clients,  *)
(* so that a party that has not arrived in this phase finds room.           *)

HaveArrived == {c \in members : arrivedIn[c] = phase}

PhaserTypes ==
  /\ phase \in Nat /\ parties \in Int /\ arrived \in Int
  /\ members \subseteq Clients
  /\ arrivedIn \in [Clients -> Int]
  /\ \A c \in Clients : arrivedIn[c] <= phase

PhaserInv ==
  /\ PhaserTypes
  /\ ~deregistered => /\ parties = Cardinality(members)
                      /\ arrived = Cardinality(HaveArrived)
                      /\ refused = {}
                      /\ \A c \in Clients \ members : arrivedIn[c] = -1

LEMMA PhaserCardinality == \A S : Phases!Cardinality(S) = Cardinality(S)
BY Zenon DEF Phases!Cardinality, Cardinality

LEMMA PartiesFinite ==
  ASSUME PhaserTypes
  PROVE  /\ IsFiniteSet(members) /\ IsFiniteSet(HaveArrived)
         /\ Cardinality(members) \in Nat /\ Cardinality(HaveArrived) \in Nat
<1>1. IsFiniteSet(members) /\ IsFiniteSet(HaveArrived)
  BY ClientsAssumption, FS_Subset DEF PhaserTypes, HaveArrived
<1>2. QED
  BY <1>1, FS_CardinalityType

(* A party that has not arrived is one more than those that have. *)
LEMMA RoomToArrive ==
  ASSUME PhaserInv, ~deregistered, NEW c \in members, arrivedIn[c] # phase
  PROVE  /\ arrived < parties
         /\ Cardinality(HaveArrived \cup {c}) = arrived + 1
         /\ arrived + 1 = parties => HaveArrived \cup {c} = members
<1>1. /\ parties = Cardinality(members) /\ arrived = Cardinality(HaveArrived)
      /\ IsFiniteSet(members) /\ IsFiniteSet(HaveArrived)
      /\ Cardinality(members) \in Nat /\ Cardinality(HaveArrived) \in Nat
  BY PartiesFinite DEF PhaserInv
<1>2. c \notin HaveArrived /\ HaveArrived \cup {c} \subseteq members
  BY DEF HaveArrived
<1>3. Cardinality(HaveArrived \cup {c}) = arrived + 1
  BY <1>1, <1>2, FS_AddElement
<1>4. Cardinality(HaveArrived \cup {c}) <= Cardinality(members)
  BY <1>1, <1>2, FS_Subset
<1>5. Cardinality(HaveArrived \cup {c}) = Cardinality(members) => HaveArrived \cup {c} = members
  BY <1>1, <1>2, FS_Subset
<1>6. QED
  BY <1>1, <1>3, <1>4, <1>5

LEMMA PhaserStart == Phases!Init => PhaserInv
<1> SUFFICES ASSUME Phases!Init PROVE PhaserInv
  OBVIOUS
<1>1. PhaserTypes
  <2>1. Cardinality(Founders) \in Int
    BY ClientsAssumption, FS_Subset, FS_CardinalityType
  <2>2. phase = 0 /\ arrived = 0 /\ parties \in Int /\ members = Founders
        /\ deregistered = FALSE
    BY <2>1, PhaserCardinality DEF Phases!Init
  <2>3. arrivedIn = [c \in Clients |-> -1] /\ -1 \in Int
    BY DEF Phases!Init
  <2>4. \A c \in Clients : arrivedIn[c] = -1 /\ -1 <= phase
    BY <2>2, <2>3
  <2>5. phase \in Nat /\ arrived \in Int
    BY <2>2
  <2>6. arrivedIn \in [Clients -> Int] /\ \A c \in Clients : arrivedIn[c] <= phase
    BY <2>3, <2>4
  <2>7. QED
    BY <2>2, <2>5, <2>6, ClientsAssumption DEF PhaserTypes
<1>2. HaveArrived = {}
  BY <1>1 DEF Phases!Init, HaveArrived, PhaserTypes
<1>3. Cardinality(HaveArrived) = 0
  BY <1>2, FS_EmptySet, Zenon
<1>4. parties = Cardinality(members)
  BY PhaserCardinality DEF Phases!Init
<1>5. QED
  BY <1>1, <1>3, <1>4 DEF PhaserInv, Phases!Init

Ends == phase' # phase => deregistered' \/ Phases!AllArrived

LEMMA StepArrives ==
  ASSUME PhaserInv, NEW c \in Clients, Phases!Arrive(c) \/ Phases!ArriveAndAwaitAdvance(c)
  PROVE  PhaserInv' /\ Ends
<1>1. /\ c \in members /\ arrivedIn[c] # phase
      /\ arrivedIn' = [arrivedIn EXCEPT ![c] = phase]
      /\ UNCHANGED <<parties, members, refused, deregistered>>
      /\ \/ arrived + 1 = parties /\ phase' = phase + 1 /\ arrived' = 0
         \/ arrived + 1 # parties /\ phase' = phase /\ arrived' = arrived + 1
  BY DEF Phases!Arrive, Phases!ArriveAndAwaitAdvance, Phases!Arriving, Phases!AdvancePhase
<1>2. PhaserTypes
  BY DEF PhaserInv
<1>3. PhaserTypes'
  BY <1>1, <1>2 DEF PhaserTypes
<1>4. \A d \in members : arrivedIn'[d] = IF d = c THEN phase ELSE arrivedIn[d]
  BY <1>1, <1>2 DEF PhaserTypes
<1>5. ASSUME ~deregistered PROVE arrived' = Cardinality(HaveArrived')
  <2>1. CASE phase' = phase
    <3>1. HaveArrived' = HaveArrived \cup {c}
      BY <1>1, <1>4, <2>1 DEF HaveArrived
    <3>2. Cardinality(HaveArrived') = Cardinality(HaveArrived \cup {c})
      BY <3>1, Zenon
    <3>3. Cardinality(HaveArrived \cup {c}) = arrived + 1
      BY <1>1, <1>5, RoomToArrive
    <3>4. arrived' = arrived + 1
      BY <1>1, <1>2, <2>1 DEF PhaserTypes
    <3>5. QED
      BY <3>2, <3>3, <3>4
  <2>2. CASE phase' # phase
    <3>1. \A d \in members : arrivedIn'[d] # phase + 1
      BY <1>1, <1>2, <1>4 DEF PhaserTypes
    <3>2. HaveArrived' = {} /\ arrived' = 0
      BY <1>1, <2>2, <3>1 DEF HaveArrived
    <3>3. Cardinality(HaveArrived') = 0
      BY <3>2, FS_EmptySet, Zenon
    <3>4. QED
      BY <3>2, <3>3
  <2>3. QED
    BY <2>1, <2>2
<1>6. Ends
  <2>1. ASSUME phase' # phase, ~deregistered PROVE Phases!AllArrived
    <3>1. HaveArrived \cup {c} = members
      BY <1>1, <2>1, RoomToArrive
    <3>2. QED
      BY <1>1, <1>4, <3>1 DEF Phases!AllArrived, HaveArrived
  <2>2. QED
    BY <1>1, <2>1 DEF Ends
<1>7. PhaserInv'
  <2>1. ~deregistered => /\ parties' = Cardinality(members') /\ refused' = {}
                         /\ \A d \in Clients \ members : arrivedIn'[d] = -1
    BY <1>1 DEF PhaserInv
  <2>2. QED
    BY <1>1, <1>3, <1>5, <2>1 DEF PhaserInv
<1>8. QED
  BY <1>6, <1>7

LEMMA StepRegister ==
  ASSUME PhaserInv, NEW c \in Clients, Phases!Register(c)
  PROVE  PhaserInv' /\ Ends
<1>1. /\ c \notin members /\ members' = members \cup {c} /\ parties' = parties + 1
      /\ UNCHANGED <<phase, arrived, arrivedIn, refused, deregistered>>
  BY DEF Phases!Register
<1>2. PhaserTypes
  BY DEF PhaserInv
<1>3. PhaserTypes'
  BY <1>1, <1>2 DEF PhaserTypes
<1>4. Cardinality(members \cup {c}) = Cardinality(members) + 1
  BY <1>1, <1>2, PartiesFinite, FS_AddElement
<1>5. Cardinality(members') = Cardinality(members) + 1
  BY <1>1, <1>4, Zenon
<1>6. ~deregistered => HaveArrived' = HaveArrived
  BY <1>1, <1>2 DEF PhaserInv, PhaserTypes, HaveArrived
<1>7. ~deregistered => Cardinality(HaveArrived') = Cardinality(HaveArrived)
  BY <1>6, Zenon
<1>8. QED
  BY <1>1, <1>2, <1>3, <1>5, <1>7 DEF PhaserInv, Ends

(* Whoever arrives once per phase is never told "Too many arrivals", before *)
(* somebody leaves. *)
LEMMA StepRefuses ==
  ASSUME PhaserInv, NEW c \in Clients, Phases!Refuse(c)
  PROVE  PhaserInv' /\ Ends
<1>1. /\ c \in members /\ arrivedIn[c] # phase /\ arrived >= parties
      /\ UNCHANGED <<phase, parties, arrived, members, arrivedIn, deregistered>>
  BY DEF Phases!Refuse, Phases!Arriving
<1>2. PhaserTypes
  BY DEF PhaserInv
<1>3. ASSUME ~deregistered PROVE FALSE
  <2>1. arrived < parties
    BY <1>1, <1>3, RoomToArrive
  <2>2. QED
    BY <1>1, <1>2, <2>1 DEF PhaserTypes
<1>4. PhaserTypes'
  BY <1>1, <1>2 DEF PhaserTypes
<1>5. QED
  BY <1>1, <1>3, <1>4 DEF PhaserInv, Ends

LEMMA StepLeaves ==
  ASSUME PhaserInv, NEW c \in Clients, Phases!ArriveAndDeregister(c)
  PROVE  PhaserInv' /\ Ends
<1>1. /\ deregistered' = TRUE /\ members' = members \ {c} /\ parties' = parties - 1
      /\ arrivedIn' = [arrivedIn EXCEPT ![c] = phase]
      /\ \/ phase' = phase + 1 /\ arrived' = 0
         \/ phase' = phase /\ arrived' = arrived + 1
  BY DEF Phases!ArriveAndDeregister, Phases!AdvancePhase
<1>2. PhaserTypes
  BY DEF PhaserInv
<1>3. PhaserTypes'
  BY <1>1, <1>2 DEF PhaserTypes
<1>4. QED
  BY <1>1, <1>3 DEF PhaserInv, Ends

LEMMA PhaserStep ==
  ASSUME PhaserInv, [Phases!Next]_Phases!phaserVars PROVE PhaserInv' /\ Ends
<1>1. ASSUME UNCHANGED <<phase, parties, arrived, members, arrivedIn, refused, deregistered>>
      PROVE  PhaserInv' /\ Ends
  <2>1. HaveArrived' = HaveArrived
    BY <1>1 DEF HaveArrived
  <2>2. Cardinality(HaveArrived') = Cardinality(HaveArrived)
    BY <2>1, Zenon
  <2>3. QED
    BY <1>1, <2>2 DEF PhaserInv, PhaserTypes, Ends
<1>2. ASSUME NEW c \in Clients,
             Phases!AwaitAdvance(c) \/ Phases!Return(c) \/ Phases!Expire(c)
      PROVE  PhaserInv' /\ Ends
  BY <1>1, <1>2 DEF Phases!AwaitAdvance, Phases!Return, Phases!Expire
<1>3. CASE Phases!ForceTermination \/ UNCHANGED Phases!phaserVars
  BY <1>1, <1>3 DEF Phases!ForceTermination, Phases!phaserVars
<1>4. QED
  BY <1>2, <1>3, StepRegister, StepRefuses, StepArrives, StepLeaves DEF Phases!Next

-----------------------------------------------------------------------------
(* Nobody passes a closed latch or sleeps before an open one; and until a   *)
(* party leaves, the phaser's counts are right, nobody who arrives once per *)
(* phase is refused, and a phase ends only when every party has arrived.    *)
THEOREM CountsRight == MCSpec => CountsDecide
<1>1. MCInit => LatchInv /\ PhaserInv
  BY LatchStart, PhaserStart DEF MCInit
<1>2. LatchInv /\ PhaserInv /\ [MCNext]_allVars =>
        LatchInv' /\ PhaserInv' /\ [phase' # phase => deregistered' \/ Phases!AllArrived]_Phases!phaserVars
  <2> SUFFICES ASSUME LatchInv, PhaserInv, [MCNext]_allVars
               PROVE  LatchInv' /\ PhaserInv' /\ Ends
    BY DEF Ends
  <2>1. [Latch!Next]_Latch!latchVars
    BY DEF MCNext, allVars, OfBarrier, OfLatch, OfPhaser, ofLatch, Latch!latchVars
  <2>2. [Phases!Next]_Phases!phaserVars
    BY DEF MCNext, allVars, OfBarrier, OfLatch, OfPhaser, ofPhaser, Phases!phaserVars
  <2>3. QED
    BY <2>1, <2>2, LatchStep, PhaserStep
<1>3. LatchInv /\ PhaserInv => Latch!LatchHolds /\ Phases!PhaserCounts
  <2> SUFFICES ASSUME LatchInv, PhaserInv PROVE Latch!LatchHolds /\ Phases!PhaserCounts
    OBVIOUS
  <2>1. \A S : Phases!Cardinality(S) = Cardinality(S)
    BY PhaserCardinality
  <2>2. Phases!PhaserCounts
    BY <2>1 DEF PhaserInv, HaveArrived, Phases!PhaserCounts
  <2>3. QED
    BY <2>2 DEF LatchInv
<1>4. QED
  BY <1>1, <1>2, <1>3, PTL DEF MCSpec, CountsDecide, Phases!AdvanceUntilDeregistration

=============================================================================
