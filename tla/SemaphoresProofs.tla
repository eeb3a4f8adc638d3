--------------------------- MODULE SemaphoresProofs --------------------------
(***************************************************************************)
(* Proofs about the semaphores and the resource pool: for any finite set   *)
(* of threads with any timeouts and priorities, any number of permits and  *)
(* any set of resources.  First the pool, whose semaphore is the counting  *)
(* one, then the fair, the priority and the asyncio semaphore, last the    *)
(* module as a whole.                                                      *)
(***************************************************************************)
EXTENDS MCSemaphores, FiniteSetTheorems, TLAPS

(* The threads that hold a permit, and those that hold a resource. *)
Holders == {t \in Threads : held[t] = 1}
Users == {t \in Threads : stage[t] = "using"}

(* What a thread has follows from where it is. *)
Stages ==
  \A t \in Threads :
    /\ held[t] = IF stage[t] \in {"taking", "using", "returning"} THEN 1 ELSE 0
    /\ wants[t] = IF stage[t] = "asking" THEN 1 ELSE 0
    /\ stage[t] = "using" => hand[t] \in Resources

(* The two counts, each by itself. *)
Counts ==
  /\ permits = MaxPermits - Cardinality(Holders)
  /\ Len(shelf) = MaxPermits - Cardinality(Users)

IInv == TypeOK /\ Stages /\ Counts /\ NoResourceShared

-----------------------------------------------------------------------------
LEMMA SetsFinite ==
  /\ IsFiniteSet(Holders) /\ Cardinality(Holders) \in Nat
  /\ IsFiniteSet(Users) /\ Cardinality(Users) \in Nat
<1>1. IsFiniteSet(Holders) /\ IsFiniteSet(Users)
  BY ClientsAssumption, FS_Subset DEF Holders, Users
<1>2. QED
  BY <1>1, FS_CardinalityType

(* A permit taken and not yet exchanged for a resource means that one is    *)
(* left: the users are a part of the other holders.                         *)
LEMMA Covered ==
  ASSUME IInv, NEW t \in Threads, stage[t] = "taking"
  PROVE  shelf # <<>>
<1>1. Users \subseteq Holders \ {t} /\ t \in Holders
  BY DEF IInv, Stages, Users, Holders
<1>2. /\ IsFiniteSet(Holders \ {t})
      /\ Cardinality(Holders \ {t}) = Cardinality(Holders) - 1
  BY <1>1, SetsFinite, FS_RemoveElement
<1>3. Cardinality(Users) <= Cardinality(Holders) - 1
  BY <1>1, <1>2, FS_Subset
<1>4. permits >= 0 /\ permits \in Int /\ MaxPermits \in Nat
  BY ClientsAssumption DEF IInv, TypeOK
<1>5. Len(shelf) >= 1
  BY <1>3, <1>4, SetsFinite DEF IInv, Counts
<1>6. QED
  BY <1>5

LEMMA InitInvariant == PoolInit => IInv
<1> SUFFICES ASSUME PoolInit PROVE IInv
  OBVIOUS
<1> USE ClientsAssumption, PoolAssumption DEF PoolInit, Init
<1>1. shelf \in Seq(Resources) /\ Len(shelf) = MaxPermits
  OBVIOUS
<1>2. TypeOK
  BY <1>1 DEF TypeOK
<1>3. Holders = {} /\ Users = {}
  BY DEF Holders, Users
<1>4. Counts
  BY <1>1, <1>3, FS_EmptySet DEF Counts
<1>5. Stages
  BY DEF Stages
<1>6. NoResourceShared
  BY DEF NoResourceShared
<1>7. QED
  BY <1>2, <1>4, <1>5, <1>6 DEF IInv

-----------------------------------------------------------------------------
(* How the steps move the sets. *)

LEMMA TakePermit ==
  ASSUME IInv, NEW t \in Threads, held[t] = 0, Enough(1), Take(t, 1)
  PROVE  /\ permits' \in 0 .. MaxPermits
         /\ permits' = MaxPermits - Cardinality(Holders')
         /\ held' \in [Threads -> 0 .. MaxPermits]
         /\ \A s \in Threads : held'[s] = IF s = t THEN 1 ELSE held[s]
<1> USE ClientsAssumption DEF IInv, TypeOK, Take, Enough
<1>1. \A s \in Threads : held'[s] = IF s = t THEN 1 ELSE held[s]
  OBVIOUS
<1>2. Holders' = Holders \cup {t} /\ t \notin Holders
  BY <1>1 DEF Holders
<1>3. Cardinality(Holders') = Cardinality(Holders) + 1
  BY <1>2, SetsFinite, FS_AddElement
<1>4. permits' = MaxPermits - Cardinality(Holders')
  BY <1>3, SetsFinite DEF Counts
<1>5. permits' \in 0 .. MaxPermits /\ held' \in [Threads -> 0 .. MaxPermits]
  OBVIOUS
<1>6. QED
  BY <1>1, <1>4, <1>5

LEMMA ReleasePermit ==
  ASSUME IInv, NEW t \in Threads, held[t] = 1, Release(t, 1)
  PROVE  /\ permits' \in 0 .. MaxPermits
         /\ permits' = MaxPermits - Cardinality(Holders')
         /\ held' \in [Threads -> 0 .. MaxPermits]
         /\ \A s \in Threads : held'[s] = IF s = t THEN 0 ELSE held[s]
<1> USE ClientsAssumption DEF IInv, TypeOK, Release
<1>1. \A s \in Threads : held'[s] = IF s = t THEN 0 ELSE held[s]
  OBVIOUS
<1>2. Holders' = Holders \ {t} /\ t \in Holders
  BY <1>1 DEF Holders
<1>3. /\ Cardinality(Holders') = Cardinality(Holders) - 1
      /\ Cardinality(Holders') \in Nat
  BY <1>2, SetsFinite, FS_RemoveElement, FS_CardinalityType
<1>4. permits + 1 = MaxPermits - Cardinality(Holders')
  BY <1>3, SetsFinite DEF Counts
<1>5. permits' = permits + 1
  BY <1>3, <1>4 DEF Capped
<1>6. permits' \in 0 .. MaxPermits
  BY <1>3, <1>4, <1>5
<1>7. held' \in [Threads -> 0 .. MaxPermits]
  OBVIOUS
<1>8. QED
  BY <1>1, <1>4, <1>5, <1>6, <1>7

(* A step that moves neither resources nor users keeps what is said of them. *)
LEMMA ShelfUntouched ==
  ASSUME IInv, NEW t \in Threads, NEW where, where # "using", stage[t] # "using",
         GoTo(t, where), UNCHANGED <<shelf, hand>>
  PROVE  /\ Len(shelf)' = MaxPermits - Cardinality(Users)'
         /\ NoResourceShared'
<1>1. \A s \in Threads : stage'[s] = IF s = t THEN where ELSE stage[s]
  BY DEF IInv, TypeOK, GoTo
<1>2. Users' = Users
  BY <1>1 DEF Users
<1>3. QED
  BY <1>1, <1>2 DEF IInv, Counts, NoResourceShared

-----------------------------------------------------------------------------
(* Each action preserves the inductive invariant. *)

LEMMA StepAsk ==
  ASSUME IInv, NEW t \in Threads, Ask(t)
  PROVE  IInv'
<1> USE ClientsAssumption DEF IInv, Ask
<1>1. held[t] = 0 /\ wants[t] = 0
  BY DEF Stages
<1>2. \A s \in Threads :
        stage'[s] = IF s = t THEN (IF Enough(1) THEN "taking" ELSE "asking")
                             ELSE stage[s]
  BY DEF GoTo, TypeOK
<1>3. Len(shelf)' = MaxPermits - Cardinality(Users)' /\ NoResourceShared'
  BY ShelfUntouched
<1>4. CASE Enough(1)
  <2>1. Take(t, 1) /\ UNCHANGED <<wants, asleep, expired>>
    BY <1>4 DEF Acquire
  <2>2. Counts'
    BY <1>1, <1>3, <1>4, <2>1, TakePermit DEF Counts
  <2>3. TypeOK'
    BY <1>1, <1>4, <2>1, TakePermit DEF TypeOK, GoTo
  <2>4. Stages'
    BY <1>1, <1>2, <1>4, <2>1, TakePermit DEF Stages
  <2>5. QED
    BY <1>3, <2>2, <2>3, <2>4
<1>5. CASE ~Enough(1)
  <2>1. /\ wants' = [wants EXCEPT ![t] = 1] /\ asleep' = asleep \cup {t}
        /\ UNCHANGED <<permits, held, expired>>
    BY <1>5 DEF Acquire
  <2>2. Counts'
    BY <1>3, <2>1 DEF Counts, Holders
  <2>3. TypeOK'
    BY <1>5, <2>1 DEF TypeOK, GoTo
  <2>4. Stages'
    BY <1>1, <1>2, <1>5, <2>1 DEF Stages, TypeOK
  <2>5. QED
    BY <1>3, <2>2, <2>3, <2>4
<1>6. QED
  BY <1>4, <1>5

LEMMA StepAskAgain ==
  ASSUME IInv, NEW t \in Threads, AskAgain(t)
  PROVE  IInv'
<1> USE ClientsAssumption DEF IInv, AskAgain
<1>1. held[t] = 0 /\ wants[t] = 1
  BY DEF Stages
<1>2. \A s \in Threads :
        stage'[s] = IF s = t THEN (IF Enough(1) THEN "taking" ELSE "asking")
                             ELSE stage[s]
  BY DEF GoTo, TypeOK
<1>3. Len(shelf)' = MaxPermits - Cardinality(Users)' /\ NoResourceShared'
  BY ShelfUntouched
<1>4. CASE Enough(1)
  <2>1. /\ Take(t, 1) /\ wants' = [wants EXCEPT ![t] = 0]
        /\ UNCHANGED <<asleep, expired>>
    BY <1>1, <1>4 DEF Resume
  <2>2. Counts'
    BY <1>1, <1>3, <1>4, <2>1, TakePermit DEF Counts
  <2>3. TypeOK'
    BY <1>1, <1>4, <2>1, TakePermit DEF TypeOK, GoTo
  <2>4. Stages'
    BY <1>1, <1>2, <1>4, <2>1, TakePermit DEF Stages, TypeOK
  <2>5. QED
    BY <1>3, <2>2, <2>3, <2>4
<1>5. CASE ~Enough(1)
  <2>1. asleep' = asleep \cup {t} /\ UNCHANGED <<permits, held, wants, expired>>
    BY <1>1, <1>5 DEF Resume
  <2>2. Counts'
    BY <1>3, <2>1 DEF Counts, Holders
  <2>3. TypeOK'
    BY <1>5, <2>1 DEF TypeOK, GoTo
  <2>4. Stages'
    BY <1>2, <1>5, <2>1 DEF Stages
  <2>5. QED
    BY <1>3, <2>2, <2>3, <2>4
<1>6. QED
  BY <1>4, <1>5

LEMMA StepAskInVain ==
  ASSUME IInv, NEW t \in Threads, AskInVain(t)
  PROVE  IInv'
<1> USE ClientsAssumption DEF IInv, AskInVain, TimeOut
<1>1. Len(shelf)' = MaxPermits - Cardinality(Users)' /\ NoResourceShared'
  BY ShelfUntouched
<1>2. Counts'
  BY <1>1 DEF Counts, Holders
<1>3. TypeOK'
  BY DEF TypeOK, GoTo
<1>4. Stages'
  BY DEF Stages, TypeOK, GoTo
<1>5. QED
  BY <1>1, <1>2, <1>3, <1>4

LEMMA StepTakeResource ==
  ASSUME IInv, NEW t \in Threads, TakeResource(t)
  PROVE  IInv'
<1> USE ClientsAssumption DEF IInv
<1>1. shelf # <<>>
  BY Covered DEF TakeResource
<1>2. /\ hand' = [hand EXCEPT ![t] = Head(shelf)] /\ shelf' = Tail(shelf)
      /\ GoTo(t, "using") /\ UNCHANGED vars /\ stage[t] = "taking"
  BY <1>1 DEF TakeResource
<1>3. /\ shelf \in Seq(Resources) /\ Len(shelf) >= 1
      /\ Head(shelf) \in Resources /\ Tail(shelf) \in Seq(Resources)
      /\ Len(Tail(shelf)) = Len(shelf) - 1
      /\ \A i \in 1 .. Len(shelf) - 1 : Tail(shelf)[i] = shelf[i + 1]
  BY <1>1 DEF TypeOK
<1>4. \A s \in Threads : /\ stage'[s] = IF s = t THEN "using" ELSE stage[s]
                         /\ hand'[s] = IF s = t THEN Head(shelf) ELSE hand[s]
  BY <1>2 DEF TypeOK, GoTo
<1>5. TypeOK'
  BY <1>2, <1>3 DEF TypeOK, GoTo, vars
<1>6. Stages'
  BY <1>2, <1>3, <1>4 DEF Stages, vars
<1>7. Users' = Users \cup {t} /\ t \notin Users
  BY <1>2, <1>4 DEF Users
<1>8. Cardinality(Users') = Cardinality(Users) + 1
  BY <1>7, SetsFinite, FS_AddElement
<1>9. Counts'
  BY <1>2, <1>3, <1>8, SetsFinite DEF Counts, Holders, vars
<1>10. /\ IsInjective(Tail(shelf)) /\ Range(Tail(shelf)) \subseteq Range(shelf)
       /\ Head(shelf) \in Range(shelf) /\ Head(shelf) \notin Range(Tail(shelf))
  BY <1>3 DEF NoResourceShared, IsInjective, Range
<1>11. NoResourceShared'
  BY <1>2, <1>3, <1>4, <1>10 DEF NoResourceShared
<1>12. QED
  BY <1>5, <1>6, <1>9, <1>11

LEMMA StepPutBack ==
  ASSUME IInv, NEW t \in Threads, PutBack(t)
  PROVE  IInv'
<1> USE ClientsAssumption DEF IInv, PutBack
<1>1. hand[t] \in Resources \ Range(shelf)
  BY DEF NoResourceShared
<1>2. /\ shelf \in Seq(Resources) /\ shelf' \in Seq(Resources)
      /\ Len(shelf') = Len(shelf) + 1 /\ shelf'[Len(shelf) + 1] = hand[t]
      /\ \A i \in 1 .. Len(shelf) : shelf'[i] = shelf[i]
  BY <1>1 DEF TypeOK
<1>3. \A s \in Threads :
        /\ stage'[s] = IF s = t THEN "returning" ELSE stage[s]
        /\ hand'[s] = IF s = t THEN NoResource ELSE hand[s]
  BY DEF TypeOK, GoTo
<1>4. TypeOK'
  BY <1>2 DEF TypeOK, GoTo, vars
<1>5. Stages'
  BY <1>3 DEF Stages, vars
<1>6. Users' = Users \ {t} /\ t \in Users
  BY <1>3 DEF Users
<1>7. Cardinality(Users') = Cardinality(Users) - 1
  BY <1>6, SetsFinite, FS_RemoveElement
<1>8. Counts'
  BY <1>2, <1>7, SetsFinite DEF Counts, Holders, vars
<1>9. IsInjective(shelf') /\ Range(shelf') = Range(shelf) \cup {hand[t]}
  BY <1>1, <1>2 DEF NoResourceShared, IsInjective, Range
<1>10. NoResourceShared'
  BY <1>3, <1>9 DEF NoResourceShared
<1>11. QED
  BY <1>4, <1>5, <1>8, <1>10

LEMMA StepGiveBack ==
  ASSUME IInv, NEW t \in Threads, GiveBack(t)
  PROVE  IInv'
<1> USE ClientsAssumption DEF IInv, GiveBack
<1>1. held[t] = 1
  BY DEF Stages
<1>2. Len(shelf)' = MaxPermits - Cardinality(Users)' /\ NoResourceShared'
  BY ShelfUntouched
<1>3. Counts'
  BY <1>1, <1>2, ReleasePermit DEF Counts
<1>4. asleep' = {} /\ UNCHANGED <<wants, expired>>
  BY DEF Release
<1>5. TypeOK'
  BY <1>1, <1>4, ReleasePermit DEF TypeOK, GoTo
<1>6. Stages'
  BY <1>1, <1>4, ReleasePermit DEF Stages, GoTo, TypeOK
<1>7. QED
  BY <1>2, <1>3, <1>5, <1>6

LEMMA StepExpire ==
  ASSUME IInv, NEW t \in Threads, PoolExpire(t)
  PROVE  IInv'
BY DEF IInv, PoolExpire, Expire, TypeOK, Stages, Counts, Holders, Users,
       NoResourceShared

LEMMA StepInvariant == IInv /\ [PoolNext]_poolVars => IInv'
<1> SUFFICES ASSUME IInv, [PoolNext]_poolVars PROVE IInv'
  OBVIOUS
<1>1. ASSUME NEW t \in Threads, Ask(t) PROVE IInv'
  BY <1>1, StepAsk
<1>2. ASSUME NEW t \in Threads, AskAgain(t) PROVE IInv'
  BY <1>2, StepAskAgain
<1>3. ASSUME NEW t \in Threads, AskInVain(t) PROVE IInv'
  BY <1>3, StepAskInVain
<1>4. ASSUME NEW t \in Threads, TakeResource(t) PROVE IInv'
  BY <1>4, StepTakeResource
<1>5. ASSUME NEW t \in Threads, PutBack(t) PROVE IInv'
  BY <1>5, StepPutBack
<1>6. ASSUME NEW t \in Threads, GiveBack(t) PROVE IInv'
  BY <1>6, StepGiveBack
<1>7. ASSUME NEW t \in Threads, PoolExpire(t) PROVE IInv'
  BY <1>7, StepExpire
<1>8. CASE UNCHANGED poolVars
  BY <1>8 DEF poolVars, IInv, TypeOK, Stages, Counts, Holders, Users,
     NoResourceShared
<1>9. QED
  BY <1>1, <1>2, <1>3, <1>4, <1>5, <1>6, <1>7, <1>8 DEF PoolNext

LEMMA Invariance == PoolSpec => []IInv
BY InitInvariant, StepInvariant, PTL DEF PoolSpec

-----------------------------------------------------------------------------
(* Every variable of the pool and of its semaphore keeps its type.          *)
THEOREM TypeCorrect == PoolSpec => []TypeOK
<1>1. IInv => TypeOK
  BY DEF IInv
<1>2. QED
  BY <1>1, Invariance, PTL

(* The branch of acquire_resource that "shouldn't happen" does not happen.  *)
THEOREM PermitMeansResource == PoolSpec => []ResourceThere
<1>1. IInv => ResourceThere
  BY Covered DEF ResourceThere
<1>2. QED
  BY <1>1, Invariance, PTL

(* Two threads never have the same resource, and none is duplicated.        *)
THEOREM Exclusive == PoolSpec => []NoResourceShared
<1>1. IInv => NoResourceShared
  BY DEF IInv
<1>2. QED
  BY <1>1, Invariance, PTL

-----------------------------------------------------------------------------
(* Sums, permit by permit. *)

Permits(S, f) == {p \in S \X (1 .. MaxPermits) : p[2] <= f[p[1]]}

LEMMA TotalIs ==
  ASSUME NEW S \in SUBSET Threads, NEW f
  PROVE  /\ IsFiniteSet(Permits(S, f))
         /\ G!Total(S, f) = Cardinality(Permits(S, f))
         /\ G!Total(S, f) \in Nat
<1>1. \A R : G!Cardinality(R) = Cardinality(R)
  BY Zenon DEF Cardinality, G!Cardinality
<1>2. IsFiniteSet(S) /\ IsFiniteSet(1 .. MaxPermits)
  BY ClientsAssumption, FS_Subset, FS_Interval
<1>3. IsFiniteSet(S \X (1 .. MaxPermits))
  BY <1>2, FS_Product
<1>4. Permits(S, f) \subseteq S \X (1 .. MaxPermits)
  BY DEF Permits
<1>5. IsFiniteSet(Permits(S, f)) /\ Cardinality(Permits(S, f)) \in Nat
  BY <1>3, <1>4, FS_Subset, FS_CardinalityType
<1>6. G!Total(S, f) = Cardinality(Permits(S, f))
  BY <1>1 DEF G!Total, Permits
<1>7. QED
  BY <1>5, <1>6

LEMMA TotalOfNone == ASSUME NEW f PROVE G!Total({}, f) = 0
<1>1. Permits({}, f) = {}
  BY DEF Permits
<1>2. QED
  BY <1>1, TotalIs, FS_EmptySet

LEMMA TotalOfOne ==
  ASSUME NEW t \in Threads, NEW f, f[t] \in 0 .. MaxPermits
  PROVE  G!Total({t}, f) = f[t]
<1>1. Permits({t}, f) = {t} \X (1 .. f[t])
  BY ClientsAssumption DEF Permits
<1>2. IsFiniteSet({t}) /\ Cardinality({t}) = 1
  BY FS_Singleton
<1>3. IsFiniteSet(1 .. f[t]) /\ Cardinality(1 .. f[t]) = f[t]
  BY FS_Interval
<1>4. Cardinality({t} \X (1 .. f[t])) = Cardinality({t}) * Cardinality(1 .. f[t])
  BY <1>2, <1>3, FS_Product, Zenon
<1>6. Cardinality({t} \X (1 .. f[t])) = f[t]
  BY <1>2, <1>3, <1>4
<1>5. Cardinality(Permits({t}, f)) = f[t]
  BY <1>1, <1>6, Zenon
<1>7. {t} \in SUBSET Threads
  OBVIOUS
<1>8. QED
  BY <1>5, <1>7, TotalIs

LEMMA TotalOfUnion ==
  ASSUME NEW S \in SUBSET Threads, NEW R \in SUBSET Threads, S \cap R = {}, NEW f
  PROVE  G!Total(S \cup R, f) = G!Total(S, f) + G!Total(R, f)
<1>1. Permits(S \cup R, f) = Permits(S, f) \cup Permits(R, f)
  BY DEF Permits
<1>2. Permits(S, f) \cap Permits(R, f) = {}
  BY DEF Permits
<1>3. Cardinality(Permits(S, f) \cup Permits(R, f))
        = Cardinality(Permits(S, f)) + Cardinality(Permits(R, f))
            - Cardinality(Permits(S, f) \cap Permits(R, f))
  BY TotalIs, FS_Union
<1>4. Cardinality(Permits(S, f) \cap Permits(R, f)) = 0
  BY <1>2, FS_EmptySet
<1>5. S \cup R \in SUBSET Threads
  OBVIOUS
<1>6. QED
  <2>1. Cardinality(Permits(S \cup R, f)) = Cardinality(Permits(S, f) \cup Permits(R, f))
    BY <1>1, Zenon
  <2>2. /\ G!Total(S, f) = Cardinality(Permits(S, f)) /\ G!Total(S, f) \in Nat
        /\ G!Total(R, f) = Cardinality(Permits(R, f)) /\ G!Total(R, f) \in Nat
    BY TotalIs
  <2>3. G!Total(S \cup R, f) = Cardinality(Permits(S \cup R, f))
    BY <1>5, TotalIs
  <2>4. QED
    BY <1>3, <1>4, <2>1, <2>2, <2>3

LEMMA TotalSame ==
  ASSUME NEW S \in SUBSET Threads, NEW f, NEW g, \A s \in S : f[s] = g[s]
  PROVE  G!Total(S, f) = G!Total(S, g)
<1>1. Permits(S, f) = Permits(S, g)
  BY DEF Permits
<1>2. QED
  BY <1>1, TotalIs

(* One thread more or less, one thread's share changed. *)
LEMMA TotalAdd ==
  ASSUME NEW S \in SUBSET Threads, NEW t \in Threads \ S, NEW f,
         f[t] \in 0 .. MaxPermits
  PROVE  G!Total(S \cup {t}, f) = G!Total(S, f) + f[t]
<1>1. {t} \in SUBSET Threads /\ S \cap {t} = {}
  OBVIOUS
<1>2. G!Total(S \cup {t}, f) = G!Total(S, f) + G!Total({t}, f)
  BY <1>1, TotalOfUnion
<1>3. QED
  BY <1>2, TotalOfOne

LEMMA TotalRemove ==
  ASSUME NEW S \in SUBSET Threads, NEW t \in S, NEW f, f[t] \in 0 .. MaxPermits
  PROVE  G!Total(S, f) = G!Total(S \ {t}, f) + f[t]
<1>1. (S \ {t}) \cup {t} = S
  OBVIOUS
<1>2. S \ {t} \in SUBSET Threads /\ t \in Threads \ (S \ {t})
  OBVIOUS
<1>3. G!Total((S \ {t}) \cup {t}, f) = G!Total(S \ {t}, f) + f[t]
  BY <1>2, TotalAdd
<1>4. QED
  BY <1>1, <1>3

LEMMA TotalChange ==
  ASSUME NEW t \in Threads, NEW f, NEW g,
         f[t] \in 0 .. MaxPermits, g[t] \in 0 .. MaxPermits,
         \A s \in Threads \ {t} : f[s] = g[s]
  PROVE  G!Total(Threads, g) = G!Total(Threads, f) - f[t] + g[t]
<1>1. G!Total(Threads \ {t}, f) = G!Total(Threads \ {t}, g)
  BY TotalSame
<1>2. /\ G!Total(Threads, f) = G!Total(Threads \ {t}, f) + f[t]
      /\ G!Total(Threads, g) = G!Total(Threads \ {t}, g) + g[t]
  BY TotalRemove
<1>3. G!Total(Threads \ {t}, f) \in Nat
  BY TotalIs
<1>4. QED
  BY <1>1, <1>2, <1>3

-----------------------------------------------------------------------------
(* Queues: the front, the rest, and what stays when some are taken out. *)

Sorted(q) == \A i, j \in DOMAIN q : i < j => Priority[q[i]] <= Priority[q[j]]

(* Whoever is before another in r was so in q. *)
SameOrder(q, r) ==
  \A i, j \in DOMAIN r : i < j =>
    \E h, k \in DOMAIN q : h < k /\ r[i] = q[h] /\ r[j] = q[k]

(* What remains of a queue without its first k requests. *)
RestOf(q, k, r) ==
  /\ G!First(q, k) \subseteq G!Range(q) /\ G!First(q, k) \subseteq Threads
  /\ r \in Seq(Threads) /\ Len(r) = Len(q) - k
  /\ \A i \in 1 .. Len(r) : r[i] = q[k + i]
  /\ G!IsInjective(r)
  /\ G!Range(r) = G!Range(q) \ G!First(q, k)
  /\ SameOrder(q, r)

LEMMA FirstAreIn ==
  ASSUME NEW q \in Seq(Threads), NEW k \in 0 .. Len(q)
  PROVE  G!First(q, k) \subseteq G!Range(q) /\ G!First(q, k) \subseteq Threads
BY DEF G!First, G!Range

LEMMA FrontAndRest ==
  ASSUME NEW q \in Seq(Threads), G!IsInjective(q), NEW k \in 0 .. Len(q),
         NEW r, r = SubSeq(q, k + 1, Len(q))
  PROVE  RestOf(q, k, r)
<1> USE DEF G!First, G!Range, G!IsInjective
<1>1. G!First(q, k) \subseteq G!Range(q) /\ G!First(q, k) \subseteq Threads
  BY FirstAreIn
<1>2. /\ r \in Seq(Threads) /\ Len(r) = Len(q) - k
      /\ \A i \in 1 .. Len(r) : r[i] = q[k + i]
  OBVIOUS
<1>3. DOMAIN r = 1 .. Len(r) /\ DOMAIN q = 1 .. Len(q) /\ Len(q) \in Nat
  BY <1>2
<1>8. \A i, j \in 1 .. Len(q) : q[i] = q[j] => i = j
  BY <1>3
<1>4. G!IsInjective(r)
  <2>1. ASSUME NEW i \in 1 .. Len(r), NEW j \in 1 .. Len(r), r[i] = r[j] PROVE i = j
    <3>1. k + i \in 1 .. Len(q) /\ k + j \in 1 .. Len(q) /\ q[k + i] = q[k + j]
      BY <1>2, <2>1
    <3>2. k + i = k + j
      BY <1>8, <3>1
    <3>3. QED
      BY <3>2
  <2>2. QED
    BY <1>3, <2>1
<1>5. ASSUME NEW t \in G!Range(r) PROVE t \in G!Range(q) \ G!First(q, k)
  <2>1. PICK i \in 1 .. Len(r) : t = r[i]
    BY <1>3
  <2>2. k + i \in 1 .. Len(q) /\ t = q[k + i]
    BY <1>2, <2>1
  <2>3. \A j \in 1 .. k : q[j] # t
    BY <1>8, <2>2
  <2>4. QED
    BY <1>3, <2>2, <2>3
<1>6. ASSUME NEW t \in G!Range(q) \ G!First(q, k) PROVE t \in G!Range(r)
  <2>1. PICK i \in 1 .. Len(q) : t = q[i]
    BY <1>3
  <2>2. i > k
    BY <2>1
  <2>3. i - k \in 1 .. Len(r) /\ r[i - k] = q[i]
    BY <1>2, <2>2
  <2>4. QED
    BY <1>3, <2>1, <2>3
<1>7. SameOrder(q, r)
  <2>1. ASSUME NEW i \in DOMAIN r, NEW j \in DOMAIN r, i < j
        PROVE  \E h, m \in DOMAIN q : h < m /\ r[i] = q[h] /\ r[j] = q[m]
    <3>5. i \in 1 .. Len(r) /\ j \in 1 .. Len(r)
      BY <1>3
    <3>6. k + i \in 1 .. Len(q) /\ k + j \in 1 .. Len(q)
      BY <1>2, <3>5
    <3>1. k + i \in DOMAIN q /\ k + j \in DOMAIN q
      BY <1>3, <3>6
    <3>2. k + i < k + j
      BY <2>1, <3>5
    <3>3. r[i] = q[k + i] /\ r[j] = q[k + j]
      BY <1>2, <3>5
    <3>4. QED
      BY <3>1, <3>2, <3>3
  <2>2. QED
    BY <2>1 DEF SameOrder
<1>9. QED
  BY <1>1, <1>2, <1>4, <1>5, <1>6, <1>7 DEF RestOf

(* In a queue without doubles the order of two threads is unambiguous. *)
LEMMA OrderOfTwo ==
  ASSUME NEW q \in Seq(Threads), G!IsInjective(q), NEW r \in Seq(Threads), SameOrder(q, r),
         NEW i \in DOMAIN q, NEW j \in DOMAIN q, i < j,
         NEW k \in DOMAIN r, NEW m \in DOMAIN r, r[k] = q[i], r[m] = q[j]
  PROVE  k < m
<1>1. i \in Nat /\ j \in Nat /\ k \in Nat /\ m \in Nat
  OBVIOUS
<1>2. k # m
  BY <1>1 DEF G!IsInjective
<1>3. ASSUME m < k PROVE FALSE
  <2>1. PICK a \in DOMAIN q, b \in DOMAIN q : a < b /\ r[m] = q[a] /\ r[k] = q[b]
    BY <1>3 DEF SameOrder
  <2>2. a = j /\ b = i
    BY <2>1 DEF G!IsInjective
  <2>3. QED
    BY <1>1, <2>1, <2>2
<1>4. QED
  BY <1>1, <1>2, <1>3

LEMMA WithoutKeeps ==
  ASSUME NEW q \in Seq(Threads), G!IsInjective(q), NEW S, NEW r, G!Without(r, q, S)
  PROVE  /\ r \in Seq(Threads) /\ G!IsInjective(r)
         /\ G!Range(r) = G!Range(q) \ S
         /\ SameOrder(q, r)
         /\ \A k \in DOMAIN q :
              q[k] \notin S /\ (\A i \in 1 .. k - 1 : q[i] \in S) => r[1] = q[k]
<1> DEFINE staying == {i \in DOMAIN q : q[i] \notin S}
           n == G!Cardinality(staying)
<1>1. PICK place \in G!Bijection(1 .. n, staying) :
        /\ \A i, j \in DOMAIN place : i < j => place[i] < place[j]
        /\ r = [i \in DOMAIN place |-> q[place[i]]]
  BY DEF G!Without
<1>2. n \in Nat
  <2>1. n = Cardinality(staying)
    BY Zenon DEF Cardinality, G!Cardinality
  <2>2. IsFiniteSet(DOMAIN q) /\ staying \subseteq DOMAIN q
    BY FS_Interval
  <2>3. QED
    BY <2>1, <2>2, FS_Subset, FS_CardinalityType
<1> HIDE DEF n
<1>3. /\ place \in [1 .. n -> staying] /\ DOMAIN place = 1 .. n
      /\ \A i, j \in 1 .. n : place[i] = place[j] => i = j
      /\ \A k \in staying : \E i \in 1 .. n : place[i] = k
  BY <1>1 DEF G!Bijection, G!Injection, G!Surjection, G!IsInjective
<1>4. \A i \in 1 .. n : place[i] \in DOMAIN q /\ q[place[i]] \notin S
  BY <1>3
<1>5. r \in Seq(Threads) /\ DOMAIN r = 1 .. n /\ \A i \in 1 .. n : r[i] = q[place[i]]
  <2>1. r = [i \in 1 .. n |-> q[place[i]]]
    BY <1>1, <1>3
  <2>2. \A i \in 1 .. n : q[place[i]] \in Threads
    BY <1>4
  <2>3. r \in [1 .. n -> Threads]
    BY <2>1, <2>2
  <2>4. QED
    BY <1>2, <2>1, <2>3
<1>6. G!IsInjective(r)
  BY <1>3, <1>4, <1>5 DEF G!IsInjective
<1>7. G!Range(r) = G!Range(q) \ S
  <2>1. ASSUME NEW t \in G!Range(r) PROVE t \in G!Range(q) \ S
    BY <1>4, <1>5 DEF G!Range
  <2>2. ASSUME NEW t \in G!Range(q) \ S PROVE t \in G!Range(r)
    <3>1. PICK k \in staying : t = q[k]
      BY DEF G!Range
    <3>2. PICK i \in 1 .. n : place[i] = k
      BY <1>3
    <3>3. QED
      BY <1>5, <3>1, <3>2 DEF G!Range
  <2>3. QED
    BY <2>1, <2>2
<1>8. SameOrder(q, r)
  <2>1. \A i, j \in 1 .. n : i < j => place[i] < place[j]
    BY <1>1, <1>3
  <2>2. QED
    BY <1>4, <1>5, <2>1 DEF SameOrder
<1>9. ASSUME NEW k \in DOMAIN q, q[k] \notin S, \A i \in 1 .. k - 1 : q[i] \in S
      PROVE  r[1] = q[k]
  <2>1. PICK i \in 1 .. n : place[i] = k
    BY <1>3, <1>9
  <2>2. 1 \in 1 .. n
    BY <1>2
  <2>3. place[1] \in DOMAIN q /\ q[place[1]] \notin S
    BY <1>4, <2>2
  <2>4. place[1] >= k
    BY <1>9, <2>3
  <2>5. i > 1 => place[1] < place[i]
    BY <1>1, <1>3, <2>1, <2>2
  <2>6. i = 1
    BY <2>1, <2>3, <2>4, <2>5
  <2>7. QED
    BY <1>5, <2>1, <2>6
<1>10. QED
  BY <1>5, <1>6, <1>7, <1>8, <1>9

-----------------------------------------------------------------------------
(* CountingSemaphore, for requests of any size.  Its sleepers are those     *)
(* that want more than there is: a release wakes everybody, a request that  *)
(* is served only makes fewer.                                              *)

Types ==
  /\ permits \in 0 .. MaxPermits
  /\ held \in [Threads -> 0 .. MaxPermits]
  /\ wants \in [Threads -> 0 .. MaxPermits]
  /\ expired \subseteq Threads
  /\ \A t \in Threads : wants[t] > 0 => held[t] = 0

CountingInv ==
  /\ Types
  /\ asleep \subseteq Threads
  /\ permits = MaxPermits - G!Total(Threads, held)
  /\ NoSleeperFits

(* What a thread may release was taken, so that release() never caps. *)
LEMMA HeldIsTaken ==
  ASSUME Types, NEW t \in Threads
  PROVE  /\ G!Total(Threads, held) \in Nat
         /\ held[t] <= G!Total(Threads, held)
<1>1. /\ G!Total(Threads, held) = G!Total(Threads \ {t}, held) + held[t]
      /\ G!Total(Threads \ {t}, held) \in Nat
  BY TotalRemove, TotalIs DEF Types
<1>2. QED
  BY <1>1 DEF Types

LEMMA HeldChanges ==
  ASSUME Types, NEW t \in Threads, NEW v \in 0 .. MaxPermits,
         held' = [held EXCEPT ![t] = v]
  PROVE  /\ held' \in [Threads -> 0 .. MaxPermits]
         /\ \A s \in Threads : held'[s] = IF s = t THEN v ELSE held[s]
         /\ G!Total(Threads, held') = G!Total(Threads, held) - held[t] + v
         /\ G!Total(Threads, held) \in Nat /\ G!Total(Threads, held') \in Nat
<1>1. /\ held' \in [Threads -> 0 .. MaxPermits]
      /\ \A s \in Threads : held'[s] = IF s = t THEN v ELSE held[s]
  BY DEF Types
<1>2. G!Total(Threads, held') = G!Total(Threads, held) - held[t] + held'[t]
  BY <1>1, TotalChange DEF Types
<1>3. QED
  BY <1>1, <1>2, TotalIs

LEMMA CountingTake ==
  ASSUME CountingInv, NEW t \in Threads, NEW n \in 1 .. MaxPermits,
         held[t] = 0, Enough(n), Take(t, n), asleep' = asleep, expired' = expired,
         wants' = [wants EXCEPT ![t] = 0], t \notin asleep
  PROVE  CountingInv'
<1> USE ClientsAssumption DEF CountingInv, Enough
<1>1. held' = [held EXCEPT ![t] = n]
  BY DEF Take, Types
<1>2. /\ held' \in [Threads -> 0 .. MaxPermits]
      /\ \A s \in Threads : held'[s] = IF s = t THEN n ELSE held[s]
      /\ G!Total(Threads, held') = G!Total(Threads, held) - held[t] + n
      /\ G!Total(Threads, held) \in Nat
  <2>1. n \in 0 .. MaxPermits
    OBVIOUS
  <2>2. QED
    BY <1>1, <2>1, HeldChanges
<1>3. permits' = permits - n /\ permits' \in 0 .. MaxPermits
  BY DEF Take, Types
<1>4. Types'
  <2>1. /\ wants' \in [Threads -> 0 .. MaxPermits]
        /\ \A s \in Threads : wants'[s] > 0 => s # t /\ wants[s] > 0
    BY DEF Types
  <2>2. QED
    BY <1>2, <1>3, <2>1 DEF Types
<1>5. permits' = MaxPermits - G!Total(Threads, held')
  BY <1>2, <1>3
<1>6. NoSleeperFits'
  BY <1>3 DEF NoSleeperFits, Types
<1>7. QED
  BY <1>4, <1>5, <1>6

LEMMA CountingStep == CountingInv /\ [Next]_vars => CountingInv'
<1> SUFFICES ASSUME CountingInv, [Next]_vars PROVE CountingInv'
  OBVIOUS
<1> USE ClientsAssumption DEF CountingInv
<1>1. ASSUME NEW t \in Threads, NEW n \in 1 .. MaxPermits, Acquire(t, n)
      PROVE  CountingInv'
  <2>1. CASE Enough(n)
    <3>1. /\ held[t] = 0 /\ Take(t, n) /\ UNCHANGED <<asleep, expired>>
          /\ wants' = [wants EXCEPT ![t] = 0]
      BY <1>1, <2>1 DEF Acquire, Types
    <3>2. t \notin asleep
      BY <1>1, <2>1 DEF Acquire, NoSleeperFits, Enough, Types
    <3>3. QED
      BY <2>1, <3>1, <3>2, CountingTake
  <2>2. CASE ~Enough(n)
    BY <1>1, <2>2 DEF Acquire, Types, NoSleeperFits, Enough
  <2>3. QED
    BY <2>1, <2>2
<1>2. ASSUME NEW t \in Threads, NEW n \in 1 .. MaxPermits, Release(t, n)
      PROVE  CountingInv'
  <2>1. /\ n <= held[t] /\ held' = [held EXCEPT ![t] = held[t] - n]
        /\ asleep' = {} /\ UNCHANGED wants /\ UNCHANGED expired
        /\ permits' = Capped(permits + n)
    BY <1>2 DEF Release
  <2>2. held[t] - n \in 0 .. MaxPermits
    BY <2>1 DEF Types
  <2>3. /\ held' \in [Threads -> 0 .. MaxPermits]
        /\ \A s \in Threads : held'[s] = IF s = t THEN held[t] - n ELSE held[s]
        /\ G!Total(Threads, held') = G!Total(Threads, held) - held[t] + (held[t] - n)
        /\ G!Total(Threads, held) \in Nat
    BY <2>1, <2>2, HeldChanges
  <2>4. held[t] <= G!Total(Threads, held)
    BY HeldIsTaken
  <2>5. permits' = permits + n /\ permits' \in 0 .. MaxPermits
    BY <2>1, <2>3, <2>4 DEF Capped, Types
  <2>6. Types'
    BY <2>1, <2>3, <2>5 DEF Types
  <2>7. permits' = MaxPermits - G!Total(Threads, held')
    BY <2>3, <2>5 DEF Types
  <2>8. QED
    BY <2>1, <2>6, <2>7 DEF NoSleeperFits
<1>3. ASSUME NEW t \in Threads, Resume(t) PROVE CountingInv'
  <2>1. CASE Enough(wants[t])
    <3>1. /\ held[t] = 0 /\ wants[t] \in 1 .. MaxPermits
          /\ Take(t, wants[t]) /\ UNCHANGED <<asleep, expired>>
          /\ wants' = [wants EXCEPT ![t] = 0] /\ t \notin asleep
      BY <1>3, <2>1 DEF Resume, Types
    <3>2. QED
      BY <2>1, <3>1, CountingTake
  <2>2. CASE ~Enough(wants[t])
    <3>1. asleep' = asleep \cup {t} /\ UNCHANGED <<permits, held, wants, expired>>
      BY <1>3, <2>2 DEF Resume
    <3>2. Types'
      BY <3>1 DEF Types
    <3>3. QED
      BY <2>2, <3>1, <3>2 DEF NoSleeperFits, Enough
  <2>3. QED
    BY <2>1, <2>2
<1>4. ASSUME NEW t \in Threads, TimeOut(t) PROVE CountingInv'
  BY <1>4 DEF TimeOut, Types, NoSleeperFits, Enough
<1>5. ASSUME NEW t \in Threads, Expire(t) PROVE CountingInv'
  BY <1>5 DEF Expire, Types, NoSleeperFits, Enough
<1>6. CASE UNCHANGED vars
  BY <1>6 DEF vars, Types, NoSleeperFits, Enough
<1>7. QED
  BY <1>1, <1>2, <1>3, <1>4, <1>5, <1>6 DEF Next

(* The pool uses its semaphore as any client does. *)
LEMMA PoolUsesSemaphore == PoolNext => [Next]_vars
<1> SUFFICES ASSUME PoolNext PROVE [Next]_vars
  OBVIOUS
<1>1. 1 \in 1 .. MaxPermits
  BY ClientsAssumption
<1>2. PICK t \in Threads :
        \/ Ask(t) \/ AskAgain(t) \/ AskInVain(t) \/ TakeResource(t)
        \/ PutBack(t) \/ GiveBack(t) \/ PoolExpire(t)
  BY DEF PoolNext
<1>3. QED
  BY <1>1, <1>2 DEF Next, Ask, AskAgain, AskInVain, TakeResource, PutBack,
     GiveBack, PoolExpire, vars

-----------------------------------------------------------------------------
(* The queued semaphores: what serving the front of a queue does. *)

Ready(q, want, n) ==
  /\ q \in Seq(Threads) /\ G!IsInjective(q)
  /\ want \in [Threads -> 0 .. MaxPermits]
  /\ granted \subseteq Threads /\ G!Range(q) \cap granted = {}
  /\ n \in 0 .. MaxPermits

LEMMA GrantKeeps ==
  ASSUME NEW q, NEW want, NEW n, Ready(q, want, n), NEW k \in 0 .. Len(q),
         G!Serves(q, want, k, n), G!Grant(q, want, k, n)
  PROVE  /\ permits' \in 0 .. MaxPermits
         /\ permits' + G!Total(granted', want) = n + G!Total(granted, want)
         /\ granted' = granted \cup G!First(q, k) /\ granted' \subseteq Threads
         /\ k < Len(q) => permits' < want[q[k + 1]]
<1> DEFINE front == G!First(q, k)
<1>1. front \subseteq G!Range(q) /\ front \subseteq Threads
  BY FirstAreIn DEF Ready
<1>2. front \cap granted = {} /\ granted \subseteq Threads
  BY <1>1 DEF Ready
<1>3. /\ G!Total(front, want) \in Nat /\ G!Total(granted, want) \in Nat
      /\ G!Total(granted \cup front, want) = G!Total(granted, want) + G!Total(front, want)
  BY <1>1, <1>2, TotalIs, TotalOfUnion
<1>4. /\ permits' = n - G!Total(front, want) /\ G!Total(front, want) <= n
      /\ granted' = granted \cup front
  BY DEF G!Grant, G!Serves
<1>5. permits' \in 0 .. MaxPermits
  BY ClientsAssumption, <1>3, <1>4 DEF Ready
<1>6. permits' + G!Total(granted', want) = n + G!Total(granted, want)
  <2>1. G!Total(granted', want) = G!Total(granted \cup front, want)
    BY <1>4, Zenon
  <2>2. n \in Nat
    BY ClientsAssumption DEF Ready
  <2>3. QED
    BY <1>3, <1>4, <2>1, <2>2
<1>7. ASSUME k < Len(q) PROVE permits' < want[q[k + 1]]
  <2>1. k + 1 \in 1 .. Len(q) /\ q[k + 1] \in Threads
    BY <1>7 DEF Ready
  <2>2. G!First(q, k + 1) = front \cup {q[k + 1]}
    BY <2>1 DEF G!First
  <2>3. q[k + 1] \notin front
    BY <2>1 DEF G!First, Ready, G!IsInjective
  <2>4. G!Total(front \cup {q[k + 1]}, want) = G!Total(front, want) + want[q[k + 1]]
    BY <1>1, <2>1, <2>3, TotalAdd DEF Ready
  <2>5. G!Total(front \cup {q[k + 1]}, want) > n
    BY <1>7, <2>2 DEF G!Serves
  <2>6. QED
    BY <1>3, <1>4, <2>1, <2>4, <2>5 DEF Ready
<1>8. QED
  BY <1>1, <1>2, <1>4, <1>5, <1>6, <1>7

(* PrioritySemaphore serves the front of the heap and leaves the rest.      *)
LEMMA HeapServed ==
  ASSUME NEW q, NEW want, NEW n, Ready(q, want, n), G!ProcessHeap(q, want, n)
  PROVE  /\ permits' \in 0 .. MaxPermits
         /\ permits' + G!Total(granted', want) = n + G!Total(granted, want)
         /\ granted \subseteq granted' /\ granted' \subseteq granted \cup G!Range(q)
         /\ queue' \in Seq(Threads) /\ G!IsInjective(queue')
         /\ G!Range(queue') = G!Range(q) \ granted'
         /\ queue' # <<>> => permits' < want[Head(queue')]
         /\ Sorted(q) => Sorted(queue')
         /\ Sorted(q) => \A t \in granted' \ granted : \A s \in G!Range(queue') :
                           Priority[t] <= Priority[s]
         /\ \A i, j \in DOMAIN q : i < j /\ q[j] \in granted' => q[i] \in granted'
         /\ SameOrder(q, queue')
<1>1. PICK k \in 0 .. Len(q) :
        /\ G!Serves(q, want, k, n) /\ G!Grant(q, want, k, n)
        /\ queue' = SubSeq(q, k + 1, Len(q))
  BY DEF G!ProcessHeap
<1>2. /\ permits' \in 0 .. MaxPermits
      /\ permits' + G!Total(granted', want) = n + G!Total(granted, want)
      /\ granted' = granted \cup G!First(q, k)
      /\ k < Len(q) => permits' < want[q[k + 1]]
  BY <1>1, GrantKeeps
<1>3. /\ G!First(q, k) \subseteq G!Range(q) /\ G!First(q, k) \subseteq Threads
      /\ queue' \in Seq(Threads) /\ Len(queue') = Len(q) - k
      /\ \A i \in 1 .. Len(queue') : queue'[i] = q[k + i]
      /\ G!IsInjective(queue')
      /\ G!Range(queue') = G!Range(q) \ G!First(q, k)
      /\ SameOrder(q, queue')
  <2>1. q \in Seq(Threads) /\ G!IsInjective(q)
    BY DEF Ready
  <2>2. queue' = SubSeq(q, k + 1, Len(q))
    BY <1>1
  <2>3. RestOf(q, k, queue')
    BY <2>1, <2>2, FrontAndRest
  <2>4. QED
    BY <2>3 DEF RestOf
<1>4. DOMAIN q = 1 .. Len(q) /\ Len(q) \in Nat /\ DOMAIN queue' = 1 .. Len(queue')
  BY <1>3 DEF Ready
<1>5. G!Range(queue') = G!Range(q) \ granted'
  BY <1>2, <1>3 DEF Ready
<1>6. ASSUME queue' # <<>> PROVE permits' < want[Head(queue')]
  <2>1. Len(queue') >= 1 /\ Head(queue') = queue'[1]
    BY <1>3, <1>6
  <2>2. Head(queue') = q[k + 1] /\ k < Len(q)
    BY <1>3, <1>4, <2>1
  <2>3. QED
    BY <1>2, <2>2
<1>7. ASSUME Sorted(q) PROVE Sorted(queue')
  <2>1. ASSUME NEW i \in 1 .. Len(queue'), NEW j \in 1 .. Len(queue'), i < j
        PROVE  Priority[queue'[i]] <= Priority[queue'[j]]
    <3>1. k + i \in 1 .. Len(q) /\ k + j \in 1 .. Len(q) /\ k + i < k + j
      BY <1>3, <1>4, <2>1
    <3>2. Priority[q[k + i]] <= Priority[q[k + j]]
      BY <1>4, <1>7, <3>1 DEF Sorted
    <3>3. QED
      BY <1>3, <3>2
  <2>2. QED
    BY <1>4, <2>1 DEF Sorted
<1>8. ASSUME Sorted(q), NEW t \in granted' \ granted, NEW s \in G!Range(queue')
      PROVE  Priority[t] <= Priority[s]
  <2>1. PICK i \in 1 .. k : t = q[i]
    BY <1>2, <1>8 DEF G!First
  <2>2. PICK j \in 1 .. Len(queue') : s = queue'[j]
    BY <1>4 DEF G!Range
  <2>3. s = q[k + j] /\ k + j \in 1 .. Len(q) /\ i \in 1 .. Len(q) /\ i < k + j
    BY <1>3, <1>4, <2>2
  <2>4. QED
    BY <1>4, <1>8, <2>1, <2>3 DEF Sorted
<1>9. ASSUME NEW i \in DOMAIN q, NEW j \in DOMAIN q, i < j, q[j] \in granted'
      PROVE  q[i] \in granted'
  <2>1. q[j] \in G!First(q, k)
    BY <1>2, <1>9 DEF Ready, G!Range
  <2>2. j \in 1 .. k
    BY <1>4, <2>1 DEF G!First, Ready, G!IsInjective
  <2>3. i \in 1 .. k
    BY <1>4, <1>9, <2>2
  <2>4. QED
    BY <1>2, <2>3 DEF G!First
<1>10. granted \subseteq granted' /\ granted' \subseteq granted \cup G!Range(q)
  BY <1>2, <1>3
<1>11. QED
  BY <1>2, <1>3, <1>5, <1>6, <1>7, <1>8, <1>9, <1>10

(* FairSemaphore puts the request that does not fit behind all others.      *)
LEMMA Rotated ==
  ASSUME NEW r \in Seq(Threads), G!IsInjective(r), r # <<>>,
         NEW q, q = Append(Tail(r), Head(r))
  PROVE  q \in Seq(Threads) /\ G!IsInjective(q) /\ G!Range(q) = G!Range(r)
<1> DEFINE n == Len(r)
<1>1. n \in Nat /\ n >= 1 /\ DOMAIN r = 1 .. n /\ Head(r) = r[1] /\ Head(r) \in Threads
  OBVIOUS
<1>2. /\ Tail(r) \in Seq(Threads) /\ Len(Tail(r)) = n - 1
      /\ \A i \in 1 .. n - 1 : Tail(r)[i] = r[i + 1]
  OBVIOUS
<1>3. q \in Seq(Threads) /\ Len(q) = n
  BY <1>1, <1>2
<1> HIDE DEF n
<1>4. \A i \in 1 .. n : q[i] = IF i = n THEN r[1] ELSE r[i + 1]
  <2>1. q[n] = r[1]
    BY <1>1, <1>2
  <2>2. ASSUME NEW i \in 1 .. n - 1 PROVE q[i] = Tail(r)[i]
    BY <1>1, <1>2
  <2>3. ASSUME NEW i \in 1 .. n, i # n PROVE q[i] = r[i + 1]
    <3>1. i \in 1 .. n - 1
      BY <1>1, <2>3
    <3>2. QED
      BY <1>2, <2>2, <3>1
  <2>4. QED
    BY <2>1, <2>3
<1>5. DOMAIN q = 1 .. n
  BY <1>3
<1>6. \A i, j \in 1 .. n : r[i] = r[j] => i = j
  BY <1>1 DEF G!IsInjective
<1>7. ASSUME NEW i \in 1 .. n, NEW j \in 1 .. n, q[i] = q[j] PROVE i = j
  <2> DEFINE At(m) == IF m = n THEN 1 ELSE m + 1
  <2>1. q[i] = r[At(i)] /\ q[j] = r[At(j)]
    BY <1>4
  <2>2. At(i) \in 1 .. n /\ At(j) \in 1 .. n
    BY <1>1
  <2>3. At(i) = At(j)
    BY <1>6, <1>7, <2>1, <2>2
  <2>4. QED
    BY <1>1, <2>3
<1>8. ASSUME NEW t \in G!Range(r) PROVE t \in G!Range(q)
  <2>1. PICK i \in 1 .. n : t = r[i]
    BY <1>1 DEF G!Range
  <2>2. CASE i = 1
    BY <1>1, <1>4, <1>5, <2>1, <2>2 DEF G!Range
  <2>3. CASE i # 1
    <3>1. i - 1 \in 1 .. n /\ i - 1 # n /\ q[i - 1] = r[i]
      BY <1>1, <1>4, <2>1, <2>3
    <3>2. QED
      BY <1>5, <2>1, <3>1 DEF G!Range
  <2>4. QED
    BY <2>2, <2>3
<1>9. ASSUME NEW t \in G!Range(q) PROVE t \in G!Range(r)
  <2>1. PICK i \in 1 .. n : t = q[i]
    BY <1>5 DEF G!Range
  <2>2. CASE i = n
    BY <1>1, <1>4, <2>1, <2>2 DEF G!Range
  <2>3. CASE i # n
    <3>1. i + 1 \in 1 .. n /\ t = r[i + 1]
      BY <1>1, <1>4, <2>1, <2>3
    <3>2. QED
      BY <1>1, <3>1 DEF G!Range
  <2>4. QED
    BY <2>2, <2>3
<1>10. G!IsInjective(q)
  BY <1>5, <1>7 DEF G!IsInjective
<1>11. QED
  BY <1>3, <1>8, <1>9, <1>10

LEMMA QueueServed ==
  ASSUME NEW n, Ready(queue, wants, n), G!ProcessQueue(n)
  PROVE  /\ permits' \in 0 .. MaxPermits
         /\ permits' + G!Total(granted', wants) = n + G!Total(granted, wants)
         /\ granted \subseteq granted' /\ granted' \subseteq granted \cup G!Range(queue)
         /\ queue' \in Seq(Threads) /\ G!IsInjective(queue')
         /\ G!Range(queue') = G!Range(queue) \ granted'
         /\ \A i, j \in DOMAIN queue :
              i < j /\ queue[j] \in granted' => queue[i] \in granted'
         /\ \A i, j \in DOMAIN queue : i < j /\ wants[queue[i]] = 1 =>
              \A h, m \in DOMAIN queue' :
                queue'[h] = queue[i] /\ queue'[m] = queue[j] => h < m
<1>1. PICK k \in 0 .. Len(queue) :
        LET rest == SubSeq(queue, k + 1, Len(queue))
        IN /\ G!Serves(queue, wants, k, n) /\ G!Grant(queue, wants, k, n)
           /\ queue' = IF permits' > 0 /\ rest # <<>>
                         THEN Append(Tail(rest), Head(rest))
                         ELSE rest
  BY DEF G!ProcessQueue
<1> DEFINE rest == SubSeq(queue, k + 1, Len(queue))
           front == G!First(queue, k)
<1>2. /\ permits' \in 0 .. MaxPermits
      /\ permits' + G!Total(granted', wants) = n + G!Total(granted, wants)
      /\ granted' = granted \cup front
      /\ k < Len(queue) => permits' < wants[queue[k + 1]]
  BY <1>1, GrantKeeps
<1>3. /\ front \subseteq G!Range(queue)
      /\ rest \in Seq(Threads) /\ G!IsInjective(rest)
      /\ G!Range(rest) = G!Range(queue) \ front
      /\ SameOrder(queue, rest) /\ Len(rest) = Len(queue) - k
      /\ \A i \in 1 .. Len(rest) : rest[i] = queue[k + i]
  <2>1. queue \in Seq(Threads) /\ G!IsInjective(queue)
    BY DEF Ready
  <2>2. rest = SubSeq(queue, k + 1, Len(queue)) /\ front = G!First(queue, k)
    OBVIOUS
  <2> HIDE DEF rest
  <2>3. RestOf(queue, k, rest)
    BY <2>1, <2>2, FrontAndRest
  <2>4. QED
    BY <2>2, <2>3 DEF RestOf
<1>4. queue' = IF permits' > 0 /\ rest # <<>> THEN Append(Tail(rest), Head(rest)) ELSE rest
  BY <1>1
<1> HIDE DEF rest
<1>5. /\ queue' \in Seq(Threads) /\ G!IsInjective(queue')
      /\ G!Range(queue') = G!Range(rest)
  <2>1. CASE permits' > 0 /\ rest # <<>>
    BY <1>3, <1>4, <2>1, Rotated
  <2>2. CASE ~(permits' > 0 /\ rest # <<>>)
    BY <1>3, <1>4, <2>2
  <2>3. QED
    BY <2>1, <2>2
<1>6. G!Range(queue') = G!Range(queue) \ granted'
  BY <1>2, <1>3, <1>5 DEF Ready
<1>7. ASSUME NEW i \in DOMAIN queue, NEW j \in DOMAIN queue, i < j, queue[j] \in granted'
      PROVE  queue[i] \in granted'
  <2>1. queue[j] \in front
    BY <1>2, <1>7 DEF Ready, G!Range
  <2>2. j \in 1 .. k
    BY <2>1 DEF G!First, Ready, G!IsInjective
  <2>3. i \in 1 .. k
    BY <1>7, <2>2 DEF Ready
  <2>4. QED
    BY <1>2, <2>3 DEF G!First
<1>9. ASSUME NEW i \in DOMAIN queue, NEW j \in DOMAIN queue, i < j, wants[queue[i]] = 1,
             NEW h \in DOMAIN queue', NEW m \in DOMAIN queue',
             queue'[h] = queue[i], queue'[m] = queue[j]
      PROVE  h < m
  <2>1. queue \in Seq(Threads) /\ G!IsInjective(queue)
    BY DEF Ready
  <2>5. ASSUME NEW x \in DOMAIN rest, NEW y \in DOMAIN rest,
               rest[x] = queue[i], rest[y] = queue[j]
        PROVE  x < y
    <3>1. rest \in Seq(Threads) /\ SameOrder(queue, rest)
      BY <1>3
    <3>2. i < j
      BY <1>9
    <3>3. QED
      BY <2>1, <2>5, <3>1, <3>2, OrderOfTwo
  <2>2. CASE permits' > 0 /\ rest # <<>>
    <3>1. Head(rest) = queue[k + 1] /\ k < Len(queue) /\ Len(rest) >= 1 /\ Len(rest) \in Nat
      BY <1>3, <2>1, <2>2
    <3>2. wants[Head(rest)] # 1
      BY <1>2, <2>2, <3>1 DEF Ready
    <3>3. queue' = Append(Tail(rest), Head(rest))
      BY <1>4, <2>2
    <3>4. /\ DOMAIN queue' = 1 .. Len(rest) /\ DOMAIN rest = 1 .. Len(rest)
          /\ \A x \in 1 .. Len(rest) - 1 : queue'[x] = rest[x + 1]
          /\ queue'[Len(rest)] = Head(rest) /\ Head(rest) = rest[1]
      BY <1>3, <3>1, <3>3
    <3>5. h # Len(rest) /\ h \in 1 .. Len(rest) /\ m \in 1 .. Len(rest)
      BY <1>9, <3>2, <3>4
    <3>6. h + 1 \in DOMAIN rest /\ rest[h + 1] = queue[i]
      BY <1>9, <3>1, <3>4, <3>5
    <3>7. CASE m = Len(rest)
      BY <3>1, <3>5, <3>7
    <3>8. CASE m # Len(rest)
      <4>1. m + 1 \in DOMAIN rest /\ rest[m + 1] = queue[j]
        BY <1>9, <3>1, <3>4, <3>5, <3>8
      <4>2. h + 1 < m + 1
        BY <2>5, <3>6, <4>1
      <4>3. QED
        BY <3>1, <3>5, <4>2
    <3>9. QED
      BY <3>7, <3>8
  <2>3. CASE ~(permits' > 0 /\ rest # <<>>)
    <3>1. queue' = rest
      BY <1>4, <2>3
    <3>2. QED
      BY <1>9, <2>5, <3>1
  <2>4. QED
    BY <2>2, <2>3
<1>8. QED
  BY <1>2, <1>3, <1>5, <1>6, <1>7, <1>9

(* AsyncSemaphore passes over the futures that are done.                    *)
LEMMA WaitersNotified ==
  ASSUME NEW n, Ready(queue, wants, n), G!NotifyWaiters(n)
  PROVE  /\ permits' \in 0 .. MaxPermits
         /\ permits' + G!Total(granted', wants) = n + G!Total(granted, wants)
         /\ granted \subseteq granted'
         /\ granted' \subseteq granted \cup (G!Range(queue) \ expired)
         /\ queue' \in Seq(Threads) /\ G!IsInjective(queue')
         /\ G!Range(queue') = G!Range(queue) \ granted'
         /\ queue' # <<>> /\ Head(queue') \notin expired => permits' < wants[Head(queue')]
         /\ \A i, j \in DOMAIN queue :
              i < j /\ queue[j] \in granted' => queue[i] \in granted' \cup expired
         /\ SameOrder(queue, queue')
<1> DEFINE live(k) == G!First(queue, k) \ expired
           left(k) == n - G!Total(live(k), wants)
<1>1. PICK k \in 0 .. Len(queue) :
        /\ \A i \in 1 .. k : wants[queue[i]] <= left(i - 1)
        /\ k < Len(queue) => wants[queue[k + 1]] > left(k)
        /\ permits' = left(k)
        /\ granted' = granted \cup live(k)
        /\ G!Without(queue', queue, live(k))
  BY DEF G!NotifyWaiters
<1>2. /\ queue \in Seq(Threads) /\ G!IsInjective(queue)
      /\ DOMAIN queue = 1 .. Len(queue) /\ Len(queue) \in Nat
      /\ granted \subseteq Threads /\ n \in 0 .. MaxPermits /\ n \in Nat
      /\ \A t \in Threads : wants[t] \in 0 .. MaxPermits
  BY ClientsAssumption DEF Ready
<1>3. \A i \in 0 .. Len(queue) :
        live(i) \subseteq Threads /\ live(i) \subseteq G!Range(queue) \ expired
  BY <1>2, FirstAreIn
<1>4. live(k) \subseteq Threads /\ live(k) \subseteq G!Range(queue) \ expired
  BY <1>3
<1>5. G!Total(live(k), wants) \in Nat /\ G!Total(live(k), wants) <= n
  <2>1. CASE k = 0
    <3>1. live(k) = {}
      BY <2>1 DEF G!First
    <3>2. G!Total(live(k), wants) = 0
      BY <3>1, TotalOfNone
    <3>3. QED
      BY <1>2, <3>2
  <2>2. CASE k > 0
    <3>1. /\ k - 1 \in 0 .. Len(queue) /\ k \in 1 .. Len(queue) /\ queue[k] \in Threads
          /\ wants[queue[k]] <= left(k - 1)
      BY <1>1, <1>2, <2>2
    <3>2. live(k - 1) \subseteq Threads /\ G!Total(live(k - 1), wants) \in Nat
      BY <1>3, <3>1, TotalIs
    <3>3. queue[k] \notin live(k - 1)
      BY <1>2, <3>1 DEF G!First, G!IsInjective
    <3>4. CASE queue[k] \in expired
      <4>1. live(k) = live(k - 1)
        BY <3>1, <3>4 DEF G!First
      <4>2. G!Total(live(k), wants) = G!Total(live(k - 1), wants)
        BY <4>1, Zenon
      <4>3. wants[queue[k]] \in 0 .. MaxPermits
        BY <1>2, <3>1
      <4>4. QED
        BY <1>2, <3>1, <3>2, <4>2, <4>3
    <3>5. CASE queue[k] \notin expired
      <4>1. live(k) = live(k - 1) \cup {queue[k]}
        BY <3>1, <3>5 DEF G!First
      <4>2. wants[queue[k]] \in 0 .. MaxPermits
        BY <1>2, <3>1
      <4>3. G!Total(live(k - 1) \cup {queue[k]}, wants)
              = G!Total(live(k - 1), wants) + wants[queue[k]]
        BY <3>1, <3>2, <3>3, <4>2, TotalAdd
      <4>4. G!Total(live(k), wants) = G!Total(live(k - 1) \cup {queue[k]}, wants)
        BY <4>1, Zenon
      <4>5. QED
        BY <1>2, <3>1, <3>2, <4>2, <4>3, <4>4
    <3>6. QED
      BY <3>4, <3>5
  <2>3. QED
    BY <2>1, <2>2
<1>6. permits' \in 0 .. MaxPermits
  BY ClientsAssumption, <1>1, <1>2, <1>5
<1>7. permits' + G!Total(granted', wants) = n + G!Total(granted, wants)
  <2>1. granted \cap live(k) = {}
    BY <1>4 DEF Ready
  <2>2. /\ G!Total(granted \cup live(k), wants)
             = G!Total(granted, wants) + G!Total(live(k), wants)
        /\ G!Total(granted, wants) \in Nat
    BY <1>2, <1>4, <2>1, TotalOfUnion, TotalIs
  <2>3. G!Total(granted', wants) = G!Total(granted \cup live(k), wants)
    BY <1>1, Zenon
  <2>4. QED
    BY <1>1, <1>2, <1>5, <2>2, <2>3
<1>8. /\ queue' \in Seq(Threads) /\ G!IsInjective(queue')
      /\ G!Range(queue') = G!Range(queue) \ live(k)
      /\ \A j \in DOMAIN queue :
           queue[j] \notin live(k) /\ (\A i \in 1 .. j - 1 : queue[i] \in live(k))
             => queue'[1] = queue[j]
      /\ SameOrder(queue, queue')
  BY <1>1, <1>2, WithoutKeeps
<1>9. G!Range(queue') = G!Range(queue) \ granted'
  BY <1>1, <1>8 DEF Ready
<1>10. ASSUME queue' # <<>>, Head(queue') \notin expired
       PROVE  permits' < wants[Head(queue')]
  <2>1. /\ Head(queue') = queue'[1] /\ 1 \in DOMAIN queue'
        /\ queue'[1] \in G!Range(queue')
    BY <1>8, <1>10 DEF G!Range
  <2>2. PICK j \in 1 .. Len(queue) : queue'[1] = queue[j] /\ queue[j] \notin live(k)
    BY <1>2, <1>8, <2>1 DEF G!Range
  <2>3. k < j
    BY <1>2, <1>10, <2>1, <2>2 DEF G!First
  <2>4. k + 1 \in 1 .. Len(queue) /\ k < Len(queue)
    BY <1>2, <2>2, <2>3
  <2>5. queue[k + 1] \notin live(k)
    BY <1>2, <2>4 DEF G!First, G!IsInjective
  <2>6. ASSUME NEW i \in 1 .. k, queue[i] \notin live(k) PROVE FALSE
    <3>1. i \in DOMAIN queue /\ j \in DOMAIN queue /\ i < j
      BY <1>2, <2>3
    <3>2. PICK m \in DOMAIN queue' : queue'[m] = queue[i]
      BY <1>8, <2>6, <3>1 DEF G!Range
    <3>3. m # 1
      BY <2>2, <1>2, <3>1, <3>2 DEF G!IsInjective
    <3>4. 1 < m
      BY <1>8, <3>2, <3>3
    <3>5. PICK a \in DOMAIN queue, b \in DOMAIN queue :
            a < b /\ queue'[1] = queue[a] /\ queue'[m] = queue[b]
      BY <1>8, <2>1, <3>2, <3>4 DEF SameOrder
    <3>6. a = j /\ b = i
      BY <1>2, <2>2, <3>1, <3>2, <3>5 DEF G!IsInjective
    <3>7. QED
      BY <1>2, <3>1, <3>5, <3>6
  <2>7. \A i \in 1 .. (k + 1) - 1 : queue[i] \in live(k)
    BY <1>2, <2>6
  <2>8. k + 1 \in DOMAIN queue
    BY <1>2, <2>4
  <2>9. queue'[1] = queue[k + 1]
    BY <1>8, <2>5, <2>7, <2>8
  <2>10. QED
    BY <1>1, <2>1, <2>4, <2>9
<1>11. ASSUME NEW i \in DOMAIN queue, NEW j \in DOMAIN queue, i < j, queue[j] \in granted'
       PROVE  queue[i] \in granted' \cup expired
  <2>1. queue[j] \in live(k)
    BY <1>1, <1>11 DEF Ready, G!Range
  <2>2. j \in 1 .. k
    BY <1>2, <2>1 DEF G!First, G!IsInjective
  <2>3. i \in 1 .. k
    BY <1>2, <1>11, <2>2
  <2>4. QED
    BY <1>1, <2>3 DEF G!First
<1>12. granted \subseteq granted' /\ granted' \subseteq granted \cup (G!Range(queue) \ expired)
  BY <1>1, <1>4
<1>13. QED
  BY <1>6, <1>7, <1>8, <1>9, <1>10, <1>11, <1>12

-----------------------------------------------------------------------------
(* What holds in every queued semaphore, whatever thread does a step, and   *)
(* what each class adds.                                                    *)

Queued == {"fair", "priority", "async"}

QueuedInv ==
  /\ Types
  /\ queue \in Seq(Threads) /\ granted \subseteq Threads
  /\ lost \in Nat /\ gaveUp \in BOOLEAN
  /\ \A t \in granted : wants[t] > 0
  /\ G!PermitsAccounted
  /\ G!QueueIsWaiting

ClassInv ==
  /\ QueuedInv
  /\ subject # "async" => \A t \in expired : wants[t] > 0
  /\ subject = "async" => granted \cap expired = {}
  /\ subject = "priority" => Sorted(queue)
  /\ subject # "async" => G!NothingLost
  /\ subject = "priority" => G!FirstWaitsForMore
  /\ subject = "async" => ~G!FirstFits

(* The first in line does not fit: what it means for the numbers.           *)
LEMMA HeadTooLarge ==
  ASSUME Types, queue \in Seq(Threads), ~G!FirstFits, queue # <<>>, Head(queue) \notin expired
  PROVE  permits < wants[Head(queue)]
<1>1. Head(queue) \in Threads
  OBVIOUS
<1>2. wants[Head(queue)] \in Nat /\ permits \in Nat
  BY <1>1, ClientsAssumption DEF Types
<1>3. QED
  BY <1>2 DEF G!FirstFits

LEMMA HeadFitsNot ==
  ASSUME Types', queue' \in Seq(Threads),
         queue' # <<>> /\ Head(queue') \notin expired' => permits' < wants'[Head(queue')]
  PROVE  ~G!FirstFits'
<1>1. queue' # <<>> => Head(queue') \in Threads
  OBVIOUS
<1>2. (queue' # <<>> => wants'[Head(queue')] \in Nat) /\ permits' \in Nat
  BY <1>1, ClientsAssumption DEF Types
<1>3. QED
  BY <1>2 DEF G!FirstFits

(* Fewer permits, and the same first in line that wants as many.            *)
LEMMA FirstStays ==
  ASSUME Types, queue \in Seq(Threads), Types', queue' \in Seq(Threads), G!FirstFits',
         queue # <<>>, Head(queue') = Head(queue), permits' <= permits,
         wants'[Head(queue)] = wants[Head(queue)], expired \subseteq expired'
  PROVE  G!FirstFits
<1>1. Head(queue) \in Threads
  OBVIOUS
<1>2. wants[Head(queue)] \in Nat /\ permits \in Nat /\ permits' \in Nat
  BY <1>1, ClientsAssumption DEF Types
<1>3. QED
  BY <1>2 DEF G!FirstFits

LEMMA QueuedFacts ==
  ASSUME QueuedInv
  PROVE  /\ MaxPermits \in Nat /\ permits \in 0 .. MaxPermits
         /\ G!Total(Threads, held) \in Nat /\ G!Total(granted, wants) \in Nat
         /\ MaxPermits = permits + lost + G!Total(Threads, held) + G!Total(granted, wants)
         /\ \A t \in Threads : held[t] <= G!Total(Threads, held)
         /\ \A t \in granted :
              /\ wants[t] \in 1 .. MaxPermits /\ G!Total(granted \ {t}, wants) \in Nat
              /\ G!Total(granted, wants) = G!Total(granted \ {t}, wants) + wants[t]
         /\ \A t \in Threads : t \in G!Range(queue) <=> wants[t] > 0 /\ t \notin granted
<1>1. MaxPermits \in Nat /\ permits \in 0 .. MaxPermits
  BY ClientsAssumption DEF QueuedInv, Types
<1>2. G!Total(Threads, held) \in Nat /\ G!Total(granted, wants) \in Nat
  BY TotalIs DEF QueuedInv
<1>3. MaxPermits = permits + lost + G!Total(Threads, held) + G!Total(granted, wants)
  BY DEF QueuedInv, G!PermitsAccounted
<1>4. \A t \in Threads : held[t] <= G!Total(Threads, held)
  BY HeldIsTaken DEF QueuedInv
<1>5. ASSUME NEW t \in granted
      PROVE  /\ wants[t] \in 1 .. MaxPermits /\ G!Total(granted \ {t}, wants) \in Nat
             /\ G!Total(granted, wants) = G!Total(granted \ {t}, wants) + wants[t]
  <2>1. t \in Threads /\ wants[t] \in 1 .. MaxPermits
    BY <1>1 DEF QueuedInv, Types
  <2>2. granted \in SUBSET Threads /\ wants[t] \in 0 .. MaxPermits
    BY <2>1 DEF QueuedInv
  <2>3. G!Total(granted, wants) = G!Total(granted \ {t}, wants) + wants[t]
    BY <2>2, TotalRemove
  <2>4. G!Total(granted \ {t}, wants) \in Nat
    BY <2>2, TotalIs
  <2>5. QED
    BY <2>1, <2>3, <2>4
<1>6. \A t \in Threads : t \in G!Range(queue) <=> wants[t] > 0 /\ t \notin granted
  BY DEF QueuedInv, G!QueueIsWaiting
<1>7. QED
  BY <1>1, <1>2, <1>3, <1>4, <1>5, <1>6

(* A thread wants something else: nothing changes for the granted others.   *)
LEMMA WantsChanges ==
  ASSUME QueuedInv, NEW t \in Threads, NEW v \in 0 .. MaxPermits,
         wants' = [wants EXCEPT ![t] = v]
  PROVE  /\ wants' \in [Threads -> 0 .. MaxPermits]
         /\ \A s \in Threads : wants'[s] = IF s = t THEN v ELSE wants[s]
         /\ G!Total(granted \ {t}, wants') = G!Total(granted \ {t}, wants)
<1>1. /\ wants' \in [Threads -> 0 .. MaxPermits]
      /\ \A s \in Threads : wants'[s] = IF s = t THEN v ELSE wants[s]
  BY DEF QueuedInv, Types
<1>2. granted \ {t} \in SUBSET Threads
  BY DEF QueuedInv
<1>3. \A s \in granted \ {t} : wants[s] = wants'[s]
  BY <1>1, <1>2
<1>4. G!Total(granted \ {t}, wants) = G!Total(granted \ {t}, wants')
  BY <1>2, <1>3, TotalSame
<1>5. QED
  BY <1>1, <1>4

(* The queue with one thread more at the end. *)
LEMMA Appended ==
  ASSUME NEW q \in Seq(Threads), G!IsInjective(q), NEW t \in Threads, t \notin G!Range(q),
         NEW r, r = Append(q, t)
  PROVE  /\ r \in Seq(Threads) /\ G!IsInjective(r)
         /\ G!Range(r) = G!Range(q) \cup {t}
         /\ r # <<>> /\ Head(r) = IF q = <<>> THEN t ELSE Head(q)
<1> DEFINE n == Len(q)
<1>1. /\ n \in Nat /\ r \in Seq(Threads) /\ Len(r) = n + 1 /\ r[n + 1] = t
      /\ \A i \in 1 .. n : r[i] = q[i]
  OBVIOUS
<1>2. DOMAIN q = 1 .. n /\ DOMAIN r = 1 .. n + 1
  BY <1>1
<1>3. r # <<>> /\ Head(r) = IF q = <<>> THEN t ELSE Head(q)
  BY <1>1
<1> HIDE DEF n
<1>4. G!IsInjective(r)
  BY <1>1, <1>2 DEF G!IsInjective, G!Range
<1>5. G!Range(r) = G!Range(q) \cup {t}
  BY <1>1, <1>2 DEF G!Range
<1>6. QED
  BY <1>1, <1>3, <1>4, <1>5

-----------------------------------------------------------------------------
(* The steps that all threads do alike. *)

LEMMA StepProceed ==
  ASSUME ClassInv, NEW t \in Threads, G!Proceed(t), subject' = subject, subject # "async"
  PROVE  ClassInv'
<1> USE DEF ClassInv
<1>1. /\ t \in granted /\ t \notin expired /\ wants[t] \in 0 .. MaxPermits /\ wants[t] > 0
      /\ held[t] = 0
      /\ held' = [held EXCEPT ![t] = wants[t]] /\ wants' = [wants EXCEPT ![t] = 0]
      /\ granted' = granted \ {t}
      /\ UNCHANGED <<permits, queue, expired, lost, gaveUp>>
  BY DEF G!Proceed, QueuedInv, Types
<1>2. /\ held' \in [Threads -> 0 .. MaxPermits]
      /\ \A s \in Threads : held'[s] = IF s = t THEN wants[t] ELSE held[s]
      /\ G!Total(Threads, held') = G!Total(Threads, held) - held[t] + wants[t]
      /\ G!Total(Threads, held) \in Nat /\ G!Total(Threads, held') \in Nat
  BY <1>1, HeldChanges DEF QueuedInv
<1>3. 0 \in 0 .. MaxPermits
  BY ClientsAssumption
<1>4. /\ wants' \in [Threads -> 0 .. MaxPermits]
      /\ \A s \in Threads : wants'[s] = IF s = t THEN 0 ELSE wants[s]
      /\ G!Total(granted', wants') = G!Total(granted \ {t}, wants)
  BY <1>1, <1>3, WantsChanges
<1>5. Types'
  BY <1>1, <1>2, <1>4 DEF QueuedInv, Types
<1>6. G!PermitsAccounted'
  <2>1. /\ MaxPermits = permits + lost + G!Total(Threads, held) + G!Total(granted, wants)
        /\ G!Total(granted, wants) = G!Total(granted \ {t}, wants) + wants[t]
        /\ G!Total(granted \ {t}, wants) \in Nat /\ MaxPermits \in Nat
        /\ permits \in Nat /\ lost \in Nat /\ wants[t] \in Nat
    <3>1. QueuedInv /\ lost \in Nat /\ wants[t] \in 0 .. MaxPermits
      BY <1>1 DEF QueuedInv
    <3> HIDE DEF ClassInv
    <3>2. QED
      BY <1>1, <3>1, QueuedFacts
  <2>2. /\ permits' = permits /\ lost' = lost
        /\ G!Total(Threads, held') = G!Total(Threads, held) + wants[t]
    BY <1>1, <1>2, <2>1
  <2>3. MaxPermits = permits' + lost' + G!Total(Threads, held') + G!Total(granted', wants')
    BY <1>2, <1>4, <2>1, <2>2
  <2>4. QED
    BY <2>3 DEF G!PermitsAccounted
<1>7. G!QueueIsWaiting'
  BY <1>1, <1>4 DEF QueuedInv, G!QueueIsWaiting
<1>8. QueuedInv'
  BY <1>1, <1>4, <1>5, <1>6, <1>7 DEF QueuedInv
<1>9. \A s \in expired' : wants'[s] > 0
  BY <1>1, <1>4 DEF QueuedInv, Types
<1>10. G!FirstFits' => G!FirstFits
  <2>1. queue # <<>> => Head(queue) \in G!Range(queue) /\ Head(queue) \in Threads
    BY DEF QueuedInv, G!Range
  <2>2. queue # <<>> => wants'[Head(queue)] = wants[Head(queue)]
    BY <1>1, <1>4, <2>1, QueuedFacts
  <2>3. QED
    BY <1>1, <2>2 DEF G!FirstFits
<1>11. QED
  BY <1>1, <1>8, <1>9, <1>10 DEF Sorted, G!NothingLost, G!FirstWaitsForMore

LEMMA StepQueuedExpire ==
  ASSUME ClassInv, NEW t \in Threads, G!Expire(t), subject' = subject, subject # "async"
  PROVE  ClassInv'
<1> USE DEF ClassInv
<1>1. /\ wants[t] > 0 /\ expired' = expired \cup {t}
      /\ UNCHANGED <<permits, held, wants, queue, granted, lost, gaveUp>>
  BY DEF G!Expire
<1>2. QueuedInv'
  BY <1>1 DEF QueuedInv, Types, G!PermitsAccounted, G!QueueIsWaiting
<1>3. QED
  BY <1>1, <1>2 DEF G!FirstFits, G!FirstWaitsForMore, G!NothingLost, Sorted

LEMMA StepGiveUp ==
  ASSUME ClassInv, NEW t \in Threads, G!GiveUp(t), subject' = subject, subject # "async"
  PROVE  ClassInv'
<1> USE DEF ClassInv
<1>1. /\ t \in expired /\ wants[t] > 0 /\ wants[t] \in 0 .. MaxPermits
      /\ G!Without(queue', queue, {t})
      /\ expired' = expired \ {t} /\ wants' = [wants EXCEPT ![t] = 0]
      /\ lost' = IF t \in granted THEN lost + wants[t] ELSE lost
      /\ granted' = granted \ {t} /\ gaveUp' = TRUE
      /\ UNCHANGED <<permits, held>>
  BY DEF G!GiveUp, QueuedInv, Types
<1>2. queue \in Seq(Threads) /\ G!IsInjective(queue)
  BY DEF QueuedInv, G!QueueIsWaiting
<1>3. /\ queue' \in Seq(Threads) /\ G!IsInjective(queue')
      /\ G!Range(queue') = G!Range(queue) \ {t}
      /\ SameOrder(queue, queue')
  BY <1>1, <1>2, WithoutKeeps
<1>4. 0 \in 0 .. MaxPermits
  BY ClientsAssumption
<1>5. /\ wants' \in [Threads -> 0 .. MaxPermits]
      /\ \A s \in Threads : wants'[s] = IF s = t THEN 0 ELSE wants[s]
      /\ G!Total(granted', wants') = G!Total(granted \ {t}, wants)
  BY <1>1, <1>4, WantsChanges
<1>6. Types'
  BY <1>1, <1>5 DEF QueuedInv, Types
<1>7. G!PermitsAccounted'
  <2>1. MaxPermits = permits + lost' + G!Total(Threads, held) + G!Total(granted', wants')
    <3>1. CASE t \in granted
      <4>1. /\ MaxPermits = permits + lost + G!Total(Threads, held) + G!Total(granted, wants)
            /\ G!Total(granted, wants) = G!Total(granted \ {t}, wants) + wants[t]
            /\ G!Total(granted \ {t}, wants) \in Nat /\ G!Total(Threads, held) \in Nat
            /\ permits \in 0 .. MaxPermits /\ MaxPermits \in Nat
        BY <3>1, QueuedFacts
      <4>2. lost \in Nat /\ lost' = lost + wants[t]
        BY <1>1, <3>1 DEF QueuedInv
      <4>3. G!Total(granted', wants') = G!Total(granted \ {t}, wants)
        BY <1>5
      <4>4. wants[t] \in 0 .. MaxPermits
        BY <1>1
      <4>5. QED
        BY <4>1, <4>2, <4>3, <4>4
    <3>2. CASE t \notin granted
      <4>1. granted \ {t} = granted
        BY <3>2
      <4>2. G!Total(granted \ {t}, wants) = G!Total(granted, wants)
        BY <4>1, Zenon
      <4>3. QED
        BY <1>1, <1>5, <3>2, <4>2, QueuedFacts
    <3>3. QED
      BY <3>1, <3>2
  <2>2. G!Total(Threads, held') = G!Total(Threads, held)
    BY <1>1
  <2>3. QED
    BY <1>1, <2>1, <2>2 DEF G!PermitsAccounted
<1>8. G!QueueIsWaiting'
  BY <1>1, <1>3, <1>5 DEF QueuedInv, G!QueueIsWaiting
<1>9. QueuedInv'
  BY <1>1, <1>3, <1>5, <1>6, <1>7, <1>8 DEF QueuedInv
<1>10. subject = "priority" => Sorted(queue')
  BY <1>3 DEF Sorted, SameOrder
<1>11. \A s \in expired' : wants'[s] > 0
  BY <1>1, <1>5 DEF QueuedInv, Types
<1>12. G!FirstWaitsForMore' /\ G!NothingLost'
  BY <1>1 DEF G!FirstWaitsForMore, G!NothingLost
<1>13. QED
  BY <1>9, <1>10, <1>11, <1>12

-----------------------------------------------------------------------------
(* The steps that serve a queue: n permits are there to be granted, R are   *)
(* those who wait.                                                          *)

LEMMA Balance ==
  ASSUME QueuedInv, NEW n \in Nat, permits' \in Nat, granted' \subseteq Threads,
         lost' = lost,
         n + G!Total(Threads, held') = permits + G!Total(Threads, held),
         permits' + G!Total(granted', wants') = n + G!Total(granted, wants)
  PROVE  G!PermitsAccounted'
<1>1. /\ G!Total(Threads, held) \in Nat /\ G!Total(Threads, held') \in Nat
      /\ G!Total(granted, wants) \in Nat /\ G!Total(granted', wants') \in Nat
  BY TotalIs DEF QueuedInv
<1>2. permits \in Nat /\ lost \in Nat /\ MaxPermits \in Nat
  BY ClientsAssumption DEF QueuedInv, Types
<1>3. MaxPermits = permits + lost + G!Total(Threads, held) + G!Total(granted, wants)
  BY DEF QueuedInv, G!PermitsAccounted
<1>4. MaxPermits = permits' + lost + G!Total(Threads, held') + G!Total(granted', wants')
  BY <1>1, <1>2, <1>3
<1>5. QED
  BY <1>4 DEF G!PermitsAccounted

LEMMA Settled ==
  ASSUME QueuedInv, NEW n \in Nat, NEW R \in SUBSET Threads,
         R = {t \in Threads : wants'[t] > 0} \ granted,
         Types', UNCHANGED <<lost, gaveUp>>,
         \A t \in granted : wants'[t] > 0,
         n + G!Total(Threads, held') = permits + G!Total(Threads, held),
         permits' + G!Total(granted', wants') = n + G!Total(granted, wants),
         granted \subseteq granted', granted' \subseteq granted \cup R,
         queue' \in Seq(Threads), G!IsInjective(queue'),
         G!Range(queue') = R \ granted'
  PROVE  QueuedInv'
<1>1. granted' \subseteq Threads /\ granted \subseteq Threads
  BY DEF QueuedInv
<1>2. permits' \in Nat
  BY ClientsAssumption DEF Types
<1>6. G!PermitsAccounted'
  BY <1>1, <1>2, Balance
<1>7. G!QueueIsWaiting'
  BY <1>1 DEF G!QueueIsWaiting
<1>8. \A t \in granted' : wants'[t] > 0
  OBVIOUS
<1>9. QED
  BY <1>1, <1>6, <1>7, <1>8 DEF QueuedInv

LEMMA ReleaseAdds ==
  ASSUME QueuedInv, NEW t \in Threads, NEW n \in 1 .. MaxPermits, n <= held[t],
         held' = [held EXCEPT ![t] = held[t] - n]
  PROVE  /\ held' \in [Threads -> 0 .. MaxPermits]
         /\ \A s \in Threads : wants[s] > 0 => held'[s] = 0
         /\ G!Capped(permits + n) = permits + n /\ permits + n \in 0 .. MaxPermits
         /\ permits + n \in Nat
         /\ (permits + n) + G!Total(Threads, held') = permits + G!Total(Threads, held)
<1>1. MaxPermits \in Nat /\ n \in Nat /\ held[t] \in Nat /\ permits \in Nat
  BY ClientsAssumption DEF QueuedInv, Types
<1>2. held[t] - n \in 0 .. MaxPermits
  BY <1>1 DEF QueuedInv, Types
<1>3. /\ held' \in [Threads -> 0 .. MaxPermits]
      /\ \A s \in Threads : held'[s] = IF s = t THEN held[t] - n ELSE held[s]
      /\ G!Total(Threads, held') = G!Total(Threads, held) - held[t] + (held[t] - n)
      /\ G!Total(Threads, held) \in Nat
  BY <1>2, HeldChanges DEF QueuedInv
<1>4. \A s \in Threads : wants[s] > 0 => held'[s] = 0
  <2>1. wants[t] = 0
    <3>1. held[t] # 0 /\ wants[t] \in Nat
      BY <1>1 DEF QueuedInv, Types
    <3>2. wants[t] > 0 => held[t] = 0
      BY DEF QueuedInv, Types
    <3>3. QED
      BY <3>1, <3>2
  <2>2. QED
    BY <1>3, <2>1 DEF QueuedInv, Types
<1>5. permits + n <= MaxPermits
  <2>1. /\ MaxPermits = permits + lost + G!Total(Threads, held) + G!Total(granted, wants)
        /\ held[t] <= G!Total(Threads, held) /\ G!Total(granted, wants) \in Nat
    BY QueuedFacts
  <2>2. lost \in Nat
    BY DEF QueuedInv
  <2>3. QED
    BY <1>1, <1>3, <2>1, <2>2
<1>6. G!Capped(permits + n) = permits + n
  BY <1>1, <1>5 DEF G!Capped
<1>7. (permits + n) + G!Total(Threads, held') = permits + G!Total(Threads, held)
  BY <1>1, <1>3
<1>8. QED
  BY <1>1, <1>3, <1>4, <1>5, <1>6, <1>7

LEMMA QueueReady ==
  ASSUME QueuedInv, NEW n \in 0 .. MaxPermits
  PROVE  /\ Ready(queue, wants, n)
         /\ G!Range(queue) = {t \in Threads : wants[t] > 0} \ granted
BY DEF QueuedInv, Types, Ready, G!QueueIsWaiting

(* FairSemaphore *)

LEMMA StepFairAcquire ==
  ASSUME ClassInv, NEW t \in Threads, NEW n \in 1 .. MaxPermits, G!FairAcquire(t, n),
         subject = "fair", subject' = subject
  PROVE  ClassInv'
<1> USE DEF ClassInv
<1>1. /\ wants[t] = 0 /\ held[t] = 0 /\ wants' = [wants EXCEPT ![t] = n]
      /\ queue' = Append(queue, t)
      /\ UNCHANGED <<permits, held, granted, expired, lost, gaveUp>>
  BY DEF G!FairAcquire
<1>2. t \notin granted /\ t \notin G!Range(queue)
  BY <1>1, QueuedFacts DEF QueuedInv
<1>3. n \in 0 .. MaxPermits /\ n > 0
  OBVIOUS
<1>4. /\ wants' \in [Threads -> 0 .. MaxPermits]
      /\ \A s \in Threads : wants'[s] = IF s = t THEN n ELSE wants[s]
      /\ G!Total(granted \ {t}, wants') = G!Total(granted \ {t}, wants)
  BY <1>1, <1>3, WantsChanges
<1>5. queue \in Seq(Threads) /\ G!IsInjective(queue)
  BY DEF QueuedInv, G!QueueIsWaiting
<1>6. /\ queue' \in Seq(Threads) /\ G!IsInjective(queue')
      /\ G!Range(queue') = G!Range(queue) \cup {t}
  BY <1>1, <1>2, <1>5, Appended
<1>7. G!PermitsAccounted'
  <2>1. granted \ {t} = granted
    BY <1>2
  <2>2. G!Total(granted', wants') = G!Total(granted, wants)
    BY <1>1, <1>4, <2>1
  <2>3. QED
    BY <1>1, <2>2 DEF QueuedInv, G!PermitsAccounted
<1>8. G!QueueIsWaiting'
  BY <1>1, <1>2, <1>3, <1>4, <1>6 DEF QueuedInv, G!QueueIsWaiting
<1>9. Types'
  BY <1>1, <1>4 DEF QueuedInv, Types
<1>10. QueuedInv'
  BY <1>1, <1>2, <1>4, <1>6, <1>7, <1>8, <1>9 DEF QueuedInv
<1>11. \A s \in expired' : wants'[s] > 0
  BY <1>1, <1>3, <1>4 DEF QueuedInv, Types
<1>12. QED
  BY <1>1, <1>10, <1>11 DEF G!NothingLost

LEMMA FairServed ==
  ASSUME ClassInv, subject = "fair", subject' = subject,
         NEW n \in 0 .. MaxPermits, n \in Nat, G!ProcessQueue(n),
         UNCHANGED <<wants, expired, lost, gaveUp>>,
         held' \in [Threads -> 0 .. MaxPermits],
         \A s \in Threads : wants[s] > 0 => held'[s] = 0,
         n + G!Total(Threads, held') = permits + G!Total(Threads, held)
  PROVE  ClassInv'
<1> USE DEF ClassInv
<1>1. /\ Ready(queue, wants, n)
      /\ G!Range(queue) = {t \in Threads : wants[t] > 0} \ granted
  BY QueueReady
<1>2. /\ permits' \in 0 .. MaxPermits
      /\ permits' + G!Total(granted', wants) = n + G!Total(granted, wants)
      /\ granted \subseteq granted' /\ granted' \subseteq granted \cup G!Range(queue)
      /\ queue' \in Seq(Threads) /\ G!IsInjective(queue')
      /\ G!Range(queue') = G!Range(queue) \ granted'
  BY <1>1, QueueServed
<1>3. wants' = wants
  OBVIOUS
<1>4. G!Total(granted', wants') = G!Total(granted', wants)
  BY <1>3
<1>5. Types'
  BY <1>2 DEF QueuedInv, Types
<1>6. \A t \in granted : wants'[t] > 0
  BY DEF QueuedInv
<1>7. G!Range(queue) \in SUBSET Threads
  BY <1>1
<1>8. G!Range(queue) = {t \in Threads : wants'[t] > 0} \ granted
  BY <1>1
<1>9. QueuedInv'
  BY <1>2, <1>4, <1>5, <1>6, <1>7, <1>8, Settled
<1>10. QED
  BY <1>9 DEF G!NothingLost

LEMMA StepFairRelease ==
  ASSUME ClassInv, NEW t \in Threads, NEW n \in 1 .. MaxPermits, G!FairRelease(t, n),
         subject = "fair", subject' = subject
  PROVE  ClassInv'
<1>1. /\ n <= held[t] /\ held' = [held EXCEPT ![t] = held[t] - n]
      /\ G!ProcessQueue(G!Capped(permits + n))
      /\ UNCHANGED <<wants, expired, lost, gaveUp>>
  BY DEF G!FairRelease
<1>2. /\ held' \in [Threads -> 0 .. MaxPermits]
      /\ \A s \in Threads : wants[s] > 0 => held'[s] = 0
      /\ G!Capped(permits + n) = permits + n /\ permits + n \in 0 .. MaxPermits
      /\ permits + n \in Nat
      /\ (permits + n) + G!Total(Threads, held') = permits + G!Total(Threads, held)
  BY <1>1, ReleaseAdds DEF ClassInv
<1>3. G!ProcessQueue(permits + n)
  BY <1>1, <1>2
<1>4. QED
  BY <1>1, <1>2, <1>3, FairServed

LEMMA StepNudge ==
  ASSUME ClassInv, G!Nudge, subject = "fair", subject' = subject
  PROVE  ClassInv'
<1>1. /\ permits = MaxPermits /\ G!ProcessQueue(G!Capped(permits + 1))
      /\ UNCHANGED <<held, wants, expired, lost, gaveUp>>
  BY DEF G!Nudge
<1>2. G!Capped(permits + 1) = permits /\ permits \in 0 .. MaxPermits /\ permits \in Nat
  BY ClientsAssumption, <1>1 DEF G!Capped
<1>3. /\ held' \in [Threads -> 0 .. MaxPermits]
      /\ \A s \in Threads : wants[s] > 0 => held'[s] = 0
      /\ permits + G!Total(Threads, held') = permits + G!Total(Threads, held)
  BY <1>1 DEF ClassInv, QueuedInv, Types
<1>4. G!ProcessQueue(permits)
  BY <1>1, <1>2
<1>5. QED
  BY <1>1, <1>2, <1>3, <1>4, FairServed

(* PrioritySemaphore *)

LEMMA Inserted ==
  ASSUME NEW s \in Seq(Threads), G!IsInjective(s), NEW t \in Threads, t \notin G!Range(s),
         NEW i \in 1 .. Len(s) + 1, NEW q, q = G!InsertAt(s, i, t)
  PROVE  /\ q \in Seq(Threads) /\ Len(q) = Len(s) + 1 /\ G!IsInjective(q)
         /\ \A j \in 1 .. Len(s) + 1 :
              q[j] = IF j < i THEN s[j] ELSE IF j = i THEN t ELSE s[j - 1]
         /\ G!Range(q) = G!Range(s) \cup {t}
<1> DEFINE n == Len(s)
           front == SubSeq(s, 1, i - 1)
           back == SubSeq(s, i, Len(s))
<1>1. n \in Nat /\ DOMAIN s = 1 .. n
  OBVIOUS
<1>2. /\ front \in Seq(Threads) /\ Len(front) = i - 1
      /\ \A j \in 1 .. i - 1 : front[j] = s[j]
  OBVIOUS
<1>3. /\ back \in Seq(Threads) /\ Len(back) = n + 1 - i
      /\ \A j \in 1 .. n + 1 - i : back[j] = s[i + j - 1]
  OBVIOUS
<1>4. q = (front \o <<t>>) \o back
  BY DEF G!InsertAt
<1> HIDE DEF front, back
<1>5. /\ front \o <<t>> \in Seq(Threads) /\ Len(front \o <<t>>) = i
      /\ \A j \in 1 .. i - 1 : (front \o <<t>>)[j] = s[j]
      /\ (front \o <<t>>)[i] = t
  BY <1>2
<1>6. /\ q \in Seq(Threads) /\ Len(q) = n + 1
      /\ \A j \in 1 .. i : q[j] = (front \o <<t>>)[j]
      /\ \A j \in i + 1 .. n + 1 : q[j] = back[j - i]
  <2> DEFINE a == front \o <<t>>
  <2>1. a \in Seq(Threads) /\ Len(a) = i /\ i \in Nat /\ q = a \o back
    BY <1>1, <1>4, <1>5
  <2> HIDE DEF a
  <2>2. q \in Seq(Threads) /\ Len(q) = i + (n + 1 - i)
    BY <1>1, <1>3, <2>1
  <2>3. \A j \in 1 .. i : q[j] = a[j]
    BY <1>1, <1>3, <2>1
  <2>4. ASSUME NEW j \in i + 1 .. n + 1 PROVE q[j] = back[j - i]
    BY <1>1, <1>3, <2>1
  <2>5. Len(q) = n + 1
    BY <1>1, <2>1, <2>2
  <2>6. \A j \in 1 .. i : q[j] = (front \o <<t>>)[j]
    BY <2>3 DEF a
  <2>7. QED
    BY <2>2, <2>4, <2>5, <2>6
<1>7. \A j \in 1 .. n + 1 : q[j] = IF j < i THEN s[j] ELSE IF j = i THEN t ELSE s[j - 1]
  <2>1. ASSUME NEW j \in 1 .. n + 1, j < i PROVE q[j] = s[j]
    BY <1>1, <1>5, <1>6, <2>1
  <2>2. q[i] = t
    BY <1>5, <1>6
  <2>3. ASSUME NEW j \in 1 .. n + 1, j > i PROVE q[j] = s[j - 1]
    <3>1. j \in i + 1 .. n + 1 /\ j - i \in 1 .. n + 1 - i /\ i + (j - i) - 1 = j - 1
      BY <1>1, <2>3
    <3>2. QED
      BY <1>3, <1>6, <3>1
  <2>4. QED
    BY <1>1, <2>1, <2>2, <2>3
<1>8. DOMAIN q = 1 .. n + 1
  BY <1>6
<1> HIDE DEF n
<1>9. \A j, k \in 1 .. n : s[j] = s[k] => j = k
  BY <1>1 DEF G!IsInjective
<1>10. \A j \in 1 .. n : s[j] # t
  BY <1>1 DEF G!Range
<1>11. ASSUME NEW j \in 1 .. n + 1, NEW k \in 1 .. n + 1, q[j] = q[k] PROVE j = k
  <2> DEFINE At(m) == IF m < i THEN m ELSE m - 1
  <2>1. \A m \in 1 .. n + 1 : m # i => At(m) \in 1 .. n /\ q[m] = s[At(m)]
    BY <1>1, <1>7
  <2>2. q[i] = t /\ i \in 1 .. n + 1
    BY <1>5, <1>6, <1>7 DEF n
  <2>3. CASE j = i \/ k = i
    BY <1>10, <1>11, <2>1, <2>2, <2>3
  <2>4. CASE j # i /\ k # i
    <3>1. At(j) = At(k)
      BY <1>9, <1>11, <2>1, <2>4
    <3>2. QED
      BY <1>1, <2>4, <3>1
  <2>5. QED
    BY <2>3, <2>4
<1>12. ASSUME NEW r \in G!Range(s) \cup {t} PROVE r \in G!Range(q)
  <2>1. CASE r = t
    <3>1. q[i] = t /\ i \in 1 .. n + 1
      BY <1>5, <1>6 DEF n
    <3>2. QED
      BY <1>8, <2>1, <3>1 DEF G!Range
  <2>2. CASE r \in G!Range(s)
    <3>1. PICK j \in 1 .. n : r = s[j]
      BY <1>1, <2>2 DEF G!Range
    <3>2. CASE j < i
      BY <1>1, <1>7, <1>8, <3>1, <3>2 DEF G!Range
    <3>3. CASE j >= i
      <4>1. j + 1 \in 1 .. n + 1 /\ q[j + 1] = s[j]
        BY <1>1, <1>7, <3>1, <3>3
      <4>2. QED
        BY <1>8, <3>1, <4>1 DEF G!Range
    <3>4. QED
      BY <1>1, <3>2, <3>3
  <2>3. QED
    BY <1>12, <2>1, <2>2
<1>13. ASSUME NEW r \in G!Range(q) PROVE r \in G!Range(s) \cup {t}
  <2>1. PICK j \in 1 .. n + 1 : r = q[j]
    BY <1>8 DEF G!Range
  <2>2. j # i => (IF j < i THEN j ELSE j - 1) \in 1 .. n
    BY <1>1
  <2>3. QED
    BY <1>1, <1>7, <2>1, <2>2 DEF G!Range
<1>14. G!IsInjective(q)
  BY <1>8, <1>11 DEF G!IsInjective
<1>15. G!Range(q) = G!Range(s) \cup {t}
  BY <1>12, <1>13
<1>16. QED
  BY <1>6, <1>7, <1>14, <1>15 DEF n

LEMMA InsertedSorted ==
  ASSUME NEW t \in Threads, queue \in Seq(Threads),
         NEW i \in 1 .. Len(queue) + 1, Sorted(queue), G!Belongs(t, i),
         NEW q \in Seq(Threads), Len(q) = Len(queue) + 1,
         \A j \in 1 .. Len(queue) + 1 :
           q[j] = IF j < i THEN queue[j] ELSE IF j = i THEN t ELSE queue[j - 1]
  PROVE  Sorted(q)
<1> DEFINE n == Len(queue)
<1>1. n \in Nat /\ DOMAIN queue = 1 .. n /\ DOMAIN q = 1 .. n + 1
  OBVIOUS
<1>2. \A j \in 1 .. n : queue[j] \in Threads
  BY <1>1
<1>3. Priority[t] \in Int /\ \A j \in 1 .. n : Priority[queue[j]] \in Int
  BY <1>2, PriorityAssumption
<1>4. /\ \A j \in 1 .. i - 1 : Priority[queue[j]] <= Priority[t]
      /\ \A j \in i .. n : Priority[queue[j]] > Priority[t]
      /\ \A j, k \in 1 .. n : j < k => Priority[queue[j]] <= Priority[queue[k]]
  BY <1>1 DEF G!Belongs, Sorted
<1>5. i \in 1 .. n + 1 /\ \A j \in 1 .. n + 1 :
        q[j] = IF j < i THEN queue[j] ELSE IF j = i THEN t ELSE queue[j - 1]
  OBVIOUS
<1> HIDE DEF n
<1>6. ASSUME NEW j \in 1 .. n + 1, NEW k \in 1 .. n + 1, j < k
      PROVE  Priority[q[j]] <= Priority[q[k]]
  <2>1. CASE k < i
    BY <1>1, <1>4, <1>5, <1>6, <2>1
  <2>2. CASE k = i
    <3>1. q[k] = t /\ q[j] = queue[j] /\ j \in 1 .. i - 1
      BY <1>1, <1>5, <1>6, <2>2
    <3>2. QED
      BY <1>4, <3>1
  <2>3. CASE k > i /\ j < i
    <3>1. q[k] = queue[k - 1] /\ q[j] = queue[j] /\ k - 1 \in i .. n /\ j \in 1 .. i - 1
          /\ k - 1 \in 1 .. n /\ j \in 1 .. n
      BY <1>1, <1>5, <2>3
    <3>2. QED
      BY <1>3, <1>4, <3>1
  <2>4. CASE k > i /\ j = i
    <3>1. q[k] = queue[k - 1] /\ q[j] = t /\ k - 1 \in i .. n /\ k - 1 \in 1 .. n
      BY <1>1, <1>5, <2>4
    <3>2. QED
      BY <1>3, <1>4, <3>1
  <2>5. CASE k > i /\ j > i
    <3>1. /\ q[k] = queue[k - 1] /\ q[j] = queue[j - 1]
          /\ k - 1 \in 1 .. n /\ j - 1 \in 1 .. n /\ j - 1 < k - 1
      BY <1>1, <1>5, <1>6, <2>5
    <3>2. QED
      BY <1>4, <3>1
  <2>6. QED
    BY <1>1, <1>5, <2>1, <2>2, <2>3, <2>4, <2>5
<1>7. QED
  BY <1>1, <1>6 DEF Sorted

LEMMA HeapSettled ==
  ASSUME ClassInv, subject = "priority", subject' = subject,
         NEW q, NEW n \in 0 .. MaxPermits, n \in Nat, Sorted(q),
         G!Range(q) = {s \in Threads : wants'[s] > 0} \ granted,
         q \in Seq(Threads), G!IsInjective(q), G!ProcessHeap(q, wants', n),
         UNCHANGED <<expired, lost, gaveUp>>,
         held' \in [Threads -> 0 .. MaxPermits], wants' \in [Threads -> 0 .. MaxPermits],
         \A s \in Threads : wants'[s] > 0 => held'[s] = 0,
         \A s \in Threads : wants[s] > 0 => wants'[s] = wants[s],
         n + G!Total(Threads, held') = permits + G!Total(Threads, held)
  PROVE  ClassInv'
<1> USE DEF ClassInv
<1>1. Ready(q, wants', n)
  BY DEF Ready, QueuedInv
<1>2. /\ permits' \in 0 .. MaxPermits
      /\ permits' + G!Total(granted', wants') = n + G!Total(granted, wants')
      /\ granted \subseteq granted' /\ granted' \subseteq granted \cup G!Range(q)
      /\ queue' \in Seq(Threads) /\ G!IsInjective(queue')
      /\ G!Range(queue') = G!Range(q) \ granted'
      /\ queue' # <<>> => permits' < wants'[Head(queue')]
      /\ Sorted(queue')
  BY <1>1, HeapServed
<1>3. granted \in SUBSET Threads /\ \A s \in granted : wants[s] = wants'[s] /\ wants'[s] > 0
  BY DEF QueuedInv
<1>4. G!Total(granted, wants) = G!Total(granted, wants')
  BY <1>3, TotalSame
<1>5. permits' + G!Total(granted', wants') = n + G!Total(granted, wants)
  BY <1>2, <1>4
<1>6. Types'
  BY <1>2 DEF QueuedInv, Types
<1>7. G!Range(q) \in SUBSET Threads
  OBVIOUS
<1>8. QueuedInv'
  BY <1>2, <1>3, <1>5, <1>6, <1>7, Settled
<1>9. \A s \in expired' : wants'[s] > 0
  BY DEF QueuedInv, Types
<1>10. ~G!FirstFits'
  BY <1>2, <1>6, HeadFitsNot
<1>12. G!FirstWaitsForMore' /\ G!NothingLost'
  BY <1>10 DEF G!FirstWaitsForMore, G!NothingLost
<1>11. QED
  BY <1>2, <1>8, <1>9, <1>12

(* The heap after heappush, and where it has the threads of the old one.    *)
LEMMA HeapPushed ==
  ASSUME ClassInv, NEW t \in Threads, NEW n \in 1 .. MaxPermits,
         G!PriorityAcquire(t, n), subject = "priority"
  PROVE  /\ wants' \in [Threads -> 0 .. MaxPermits]
         /\ \A s \in Threads : wants'[s] = IF s = t THEN n ELSE wants[s]
         /\ wants[t] = 0 /\ held[t] = 0
         /\ UNCHANGED <<held, expired, lost, gaveUp>>
         /\ \E q \in Seq(Threads) :
              /\ G!IsInjective(q) /\ Sorted(q) /\ G!ProcessHeap(q, wants', permits)
              /\ G!Range(q) = {s \in Threads : wants'[s] > 0} \ granted
              /\ SameOrder(q, queue)
<1> USE DEF ClassInv
<1>1. PICK i \in 1 .. Len(queue) + 1 :
        G!Belongs(t, i) /\ G!ProcessHeap(G!InsertAt(queue, i, t), wants', permits)
  BY DEF G!PriorityAcquire
<1>2. /\ wants[t] = 0 /\ held[t] = 0 /\ wants' = [wants EXCEPT ![t] = n]
      /\ UNCHANGED <<held, expired, lost, gaveUp>>
  BY DEF G!PriorityAcquire
<1>3. n \in 0 .. MaxPermits /\ n > 0
  OBVIOUS
<1>4. /\ wants' \in [Threads -> 0 .. MaxPermits]
      /\ \A s \in Threads : wants'[s] = IF s = t THEN n ELSE wants[s]
  BY <1>2, <1>3, WantsChanges
<1>5. t \notin granted /\ t \notin G!Range(queue) /\ queue \in Seq(Threads)
      /\ G!IsInjective(queue) /\ Sorted(queue)
  BY <1>2, QueuedFacts DEF QueuedInv, G!QueueIsWaiting
<1> DEFINE q == G!InsertAt(queue, i, t)
<1>6. /\ q \in Seq(Threads) /\ Len(q) = Len(queue) + 1 /\ G!IsInjective(q)
      /\ \A j \in 1 .. Len(queue) + 1 :
           q[j] = IF j < i THEN queue[j] ELSE IF j = i THEN t ELSE queue[j - 1]
      /\ G!Range(q) = G!Range(queue) \cup {t}
  <2>1. q = G!InsertAt(queue, i, t)
    OBVIOUS
  <2> HIDE DEF q
  <2>2. QED
    BY <1>5, <2>1, Inserted
<1>7. G!ProcessHeap(q, wants', permits)
  BY <1>1
<1> HIDE DEF q
<1>8. Sorted(q)
  BY <1>1, <1>5, <1>6, InsertedSorted
<1>9. G!Range(q) = {s \in Threads : wants'[s] > 0} \ granted
  BY <1>3, <1>4, <1>5, <1>6 DEF QueuedInv, G!QueueIsWaiting
<1>10. ASSUME NEW j \in DOMAIN queue, NEW k \in DOMAIN queue, j < k
       PROVE  \E l, m \in DOMAIN q : l < m /\ q[l] = queue[j] /\ q[m] = queue[k]
  <2> DEFINE At(x) == IF x < i THEN x ELSE x + 1
  <2>1. Len(queue) \in Nat /\ DOMAIN queue = 1 .. Len(queue) /\ DOMAIN q = 1 .. Len(queue) + 1
    BY <1>5, <1>6
  <2>2. \A x \in 1 .. Len(queue) : At(x) \in 1 .. Len(queue) + 1 /\ q[At(x)] = queue[x]
    BY <1>6, <2>1
  <2>3. At(j) < At(k)
    BY <1>10, <2>1
  <2> HIDE DEF At
  <2>4. QED
    BY <1>10, <2>1, <2>2, <2>3
<1>11. SameOrder(q, queue)
  BY <1>10 DEF SameOrder
<1>12. QED
  BY <1>2, <1>4, <1>6, <1>7, <1>8, <1>9, <1>11

LEMMA StepPriorityAcquire ==
  ASSUME ClassInv, NEW t \in Threads, NEW n \in 1 .. MaxPermits,
         G!PriorityAcquire(t, n), subject = "priority", subject' = subject
  PROVE  ClassInv'
<1>1. /\ wants' \in [Threads -> 0 .. MaxPermits]
      /\ \A s \in Threads : wants'[s] = IF s = t THEN n ELSE wants[s]
      /\ wants[t] = 0 /\ held[t] = 0
      /\ UNCHANGED <<held, expired, lost, gaveUp>>
  BY HeapPushed
<1>2. PICK q \in Seq(Threads) :
        /\ G!IsInjective(q) /\ Sorted(q) /\ G!ProcessHeap(q, wants', permits)
        /\ G!Range(q) = {s \in Threads : wants'[s] > 0} \ granted
  BY HeapPushed
<1>3. permits \in 0 .. MaxPermits /\ permits \in Nat
  BY ClientsAssumption DEF ClassInv, QueuedInv, Types
<1>4. \A s \in Threads : wants[s] > 0 => wants'[s] = wants[s]
  BY <1>1
<1>5. \A s \in Threads : wants'[s] > 0 => held'[s] = 0
  BY <1>1 DEF ClassInv, QueuedInv, Types
<1>6. /\ permits + G!Total(Threads, held') = permits + G!Total(Threads, held)
      /\ held' \in [Threads -> 0 .. MaxPermits]
  BY <1>1 DEF ClassInv, QueuedInv, Types
<1>7. QED
  BY <1>1, <1>2, <1>3, <1>4, <1>5, <1>6, HeapSettled

LEMMA StepPriorityRelease ==
  ASSUME ClassInv, NEW t \in Threads, NEW n \in 1 .. MaxPermits,
         G!PriorityRelease(t, n), subject = "priority", subject' = subject
  PROVE  ClassInv'
<1> USE DEF ClassInv
<1>1. /\ n <= held[t] /\ held' = [held EXCEPT ![t] = held[t] - n]
      /\ G!ProcessHeap(queue, wants, G!Capped(permits + n))
      /\ UNCHANGED <<wants, expired, lost, gaveUp>>
  BY DEF G!PriorityRelease
<1>2. /\ held' \in [Threads -> 0 .. MaxPermits]
      /\ \A s \in Threads : wants[s] > 0 => held'[s] = 0
      /\ G!Capped(permits + n) = permits + n /\ permits + n \in 0 .. MaxPermits
      /\ permits + n \in Nat
      /\ (permits + n) + G!Total(Threads, held') = permits + G!Total(Threads, held)
  BY <1>1, ReleaseAdds
<1>3. wants' = wants
  BY <1>1
<1>4. G!ProcessHeap(queue, wants', permits + n)
  BY <1>1, <1>2, <1>3
<1>5. /\ G!Range(queue) = {s \in Threads : wants'[s] > 0} \ granted
      /\ queue \in Seq(Threads) /\ G!IsInjective(queue) /\ Sorted(queue)
      /\ wants' \in [Threads -> 0 .. MaxPermits]
  BY <1>3 DEF QueuedInv, Types, G!QueueIsWaiting
<1>6. \A s \in Threads : wants'[s] > 0 => held'[s] = 0
  BY <1>2, <1>3
<1>7. \A s \in Threads : wants[s] > 0 => wants'[s] = wants[s]
  BY <1>3
<1>8. UNCHANGED <<expired, lost, gaveUp>>
  BY <1>1
<1>9. QED
  BY <1>2, <1>4, <1>5, <1>6, <1>7, <1>8, HeapSettled

(* AsyncSemaphore *)

LEMMA StepAsyncAcquire ==
  ASSUME ClassInv, NEW t \in Threads, NEW n \in 1 .. MaxPermits, G!AsyncAcquire(t, n),
         subject = "async", subject' = subject
  PROVE  ClassInv'
<1> USE DEF ClassInv
<1>1. /\ wants[t] = 0 /\ held[t] = 0 /\ t \notin expired
      /\ UNCHANGED <<granted, expired, lost, gaveUp>>
  BY DEF G!AsyncAcquire
<1>2. t \notin granted /\ t \notin G!Range(queue)
  BY <1>1, QueuedFacts DEF QueuedInv
<1>3. /\ n \in 0 .. MaxPermits /\ n > 0 /\ n \in Nat /\ 0 \in 0 .. MaxPermits
      /\ permits \in 0 .. MaxPermits /\ MaxPermits \in Nat
  BY ClientsAssumption DEF QueuedInv, Types
<1>4. CASE permits >= n
  <2>1. /\ permits' = permits - n /\ held' = [held EXCEPT ![t] = n]
        /\ wants' = [wants EXCEPT ![t] = 0] /\ UNCHANGED queue
    BY <1>4 DEF G!AsyncAcquire, G!TakeOrWait
  <2>2. wants' = wants
    BY <1>1, <2>1 DEF QueuedInv, Types
  <2>3. /\ held' \in [Threads -> 0 .. MaxPermits]
        /\ \A s \in Threads : held'[s] = IF s = t THEN n ELSE held[s]
        /\ G!Total(Threads, held') = G!Total(Threads, held) - held[t] + n
        /\ G!Total(Threads, held) \in Nat /\ G!Total(Threads, held') \in Nat
    BY <1>3, <2>1, HeldChanges DEF QueuedInv
  <2>4. permits' \in 0 .. MaxPermits /\ permits' \in Nat
    BY <1>3, <1>4, <2>1
  <2>5. Types'
    BY <1>1, <2>2, <2>3, <2>4 DEF QueuedInv, Types
  <2>6. /\ permits + G!Total(Threads, held) = permits' + G!Total(Threads, held')
        /\ granted' = granted
    BY <1>1, <1>3, <2>1, <2>3
  <2>7. G!Total(granted', wants') = G!Total(granted, wants)
    BY <2>2, <2>6
  <2>8. G!PermitsAccounted'
    <3>1. MaxPermits = permits' + lost + G!Total(Threads, held') + G!Total(granted', wants')
      <4>1. /\ MaxPermits = permits + lost + G!Total(Threads, held) + G!Total(granted, wants)
            /\ G!Total(granted, wants) \in Nat
        BY QueuedFacts
      <4>2. lost \in Nat
        BY DEF QueuedInv
      <4>3. QED
        BY <1>3, <2>3, <2>4, <2>6, <2>7, <4>1, <4>2
    <3>2. QED
      BY <1>1, <3>1 DEF G!PermitsAccounted
  <2>9. QueuedInv'
    BY <1>1, <2>1, <2>2, <2>5, <2>8 DEF QueuedInv, G!QueueIsWaiting
  <2>10. ~G!FirstFits'
    <3>1. permits' <= permits
      BY <1>3, <2>1
    <3>2. QED
      BY <1>1, <2>1, <2>2, <2>5, <2>9, <3>1, FirstStays DEF QueuedInv, G!FirstFits
  <2>11. QED
    BY <1>1, <2>9, <2>10
<1>5. CASE ~(permits >= n)
  <2>1. /\ wants' = [wants EXCEPT ![t] = n] /\ queue' = Append(queue, t)
        /\ UNCHANGED <<permits, held>>
    BY <1>5 DEF G!AsyncAcquire, G!TakeOrWait
  <2>2. /\ wants' \in [Threads -> 0 .. MaxPermits]
        /\ \A s \in Threads : wants'[s] = IF s = t THEN n ELSE wants[s]
        /\ G!Total(granted \ {t}, wants') = G!Total(granted \ {t}, wants)
    BY <1>3, <2>1, WantsChanges
  <2>3. queue \in Seq(Threads) /\ G!IsInjective(queue)
    BY DEF QueuedInv, G!QueueIsWaiting
  <2>4. /\ queue' \in Seq(Threads) /\ G!IsInjective(queue')
        /\ G!Range(queue') = G!Range(queue) \cup {t}
        /\ queue' # <<>> /\ Head(queue') = IF queue = <<>> THEN t ELSE Head(queue)
    BY <1>2, <2>1, <2>3, Appended
  <2>5. G!PermitsAccounted'
    <3>1. granted \ {t} = granted
      BY <1>2
    <3>2. G!Total(granted', wants') = G!Total(granted, wants)
      BY <1>1, <2>2, <3>1
    <3>3. QED
      BY <1>1, <2>1, <3>2 DEF QueuedInv, G!PermitsAccounted
  <2>6. G!QueueIsWaiting'
    BY <1>1, <1>2, <1>3, <2>2, <2>4 DEF QueuedInv, G!QueueIsWaiting
  <2>7. Types'
    BY <1>1, <2>1, <2>2 DEF QueuedInv, Types
  <2>8. QueuedInv'
    BY <1>1, <1>2, <2>2, <2>4, <2>5, <2>6, <2>7 DEF QueuedInv
  <2>9. ~G!FirstFits'
    <3>1. CASE queue = <<>>
      <4>1. queue' # <<>> => permits' < wants'[Head(queue')]
        BY <1>3, <1>5, <2>1, <2>2, <2>4, <3>1
      <4>2. QED
        BY <2>4, <2>7, <4>1, HeadFitsNot
    <3>2. CASE queue # <<>>
      <4>1. Head(queue) \in G!Range(queue) /\ Head(queue) \in Threads
        BY <2>3, <3>2 DEF G!Range
      <4>2. wants'[Head(queue')] = wants[Head(queue)]
        BY <1>2, <2>2, <2>4, <3>2, <4>1
      <4>3. permits' <= permits
        BY <1>3, <2>1
      <4>4. QED
        BY <1>1, <2>3, <2>4, <2>7, <3>2, <4>2, <4>3, FirstStays DEF QueuedInv
    <3>3. QED
      BY <3>1, <3>2
  <2>10. QED
    BY <1>1, <2>8, <2>9
<1>6. QED
  BY <1>4, <1>5

LEMMA StepAsyncResume ==
  ASSUME ClassInv, NEW t \in Threads, G!AsyncResume(t),
         subject = "async", subject' = subject
  PROVE  ClassInv'
<1> USE DEF ClassInv
<1> DEFINE n == wants[t]
<1>1. /\ t \in granted /\ lost' = lost + n /\ granted' = granted \ {t}
      /\ UNCHANGED <<expired, gaveUp>> /\ G!TakeOrWait(t, n)
  BY DEF G!AsyncResume
<1>2. /\ n \in 0 .. MaxPermits /\ n \in 1 .. MaxPermits /\ n > 0 /\ held[t] = 0
      /\ t \notin G!Range(queue)
  BY <1>1, QueuedFacts DEF QueuedInv, Types
<1>3. /\ n \in Nat /\ 0 \in 0 .. MaxPermits
      /\ permits \in 0 .. MaxPermits /\ MaxPermits \in Nat /\ lost \in Nat
  BY <1>2, ClientsAssumption DEF QueuedInv, Types
<1>4. /\ MaxPermits = permits + lost + G!Total(Threads, held) + G!Total(granted, wants)
      /\ G!Total(granted, wants) = G!Total(granted \ {t}, wants) + n
      /\ G!Total(granted \ {t}, wants) \in Nat /\ G!Total(Threads, held) \in Nat
  BY <1>1, QueuedFacts
<1>5. /\ queue \in Seq(Threads) /\ G!IsInjective(queue)
      /\ G!Range(queue) = {s \in Threads : wants[s] > 0} \ granted
  BY DEF QueuedInv, G!QueueIsWaiting
<1>6. CASE permits >= n
  <2>1. /\ permits' = permits - n /\ held' = [held EXCEPT ![t] = n]
        /\ wants' = [wants EXCEPT ![t] = 0] /\ UNCHANGED queue
    BY <1>1, <1>6 DEF G!TakeOrWait
  <2>2. /\ wants' \in [Threads -> 0 .. MaxPermits]
        /\ \A s \in Threads : wants'[s] = IF s = t THEN 0 ELSE wants[s]
        /\ G!Total(granted \ {t}, wants') = G!Total(granted \ {t}, wants)
    BY <1>3, <2>1, WantsChanges
  <2>3. /\ held' \in [Threads -> 0 .. MaxPermits]
        /\ \A s \in Threads : held'[s] = IF s = t THEN n ELSE held[s]
        /\ G!Total(Threads, held') = G!Total(Threads, held) - held[t] + n
    BY <1>2, <2>1, HeldChanges DEF QueuedInv
  <2>4. permits' \in 0 .. MaxPermits
    BY <1>3, <1>6, <2>1
  <2>14. \A s \in Threads : wants'[s] > 0 => held'[s] = 0
    <3>1. \A s \in Threads : wants[s] > 0 => held[s] = 0
      BY DEF QueuedInv, Types
    <3> HIDE DEF n, ClassInv
    <3>2. QED
      BY <2>2, <2>3, <3>1
  <2>15. held' \in [Threads -> 0 .. MaxPermits] /\ wants' \in [Threads -> 0 .. MaxPermits]
    BY <2>2, <2>3
  <2>5. Types'
    BY <1>1, <2>4, <2>14, <2>15 DEF QueuedInv, Types
  <2>6. G!Total(granted', wants') = G!Total(granted \ {t}, wants)
    BY <1>1, <2>2
  <2>7. MaxPermits = permits' + lost' + G!Total(Threads, held') + G!Total(granted', wants')
    <3>1. permits' = permits - n /\ lost' = lost + n /\ held[t] = 0
      BY <1>1, <1>2, <2>1
    <3>2. G!Total(Threads, held') = G!Total(Threads, held) + n
      BY <1>3, <1>4, <2>3, <3>1
    <3> HIDE DEF n
    <3>3. QED
      BY <1>3, <1>4, <2>6, <3>1, <3>2
  <2>8. G!PermitsAccounted'
    BY <2>7 DEF G!PermitsAccounted
  <2>9. G!QueueIsWaiting'
    BY <1>1, <1>2, <1>5, <2>1, <2>2 DEF G!QueueIsWaiting
  <2>10. lost' \in Nat /\ \A s \in granted' : wants'[s] > 0
    BY <1>1, <1>3, <2>2 DEF QueuedInv
  <2>11. QueuedInv'
    BY <1>1, <2>1, <2>5, <2>8, <2>9, <2>10 DEF QueuedInv
  <2>12. ~G!FirstFits'
    <3>1. queue # <<>> => Head(queue) \in G!Range(queue) /\ Head(queue) \in Threads
      BY <1>5 DEF G!Range
    <3>2. queue # <<>> => wants'[Head(queue)] = wants[Head(queue)]
      BY <1>2, <2>2, <3>1
    <3>3. permits' <= permits
      BY <1>3, <2>1
    <3> HIDE DEF n
    <3>4. CASE queue # <<>>
      BY <1>1, <1>5, <2>1, <2>5, <3>2, <3>3, <3>4, FirstStays DEF QueuedInv
    <3>5. CASE queue = <<>>
      BY <2>1, <3>5 DEF G!FirstFits
    <3>6. QED
      BY <3>4, <3>5
  <2>13. QED
    BY <1>1, <2>11, <2>12
<1>7. CASE ~(permits >= n)
  <2>1. /\ wants' = [wants EXCEPT ![t] = n] /\ queue' = Append(queue, t)
        /\ UNCHANGED <<permits, held>>
    BY <1>1, <1>7 DEF G!TakeOrWait
  <2>2. wants' = wants
    BY <2>1 DEF QueuedInv, Types
  <2>3. /\ queue' \in Seq(Threads) /\ G!IsInjective(queue')
        /\ G!Range(queue') = G!Range(queue) \cup {t}
        /\ queue' # <<>> /\ Head(queue') = IF queue = <<>> THEN t ELSE Head(queue)
    BY <1>2, <1>5, <2>1, Appended
  <2>4. G!Total(granted', wants') = G!Total(granted \ {t}, wants)
    BY <1>1, <2>2
  <2>5. MaxPermits = permits' + lost' + G!Total(Threads, held') + G!Total(granted', wants')
    <3>1. permits' = permits /\ lost' = lost + n /\ held' = held
      BY <1>1, <2>1
    <3>2. G!Total(Threads, held') = G!Total(Threads, held)
      BY <3>1
    <3> HIDE DEF n
    <3>3. QED
      BY <1>3, <1>4, <2>4, <3>1, <3>2
  <2>6. G!PermitsAccounted'
    BY <2>5 DEF G!PermitsAccounted
  <2>7. G!QueueIsWaiting'
    BY <1>1, <1>2, <1>5, <2>2, <2>3 DEF G!QueueIsWaiting
  <2>8. Types'
    BY <1>1, <2>1, <2>2 DEF QueuedInv, Types
  <2>9. lost' \in Nat /\ \A s \in granted' : wants'[s] > 0
    BY <1>1, <1>3, <2>2 DEF QueuedInv
  <2>10. QueuedInv'
    BY <1>1, <2>3, <2>6, <2>7, <2>8, <2>9 DEF QueuedInv
  <2>11. ~G!FirstFits'
    <3>1. CASE queue = <<>>
      <4>1. queue' # <<>> => permits' < wants'[Head(queue')]
        BY <1>3, <1>7, <2>1, <2>2, <2>3, <3>1
      <4>2. QED
        BY <2>3, <2>8, <4>1, HeadFitsNot
    <3>2. CASE queue # <<>>
      <4>1. permits' <= permits
        BY <1>3, <2>1
      <4>2. QED
        BY <1>1, <1>5, <2>2, <2>3, <2>8, <3>2, <4>1, FirstStays DEF QueuedInv
    <3>3. QED
      BY <3>1, <3>2
  <2>12. QED
    BY <1>1, <2>10, <2>11
<1>8. QED
  BY <1>6, <1>7

LEMMA StepAsyncCancel ==
  ASSUME ClassInv, NEW t \in Threads, G!AsyncCancel(t),
         subject = "async", subject' = subject
  PROVE  ClassInv'
<1> USE DEF ClassInv
<1>1. /\ t \notin expired /\ wants[t] > 0 /\ expired' = expired \cup {t}
      /\ gaveUp' = TRUE /\ granted' = granted \ {t}
      /\ UNCHANGED <<permits, held, queue>>
  BY DEF G!AsyncCancel
<1>2. ~G!FirstFits'
  <2>1. queue # <<>> => Head(queue) \in G!Range(queue)
    BY DEF QueuedInv, G!Range
  <2>2. queue # <<>> => wants'[Head(queue)] = wants[Head(queue)]
    <3>1. CASE t \notin granted
      BY <3>1 DEF G!AsyncCancel
    <3>2. CASE t \in granted
      <4>1. t \notin G!Range(queue)
        BY <3>2, QueuedFacts
      <4>2. wants' = [wants EXCEPT ![t] = 0]
        BY <3>2 DEF G!AsyncCancel
      <4>3. QED
        BY <2>1, <4>1, <4>2, QueuedFacts DEF QueuedInv, Types
    <3>3. QED
      BY <3>1, <3>2
  <2>3. QED
    BY <1>1, <2>2 DEF G!FirstFits
<1>3. granted' \cap expired' = {}
  BY <1>1
<1>4. CASE t \notin granted
  <2>1. granted' = granted /\ UNCHANGED <<lost, wants>>
    BY <1>1, <1>4 DEF G!AsyncCancel
  <2>2. QueuedInv'
    BY <1>1, <2>1 DEF QueuedInv, Types, G!PermitsAccounted, G!QueueIsWaiting
  <2>3. QED
    BY <1>1, <1>2, <1>3, <2>2
<1>5. CASE t \in granted
  <2>1. lost' = lost + wants[t] /\ wants' = [wants EXCEPT ![t] = 0]
    BY <1>5 DEF G!AsyncCancel
  <2>2. 0 \in 0 .. MaxPermits
    BY ClientsAssumption
  <2>3. /\ wants' \in [Threads -> 0 .. MaxPermits]
        /\ \A s \in Threads : wants'[s] = IF s = t THEN 0 ELSE wants[s]
        /\ G!Total(granted', wants') = G!Total(granted \ {t}, wants)
    BY <1>1, <2>1, <2>2, WantsChanges
  <2>4. /\ MaxPermits = permits + lost + G!Total(Threads, held) + G!Total(granted, wants)
        /\ G!Total(granted, wants) = G!Total(granted \ {t}, wants) + wants[t]
        /\ G!Total(granted \ {t}, wants) \in Nat /\ G!Total(Threads, held) \in Nat
        /\ wants[t] \in 0 .. MaxPermits /\ permits \in 0 .. MaxPermits /\ MaxPermits \in Nat
    BY <1>5, QueuedFacts
  <2>5. lost \in Nat
    BY DEF QueuedInv
  <2>6. MaxPermits = permits + lost' + G!Total(Threads, held) + G!Total(granted', wants')
    <3>1. G!Total(granted', wants') = G!Total(granted \ {t}, wants)
      BY <2>3
    <3>2. QED
      BY <2>1, <2>4, <2>5, <3>1
  <2>7. G!PermitsAccounted'
    <3>1. G!Total(Threads, held') = G!Total(Threads, held) /\ permits' = permits
      BY <1>1
    <3>2. QED
      BY <2>6, <3>1 DEF G!PermitsAccounted
  <2>8. Types'
    BY <1>1, <2>3 DEF QueuedInv, Types
  <2>9. G!QueueIsWaiting'
    BY <1>1, <1>5, <2>3 DEF QueuedInv, G!QueueIsWaiting
  <2>10. lost' \in Nat /\ \A s \in granted' : wants'[s] > 0
    BY <1>1, <2>1, <2>3, <2>4, <2>5 DEF QueuedInv
  <2>11. QueuedInv'
    BY <1>1, <2>7, <2>8, <2>9, <2>10 DEF QueuedInv
  <2>12. QED
    BY <1>1, <1>2, <1>3, <2>11
<1>6. QED
  BY <1>4, <1>5

LEMMA StepAsyncRelease ==
  ASSUME ClassInv, NEW t \in Threads, NEW n \in 1 .. MaxPermits,
         G!AsyncRelease(t, n), subject = "async", subject' = subject
  PROVE  ClassInv'
<1> USE DEF ClassInv
<1>1. /\ n <= held[t] /\ held' = [held EXCEPT ![t] = held[t] - n]
      /\ G!NotifyWaiters(G!Capped(permits + n))
      /\ UNCHANGED <<wants, expired, lost, gaveUp>>
  BY DEF G!AsyncRelease
<1>2. /\ held' \in [Threads -> 0 .. MaxPermits]
      /\ \A s \in Threads : wants[s] > 0 => held'[s] = 0
      /\ G!Capped(permits + n) = permits + n /\ permits + n \in 0 .. MaxPermits
      /\ permits + n \in Nat
      /\ (permits + n) + G!Total(Threads, held') = permits + G!Total(Threads, held)
  BY <1>1, ReleaseAdds
<1>3. /\ Ready(queue, wants, permits + n)
      /\ G!Range(queue) = {s \in Threads : wants[s] > 0} \ granted
  BY <1>2, QueueReady
<1>4. G!NotifyWaiters(permits + n)
  BY <1>1, <1>2
<1>5. /\ permits' \in 0 .. MaxPermits
      /\ permits' + G!Total(granted', wants) = (permits + n) + G!Total(granted, wants)
      /\ granted \subseteq granted'
      /\ granted' \subseteq granted \cup (G!Range(queue) \ expired)
      /\ queue' \in Seq(Threads) /\ G!IsInjective(queue')
      /\ G!Range(queue') = G!Range(queue) \ granted'
      /\ queue' # <<>> /\ Head(queue') \notin expired => permits' < wants[Head(queue')]
  BY <1>3, <1>4, WaitersNotified
<1>6. wants' = wants
  BY <1>1
<1>7. Types'
  BY <1>1, <1>2, <1>5 DEF QueuedInv, Types
<1>8. G!Range(queue) = {s \in Threads : wants'[s] > 0} \ granted
  BY <1>3, <1>6
<1>9. permits' + G!Total(granted', wants') = (permits + n) + G!Total(granted, wants)
  BY <1>5, <1>6
<1>10. /\ \A s \in granted : wants'[s] > 0
       /\ G!Range(queue) \in SUBSET Threads
       /\ granted' \subseteq granted \cup G!Range(queue)
       /\ UNCHANGED <<lost, gaveUp>>
  BY <1>1, <1>3, <1>5 DEF QueuedInv
<1>11. QueuedInv'
  BY <1>2, <1>5, <1>7, <1>8, <1>9, <1>10, Settled
<1>12. granted' \cap expired' = {}
  BY <1>1, <1>5
<1>13. ~G!FirstFits'
  BY <1>1, <1>5, <1>6, <1>7, HeadFitsNot
<1>14. QED
  BY <1>11, <1>12, <1>13

-----------------------------------------------------------------------------
(* All of them together. *)

MCInv ==
  /\ subject \in Queued => ClassInv /\ asleep = {}
  /\ subject \notin Queued => CountingInv /\ queue = <<>> /\ granted = {} /\ lost = 0

LEMMA MCInitInvariant == MCInit => MCInv
<1> SUFFICES ASSUME MCInit PROVE MCInv
  OBVIOUS
<1>1. /\ permits = MaxPermits /\ held = [t \in Threads |-> 0]
      /\ wants = [t \in Threads |-> 0] /\ asleep = {} /\ expired = {}
      /\ queue = <<>> /\ granted = {} /\ lost = 0 /\ gaveUp = FALSE
  BY DEF MCInit, PoolInit, Init
<1>2. Types
  BY <1>1, ClientsAssumption DEF Types
<1>3. G!Total(Threads, held) = 0
  <2>1. Permits(Threads, held) = {}
    BY <1>1 DEF Permits
  <2>2. QED
    BY <2>1, TotalIs, FS_EmptySet
<1>4. G!Total(granted, wants) = 0
  BY <1>1, TotalOfNone
<1>5. MaxPermits \in Nat
  BY ClientsAssumption
<1>6. CountingInv
  BY <1>1, <1>2, <1>3, <1>5 DEF CountingInv, NoSleeperFits
<1>7. G!QueueIsWaiting
  BY <1>1 DEF G!QueueIsWaiting, G!IsInjective, G!Range
<1>8. G!PermitsAccounted
  BY <1>1, <1>3, <1>4, <1>5 DEF G!PermitsAccounted
<1>9. QueuedInv
  <2>1. queue \in Seq(Threads) /\ lost \in Nat
    BY <1>1
  <2>4. gaveUp \in BOOLEAN
    BY <1>1
  <2>2. granted \subseteq Threads /\ \A t \in granted : wants[t] > 0
    BY <1>1
  <2>3. QED
    BY <1>2, <1>7, <1>8, <2>1, <2>2, <2>4 DEF QueuedInv
<1>10. ClassInv
  BY <1>1, <1>9 DEF ClassInv, Sorted, G!FirstFits, G!FirstWaitsForMore, G!NothingLost
<1>11. QED
  BY <1>1, <1>6, <1>10 DEF MCInv

LEMMA ClassStep ==
  ASSUME ClassInv,
         \/ G!FairNext /\ OfFair
         \/ G!PriorityNext /\ OfPrior
         \/ G!AsyncNext /\ OfAsync
  PROVE  ClassInv'
<1>1. CASE G!FairNext /\ OfFair
  <2>1. subject = "fair" /\ subject' = subject /\ subject # "async"
    BY <1>1 DEF OfFair
  <2>2. \/ G!Nudge
        \/ \E t \in Threads :
             \/ \E n \in 1 .. MaxPermits : G!FairAcquire(t, n) \/ G!FairRelease(t, n)
             \/ G!Proceed(t) \/ G!Expire(t) \/ G!GiveUp(t)
    BY <1>1 DEF G!FairNext
  <2>3. QED
    BY <2>1, <2>2, StepNudge, StepFairAcquire, StepFairRelease, StepProceed,
       StepQueuedExpire, StepGiveUp
<1>2. CASE G!PriorityNext /\ OfPrior
  <2>1. subject = "priority" /\ subject' = subject /\ subject # "async"
    BY <1>2 DEF OfPrior
  <2>2. \E t \in Threads :
          \/ \E n \in 1 .. MaxPermits : G!PriorityAcquire(t, n) \/ G!PriorityRelease(t, n)
          \/ G!Proceed(t) \/ G!Expire(t) \/ G!GiveUp(t)
    BY <1>2 DEF G!PriorityNext
  <2>3. QED
    BY <2>1, <2>2, StepPriorityAcquire, StepPriorityRelease, StepProceed,
       StepQueuedExpire, StepGiveUp
<1>3. CASE G!AsyncNext /\ OfAsync
  <2>1. subject = "async" /\ subject' = subject
    BY <1>3 DEF OfAsync
  <2>2. \E t \in Threads :
          \/ \E n \in 1 .. MaxPermits : G!AsyncAcquire(t, n) \/ G!AsyncRelease(t, n)
          \/ G!AsyncResume(t) \/ G!AsyncCancel(t)
    BY <1>3 DEF G!AsyncNext
  <2>3. QED
    BY <2>1, <2>2, StepAsyncAcquire, StepAsyncRelease, StepAsyncResume, StepAsyncCancel
<1>4. QED
  BY <1>1, <1>2, <1>3

LEMMA MCStep == MCInv /\ [MCNext]_allVars => MCInv'
<1> SUFFICES ASSUME MCInv, [MCNext]_allVars PROVE MCInv'
  OBVIOUS
<1>1. CASE (Next /\ OfCounting) \/ (PoolNext /\ OfPool)
  <2>1. /\ subject \notin Queued /\ subject' = subject
        /\ UNCHANGED <<queue, granted, lost>>
    BY <1>1 DEF OfCounting, OfPool, ofGranted, Queued
  <2>2. [Next]_vars
    BY <1>1, PoolUsesSemaphore
  <2>3. CountingInv'
    BY <2>1, <2>2, CountingStep DEF MCInv
  <2>4. QED
    BY <2>1, <2>3 DEF MCInv
<1>2. CASE \/ G!FairNext /\ OfFair
           \/ G!PriorityNext /\ OfPrior
           \/ G!AsyncNext /\ OfAsync
  <2>1. subject \in Queued /\ subject' = subject /\ asleep' = asleep
    BY <1>2 DEF OfFair, OfPrior, OfAsync, Queued
  <2>2. ClassInv'
    BY <1>2, <2>1, ClassStep DEF MCInv
  <2>3. QED
    BY <2>1, <2>2 DEF MCInv
<1>3. CASE UNCHANGED allVars
  BY <1>3 DEF allVars, poolVars, ofGranted, MCInv, ClassInv, CountingInv, QueuedInv,
     Types, NoSleeperFits, Enough, Sorted, G!PermitsAccounted, G!QueueIsWaiting,
     G!FirstFits, G!FirstWaitsForMore, G!NothingLost
<1>4. QED
  BY <1>1, <1>2, <1>3 DEF MCNext

LEMMA MCInvariance == MCSpec => []MCInv
BY MCInitInvariant, MCStep, PTL DEF MCSpec

(* In every semaphore each permit is free, held, on its way or lost, and no *)
(* request is lost.  The first in line never waits beside enough permits at *)
(* an AsyncSemaphore; at a PrioritySemaphore it does not, and no permit of  *)
(* it or of a FairSemaphore is lost, before somebody gives up.              *)
THEOREM NobodyForgets == MCSpec => []NobodyForgotten
<1>1. MCInv => NobodyForgotten
  <2> SUFFICES ASSUME MCInv PROVE NobodyForgotten
    OBVIOUS
  <2>1. CASE subject \in Queued
    <3>1. ClassInv /\ asleep = {}
      BY <2>1 DEF MCInv
    <3>2. NoSleeperFits
      BY <3>1 DEF NoSleeperFits
    <3>3. QED
      BY <3>1, <3>2 DEF ClassInv, QueuedInv, NobodyForgotten, Queued
  <2>2. CASE subject \notin Queued
    <3>1. CountingInv /\ granted = {} /\ lost = 0
      BY <2>2 DEF MCInv
    <3>2. G!Total(granted, wants) = 0 /\ G!Total(Threads, held) \in Nat
      BY <3>1, TotalOfNone, TotalIs
    <3>3. MaxPermits \in Nat /\ permits = MaxPermits - G!Total(Threads, held)
      BY <3>1, ClientsAssumption DEF CountingInv
    <3>4. G!PermitsAccounted
      BY <3>1, <3>2, <3>3 DEF G!PermitsAccounted
    <3>5. QED
      BY <2>2, <3>1, <3>4 DEF CountingInv, NobodyForgotten, Queued
  <2>3. QED
    BY <2>1, <2>2
<1>2. QED
  BY <1>1, MCInvariance, PTL

-----------------------------------------------------------------------------
(* Where permits get lost or stay idle. *)

(* At a PrioritySemaphore: a step that serves the heap leaves a first in    *)
(* line that does not fit; any other keeps it, unless it gives up.          *)
LEMMA HeapNotIdle ==
  ASSUME ClassInv, ClassInv', NEW q \in Seq(Threads), NEW n \in 0 .. MaxPermits,
         G!IsInjective(q), G!ProcessHeap(q, wants', n),
         G!Range(q) = {s \in Threads : wants'[s] > 0} \ granted
  PROVE  ~G!FirstFits'
<1>1. Ready(q, wants', n)
  BY DEF Ready, ClassInv, QueuedInv, Types
<1>2. queue' # <<>> => permits' < wants'[Head(queue')]
  BY <1>1, HeapServed
<1>3. Types' /\ queue' \in Seq(Threads)
  BY DEF ClassInv, QueuedInv
<1>4. QED
  BY <1>2, <1>3, HeadFitsNot

LEMMA GiveUpNotIdle ==
  ASSUME ClassInv, ClassInv', NEW t \in Threads, G!GiveUp(t), subject # "async"
  PROVE  G!IdleStep
<1>1. /\ t \in expired /\ G!Without(queue', queue, {t}) /\ permits' = permits
      /\ expired' = expired \ {t} /\ wants' = [wants EXCEPT ![t] = 0]
  BY DEF G!GiveUp
<1>2. /\ queue \in Seq(Threads) /\ G!IsInjective(queue) /\ Types
      /\ queue' \in Seq(Threads) /\ Types'
  BY DEF ClassInv, QueuedInv, G!QueueIsWaiting
<1>3. CASE queue = <<>>
  <2>1. G!Range(queue) = {}
    BY <1>3 DEF G!Range
  <2>4. G!Range(queue') = {}
    BY <1>1, <1>2, <2>1, WithoutKeeps
  <2>5. queue' # <<>> => queue'[1] \in G!Range(queue')
    BY <1>2 DEF G!Range
  <2>2. queue' = <<>>
    BY <2>4, <2>5
  <2>3. QED
    BY <2>2 DEF G!IdleStep, G!FirstFits
<1>4. CASE queue # <<>> /\ Head(queue) = t
  BY <1>1, <1>4 DEF G!IdleStep
<1>5. CASE queue # <<>> /\ Head(queue) # t
  <2>1. 1 \in DOMAIN queue /\ queue[1] = Head(queue) /\ Head(queue) \in Threads
    BY <1>2, <1>5
  <2>2. queue'[1] = queue[1] /\ G!Range(queue') = G!Range(queue) \ {t}
    BY <1>1, <1>2, <1>5, <2>1, WithoutKeeps
  <2>3. G!Range(queue') # {}
    BY <1>5, <2>1, <2>2 DEF G!Range
  <2>4. Head(queue') = Head(queue)
    BY <1>2, <2>1, <2>2, <2>3 DEF G!Range
  <2>5. wants'[Head(queue)] = wants[Head(queue)]
    BY <1>1, <1>2, <1>5, <2>1 DEF Types
  <2>6. Head(queue) \notin expired' => Head(queue) \notin expired
    BY <1>1, <1>5
  <2>7. QED
    BY <1>1, <1>5, <2>4, <2>5, <2>6 DEF G!IdleStep, G!FirstFits
<1>6. QED
  BY <1>3, <1>4, <1>5

LEMMA PriorityIdle ==
  ASSUME ClassInv, ClassInv', G!PriorityNext /\ OfPrior
  PROVE  G!IdleStep
<1>1. subject = "priority"
  BY DEF OfPrior
<1>2. ASSUME NEW t \in Threads, NEW n \in 1 .. MaxPermits, G!PriorityAcquire(t, n)
      PROVE  ~G!FirstFits'
  <2>1. PICK q \in Seq(Threads) :
          /\ G!IsInjective(q) /\ Sorted(q) /\ G!ProcessHeap(q, wants', permits)
          /\ G!Range(q) = {s \in Threads : wants'[s] > 0} \ granted
          /\ SameOrder(q, queue)
    BY <1>1, <1>2, HeapPushed
  <2>2. permits \in 0 .. MaxPermits
    BY DEF ClassInv, QueuedInv, Types
  <2>3. QED
    BY <2>1, <2>2, HeapNotIdle
<1>3. ASSUME NEW t \in Threads, NEW n \in 1 .. MaxPermits, G!PriorityRelease(t, n)
      PROVE  ~G!FirstFits'
  <2>1. G!Capped(permits + n) = permits + n /\ permits + n \in 0 .. MaxPermits
    BY <1>3, ReleaseAdds DEF ClassInv, G!PriorityRelease
  <2>2. G!ProcessHeap(queue, wants', permits + n) /\ wants' = wants
    BY <1>3, <2>1 DEF G!PriorityRelease
  <2>3. /\ queue \in Seq(Threads) /\ G!IsInjective(queue)
        /\ G!Range(queue) = {s \in Threads : wants'[s] > 0} \ granted
    BY <2>2 DEF ClassInv, QueuedInv, G!QueueIsWaiting
  <2>4. QED
    BY <2>1, <2>2, <2>3, HeapNotIdle
<1>4. ASSUME NEW t \in Threads, G!Proceed(t) PROVE G!IdleStep
  <2>1. queue # <<>> => Head(queue) \in G!Range(queue) /\ Head(queue) \in Threads
    BY DEF ClassInv, QueuedInv, G!Range
  <2>2. t \in granted /\ wants' = [wants EXCEPT ![t] = 0]
        /\ UNCHANGED <<permits, queue, expired>>
    BY <1>4 DEF G!Proceed
  <2>3. queue # <<>> => wants'[Head(queue)] = wants[Head(queue)]
    BY <2>1, <2>2, QueuedFacts DEF ClassInv, QueuedInv, Types
  <2>4. QED
    BY <2>2, <2>3 DEF G!IdleStep, G!FirstFits
<1>5. ASSUME NEW t \in Threads, G!Expire(t) PROVE G!IdleStep
  BY <1>5 DEF G!Expire, G!IdleStep, G!FirstFits
<1>6. ASSUME NEW t \in Threads, G!GiveUp(t) PROVE G!IdleStep
  BY <1>1, <1>6, GiveUpNotIdle
<1>7. ~G!FirstFits' => G!IdleStep
  BY DEF G!IdleStep
<1>8. QED
  BY <1>2, <1>3, <1>4, <1>5, <1>6, <1>7 DEF G!PriorityNext

(* No step but these loses permits, whatever the class.                     *)
LEMMA OnlyWithItsGrant ==
  ASSUME NEW t \in Threads, G!GiveUp(t) PROVE G!LossStep(FALSE)
<1>1. t \in granted => t \in granted \ granted'
  BY DEF G!GiveUp
<1>2. QED
  BY <1>1 DEF G!GiveUp, G!LossStep

LEMMA OnlyTwice ==
  ASSUME NEW t \in Threads, G!AsyncResume(t) \/ G!AsyncCancel(t) PROVE G!LossStep(TRUE)
<1>1. granted' = granted \ {t}
  BY DEF G!AsyncResume, G!AsyncCancel
<1>2. lost' # lost => t \in granted /\ lost' = lost + wants[t]
  BY DEF G!AsyncResume, G!AsyncCancel
<1>3. QED
  BY <1>1, <1>2 DEF G!LossStep

LEMMA MCLossStep ==
  ASSUME [MCNext]_allVars PROVE G!LossStep(subject = "async")
<1>1. CASE lost' = lost
  BY <1>1 DEF G!LossStep
<1>2. ASSUME NEW t \in Threads, G!GiveUp(t) PROVE G!LossStep(subject = "async")
  BY <1>2, OnlyWithItsGrant DEF G!LossStep
<1>3. ASSUME G!FairNext PROVE G!LossStep(subject = "async")
  <2>1. lost' = lost \/ \E t \in Threads : G!GiveUp(t)
    BY <1>3 DEF G!FairNext, G!FairAcquire, G!FairRelease, G!Proceed, G!Expire, G!Nudge
  <2>2. QED
    BY <1>1, <1>2, <2>1
<1>4. ASSUME G!PriorityNext PROVE G!LossStep(subject = "async")
  <2>1. lost' = lost \/ \E t \in Threads : G!GiveUp(t)
    BY <1>4 DEF G!PriorityNext, G!PriorityAcquire, G!PriorityRelease, G!Proceed, G!Expire
  <2>2. QED
    BY <1>1, <1>2, <2>1
<1>5. ASSUME G!AsyncNext, OfAsync PROVE G!LossStep(subject = "async")
  <2>1. lost' = lost \/ \E t \in Threads : G!AsyncResume(t) \/ G!AsyncCancel(t)
    BY <1>5 DEF G!AsyncNext, G!AsyncAcquire, G!AsyncRelease
  <2>2. subject = "async"
    BY <1>5 DEF OfAsync
  <2>3. QED
    BY <1>1, <2>1, <2>2, OnlyTwice DEF G!LossStep
<1>6. (Next /\ OfCounting) \/ (PoolNext /\ OfPool) \/ UNCHANGED allVars => lost' = lost
  BY DEF OfCounting, OfPool, ofGranted, allVars
<1>7. QED
  BY <1>1, <1>3, <1>4, <1>5, <1>6 DEF MCNext

(* Permits are lost with the grant of a thread that had timed out, or of    *)
(* one that takes them twice at an AsyncSemaphore, and no other way; the    *)
(* first in line of a PrioritySemaphore comes to wait beside enough of them *)
(* only when the one before it gives up.                                    *)
THEOREM NothingElseIsLost == MCSpec => OnlyTheseLose
<1>1. MCInv /\ MCInv' /\ [MCNext]_allVars =>
        /\ [G!LossStep(subject = "async")]_allVars
        /\ [subject = "priority" => G!IdleStep]_allVars
  <2> SUFFICES ASSUME MCInv, MCInv', [MCNext]_allVars
               PROVE  /\ [G!LossStep(subject = "async")]_allVars
                      /\ [subject = "priority" => G!IdleStep]_allVars
    OBVIOUS
  <2>1. G!LossStep(subject = "async")
    BY MCLossStep
  <2>2. CASE G!PriorityNext /\ OfPrior
    BY <2>1, <2>2, PriorityIdle DEF OfPrior, MCInv, Queued
  <2>3. CASE subject # "priority"
    BY <2>1, <2>3
  <2>4. CASE UNCHANGED allVars
    BY <2>1, <2>4
  <2>5. QED
    BY <2>2, <2>3, <2>4 DEF MCNext, OfCounting, OfPool, OfFair, OfAsync
<1>2. QED
  BY <1>1, MCInvariance, PTL DEF MCSpec, OnlyTheseLose

-----------------------------------------------------------------------------
(* The order of service. *)

SinglesStep ==
  \A j \in DOMAIN queue : \A i \in 1 .. j - 1 : wants[queue[i]] = 1 =>
    /\ queue[j] \in granted' => queue[i] \in granted' \cup expired
    /\ \A k, m \in DOMAIN queue' :
         queue'[k] = queue[i] /\ queue'[m] = queue[j] => k < m

LEMMA FrontServed ==
  ASSUME QueuedInv,
         \A i, j \in DOMAIN queue :
           i < j /\ queue[j] \in granted' => queue[i] \in granted' \cup expired,
         \A i, j \in DOMAIN queue : i < j /\ wants[queue[i]] = 1 =>
           \A k, m \in DOMAIN queue' :
             queue'[k] = queue[i] /\ queue'[m] = queue[j] => k < m
  PROVE  SinglesStep
<1>1. DOMAIN queue = 1 .. Len(queue) /\ Len(queue) \in Nat
  BY DEF QueuedInv
<1>2. \A j \in DOMAIN queue : \A i \in 1 .. j - 1 : i \in DOMAIN queue /\ i < j
  BY <1>1
<1>3. QED
  BY <1>2 DEF SinglesStep

(* A queue that only loses threads, and one that only gains some. *)
LEMMA OrderLeft ==
  ASSUME QueuedInv, queue' \in Seq(Threads), SameOrder(queue, queue')
  PROVE  \A i, j \in DOMAIN queue : i < j =>
           \A k, m \in DOMAIN queue' :
             queue'[k] = queue[i] /\ queue'[m] = queue[j] => k < m
<1>1. queue \in Seq(Threads) /\ G!IsInjective(queue)
  BY DEF QueuedInv, G!QueueIsWaiting
<1>2. QED
  BY <1>1, OrderOfTwo

LEMMA OrderExtended ==
  ASSUME NEW q, G!IsInjective(q), SameOrder(q, queue),
         NEW i \in DOMAIN queue, NEW j \in DOMAIN queue, i < j,
         NEW k \in DOMAIN q, NEW m \in DOMAIN q, q[k] = queue[i], q[m] = queue[j]
  PROVE  k < m
<1>1. PICK a \in DOMAIN q, b \in DOMAIN q : a < b /\ queue[i] = q[a] /\ queue[j] = q[b]
  BY DEF SameOrder
<1>2. a = k /\ b = m
  BY <1>1 DEF G!IsInjective
<1>3. QED
  BY <1>1, <1>2

(* A step that grants nothing and takes threads out of the queue, or puts   *)
(* one at its end.                                                          *)
LEMMA NobodyServed ==
  ASSUME QueuedInv, QueuedInv', granted' \subseteq granted,
         \/ SameOrder(queue, queue')
         \/ queue' = queue
         \/ \E t \in Threads : queue' = Append(queue, t)
  PROVE  SinglesStep /\ G!UrgentStep
<1>1. \A j \in DOMAIN queue : queue[j] \notin granted
  BY DEF QueuedInv, G!QueueIsWaiting, G!Range
<1>2. G!UrgentStep
  BY DEF G!UrgentStep
<1>3. /\ queue \in Seq(Threads) /\ queue' \in Seq(Threads)
      /\ G!IsInjective(queue) /\ G!IsInjective(queue')
  BY DEF QueuedInv, G!QueueIsWaiting
<1>4. \A i, j \in DOMAIN queue : i < j /\ wants[queue[i]] = 1 =>
        \A k, m \in DOMAIN queue' :
          queue'[k] = queue[i] /\ queue'[m] = queue[j] => k < m
  <2>1. CASE SameOrder(queue, queue')
    BY <1>3, <2>1, OrderLeft
  <2>2. CASE queue' = queue \/ \E t \in Threads : queue' = Append(queue, t)
    <3>1. \A i \in DOMAIN queue : i \in DOMAIN queue' /\ queue'[i] = queue[i]
      BY <1>3, <2>2
    <3>2. SameOrder(queue', queue)
      BY <3>1 DEF SameOrder
    <3>3. QED
      BY <1>3, <3>2, OrderExtended
  <2>3. QED
    BY <2>1, <2>2
<1>5. SinglesStep
  BY <1>1, <1>4, FrontServed
<1>6. QED
  BY <1>2, <1>5

LEMMA GiveUpOrder ==
  ASSUME ClassInv, NEW t \in Threads, G!GiveUp(t)
  PROVE  SameOrder(queue, queue')
<1>1. queue \in Seq(Threads) /\ G!IsInjective(queue)
  BY DEF ClassInv, QueuedInv, G!QueueIsWaiting
<1>2. G!Without(queue', queue, {t})
  BY DEF G!GiveUp
<1>3. QED
  BY <1>1, <1>2, WithoutKeeps

LEMMA FairOrder ==
  ASSUME ClassInv, ClassInv', G!FairNext /\ OfFair
  PROVE  SinglesStep
<1>1. ASSUME NEW n \in 0 .. MaxPermits, G!ProcessQueue(n) PROVE SinglesStep
  <2>1. Ready(queue, wants, n)
    BY QueueReady DEF ClassInv
  <2>2. /\ \A i, j \in DOMAIN queue : i < j /\ queue[j] \in granted' => queue[i] \in granted'
        /\ \A i, j \in DOMAIN queue : i < j /\ wants[queue[i]] = 1 =>
             \A k, m \in DOMAIN queue' :
               queue'[k] = queue[i] /\ queue'[m] = queue[j] => k < m
    BY <1>1, <2>1, QueueServed
  <2>3. QED
    BY <2>2, FrontServed DEF ClassInv
<1>2. ASSUME NEW t \in Threads, NEW n \in 1 .. MaxPermits, G!FairRelease(t, n)
      PROVE  SinglesStep
  <2>1. G!Capped(permits + n) = permits + n /\ permits + n \in 0 .. MaxPermits
    BY <1>2, ReleaseAdds DEF ClassInv, G!FairRelease
  <2>2. QED
    BY <1>1, <1>2, <2>1 DEF G!FairRelease
<1>3. ASSUME G!Nudge PROVE SinglesStep
  <2>1. G!Capped(permits + 1) = permits /\ permits \in 0 .. MaxPermits
    BY <1>3, ClientsAssumption DEF G!Capped, G!Nudge
  <2>2. QED
    BY <1>1, <1>3, <2>1 DEF G!Nudge
<1>4. ASSUME NEW t \in Threads,
             \/ \E n \in 1 .. MaxPermits : G!FairAcquire(t, n)
             \/ G!Proceed(t) \/ G!Expire(t) \/ G!GiveUp(t)
      PROVE  SinglesStep
  <2>1. granted' \subseteq granted
    BY <1>4 DEF G!FairAcquire, G!Proceed, G!Expire, G!GiveUp
  <2>2. ASSUME G!GiveUp(t) PROVE SameOrder(queue, queue')
    BY <2>2, GiveUpOrder
  <2>3. QED
    BY <1>4, <2>1, <2>2, NobodyServed DEF ClassInv, G!FairAcquire, G!Proceed, G!Expire
<1>5. QED
  BY <1>2, <1>3, <1>4 DEF G!FairNext

LEMMA AsyncOrder ==
  ASSUME ClassInv, ClassInv', G!AsyncNext /\ OfAsync
  PROVE  SinglesStep
<1>1. ASSUME NEW t \in Threads, NEW n \in 1 .. MaxPermits, G!AsyncRelease(t, n)
      PROVE  SinglesStep
  <2>1. G!Capped(permits + n) = permits + n /\ permits + n \in 0 .. MaxPermits
    BY <1>1, ReleaseAdds DEF ClassInv, G!AsyncRelease
  <2>2. Ready(queue, wants, permits + n) /\ G!NotifyWaiters(permits + n)
    BY <1>1, <2>1, QueueReady DEF ClassInv, G!AsyncRelease
  <2>3. /\ \A i, j \in DOMAIN queue :
             i < j /\ queue[j] \in granted' => queue[i] \in granted' \cup expired
        /\ queue' \in Seq(Threads) /\ SameOrder(queue, queue')
    BY <2>2, WaitersNotified
  <2>4. \A i, j \in DOMAIN queue : i < j =>
          \A k, m \in DOMAIN queue' :
            queue'[k] = queue[i] /\ queue'[m] = queue[j] => k < m
    BY <2>3, OrderLeft DEF ClassInv
  <2>5. QED
    BY <2>3, <2>4, FrontServed DEF ClassInv
<1>2. ASSUME NEW t \in Threads,
             \/ \E n \in 1 .. MaxPermits : G!AsyncAcquire(t, n)
             \/ G!AsyncResume(t) \/ G!AsyncCancel(t)
      PROVE  SinglesStep
  <2>1. granted' \subseteq granted
    BY <1>2 DEF G!AsyncAcquire, G!AsyncResume, G!AsyncCancel
  <2>2. queue' = queue \/ queue' = Append(queue, t)
    BY <1>2 DEF G!AsyncAcquire, G!AsyncResume, G!AsyncCancel, G!TakeOrWait
  <2>3. QED
    BY <2>1, <2>2, NobodyServed DEF ClassInv
<1>3. QED
  BY <1>1, <1>2 DEF G!AsyncNext

LEMMA HeapOrder ==
  ASSUME ClassInv, ClassInv', NEW q \in Seq(Threads), NEW n \in 0 .. MaxPermits,
         G!IsInjective(q), Sorted(q), G!ProcessHeap(q, wants', n),
         G!Range(q) = {s \in Threads : wants'[s] > 0} \ granted,
         SameOrder(q, queue)
  PROVE  SinglesStep /\ G!UrgentStep
<1>1. Ready(q, wants', n)
  BY DEF Ready, ClassInv, QueuedInv, Types
<1>2. /\ G!Range(queue') = G!Range(q) \ granted'
      /\ \A t \in granted' \ granted : \A s \in G!Range(queue') : Priority[t] <= Priority[s]
      /\ \A i, j \in DOMAIN q : i < j /\ q[j] \in granted' => q[i] \in granted'
      /\ granted \subseteq granted'
      /\ SameOrder(q, queue') /\ queue' \in Seq(Threads)
  BY <1>1, HeapServed
<1>3. \A i, j \in DOMAIN queue : i < j /\ queue[j] \in granted' => queue[i] \in granted'
  BY <1>2 DEF SameOrder
<1>8. ASSUME NEW i \in DOMAIN queue, NEW j \in DOMAIN queue, i < j,
             NEW k \in DOMAIN queue', NEW m \in DOMAIN queue',
             queue'[k] = queue[i], queue'[m] = queue[j]
      PROVE  k < m
  <2>1. PICK a \in DOMAIN q, b \in DOMAIN q : a < b /\ queue[i] = q[a] /\ queue[j] = q[b]
    BY <1>8 DEF SameOrder
  <2>2. queue'[k] = q[a] /\ queue'[m] = q[b]
    BY <1>8, <2>1
  <2>3. QED
    BY <1>2, <1>8, <2>1, <2>2, OrderOfTwo
<1>4. SinglesStep
  BY <1>3, <1>8, FrontServed DEF ClassInv
<1>5. ASSUME NEW t \in granted' \ granted, NEW s \in Threads,
             wants'[s] > 0, G!Before(s, t), s \notin granted'
      PROVE  FALSE
  <2>1. s \in G!Range(queue')
    BY <1>2, <1>5
  <2>2. t \in Threads
    BY <1>5 DEF ClassInv, QueuedInv
  <2>3. Priority[t] <= Priority[s] /\ Priority[t] \in Int /\ Priority[s] \in Int
    BY <1>2, <1>5, <2>1, <2>2, PriorityAssumption
  <2>4. QED
    BY <1>5, <2>3 DEF G!Before
<1>6. G!UrgentStep
  BY <1>5 DEF G!UrgentStep
<1>7. QED
  BY <1>4, <1>6

LEMMA PriorityOrder ==
  ASSUME ClassInv, ClassInv', G!PriorityNext /\ OfPrior
  PROVE  SinglesStep /\ G!UrgentStep
<1>1. subject = "priority"
  BY DEF OfPrior
<1>2. ASSUME NEW t \in Threads, NEW n \in 1 .. MaxPermits, G!PriorityAcquire(t, n)
      PROVE  SinglesStep /\ G!UrgentStep
  <2>1. PICK q \in Seq(Threads) :
          /\ G!IsInjective(q) /\ Sorted(q) /\ G!ProcessHeap(q, wants', permits)
          /\ G!Range(q) = {s \in Threads : wants'[s] > 0} \ granted
          /\ SameOrder(q, queue)
    BY <1>1, <1>2, HeapPushed
  <2>2. permits \in 0 .. MaxPermits
    BY DEF ClassInv, QueuedInv, Types
  <2>3. QED
    BY <2>1, <2>2, HeapOrder
<1>3. ASSUME NEW t \in Threads, NEW n \in 1 .. MaxPermits, G!PriorityRelease(t, n)
      PROVE  SinglesStep /\ G!UrgentStep
  <2>1. G!Capped(permits + n) = permits + n /\ permits + n \in 0 .. MaxPermits
    BY <1>3, ReleaseAdds DEF ClassInv, G!PriorityRelease
  <2>2. G!ProcessHeap(queue, wants', permits + n) /\ wants' = wants
    BY <1>3, <2>1 DEF G!PriorityRelease
  <2>3. /\ queue \in Seq(Threads) /\ G!IsInjective(queue) /\ Sorted(queue)
        /\ G!Range(queue) = {s \in Threads : wants'[s] > 0} \ granted
    BY <1>1, <2>2 DEF ClassInv, QueuedInv, G!QueueIsWaiting
  <2>4. SameOrder(queue, queue)
    BY DEF SameOrder
  <2>5. QED
    BY <2>1, <2>2, <2>3, <2>4, HeapOrder
<1>4. ASSUME NEW t \in Threads, G!Proceed(t) \/ G!Expire(t) \/ G!GiveUp(t)
      PROVE  SinglesStep /\ G!UrgentStep
  <2>1. granted' \subseteq granted
    BY <1>4 DEF G!Proceed, G!Expire, G!GiveUp
  <2>2. ASSUME G!GiveUp(t) PROVE SameOrder(queue, queue')
    BY <2>2, GiveUpOrder
  <2>3. QED
    BY <1>4, <2>1, <2>2, NobodyServed DEF ClassInv, G!Proceed, G!Expire
<1>5. QED
  BY <1>2, <1>3, <1>4 DEF G!PriorityNext

(* No step serves a request for one permit that is in a queue after one     *)
(* behind it, nor moves it behind one, and a PrioritySemaphore never serves *)
(* a thread before a more urgent one that waits.                            *)
THEOREM InOrder == MCSpec => ServedInOrder
<1>1. MCInv /\ MCInv' /\ [MCNext]_allVars =>
        [SinglesStep]_(G!vars) /\ [subject = "priority" => G!UrgentStep]_allVars
  <2> SUFFICES ASSUME MCInv, MCInv', [MCNext]_allVars
               PROVE  [SinglesStep]_(G!vars) /\ [subject = "priority" => G!UrgentStep]_allVars
    OBVIOUS
  <2>1. CASE (Next /\ OfCounting) \/ (PoolNext /\ OfPool)
    <3>1. subject \notin Queued /\ queue = <<>>
      BY <2>1 DEF OfCounting, OfPool, Queued, MCInv
    <3>2. SinglesStep /\ subject # "priority"
      BY <3>1 DEF SinglesStep, Queued
    <3>3. QED
      BY <3>2
  <2>2. CASE G!FairNext /\ OfFair
    BY <2>2, FairOrder DEF OfFair, MCInv, Queued
  <2>3. CASE G!PriorityNext /\ OfPrior
    BY <2>3, PriorityOrder DEF OfPrior, MCInv, Queued
  <2>4. CASE G!AsyncNext /\ OfAsync
    BY <2>4, AsyncOrder DEF OfAsync, MCInv, Queued
  <2>5. CASE UNCHANGED allVars
    BY <2>5 DEF allVars, poolVars, ofGranted, G!vars
  <2>6. QED
    BY <2>1, <2>2, <2>3, <2>4, <2>5 DEF MCNext
<1>2. QED
  BY <1>1, MCInvariance, PTL DEF MCSpec, ServedInOrder, G!SinglesInOrder, SinglesStep

=============================================================================
