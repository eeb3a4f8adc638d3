-------------------------- MODULE ThreadPoolsProofs --------------------------
(***************************************************************************)
(* Proofs about the two thread pools of MCThreadPools: for any number of   *)
(* tasks and workers, any bound of the queue and any rejection policies.   *)
(***************************************************************************)
EXTENDS MCThreadPools, SequenceTheorems, FunctionTheorems, FiniteSetTheorems, TLAPS

Items == Tasks \cup {Sentinel}

(* No task is twice in the queue q; the tasks in q.                         *)
Once(q) == \A i, j \in DOMAIN q : i # j /\ q[i] = q[j] => q[i] = Sentinel
In(q) == {q[i] : i \in DOMAIN q} \ {Sentinel}

-----------------------------------------------------------------------------
(* What the operations on the queue do to these two. *)

LEMMA AppendTask ==
  ASSUME NEW q \in Seq(Items), NEW t \in Tasks, Once(q), t \notin In(q)
  PROVE  /\ Append(q, t) \in Seq(Items) /\ Len(Append(q, t)) = Len(q) + 1
         /\ Once(Append(q, t))
         /\ In(Append(q, t)) = In(q) \cup {t}
<1> DEFINE p == Append(q, t)
<1>1. /\ p \in Seq(Items) /\ Len(p) = Len(q) + 1 /\ Len(q) \in Nat
      /\ DOMAIN q = 1 .. Len(q) /\ DOMAIN p = 1 .. Len(q) + 1
      /\ \A i \in 1 .. Len(q) : p[i] = q[i]
      /\ p[Len(q) + 1] = t
  BY AppendProperties, LenProperties DEF Items
<1> HIDE DEF p
<1>2. t # Sentinel
  BY PoolAssumption
<1>3. Once(p)
  BY <1>1 DEF Once, In
<1>4. In(p) = In(q) \cup {t}
  BY <1>1, <1>2 DEF In
<1>5. QED
  BY <1>1, <1>3, <1>4 DEF p

LEMMA AppendSignal ==
  ASSUME NEW q \in Seq(Items), Once(q)
  PROVE  /\ Append(q, Sentinel) \in Seq(Items)
         /\ Len(Append(q, Sentinel)) = Len(q) + 1
         /\ Once(Append(q, Sentinel))
         /\ In(Append(q, Sentinel)) = In(q)
<1> DEFINE p == Append(q, Sentinel)
<1>1. /\ p \in Seq(Items) /\ Len(p) = Len(q) + 1 /\ Len(q) \in Nat
      /\ DOMAIN q = 1 .. Len(q) /\ DOMAIN p = 1 .. Len(q) + 1
      /\ \A i \in 1 .. Len(q) : p[i] = q[i]
      /\ p[Len(q) + 1] = Sentinel
  BY AppendProperties, LenProperties DEF Items
<1> HIDE DEF p
<1>2. Once(p)
  BY <1>1 DEF Once
<1>3. In(p) = In(q)
  BY <1>1 DEF In
<1>4. QED
  BY <1>1, <1>2, <1>3 DEF p

LEMMA AppendSignals ==
  ASSUME NEW q \in Seq(Items), NEW n \in Nat, Once(q)
  PROVE  /\ q \o [i \in 1 .. n |-> Sentinel] \in Seq(Items)
         /\ Once(q \o [i \in 1 .. n |-> Sentinel])
         /\ In(q \o [i \in 1 .. n |-> Sentinel]) = In(q)
<1> DEFINE s == [i \in 1 .. n |-> Sentinel]
           p == q \o s
<1>1. s \in Seq(Items) /\ Len(s) = n
  <2>1. s \in [1 .. n -> Items]
    BY DEF Items
  <2>2. s \in Seq(Items)
    BY <2>1, IsASeq
  <2>3. QED
    BY <2>2, LenProperties
<1>2. /\ p \in Seq(Items) /\ Len(p) = Len(q) + n /\ Len(q) \in Nat
      /\ DOMAIN q = 1 .. Len(q) /\ DOMAIN p = 1 .. Len(q) + n
      /\ \A i \in 1 .. Len(p) : p[i] = IF i <= Len(q) THEN q[i] ELSE s[i - Len(q)]
  BY <1>1, ConcatProperties, LenProperties
<1>3. \A i \in DOMAIN p : IF i <= Len(q) THEN i \in DOMAIN q /\ p[i] = q[i]
                                         ELSE p[i] = Sentinel
  BY <1>2
<1>4. \A i \in DOMAIN q : i \in DOMAIN p /\ p[i] = q[i]
  BY <1>2
<1> HIDE DEF p
<1>5. Once(p)
  BY <1>3 DEF Once
<1>6. In(p) = In(q)
  BY <1>3, <1>4 DEF In
<1>7. QED
  BY <1>2, <1>5, <1>6 DEF p

LEMMA TakeHead ==
  ASSUME NEW q \in Seq(Items), q # <<>>, Once(q)
  PROVE  /\ Tail(q) \in Seq(Items) /\ Len(Tail(q)) = Len(q) - 1 /\ Len(q) \in Nat \ {0}
         /\ Once(Tail(q))
         /\ Head(q) \in Items
         /\ In(Tail(q)) = In(q) \ {Head(q)}
         /\ Head(q) # Sentinel => Head(q) \in In(q)
<1> DEFINE p == Tail(q)
<1>1. /\ p \in Seq(Items) /\ Len(p) = Len(q) - 1 /\ Len(q) \in Nat \ {0}
      /\ Head(q) = q[1]
      /\ DOMAIN q = 1 .. Len(q) /\ DOMAIN p = 1 .. Len(q) - 1
      /\ \A i \in 1 .. Len(q) - 1 : p[i] = q[i + 1]
  BY HeadTailProperties, LenProperties, EmptySeq
<1>2. q[1] \in Items
  BY <1>1, ElementOfSeq
<1> HIDE DEF p
<1>3. Once(p)
  BY <1>1 DEF Once
<1>4. In(p) = In(q) \ {q[1]}
  <2>1. \A x : x \in In(p) => x \in In(q) /\ x # q[1]
    BY <1>1 DEF Once, In
  <2>2. ASSUME NEW x \in In(q), x # q[1] PROVE x \in In(p)
    <3>1. PICK i \in 2 .. Len(q) : q[i] = x /\ x # Sentinel
      BY <1>1, <2>2 DEF In
    <3>2. i - 1 \in DOMAIN p /\ p[i - 1] = x
      BY <1>1, <3>1
    <3>3. QED
      BY <3>1, <3>2 DEF In
  <2>3. QED
    BY <2>1, <2>2
<1>5. Head(q) \in Items
  BY <1>1, <1>2
<1>6. q[1] # Sentinel => q[1] \in In(q)
  <2>1. 1 \in DOMAIN q
    BY <1>1
  <2>2. QED
    BY <2>1 DEF In
<1>7. Head(q) # Sentinel => Head(q) \in In(q)
  BY <1>1, <1>6
<1>8. In(p) = In(q) \ {Head(q)}
  BY <1>1, <1>4
<1>9. QED
  BY <1>1, <1>3, <1>5, <1>7, <1>8 DEF p

-----------------------------------------------------------------------------
(* What the two pools have in common: the tasks T and the workers W of the  *)
(* one that runs, and the places of a task.  A client that has not put its  *)
(* task into the queue has a future nobody else knows.                      *)
Outside == {"new", "checked", "full", "retrying"}
Doing == {"none", "getting", "idle", "checking", "leaving", "dead", "ended"}

Types(T, W) ==
  /\ T \subseteq Tasks /\ Tasks \cap Doing = {}
  /\ work \in Seq(Items)
  /\ In(work) \subseteq T
  /\ call \in [T -> Outside \cup {"returned", "raised"}]
  /\ future \in [T -> {"pending", "done", "cancelled"}]
  /\ early \subseteq T
  /\ worker \in [W -> Doing \cup T]

OneRunner ==
  \A v, w \in DOMAIN worker : v # w /\ worker[v] = worker[w] => worker[v] \notin Tasks
Apart == In(work) \cap Running = {}
Accepted == \A t \in In(work) \cup Running : call[t] = "returned" /\ future[t] # "done"
Remembered == \A t \in early : future[t] = "pending" => t \in In(work) \cup Running
Fresh == \A t \in DOMAIN call : call[t] \in Outside => future[t] = "pending"

Kept == Once(work) /\ OneRunner /\ Apart /\ Accepted /\ Remembered /\ Fresh

LEMMA KeptIsInOnePlace == TaskInOnePlace /\ Fresh <=> Kept
<1>1. Queued = In(work)
  BY Zenon DEF Queued, In
<1>2. QED
  BY <1>1 DEF TaskInOnePlace, Kept, Once, OneRunner, Apart, Accepted, Remembered

(* A step of workers that takes no task, or signals are put or taken.       *)
LEMMA StepAside ==
  ASSUME NEW T, NEW W, Types(T, W), Types(T, W)', Kept,
         Once(work'), In(work') = In(work),
         \A w \in W : \/ worker'[w] = worker[w]
                      \/ worker[w] \notin Tasks /\ worker'[w] \notin Tasks,
         UNCHANGED <<call, future, early>>
  PROVE  Kept'
<1>1. DOMAIN worker = W /\ DOMAIN worker' = W
  BY DEF Types
<1>2. Running' = Running
  BY <1>1 DEF Running
<1>3. OneRunner'
  BY <1>1 DEF Kept, OneRunner
<1>4. Once(work)' /\ In(work)' = In(work)
  BY DEF Once, In
<1>5. Apart' /\ Accepted' /\ Remembered' /\ Fresh'
  BY <1>2, <1>4 DEF Kept, Apart, Accepted, Remembered, Fresh
<1>6. QED
  BY <1>3, <1>4, <1>5 DEF Kept

(* A client moves before its task is queued, and may settle its future when *)
(* it gives up; or it cancels the future of a task that was accepted.       *)
LEMMA ClientMoves ==
  ASSUME NEW T, NEW W, Types(T, W), Types(T, W)', Kept,
         NEW t \in T,
         \A s \in T \ {t} : call'[s] = call[s] /\ future'[s] = future[s],
         \/ call[t] \in Outside /\ (call'[t] \in Outside => future'[t] = future[t])
         \/ call[t] = "returned" /\ call'[t] = "returned" /\ future'[t] = "cancelled",
         Once(work'), In(work') = In(work),
         UNCHANGED <<worker, early>>
  PROVE  Kept'
<1>1. Once(work)' /\ In(work)' = In(work) /\ Running' = Running /\ OneRunner' /\ Apart'
  BY DEF Once, In, Running, Kept, OneRunner, Apart
<1>2. DOMAIN call = T /\ DOMAIN call' = T /\ early \subseteq T
      /\ In(work) \subseteq T
  BY DEF Types
<1>3. Running \subseteq T
  BY DEF Types, Running, Doing
<1>4. CASE call[t] \in Outside
  <2>1. t \notin In(work) \cup Running
    BY <1>4 DEF Kept, Accepted, Outside
  <2>2. t \notin early
    BY <1>4, <1>2, <2>1 DEF Kept, Remembered, Fresh
  <2>3. Accepted'
    BY <1>1, <1>2, <1>3, <2>1 DEF Kept, Accepted
  <2>4. Remembered'
    BY <1>1, <1>2, <2>2 DEF Kept, Remembered
  <2>5. call'[t] \in Outside => future'[t] = "pending"
    BY <1>4, <1>2 DEF Kept, Fresh, Outside
  <2>6. Fresh'
    BY <1>2, <2>5 DEF Kept, Fresh
  <2>7. QED
    BY <1>1, <2>3, <2>4, <2>6 DEF Kept
<1>5. CASE call[t] = "returned" /\ call'[t] = "returned" /\ future'[t] = "cancelled"
  <2>1. Accepted'
    BY <1>1, <1>2, <1>3, <1>5 DEF Kept, Accepted
  <2>2. Remembered'
    BY <1>1, <1>2, <1>5 DEF Kept, Remembered
  <2>3. Fresh'
    BY <1>2, <1>5 DEF Kept, Fresh, Outside
  <2>4. QED
    BY <1>1, <2>1, <2>2, <2>3 DEF Kept
<1>6. QED
  BY <1>4, <1>5

(* The task of t is put into the queue. *)
LEMMA Queueing ==
  ASSUME NEW T, NEW W, Types(T, W), Types(T, W)', Kept,
         NEW t \in T, call[t] \in Outside, Put(t, work),
         UNCHANGED <<worker, future>>
  PROVE  Kept'
<1>1. DOMAIN call = T /\ early \subseteq T /\ In(work) \subseteq T /\ t \in Tasks
      /\ call' = [call EXCEPT ![t] = "returned"] /\ work' = Append(work, t)
      /\ call \in [T -> Outside \cup {"returned", "raised"}]
  BY DEF Types, Put, Move
<1>2. t \notin In(work) \cup Running /\ future[t] = "pending"
  BY <1>1 DEF Kept, Accepted, Fresh, Outside
<1>3. Once(Append(work, t)) /\ In(Append(work, t)) = In(work) \cup {t}
  <2>1. work \in Seq(Items) /\ Once(work)
    BY DEF Types, Kept
  <2>2. QED
    BY <1>1, <1>2, <2>1, AppendTask
<1>4. Once(work)' /\ In(work)' = In(work) \cup {t}
  BY <1>1, <1>3 DEF Once, In
<1>5. Running' = Running /\ Running \subseteq T
  BY DEF Running, Types, Doing
<1>6. OneRunner' /\ Apart'
  BY <1>2, <1>4, <1>5 DEF Kept, OneRunner, Apart
<1>7. Accepted'
  BY <1>1, <1>2, <1>4, <1>5 DEF Kept, Accepted
<1>8. Remembered'
  BY <1>4, <1>5 DEF Kept, Remembered, Put
<1>9. Fresh'
  BY <1>1 DEF Kept, Fresh, Outside
<1>10. QED
  BY <1>4, <1>6, <1>7, <1>8, <1>9 DEF Kept

(* The oldest task is thrown away and its future cancelled, while the       *)
(* client t goes on to put its own.                                         *)
LEMMA Dropping ==
  ASSUME NEW T, NEW W, Types(T, W), Types(T, W)', Kept,
         NEW t \in T, call[t] = "full", Move(t, "retrying"),
         work # <<>>, work' = Tail(work), Head(work) # Sentinel,
         future' = [future EXCEPT ![Head(work)] = "cancelled"],
         UNCHANGED <<worker, early>>
  PROVE  Kept'
<1> DEFINE h == Head(work)
<1>1. Once(Tail(work)) /\ In(Tail(work)) = In(work) \ {h} /\ h \in In(work)
  <2>1. work \in Seq(Items) /\ Once(work)
    BY DEF Types, Kept
  <2>2. QED
    BY <2>1, TakeHead
<1>2. DOMAIN call = T /\ DOMAIN future = T /\ early \subseteq T /\ In(work) \subseteq T
      /\ call' = [call EXCEPT ![t] = "retrying"]
      /\ future' = [future EXCEPT ![h] = "cancelled"]
  BY DEF Types, Move
<1>3. Once(work)' /\ In(work)' = In(work) \ {h}
  BY <1>1 DEF Once, In
<1>4. Running' = Running /\ Running \subseteq T
  BY DEF Running, Types, Doing
<1> HIDE DEF h
<1>5. h # t /\ t \notin In(work) \cup Running /\ h \notin Running
  BY <1>1 DEF Kept, Accepted, Apart
<1>6. OneRunner' /\ Apart'
  BY <1>3, <1>4 DEF Kept, OneRunner, Apart
<1>7. Accepted'
  BY <1>2, <1>3, <1>4, <1>5 DEF Kept, Accepted
<1>8. Remembered'
  BY <1>1, <1>2, <1>3, <1>4 DEF Kept, Remembered
<1>9. Fresh'
  <2>1. call[h] = "returned" /\ future[t] = "pending"
    BY <1>1, <1>2 DEF Kept, Accepted, Fresh, Outside
  <2>2. QED
    BY <1>1, <1>2, <1>5, <2>1 DEF Kept, Fresh, Outside
<1>10. QED
  BY <1>3, <1>6, <1>7, <1>8, <1>9 DEF Kept

(* A worker takes the oldest item, and runs it if it is a task whose future *)
(* is not cancelled.                                                        *)
LEMMA Taking ==
  ASSUME NEW T, NEW W, Types(T, W), Types(T, W)', Kept,
         NEW w \in W, worker[w] = "getting",
         work # <<>>, work' = Tail(work),
         NEW end \in Doing,
         Become(w, IF Head(work) = Sentinel THEN end
                   ELSE IF future[Head(work)] = "cancelled" THEN "getting"
                   ELSE Head(work)),
         UNCHANGED <<call, future, early>>
  PROVE  Kept'
<1> DEFINE h == Head(work)
<1>1. /\ Once(Tail(work)) /\ In(Tail(work)) = In(work) \ {h}
      /\ h # Sentinel => h \in In(work)
  <2>1. work \in Seq(Items) /\ Once(work)
    BY DEF Types, Kept
  <2>2. QED
    BY <2>1, TakeHead
<1>2. DOMAIN worker = W /\ DOMAIN worker' = W /\ early \subseteq T /\ In(work) \subseteq T
      /\ T \subseteq Tasks /\ end \notin Tasks /\ "getting" \notin Tasks
  BY DEF Types, Doing
<1>3. Once(work)' /\ In(work)' = In(work) \ {h} /\ Sentinel \notin In(work)
  BY <1>1 DEF Once, In
<1>4. /\ \A v \in W \ {w} : worker'[v] = worker[v]
      /\ worker'[w] = IF h = Sentinel THEN end
                      ELSE IF future[h] = "cancelled" THEN "getting" ELSE h
  BY <1>2 DEF Become
<1> HIDE DEF h
<1>5. CASE h # Sentinel /\ future[h] # "cancelled"
  <2>1. h \in In(work) /\ h \in Tasks /\ h \notin Running /\ worker'[w] = h
    BY <1>1, <1>2, <1>4, <1>5 DEF Kept, Apart
  <2>2. Running' = Running \cup {h}
    <3>1. \A t \in Tasks : t # h => (t \in Running' <=> t \in Running)
      BY <1>2, <1>4, <2>1 DEF Running
    <3>2. h \in Running'
      BY <1>2, <2>1 DEF Running
    <3>3. QED
      BY <3>1, <3>2, <2>1 DEF Running
  <2>3. OneRunner'
    <3>1. \A v \in W : worker[v] # h
      BY <1>2, <2>1 DEF Running
    <3>2. QED
      BY <1>2, <1>4, <2>1, <3>1 DEF Kept, OneRunner
  <2>4. Apart'
    BY <1>3, <2>1, <2>2 DEF Kept, Apart
  <2>5. Accepted' /\ Remembered' /\ Fresh'
    BY <1>3, <2>1, <2>2 DEF Kept, Accepted, Remembered, Fresh
  <2>6. QED
    BY <1>3, <2>3, <2>4, <2>5 DEF Kept
<1>6. CASE h = Sentinel \/ future[h] = "cancelled"
  <2>1. worker'[w] \notin Tasks
    BY <1>2, <1>4, <1>6
  <2>2. Running' = Running
    BY <1>2, <1>4, <2>1 DEF Running
  <2>3. OneRunner'
    BY <1>2, <1>4, <2>1 DEF Kept, OneRunner
  <2>4. Apart' /\ Accepted' /\ Fresh'
    BY <1>3, <2>2 DEF Kept, Apart, Accepted, Fresh
  <2>5. Remembered'
    BY <1>3, <1>6, <2>2 DEF Kept, Remembered
  <2>6. QED
    BY <1>3, <2>3, <2>4, <2>5 DEF Kept
<1>7. QED
  BY <1>5, <1>6

(* A worker has run its task. *)
LEMMA Finishing ==
  ASSUME NEW T, NEW W, Types(T, W), Types(T, W)', Kept,
         NEW w \in W, worker[w] \in T, Settle(worker[w]),
         NEW x \in Doing, Become(w, x),
         UNCHANGED <<work, call, early>>
  PROVE  Kept'
<1> DEFINE t == worker[w]
<1>1. DOMAIN worker = W /\ DOMAIN worker' = W /\ early \subseteq T /\ In(work) \subseteq T
      /\ T \subseteq Tasks /\ DOMAIN future = T /\ DOMAIN call = T /\ x \notin Tasks
  BY DEF Types
<1>2. Once(work)' /\ In(work)' = In(work)
  BY DEF Once, In, Kept
<1>3. /\ \A v \in W \ {w} : worker'[v] = worker[v]
      /\ worker'[w] = x
      /\ t \in Running
  BY <1>1 DEF Become, Running
<1>4. /\ \A s \in T \ {t} : future'[s] = future[s]
      /\ future'[t] # "pending"
  BY <1>1 DEF Settle
<1>5. t \notin In(work) /\ call[t] = "returned"
  BY <1>3 DEF Kept, Apart, Accepted
<1>6. Running' = Running \ {t}
  <2>1. \A v \in W \ {w} : worker[v] # t
    BY <1>1, <1>3 DEF Kept, OneRunner
  <2>2. QED
    BY <1>1, <1>3, <2>1 DEF Running
<1>7. Running \subseteq T
  BY DEF Running, Types, Doing
<1>8. OneRunner'
  BY <1>1, <1>3 DEF Kept, OneRunner
<1> HIDE DEF t
<1>9. Apart' /\ Accepted'
  BY <1>1, <1>2, <1>4, <1>5, <1>6, <1>7 DEF Kept, Apart, Accepted
<1>10. Remembered' /\ Fresh'
  BY <1>1, <1>2, <1>4, <1>5, <1>6 DEF Kept, Remembered, Fresh, Outside
<1>11. QED
  BY <1>2, <1>8, <1>9, <1>10 DEF Kept

LEMMA TasksInQueue ==
  ASSUME NEW T \in SUBSET Tasks, NEW q \in Seq(T \cup {Sentinel})
  PROVE  q \in Seq(Items) /\ In(q) \subseteq T
<1>1. \A i \in DOMAIN q : q[i] \in T \cup {Sentinel}
  BY ElementOfSeq, LenProperties
<1>2. q \in Seq(Items)
  BY DEF Items
<1>3. QED
  BY <1>1, <1>2 DEF In

-----------------------------------------------------------------------------
(* The pool with a bounded queue. *)

LEMMA NotTasks == Tasks \cap Doing = {} /\ Sentinel \notin Tasks
BY PoolAssumption, ScalingAssumption DEF Doing

BackInv ==
  /\ TypeOK
  /\ closer = "posting" => signals # 0
  /\ Kept

LEMMA BackTypes == TypeOK => Types(Tasks, Workers)
<1>1. SUFFICES ASSUME TypeOK PROVE Types(Tasks, Workers)
  OBVIOUS
<1>2. work \in Seq(Items) /\ In(work) \subseteq Tasks
  BY <1>1, TasksInQueue DEF TypeOK
<1>3. QED
  BY <1>1, <1>2, NotTasks DEF TypeOK, Types, Outside, Doing

LEMMA BackStart == ASSUME Init PROVE BackInv
<1>1. Cardinality(Workers) \in Nat
  BY PoolAssumption, FS_CardinalityType
<1>2. TypeOK
  <2>1. work \in Seq(Tasks \cup {Sentinel}) /\ Len(work) <= MaxQueueSize
    BY PoolAssumption, EmptySeq DEF Init, TasksInit
  <2>2. 0 \in 0 .. Cardinality(Workers)
    BY <1>1
  <2>3. early \subseteq Tasks /\ shutdown \in BOOLEAN /\ policy \in Policies
    BY DEF Init, TasksInit
  <2>4. worker \in [Workers -> {"getting", "checking", "ended"} \cup Tasks]
    BY DEF Init
  <2>5. QED
    BY <2>1, <2>2, <2>3, <2>4 DEF Init, TasksInit, TypeOK
<1>3. Kept
  <2>1. DOMAIN work = {} /\ In(work) = {}
    BY EmptySeq DEF Init, TasksInit, In
  <2>2. Running = {} /\ OneRunner
    BY NotTasks DEF Init, TasksInit, Running, OneRunner, Doing
  <2>3. QED
    BY <2>1, <2>2 DEF Init, TasksInit, Kept, Once, Apart, Accepted, Remembered, Fresh
<1>4. QED
  BY <1>2, <1>3 DEF BackInv, Init, TasksInit

(* The queue with one more or one less. *)
LEMMA QueueGrows ==
  ASSUME NEW t \in Items, work \in Seq(Items), Len(work) <= MaxQueueSize, ~Full
  PROVE  Append(work, t) \in Seq(Items) /\ Len(Append(work, t)) <= MaxQueueSize
<1>1. Append(work, t) \in Seq(Items) /\ Len(Append(work, t)) = Len(work) + 1 /\ Len(work) \in Nat
  BY AppendProperties, LenProperties
<1>2. QED
  BY <1>1, PoolAssumption DEF Full

LEMMA QueueShrinks ==
  ASSUME work \in Seq(Items), Len(work) <= MaxQueueSize, work # <<>>
  PROVE  /\ Tail(work) \in Seq(Items) /\ Len(Tail(work)) <= MaxQueueSize
         /\ Head(work) \in Items
<1>1. /\ Tail(work) \in Seq(Items) /\ Len(Tail(work)) = Len(work) - 1 /\ Len(work) \in Nat
      /\ Head(work) \in Items
  BY HeadTailProperties, LenProperties, EmptySeq, ElementOfSeq
<1>2. QED
  BY <1>1, PoolAssumption

(* The types, action by action. *)
LEMMA BackTypeStep ==
  ASSUME BackInv, Next PROVE TypeOK' /\ (closer = "posting" => signals # 0)'
<1>1. TypeOK /\ (closer = "posting" => signals # 0) /\ Items = Tasks \cup {Sentinel}
  BY DEF BackInv, Items
<1>2. work \in Seq(Items) /\ Len(work) <= MaxQueueSize
  BY <1>1 DEF TypeOK
<1> USE <1>1, <1>2
<1>3. ASSUME NEW t \in Tasks, Client(t) PROVE TypeOK' /\ (closer = "posting" => signals # 0)'
  <2>1. CASE (BeginSubmit(t) \/ Cancel(t)) /\ UNCHANGED policy
    BY <2>1 DEF BeginSubmit, Cancel, Move, TypeOK
  <2>2. CASE Enqueue(t) \/ EnqueueAgain(t)
    <3>1. CASE Full
      BY <2>2, <3>1 DEF Enqueue, EnqueueAgain, Move, TypeOK
    <3>2. CASE ~Full
      <4>1. work' = Append(work, t) /\ early' \subseteq Tasks
        BY <2>2, <3>2 DEF Enqueue, EnqueueAgain, Put, TypeOK
      <4>2. work' \in Seq(Items) /\ Len(work') <= MaxQueueSize
        BY <4>1, <3>2, QueueGrows
      <4>3. QED
        BY <2>2, <3>2, <4>1, <4>2 DEF Enqueue, EnqueueAgain, Put, Move, TypeOK
    <3>3. QED
      BY <3>1, <3>2
  <2>3. CASE SettleHere(t) \/ Discard(t)
    BY <2>3 DEF SettleHere, Discard, Settle, Move, TypeOK
  <2>4. CASE DiscardOldest(t)
    <3>1. work' \in Seq(Items) /\ Len(work') <= MaxQueueSize
      BY <2>4, QueueShrinks DEF DiscardOldest
    <3>2. call' \in [Tasks -> {"new", "checked", "full", "retrying", "returned", "raised"}]
      BY <2>4 DEF DiscardOldest, Move, TypeOK
    <3>3. future' \in [Tasks -> {"pending", "done", "cancelled"}]
      BY <2>4 DEF DiscardOldest, TypeOK
    <3>4. QED
      BY <2>4, <3>1, <3>2, <3>3 DEF DiscardOldest, TypeOK
  <2>5. QED
    BY <1>3, <2>1, <2>2, <2>3, <2>4 DEF Client
<1>4. ASSUME NEW w \in Workers, Work(w) PROVE TypeOK' /\ (closer = "posting" => signals # 0)'
  <2>1. CASE GetItem(w)
    <3>1. work' \in Seq(Items) /\ Len(work') <= MaxQueueSize /\ Head(work) \in Items
      BY <2>1, QueueShrinks DEF GetItem
    <3>2. worker' \in [Workers -> {"getting", "checking", "ended"} \cup Tasks]
      BY <2>1, <3>1 DEF GetItem, Become, TypeOK
    <3>3. QED
      BY <2>1, <3>1, <3>2 DEF GetItem, TypeOK
  <2>2. CASE Finish(w)
    BY <2>2 DEF Finish, Settle, Become, TypeOK
  <2>3. CASE GetNothing(w) \/ CheckShutdown(w)
    BY <2>3 DEF GetNothing, CheckShutdown, Become, TypeOK
  <2>4. QED
    BY <1>4, <2>1, <2>2, <2>3 DEF Work
<1>5. CASE Shutdown
  BY <1>5 DEF Shutdown, BeginShutdown, TypeOK
<1>6. CASE Close
  <2>1. Cardinality(Workers) \in Nat
    BY PoolAssumption, FS_CardinalityType
  <2>2. CASE CountThreads
    BY <2>1, <2>2 DEF CountThreads, TypeOK
  <2>3. CASE PostSignal
    <3>1. work' \in Seq(Items) /\ Len(work') <= MaxQueueSize
      BY <2>3, QueueGrows DEF PostSignal
    <3>2. signals' \in 0 .. Cardinality(Workers)
      BY <2>1, <2>3 DEF PostSignal, TypeOK
    <3>3. QED
      BY <2>3, <3>1, <3>2 DEF PostSignal, TypeOK
  <2>4. CASE Join
    BY <2>4 DEF Join, TypeOK
  <2>5. QED
    BY <1>6, <2>2, <2>3, <2>4 DEF Close
<1>7. QED
  BY <1>3, <1>4, <1>5, <1>6 DEF Next

LEMMA BackStep ==
  ASSUME BackInv, Next PROVE BackInv'
<1>1. TypeOK' /\ (closer = "posting" => signals # 0)'
  BY BackTypeStep
<1>2. TypeOK /\ Kept /\ Types(Tasks, Workers) /\ Types(Tasks, Workers)'
  <2>1. TypeOK' => Types(Tasks, Workers)'
    BY BackTypes, PTL
  <2>2. QED
    BY <1>1, <2>1, BackTypes DEF BackInv
<1>3. ASSUME NEW t \in Tasks, Client(t) PROVE Kept'
  <2>1. Once(work) /\ call[t] = call[t] /\ DOMAIN call = Tasks /\ DOMAIN future = Tasks
    BY <1>2 DEF Kept, TypeOK
  <2>2. CASE (BeginSubmit(t) \/ Cancel(t)) /\ UNCHANGED policy
    <3>1. /\ \A s \in Tasks \ {t} : call'[s] = call[s] /\ future'[s] = future[s]
          /\ \/ call[t] \in Outside /\ (call'[t] \in Outside => future'[t] = future[t])
             \/ call[t] = "returned" /\ call'[t] = "returned" /\ future'[t] = "cancelled"
          /\ UNCHANGED <<work, worker, early>>
      BY <2>1, <2>2 DEF BeginSubmit, Cancel, Move, Outside
    <3>2. QED
      BY <1>2, <2>1, <3>1, ClientMoves
  <2>3. CASE Enqueue(t) \/ EnqueueAgain(t)
    <3>1. CASE Full
      <4>1. /\ \A s \in Tasks \ {t} : call'[s] = call[s] /\ future'[s] = future[s]
            /\ call[t] \in Outside /\ (call'[t] \in Outside => future'[t] = future[t])
            /\ UNCHANGED <<work, worker, early>>
        BY <2>1, <2>3, <3>1 DEF Enqueue, EnqueueAgain, Move, Outside
      <4>2. QED
        BY <1>2, <2>1, <4>1, ClientMoves
    <3>2. CASE ~Full
      <4>1. call[t] \in Outside /\ Put(t, work) /\ UNCHANGED <<worker, future>>
        BY <2>3, <3>2 DEF Enqueue, EnqueueAgain, Outside
      <4>2. QED
        BY <1>2, <4>1, Queueing
    <3>3. QED
      BY <3>1, <3>2
  <2>4. CASE SettleHere(t) \/ Discard(t)
    <3>1. /\ \A s \in Tasks \ {t} : call'[s] = call[s] /\ future'[s] = future[s]
          /\ call[t] \in Outside /\ call'[t] \notin Outside
          /\ UNCHANGED <<work, worker, early>>
      BY <2>1, <2>4 DEF SettleHere, Discard, Settle, Move, Outside
    <3>2. QED
      BY <1>2, <2>1, <3>1, ClientMoves
  <2>5. CASE DiscardOldest(t)
    <3>1. CASE Head(work) = Sentinel
      <4>1. Once(Tail(work)) /\ In(Tail(work)) = In(work)
        <5>1. work \in Seq(Items) /\ work # <<>> /\ Sentinel \notin In(work)
          BY <1>2, <2>5 DEF DiscardOldest, Types, In
        <5>2. QED
          BY <2>1, <3>1, <5>1, TakeHead
      <4>2. /\ \A s \in Tasks \ {t} : call'[s] = call[s] /\ future'[s] = future[s]
            /\ call[t] \in Outside /\ call'[t] \notin Outside
            /\ work' = Tail(work) /\ UNCHANGED <<worker, early>>
        BY <2>1, <2>5, <3>1 DEF DiscardOldest, Move, Outside
      <4>3. QED
        BY <1>2, <2>1, <4>1, <4>2, ClientMoves
    <3>2. CASE Head(work) # Sentinel
      <4>1. /\ call[t] = "full" /\ Move(t, "retrying") /\ work # <<>> /\ work' = Tail(work)
            /\ future' = [future EXCEPT ![Head(work)] = "cancelled"]
            /\ UNCHANGED <<worker, early>>
        BY <2>5, <3>2 DEF DiscardOldest
      <4>2. QED
        BY <1>2, <3>2, <4>1, Dropping
    <3>3. QED
      BY <3>1, <3>2
  <2>6. QED
    BY <1>3, <2>2, <2>3, <2>4, <2>5 DEF Client
<1>4. Once(work) /\ In(work) = In(work) /\ DOMAIN worker = Workers
      /\ "getting" \in Doing \ Tasks /\ "ended" \in Doing \ Tasks /\ "checking" \in Doing \ Tasks
  BY <1>2, NotTasks DEF Kept, TypeOK, Doing
<1>5. ASSUME NEW w \in Workers, Work(w) PROVE Kept'
  <2>1. CASE GetItem(w)
    <3>1. /\ worker[w] = "getting" /\ work # <<>> /\ work' = Tail(work)
          /\ Become(w, IF Head(work) = Sentinel THEN "ended"
                       ELSE IF future[Head(work)] = "cancelled" THEN "getting"
                       ELSE Head(work))
          /\ UNCHANGED <<call, future, early>>
      BY <2>1 DEF GetItem
    <3>2. QED
      BY <1>2, <1>4, <3>1, Taking
  <2>2. CASE Finish(w)
    <3>1. /\ worker[w] \in Tasks /\ Settle(worker[w]) /\ Become(w, "getting")
          /\ UNCHANGED <<work, call, early>>
      BY <2>2 DEF Finish
    <3>2. QED
      BY <1>2, <1>4, <3>1, Finishing
  <2>3. CASE GetNothing(w) \/ CheckShutdown(w)
    <3>1. /\ \A v \in Workers : \/ worker'[v] = worker[v]
                                \/ worker[v] \notin Tasks /\ worker'[v] \notin Tasks
          /\ UNCHANGED <<work, call, future, early>>
      BY <1>4, <2>3 DEF GetNothing, CheckShutdown, Become
    <3>2. QED
      BY <1>2, <1>4, <3>1, StepAside
  <2>4. QED
    BY <1>5, <2>1, <2>2, <2>3 DEF Work
<1>6. ASSUME Shutdown \/ CountThreads \/ Join PROVE Kept'
  <2>1. UNCHANGED <<work, call, future, early>> /\ \A v \in Workers : worker'[v] = worker[v]
    BY <1>6 DEF Shutdown, BeginShutdown, CountThreads, Join
  <2>2. QED
    BY <1>2, <1>4, <2>1, StepAside
<1>7. ASSUME PostSignal PROVE Kept'
  <2>1. /\ work' = Append(work, Sentinel) /\ UNCHANGED <<call, future, early>>
        /\ \A v \in Workers : worker'[v] = worker[v]
    BY <1>7 DEF PostSignal
  <2>2. Once(Append(work, Sentinel)) /\ In(Append(work, Sentinel)) = In(work)
    BY <1>2, <1>4, AppendSignal DEF Types
  <2>3. QED
    BY <1>2, <1>4, <2>1, <2>2, StepAside
<1>8. Kept'
  BY <1>3, <1>5, <1>6, <1>7 DEF Next, Close
<1>9. QED
  BY <1>1, <1>8 DEF BackInv

-----------------------------------------------------------------------------
(* The scaling pool. *)

ScalingInv == Scaling!ScalingTypeOK /\ Kept

LEMMA ScalingCardinality == \A S : Scaling!Cardinality(S) = Cardinality(S)
BY Zenon DEF Scaling!Cardinality, Cardinality

(* There are as many places as one asks for. *)
LEMMA SomeExist ==
  ASSUME NEW free, IsFiniteSet(free), NEW n \in Nat, n <= Cardinality(free)
  PROVE  Scaling!Some(n, free) \in SUBSET free /\ Cardinality(Scaling!Some(n, free)) = n
<1> DEFINE k == Cardinality(free)
<1>1. k \in Nat /\ ExistsBijection(1 .. k, free)
  BY FS_CardinalityType
<1>2. PICK F \in Bijection(1 .. k, free) : TRUE
  BY <1>1 DEF ExistsBijection
<1>3. F \in [1 .. k -> free] /\ \A a, b \in 1 .. k : F[a] = F[b] => a = b
  BY <1>2, Fun_BijectionProperties
<1> DEFINE G == [i \in 1 .. n |-> F[i]]
           places == {F[i] : i \in 1 .. n}
<1>4. 1 .. n \subseteq 1 .. k
  BY <1>1
<1> HIDE DEF k
<1>5. places \in SUBSET free
  BY <1>3, <1>4
<1>6. G \in Bijection(1 .. n, places)
  <2>1. G \in [1 .. n -> places] /\ \A a, b \in 1 .. n : G[a] = G[b] => a = b
    BY <1>3, <1>4
  <2>2. \A p \in places : \E i \in 1 .. n : G[i] = p
    OBVIOUS
  <2>3. QED
    BY <2>1, <2>2, Fun_IsBij
<1>7. Cardinality(places) = n
  BY <1>6, FS_CountingElements DEF ExistsBijection
<1> HIDE DEF places
<1>8. \E chosen \in SUBSET free : Scaling!Cardinality(chosen) = n
  BY <1>5, <1>7, ScalingCardinality
<1>9. /\ Scaling!Some(n, free) \in SUBSET free
      /\ Scaling!Cardinality(Scaling!Some(n, free)) = n
  BY <1>8, Zenon DEF Scaling!Some
<1>10. QED
  BY <1>9, ScalingCardinality

(* The number of workers *)
LEMMA CountsWorkers ==
  ASSUME NEW R \in SUBSET Slots
  PROVE  /\ IsFiniteSet(R) /\ Cardinality(R) \in Nat
         /\ \A Q \in SUBSET R : Cardinality(Q) <= Cardinality(R)
<1>1. IsFiniteSet(R)
  BY ScalingAssumption, FS_Subset
<1>2. QED
  BY <1>1, FS_CardinalityType, FS_Subset

LEMMA CountIs ==
  /\ Scaling!Registered \in SUBSET Slots
  /\ Scaling!Count = Cardinality(Scaling!Registered) /\ Scaling!Count \in Nat
<1>1. Scaling!Registered \in SUBSET Slots
  BY DEF Scaling!Registered
<1>2. Scaling!Count = Cardinality(Scaling!Registered)
  BY ScalingCardinality DEF Scaling!Count
<1>3. QED
  BY <1>1, <1>2, CountsWorkers

(* No worker is new: their number does not grow.                            *)
LEMMA CountShrinks ==
  ASSUME \A s \in Slots : worker[s] = "none" => worker'[s] = "none"
  PROVE  Scaling!Count' <= Scaling!Count
<1>1. /\ Scaling!Registered \in SUBSET Slots
      /\ Scaling!Count = Cardinality(Scaling!Registered)
  BY CountIs
<1>2. (Scaling!Count = Cardinality(Scaling!Registered))'
  BY CountIs, PTL
<1>3. Scaling!Registered' \in SUBSET Scaling!Registered
  BY DEF Scaling!Registered
<1>4. QED
  BY <1>1, <1>2, <1>3, CountsWorkers

(* As many start as there is room for. *)
LEMMA CountGrows ==
  ASSUME NEW n \in Nat, Scaling!Count + n <= MaxWorkers,
         worker' = Scaling!Started(n)
  PROVE  /\ Scaling!Count' <= MaxWorkers
         /\ \A s \in Slots : \/ worker'[s] = worker[s]
                             \/ worker[s] = "none" /\ worker'[s] = "getting"
<1> DEFINE free == Slots \ Scaling!Registered
           new == Scaling!Some(n, free)
<1>1. /\ Scaling!Registered \in SUBSET Slots
      /\ Scaling!Count = Cardinality(Scaling!Registered) /\ Scaling!Count \in Nat
  BY CountIs
<1>2. IsFiniteSet(free) /\ IsFiniteSet(Scaling!Registered)
  BY <1>1, CountsWorkers
<1>3. n <= Cardinality(free)
  <2>1. Cardinality(Scaling!Registered \cup free) =
          Cardinality(Scaling!Registered) + Cardinality(free)
            - Cardinality(Scaling!Registered \cap free)
    BY <1>2, FS_Union
  <2>2. Scaling!Registered \cup free = Slots /\ Scaling!Registered \cap free = {}
    BY <1>1
  <2>3. Cardinality({}) = 0
    BY FS_EmptySet
  <2>4. Cardinality(free) \in Nat /\ Cardinality(Slots) \in Nat
    BY <1>2, FS_CardinalityType, CountsWorkers
  <2>5. /\ Cardinality(Scaling!Registered \cup free) = Cardinality(Slots)
        /\ Cardinality(Scaling!Registered \cap free) = 0
    BY <2>2, <2>3, Zenon
  <2>6. Cardinality(Slots) = Scaling!Count + Cardinality(free)
    BY <1>1, <2>1, <2>4, <2>5
  <2>7. QED
    BY <1>1, <2>4, <2>6, ScalingAssumption
<1>4. new \in SUBSET free /\ Cardinality(new) = n
  BY <1>2, <1>3, SomeExist
<1>5. worker' = [s \in Slots |-> IF s \in new THEN "getting" ELSE worker[s]]
  BY DEF Scaling!Started
<1> HIDE DEF new
<1>6. Scaling!Registered' = Scaling!Registered \cup new
  BY <1>4, <1>5 DEF Scaling!Registered
<1>7. Cardinality(Scaling!Registered \cup new) = Scaling!Count + n
  <2>1. IsFiniteSet(new) /\ Scaling!Registered \cap new = {}
    BY <1>2, <1>4, FS_Subset
  <2>2. Cardinality(Scaling!Registered \cup new) =
          Cardinality(Scaling!Registered) + Cardinality(new)
            - Cardinality(Scaling!Registered \cap new)
    BY <1>2, <2>1, FS_Union
  <2>3. Cardinality({}) = 0
    BY FS_EmptySet
  <2>4. Cardinality(Scaling!Registered \cap new) = 0
    BY <2>1, <2>3, Zenon
  <2>5. QED
    BY <1>1, <1>4, <2>2, <2>4
<1>8. (Scaling!Count = Cardinality(Scaling!Registered))'
  BY CountIs, PTL
<1>9. QED
  BY <1>4, <1>5, <1>6, <1>7, <1>8 DEF Scaling!Registered

LEMMA ScalingTypes == Scaling!ScalingTypeOK => Types(ScalingTasks, Slots)
<1>1. SUFFICES ASSUME Scaling!ScalingTypeOK PROVE Types(ScalingTasks, Slots)
  OBVIOUS
<1>2. work \in Seq(Items) /\ In(work) \subseteq ScalingTasks
  BY <1>1, TasksInQueue, ScalingAssumption DEF Scaling!ScalingTypeOK
<1>3. QED
  BY <1>1, <1>2, NotTasks, ScalingAssumption
  DEF Scaling!ScalingTypeOK, Types, Outside, Doing

LEMMA ScalingStart == ASSUME Scaling!ScalingInit PROVE ScalingInv
<1> DEFINE first == Scaling!Some(CoreWorkers, Slots)
<1>1. CoreWorkers \in Nat /\ CoreWorkers <= MaxWorkers /\ CoreWorkers <= Cardinality(Slots)
  BY ScalingAssumption, FS_CardinalityType
<1>2. first \in SUBSET Slots /\ Cardinality(first) = CoreWorkers
  BY <1>1, ScalingAssumption, SomeExist
<1>3. worker = [s \in Slots |-> IF s \in first THEN "getting" ELSE "none"]
  BY DEF Scaling!ScalingInit
<1> HIDE DEF first
<1>4. Scaling!Registered = first
  BY <1>2, <1>3 DEF Scaling!Registered
<1>5. Scaling!Count <= MaxWorkers
  <2>1. Scaling!Count = Cardinality(Scaling!Registered)
    BY CountIs
  <2>2. QED
    BY <1>1, <1>2, <1>4, <2>1
<1>6. Scaling!ScalingTypeOK
  <2>1. work \in Seq(ScalingTasks \cup {Sentinel})
    BY EmptySeq DEF Scaling!ScalingInit, Scaling!TasksInit
  <2>2. 0 \in 0 .. MaxWorkers /\ CoreWorkers \in 0 .. MaxWorkers
    BY <1>1, ScalingAssumption
  <2>3. worker \in [Slots -> {"none", "getting", "idle", "checking", "leaving", "dead"}
                             \cup ScalingTasks]
    BY <1>3
  <2>4. /\ call \in [ScalingTasks -> {"new", "checked", "returned", "raised"}]
        /\ future \in [ScalingTasks -> {"pending", "done", "cancelled"}]
        /\ early \subseteq ScalingTasks /\ shutdown \in BOOLEAN
    BY DEF Scaling!ScalingInit, Scaling!TasksInit
  <2>5. QED
    BY <1>5, <2>1, <2>2, <2>3, <2>4
    DEF Scaling!ScalingInit, Scaling!TasksInit, Scaling!ScalingTypeOK
<1>7. Kept
  <2>1. DOMAIN work = {} /\ In(work) = {}
    BY EmptySeq DEF Scaling!ScalingInit, Scaling!TasksInit, In
  <2>2. Running = {} /\ OneRunner
    BY <1>3, NotTasks DEF Running, OneRunner, Doing
  <2>3. QED
    BY <2>1, <2>2 DEF Scaling!ScalingInit, Scaling!TasksInit,
         Kept, Once, Apart, Accepted, Remembered, Fresh
<1>8. QED
  BY <1>6, <1>7 DEF ScalingInv

LEMMA ScalingTypeStep ==
  ASSUME ScalingInv, Scaling!ScalingNext PROVE Scaling!ScalingTypeOK'
<1>1. Scaling!ScalingTypeOK /\ Scaling!Count \in Nat
  BY CountIs DEF ScalingInv
<1>2. /\ ScalingTasks \subseteq Tasks /\ MaxWorkers \in Nat
      /\ ScalingTasks \cap {"none", "getting", "idle", "checking", "leaving", "dead"} = {}
  BY ScalingAssumption
<1> DEFINE Queues == Seq(ScalingTasks \cup {Sentinel})
           Workings == [Slots -> {"none", "getting", "idle", "checking", "leaving", "dead"}
                                 \cup ScalingTasks]
<1>3. work \in Queues /\ worker \in Workings
  BY <1>1 DEF Scaling!ScalingTypeOK
<1>4. ASSUME work' \in Queues, worker' \in Workings,
             \A s \in Slots : worker[s] = "none" => worker'[s] = "none"
      PROVE  /\ work' \in Seq(ScalingTasks \cup {Sentinel})
             /\ worker' \in [Slots -> {"none", "getting", "idle", "checking", "leaving", "dead"}
                                      \cup ScalingTasks]
             /\ Scaling!Count' <= MaxWorkers
  <2>1. Scaling!Count' <= Scaling!Count /\ Scaling!Count <= MaxWorkers
    BY <1>1, <1>4, CountShrinks DEF Scaling!ScalingTypeOK
  <2>2. (Scaling!Count \in Nat)'
    BY CountIs, PTL
  <2>3. QED
    BY <1>1, <1>2, <1>4, <2>1, <2>2
<1>5. ASSUME NEW t \in ScalingTasks, Scaling!ScalingClient(t) PROVE Scaling!ScalingTypeOK'
  <2>1. work' \in Queues
    <3>1. CASE UNCHANGED work
      BY <1>3, <3>1
    <3>2. CASE Scaling!Submit(t)
      <4>1. work' = Append(work, t)
        BY <3>2 DEF Scaling!Submit, Scaling!Put
      <4>2. QED
        BY <1>3, <4>1, AppendProperties
    <3>3. QED
      BY <1>5, <3>1, <3>2 DEF Scaling!ScalingClient, Scaling!BeginSubmit, Scaling!Cancel
  <2>2. worker' = worker
    BY <1>5 DEF Scaling!ScalingClient, Scaling!BeginSubmit, Scaling!Cancel, Scaling!Submit
  <2>3. /\ work' \in Seq(ScalingTasks \cup {Sentinel})
        /\ worker' \in [Slots -> {"none", "getting", "idle", "checking", "leaving", "dead"}
                                 \cup ScalingTasks]
        /\ Scaling!Count' <= MaxWorkers
    BY <1>3, <1>4, <2>1, <2>2
  <2>4. /\ call' \in [ScalingTasks -> {"new", "checked", "returned", "raised"}]
        /\ future' \in [ScalingTasks -> {"pending", "done", "cancelled"}]
        /\ early' \subseteq ScalingTasks
    BY <1>1, <1>5 DEF Scaling!ScalingClient, Scaling!BeginSubmit, Scaling!Cancel,
         Scaling!Submit, Scaling!Put, Scaling!Move, Scaling!ScalingTypeOK
  <2>5. UNCHANGED <<shutdown, closer, signals, monitor, target, toJoin>>
    BY <1>5 DEF Scaling!ScalingClient, Scaling!BeginSubmit, Scaling!Cancel,
         Scaling!Submit, Scaling!ofMonitor
  <2>6. QED
    BY <1>1, <2>3, <2>4, <2>5 DEF Scaling!ScalingTypeOK
<1>6. ASSUME NEW s \in Slots, Scaling!ScalingWork(s) PROVE Scaling!ScalingTypeOK'
  <2>1. UNCHANGED <<shutdown, call, early, closer, signals, monitor, target>>
    BY <1>6 DEF Scaling!ScalingWork, Scaling!TakeItem, Scaling!Complete, Scaling!FindNothing,
         Scaling!LookIfIdle, Scaling!LookIfShutdown, Scaling!Leave, Scaling!ofMonitor
  <2>2. toJoin' \subseteq Slots
    BY <1>1, <1>6 DEF Scaling!ScalingWork, Scaling!TakeItem, Scaling!Complete,
         Scaling!FindNothing, Scaling!LookIfIdle, Scaling!LookIfShutdown, Scaling!Leave,
         Scaling!ScalingTypeOK
  <2>3. future' \in [ScalingTasks -> {"pending", "done", "cancelled"}]
    BY <1>1, <1>6 DEF Scaling!ScalingWork, Scaling!TakeItem, Scaling!Complete,
         Scaling!FindNothing, Scaling!LookIfIdle, Scaling!LookIfShutdown, Scaling!Leave,
         Scaling!Settle, Scaling!ScalingTypeOK
  <2>4. work' \in Queues /\ worker' \in Workings
        /\ \A r \in Slots : worker[r] = "none" => worker'[r] = "none"
    <3>1. CASE Scaling!TakeItem(s)
      <4>1. Tail(work) \in Queues /\ Head(work) \in ScalingTasks \cup {Sentinel}
        BY <1>3, <3>1, HeadTailProperties, ElementOfSeq, EmptySeq DEF Scaling!TakeItem
      <4>2. /\ worker' \in Workings
            /\ \A r \in Slots : worker[r] = "none" => worker'[r] = "none"
        BY <1>3, <3>1, <4>1 DEF Scaling!TakeItem, Scaling!Become
      <4>3. QED
        BY <3>1, <4>1, <4>2 DEF Scaling!TakeItem
    <3>2. CASE Scaling!Complete(s)
      BY <1>2, <1>3, <3>2 DEF Scaling!Complete, Scaling!Become
    <3>3. CASE Scaling!FindNothing(s) \/ Scaling!LookIfIdle(s) \/ Scaling!LookIfShutdown(s)
               \/ Scaling!Leave(s)
      BY <1>3, <3>3 DEF Scaling!FindNothing, Scaling!LookIfIdle, Scaling!LookIfShutdown,
           Scaling!Leave, Scaling!Become
    <3>4. QED
      BY <1>6, <3>1, <3>2, <3>3 DEF Scaling!ScalingWork
  <2>5. /\ work' \in Seq(ScalingTasks \cup {Sentinel})
        /\ worker' \in [Slots -> {"none", "getting", "idle", "checking", "leaving", "dead"}
                                 \cup ScalingTasks]
        /\ Scaling!Count' <= MaxWorkers
    BY <1>4, <2>4
  <2>6. QED
    BY <1>1, <2>1, <2>2, <2>3, <2>5 DEF Scaling!ScalingTypeOK
<1>7. CASE Scaling!Monitor
  <2>1. UNCHANGED <<shutdown, call, future, early, closer, signals, toJoin>>
    BY <1>7 DEF Scaling!Monitor, Scaling!WakeUp, Scaling!Measure, Scaling!ScaleTo, Scaling!poolVars
  <2>2. target' \in 0 .. MaxWorkers /\ monitor' \in {"sleeping", "measuring", "scaling", "ended"}
    <3>1. CASE Scaling!WakeUp \/ Scaling!ScaleTo
      BY <1>1, <3>1 DEF Scaling!WakeUp, Scaling!ScaleTo, Scaling!ScalingTypeOK
    <3>2. CASE Scaling!Measure
      <4>1. \/ target' = target
            \/ target' = Scaling!Count + 1 /\ Scaling!Count < MaxWorkers
            \/ target' = Scaling!Count - 1 /\ Scaling!Count > CoreWorkers
        BY <3>2 DEF Scaling!Measure
      <4>2. target' \in 0 .. MaxWorkers
        BY <1>1, <1>2, <4>1, ScalingAssumption DEF Scaling!ScalingTypeOK
      <4>3. QED
        BY <3>2, <4>2 DEF Scaling!Measure
    <3>3. QED
      BY <1>7, <3>1, <3>2 DEF Scaling!Monitor
  <2>3. /\ work' \in Seq(ScalingTasks \cup {Sentinel})
        /\ worker' \in [Slots -> {"none", "getting", "idle", "checking", "leaving", "dead"}
                                 \cup ScalingTasks]
        /\ Scaling!Count' <= MaxWorkers
    <3>1. CASE UNCHANGED <<work, worker>>
      BY <1>3, <1>4, <3>1
    <3>2. CASE Scaling!ScaleTo /\ target > Scaling!Count
      <4> DEFINE n == IF target <= MaxWorkers THEN target - Scaling!Count
                      ELSE MaxWorkers - Scaling!Count
      <4>1. n \in Nat /\ Scaling!Count + n <= MaxWorkers
        BY <1>1, <1>2, <3>2 DEF Scaling!ScalingTypeOK
      <4>2. worker' = Scaling!Started(n) /\ UNCHANGED work
        BY <1>1, <3>2 DEF Scaling!ScaleTo, Scaling!ScalingTypeOK
      <4> HIDE DEF n
      <4>3. /\ Scaling!Count' <= MaxWorkers
            /\ \A s \in Slots : \/ worker'[s] = worker[s]
                                \/ worker[s] = "none" /\ worker'[s] = "getting"
        BY <4>1, <4>2, CountGrows
      <4>4. worker' \in Workings
        BY <1>3, <4>2 DEF Scaling!Started
      <4>5. QED
        BY <1>3, <4>2, <4>3, <4>4
    <3>3. CASE Scaling!ScaleTo /\ target <= Scaling!Count
      <4> DEFINE n == Scaling!Count - target
                 signal == [i \in 1 .. n |-> Sentinel]
      <4>1. n \in Nat /\ ~(target > Scaling!Count)
        BY <1>1, <1>2, <3>3 DEF Scaling!ScalingTypeOK
      <4>2. work' = work \o signal /\ UNCHANGED worker
        BY <3>3, <4>1, Zenon DEF Scaling!ScaleTo
      <4>3. signal \in Queues
        BY <4>1, IsASeq
      <4>4. work' \in Queues
        BY <1>3, <4>2, <4>3, ConcatProperties
      <4>5. QED
        BY <1>3, <1>4, <4>2, <4>4
    <3>4. QED
      <4>1. target \in Nat
        BY <1>1, <1>2 DEF Scaling!ScalingTypeOK
      <4>2. Scaling!ScaleTo \/ UNCHANGED <<work, worker>>
        BY <1>7 DEF Scaling!Monitor, Scaling!WakeUp, Scaling!Measure, Scaling!poolVars
      <4>3. target > Scaling!Count \/ target <= Scaling!Count
        BY <1>1, <4>1
      <4>4. QED
        BY <3>1, <3>2, <3>3, <4>2, <4>3
  <2>4. QED
    BY <1>1, <2>1, <2>2, <2>3 DEF Scaling!ScalingTypeOK
<1>8. CASE Scaling!StopScaling \/ Scaling!CloseScaling
  <2>1. work' \in Queues
    <3>1. CASE UNCHANGED work
      BY <1>3, <3>1
    <3>2. CASE work' = Append(work, Sentinel)
      BY <1>3, <3>2, AppendProperties
    <3>3. QED
      BY <1>8, <3>1, <3>2 DEF Scaling!StopScaling, Scaling!BeginShutdown, Scaling!CloseScaling,
           Scaling!CountWorkers, Scaling!Signal, Scaling!JoinAll
  <2>2. UNCHANGED <<call, future, early, worker, monitor, target>>
    BY <1>8 DEF Scaling!StopScaling, Scaling!BeginShutdown, Scaling!CloseScaling,
         Scaling!CountWorkers, Scaling!Signal, Scaling!JoinAll, Scaling!ofMonitor
  <2>3. signals' \in 0 .. MaxWorkers /\ toJoin' \subseteq Slots
    <3>1. Scaling!Count \in 0 .. MaxWorkers /\ Scaling!Registered \subseteq Slots
      BY <1>1, <1>2, CountIs DEF Scaling!ScalingTypeOK
    <3>2. QED
      BY <1>1, <1>2, <1>8, <3>1 DEF Scaling!StopScaling, Scaling!BeginShutdown,
           Scaling!CloseScaling, Scaling!CountWorkers, Scaling!Signal, Scaling!JoinAll,
           Scaling!ScalingTypeOK
  <2>4. shutdown' \in BOOLEAN /\ closer' \in {"open", "closing", "posting", "joining", "done"}
    BY <1>1, <1>8 DEF Scaling!StopScaling, Scaling!BeginShutdown, Scaling!CloseScaling,
         Scaling!CountWorkers, Scaling!Signal, Scaling!JoinAll, Scaling!ScalingTypeOK
  <2>5. /\ work' \in Seq(ScalingTasks \cup {Sentinel})
        /\ worker' \in [Slots -> {"none", "getting", "idle", "checking", "leaving", "dead"}
                                 \cup ScalingTasks]
        /\ Scaling!Count' <= MaxWorkers
    BY <1>3, <1>4, <2>1, <2>2
  <2>6. QED
    BY <1>1, <2>2, <2>3, <2>4, <2>5 DEF Scaling!ScalingTypeOK
<1>9. QED
  BY <1>5, <1>6, <1>7, <1>8 DEF Scaling!ScalingNext

LEMMA ScalingStep ==
  ASSUME ScalingInv, Scaling!ScalingNext PROVE ScalingInv'
<1>1. Scaling!ScalingTypeOK'
  BY ScalingTypeStep
<1>2. /\ Scaling!ScalingTypeOK /\ Kept
      /\ Types(ScalingTasks, Slots) /\ Types(ScalingTasks, Slots)'
  <2>1. Scaling!ScalingTypeOK' => Types(ScalingTasks, Slots)'
    BY ScalingTypes, PTL
  <2>2. QED
    BY <1>1, <2>1, ScalingTypes DEF ScalingInv
<1>3. /\ Once(work) /\ In(work) = In(work)
      /\ DOMAIN worker = Slots /\ DOMAIN call = ScalingTasks /\ DOMAIN future = ScalingTasks
      /\ Doing \cap Tasks = {} /\ ScalingTasks \subseteq Tasks
  BY <1>2, NotTasks, ScalingAssumption DEF Kept, Scaling!ScalingTypeOK
<1>4. ASSUME NEW t \in ScalingTasks, Scaling!ScalingClient(t) PROVE Kept'
  <2>1. CASE Scaling!BeginSubmit(t) \/ Scaling!Cancel(t)
    <3>1. /\ \A s \in ScalingTasks \ {t} : call'[s] = call[s] /\ future'[s] = future[s]
          /\ \/ call[t] \in Outside /\ (call'[t] \in Outside => future'[t] = future[t])
             \/ call[t] = "returned" /\ call'[t] = "returned" /\ future'[t] = "cancelled"
          /\ UNCHANGED <<work, worker, early>>
      BY <1>3, <2>1 DEF Scaling!BeginSubmit, Scaling!Cancel, Scaling!Move, Outside
    <3>2. QED
      BY <1>2, <1>3, <3>1, ClientMoves
  <2>2. CASE Scaling!Submit(t)
    <3>1. call[t] \in Outside /\ Put(t, work) /\ UNCHANGED <<worker, future>>
      BY <2>2 DEF Scaling!Submit, Scaling!Put, Scaling!Move, Put, Move, Outside
    <3>2. QED
      BY <1>2, <3>1, Queueing
  <2>3. QED
    BY <1>4, <2>1, <2>2 DEF Scaling!ScalingClient
<1>5. ASSUME NEW s \in Slots, Scaling!ScalingWork(s) PROVE Kept'
  <2>1. CASE Scaling!TakeItem(s)
    <3>1. /\ worker[s] = "getting" /\ work # <<>> /\ work' = Tail(work)
          /\ Become(s, IF Head(work) = Sentinel THEN "leaving"
                       ELSE IF future[Head(work)] = "cancelled" THEN "getting"
                       ELSE Head(work))
          /\ UNCHANGED <<call, future, early>>
      BY <2>1 DEF Scaling!TakeItem, Scaling!Become, Become
    <3>2. "leaving" \in Doing
      BY DEF Doing
    <3>3. QED
      BY <1>2, <3>1, <3>2, Taking
  <2>2. CASE Scaling!Complete(s)
    <3>1. PICK x \in {"dead", "getting"} : Become(s, x)
      BY <2>2 DEF Scaling!Complete, Scaling!Become, Become
    <3>2. /\ worker[s] \in ScalingTasks /\ Settle(worker[s])
          /\ UNCHANGED <<work, call, early>>
      BY <2>2 DEF Scaling!Complete, Scaling!Settle, Settle
    <3>3. x \in Doing
      BY DEF Doing
    <3>4. QED
      BY <1>2, <3>1, <3>2, <3>3, Finishing
  <2>3. CASE Scaling!FindNothing(s) \/ Scaling!LookIfIdle(s) \/ Scaling!LookIfShutdown(s)
             \/ Scaling!Leave(s)
    <3>1. UNCHANGED <<work, call, future, early>>
      BY <2>3 DEF Scaling!FindNothing, Scaling!LookIfIdle, Scaling!LookIfShutdown, Scaling!Leave
    <3>2. worker[s] \in Doing /\ worker'[s] \in Doing
          /\ \A r \in Slots \ {s} : worker'[r] = worker[r]
      BY <1>3, <2>3 DEF Scaling!FindNothing, Scaling!LookIfIdle, Scaling!LookIfShutdown,
           Scaling!Leave, Scaling!Become, Doing
    <3>3. \A r \in Slots : \/ worker'[r] = worker[r]
                           \/ worker[r] \notin Tasks /\ worker'[r] \notin Tasks
      BY <1>3, <3>2
    <3>4. QED
      BY <1>2, <1>3, <3>1, <3>3, StepAside
  <2>4. QED
    BY <1>5, <2>1, <2>2, <2>3 DEF Scaling!ScalingWork
<1>6. ASSUME Scaling!Monitor PROVE Kept'
  <2>1. UNCHANGED <<call, future, early>>
    BY <1>6 DEF Scaling!Monitor, Scaling!WakeUp, Scaling!Measure, Scaling!ScaleTo, Scaling!poolVars
  <2>2. target \in Nat /\ Scaling!Count \in Nat /\ MaxWorkers \in Nat /\ Scaling!Count <= MaxWorkers
    BY <1>2, CountIs, ScalingAssumption DEF Scaling!ScalingTypeOK
  <2>3. CASE UNCHANGED <<work, worker>>
    <3>1. \A r \in Slots : worker'[r] = worker[r]
      BY <2>3
    <3>2. QED
      BY <1>2, <1>3, <2>1, <2>3, <3>1, StepAside
  <2>4. CASE Scaling!ScaleTo /\ target > Scaling!Count
    <3> DEFINE n == IF target <= MaxWorkers THEN target - Scaling!Count
                    ELSE MaxWorkers - Scaling!Count
    <3>1. n \in Nat /\ Scaling!Count + n <= MaxWorkers /\ ~(target <= Scaling!Count)
      BY <2>2, <2>4
    <3>2. worker' = Scaling!Started(n) /\ UNCHANGED work
      BY <2>4, <3>1, Zenon DEF Scaling!ScaleTo
    <3> HIDE DEF n
    <3>3. \A r \in Slots : \/ worker'[r] = worker[r]
                           \/ worker[r] = "none" /\ worker'[r] = "getting"
      BY <3>1, <3>2, CountGrows
    <3>4. \A r \in Slots : \/ worker'[r] = worker[r]
                           \/ worker[r] \notin Tasks /\ worker'[r] \notin Tasks
      BY <1>3, <3>3 DEF Doing
    <3>5. QED
      BY <1>2, <1>3, <2>1, <3>2, <3>4, StepAside
  <2>5. CASE Scaling!ScaleTo /\ target <= Scaling!Count
    <3> DEFINE n == Scaling!Count - target
               signal == [i \in 1 .. n |-> Sentinel]
    <3>1. n \in Nat /\ ~(target > Scaling!Count)
      BY <2>2, <2>5
    <3>2. work' = work \o signal /\ UNCHANGED worker
      BY <2>5, <3>1, Zenon DEF Scaling!ScaleTo
    <3>3. Once(work \o signal) /\ In(work \o signal) = In(work)
      <4>1. work \in Seq(Items)
        BY <1>2 DEF Types
      <4>2. QED
        BY <1>3, <3>1, <4>1, AppendSignals
    <3> HIDE DEF signal
    <3>4. Once(work') /\ In(work') = In(work)
      BY <3>2, <3>3
    <3>5. \A r \in Slots : worker'[r] = worker[r]
      BY <3>2
    <3>6. QED
      BY <1>2, <2>1, <3>4, <3>5, StepAside
  <2>6. QED
    <3>1. Scaling!ScaleTo \/ UNCHANGED <<work, worker>>
      BY <1>6 DEF Scaling!Monitor, Scaling!WakeUp, Scaling!Measure, Scaling!poolVars
    <3>2. target > Scaling!Count \/ target <= Scaling!Count
      BY <2>2
    <3>3. QED
      BY <2>3, <2>4, <2>5, <3>1, <3>2
<1>7. ASSUME Scaling!StopScaling \/ Scaling!CloseScaling PROVE Kept'
  <2>1. UNCHANGED <<call, future, early>> /\ \A r \in Slots : worker'[r] = worker[r]
    BY <1>7 DEF Scaling!StopScaling, Scaling!BeginShutdown, Scaling!CloseScaling,
         Scaling!CountWorkers, Scaling!Signal, Scaling!JoinAll
  <2>2. Once(work') /\ In(work') = In(work)
    <3>1. CASE UNCHANGED work
      BY <1>3, <3>1
    <3>2. CASE work' = Append(work, Sentinel)
      BY <1>2, <1>3, <3>2, AppendSignal DEF Types
    <3>3. QED
      BY <1>7, <3>1, <3>2 DEF Scaling!StopScaling, Scaling!BeginShutdown,
           Scaling!CloseScaling, Scaling!CountWorkers, Scaling!Signal, Scaling!JoinAll
  <2>3. QED
    BY <1>2, <2>1, <2>2, StepAside
<1>8. Kept'
  BY <1>4, <1>5, <1>6, <1>7 DEF Scaling!ScalingNext
<1>9. QED
  BY <1>1, <1>8 DEF ScalingInv

-----------------------------------------------------------------------------
(* Both pools: the invariant, which says of the clients and of the signals  *)
(* what TasksKept leaves open.                                              *)
IInv ==
  /\ IsBackpressure \/ IsScaling
  /\ IsBackpressure => BackInv
  /\ IsScaling => ScalingInv

LEMMA IInvInit == MCInit => IInv
BY BackStart, ScalingStart DEF MCInit, IInv, IsBackpressure, IsScaling

LEMMA Unchanged ==
  IInv /\ UNCHANGED allVars => IInv'
<1>1. SUFFICES ASSUME IInv, UNCHANGED allVars PROVE IInv'
  OBVIOUS
<1>2. UNCHANGED <<subject, work, shutdown, call, future, early, worker, closer, signals,
                  policy, monitor, target, toJoin>>
  BY <1>1 DEF allVars, vars, poolVars
<1>3. Kept' <=> Kept
  BY <1>2 DEF Kept, Once, In, OneRunner, Apart, Accepted, Remembered, Fresh, Running
<1>4. TypeOK' <=> TypeOK
  BY <1>2 DEF TypeOK
<1>5. Scaling!Count' = Scaling!Count
  BY <1>2 DEF Scaling!Count, Scaling!Registered
<1>6. Scaling!ScalingTypeOK' <=> Scaling!ScalingTypeOK
  BY <1>2, <1>5 DEF Scaling!ScalingTypeOK
<1>7. QED
  BY <1>1, <1>2, <1>3, <1>4, <1>6 DEF IInv, IsBackpressure, IsScaling, BackInv, ScalingInv

LEMMA IInvNext == IInv /\ [MCNext]_allVars => IInv'
<1>1. ASSUME IInv, IsBackpressure /\ Next /\ OfBackpressure PROVE IInv'
  <2>1. subject = "backpressure" /\ subject' = subject /\ BackInv
    BY <1>1 DEF IInv, IsBackpressure, OfBackpressure
  <2>2. BackInv'
    BY <1>1, <2>1, BackStep
  <2>3. QED
    BY <2>1, <2>2 DEF IInv, IsBackpressure, IsScaling
<1>2. ASSUME IInv, IsScaling /\ Scaling!ScalingNext /\ OfScaling PROVE IInv'
  <2>1. subject = "scaling" /\ subject' = subject /\ ScalingInv
    BY <1>2 DEF IInv, IsScaling, OfScaling
  <2>2. ScalingInv'
    BY <1>2, <2>1, ScalingStep
  <2>3. QED
    BY <2>1, <2>2 DEF IInv, IsBackpressure, IsScaling
<1>3. QED
  BY <1>1, <1>2, Unchanged DEF MCNext

LEMMA IInvKeepsTasks == IInv => TasksKept
BY KeptIsInOnePlace DEF IInv, TasksKept, BackInv, ScalingInv

(* No task is lost, queued or run twice, or run after its future was        *)
(* settled; the queue keeps its bound and the workers keep to max_workers,  *)
(* whatever the order in which clients, workers, monitor and shutdown() go. *)
THEOREM TasksNeverLost == MCSpec => []TasksKept
BY IInvInit, IInvNext, IInvKeepsTasks, PTL DEF MCSpec

=============================================================================
