-------------------------- MODULE ScalingThreadPool --------------------------
(***************************************************************************)
(* ScalingThreadPool of threading_patterns/thread_pool.py: workers come    *)
(* and go between core_workers and max_workers.  A monitor looks at the    *)
(* load now and then and starts one worker or sends one None; an idle      *)
(* worker leaves by itself.  A worker whose future is cancelled while it   *)
(* runs dies of InvalidStateError and stays in the dictionary for ever.    *)
(* The reading of a clock is a choice: an idle time may be long enough.    *)
(***************************************************************************)
EXTENDS PooledTasks

CONSTANTS Slots,       (* places for workers: the ids are not modelled       *)
          CoreWorkers, (* core_workers                                       *)
          MaxWorkers   (* max_workers                                        *)

VARIABLES monitor,   (* what the monitor thread does                         *)
          target,    (* the number of workers it wants                       *)
          toJoin     (* the workers shutdown() has yet to join               *)

scalingVars == <<poolVars, monitor, target, toJoin>>
ofMonitor == <<monitor, target>>

(* The keys of self._workers: a worker is in it until it removes itself.    *)
Registered == {s \in Slots : worker[s] # "none"}
Count == Cardinality(Registered)

(* n of the free places: it does not matter which.                          *)
Some(n, free) == CHOOSE places \in SUBSET free : Cardinality(places) = n
Started(n) ==
  [s \in Slots |-> IF s \in Some(n, Slots \ Registered) THEN "getting" ELSE worker[s]]

ScalingInit ==
  /\ TasksInit
  /\ worker = [s \in Slots |-> IF s \in Some(CoreWorkers, Slots) THEN "getting" ELSE "none"]
  /\ monitor = "sleeping" /\ target = CoreWorkers
  /\ toJoin = {}

-----------------------------------------------------------------------------
(* submit(): the queue has no bound. *)
Submit(t) ==
  /\ call[t] = "checked"
  /\ Put(t, work)
  /\ UNCHANGED <<shutdown, future, worker, closer, signals, ofMonitor, toJoin>>

TakeItem(s) ==
  /\ worker[s] = "getting"
  /\ work # <<>>
  /\ work' = Tail(work)
  /\ Become(s, IF Head(work) = Sentinel THEN "leaving"
               ELSE IF future[Head(work)] = "cancelled" THEN "getting"
               ELSE Head(work))
  /\ UNCHANGED <<shutdown, call, future, early, closer, signals, ofMonitor, toJoin>>

Complete(s) ==
  /\ worker[s] \in Tasks
  /\ Settle(worker[s])
  /\ Become(s, IF future[worker[s]] = "cancelled" THEN "dead" ELSE "getting")
  /\ UNCHANGED <<work, shutdown, call, early, closer, signals, ofMonitor, toJoin>>

FindNothing(s) ==
  /\ worker[s] = "getting"
  /\ work = <<>>
  /\ Become(s, "idle")
  /\ UNCHANGED <<work, shutdown, call, future, early, closer, signals, ofMonitor, toJoin>>

(* len(self._workers) is read without the lock.                             *)
LookIfIdle(s) ==
  /\ worker[s] = "idle"
  /\ \/ Count > CoreWorkers /\ Become(s, "leaving")
     \/ Become(s, "checking")
  /\ UNCHANGED <<work, shutdown, call, future, early, closer, signals, ofMonitor, toJoin>>

(* Faulty variant: only a signal ends a worker. *)
LookForWork(s) ==
  /\ worker[s] = "checking"
  /\ Become(s, "getting")
  /\ UNCHANGED <<work, shutdown, call, future, early, closer, signals, ofMonitor, toJoin>>
LookIfShutdown(s) ==
  /\ worker[s] = "checking"
  /\ Become(s, IF shutdown THEN "leaving" ELSE "getting")
  /\ UNCHANGED <<work, shutdown, call, future, early, closer, signals, ofMonitor, toJoin>>

(* self._workers.pop(worker_id), the last thing a worker does.              *)
Leave(s) ==
  /\ worker[s] = "leaving"
  /\ Become(s, "none")
  /\ toJoin' = toJoin \ {s}
  /\ UNCHANGED <<work, shutdown, call, future, early, closer, signals, ofMonitor>>

-----------------------------------------------------------------------------
(* _monitor_scaling, every five seconds: one look at shutdown ...           *)
WakeUp ==
  /\ monitor = "sleeping"
  /\ monitor' = IF shutdown THEN "ended" ELSE "measuring"
  /\ UNCHANGED <<poolVars, target, toJoin>>

(* The load is q items for n workers, more than 0.8 or less than 0.2.       *)
Busy(q, n) == 5 * q > 4 * (IF n = 0 THEN 1 ELSE n)
Idle(q, n) == 5 * q < (IF n = 0 THEN 1 ELSE n)

(* Faulty variant: a pool without workers has no load. *)
MeasureNoWorkers ==
  /\ monitor = "measuring"
  /\ IF Busy(Len(work), Count) /\ Count < MaxWorkers /\ Count > 0
       THEN monitor' = "scaling" /\ target' = Count + 1
       ELSE IF Idle(Len(work), Count) /\ Count > CoreWorkers
              THEN monitor' = "scaling" /\ target' = Count - 1
              ELSE monitor' = "sleeping" /\ UNCHANGED target
  /\ UNCHANGED <<poolVars, toJoin>>
(* ... then one at the load, without the lock ...                           *)
Measure ==
  /\ monitor = "measuring"
  /\ IF Busy(Len(work), Count) /\ Count < MaxWorkers
       THEN monitor' = "scaling" /\ target' = Count + 1
       ELSE IF Idle(Len(work), Count) /\ Count > CoreWorkers
              THEN monitor' = "scaling" /\ target' = Count - 1
              ELSE monitor' = "sleeping" /\ UNCHANGED target
  /\ UNCHANGED <<poolVars, toJoin>>

(* ... and _scale_to, under the lock, where the count may have changed.     *)
ScaleTo ==
  /\ monitor = "scaling"
  /\ \/ /\ target > Count
        /\ worker' = Started(IF target <= MaxWorkers THEN target - Count ELSE MaxWorkers - Count)
        /\ UNCHANGED work
     \/ /\ target <= Count
        /\ work' = work \o [i \in 1 .. Count - target |-> Sentinel]
        /\ UNCHANGED worker
  /\ monitor' = "sleeping"
  /\ UNCHANGED <<shutdown, call, future, early, closer, signals, target, toJoin>>

-----------------------------------------------------------------------------
StopScaling == BeginShutdown /\ UNCHANGED <<ofMonitor, toJoin>>

(* A signal for each worker of the moment, which is not that of the flag    *)
CountWorkers ==
  /\ closer = "closing"
  /\ signals' = Count /\ closer' = "posting"
  /\ UNCHANGED <<work, shutdown, call, future, early, worker, ofMonitor, toJoin>>

Signal ==
  /\ closer = "posting"
  /\ IF signals = 0
       THEN /\ closer' = "joining" /\ toJoin' = Registered
            /\ UNCHANGED <<work, signals>>
       ELSE /\ work' = Append(work, Sentinel) /\ signals' = signals - 1
            /\ UNCHANGED <<closer, toJoin>>
  /\ UNCHANGED <<shutdown, call, future, early, worker, ofMonitor>>

(* (then it joins the workers of a third moment, and the monitor).          *)
JoinAll ==
  /\ closer = "joining"
  /\ \A s \in toJoin : worker[s] = "dead"
  /\ monitor = "ended"
  /\ closer' = "done"
  /\ UNCHANGED <<work, shutdown, call, future, early, worker, signals, ofMonitor, toJoin>>

-----------------------------------------------------------------------------
ScalingClient(t) ==
  \/ (BeginSubmit(t) \/ Cancel(t)) /\ UNCHANGED <<ofMonitor, toJoin>>
  \/ Submit(t)

ScalingWork(s) ==
  \/ TakeItem(s) \/ Complete(s) \/ FindNothing(s)
  \/ LookIfIdle(s) \/ LookIfShutdown(s) \/ Leave(s)

Monitor == WakeUp \/ Measure \/ ScaleTo

CloseScaling == CountWorkers \/ Signal \/ JoinAll

ScalingNext ==
  \/ \E t \in Tasks : ScalingClient(t)
  \/ \E s \in Slots : ScalingWork(s)
  \/ Monitor
  \/ StopScaling
  \/ CloseScaling

ScalingSpec == ScalingInit /\ [][ScalingNext]_scalingVars

-----------------------------------------------------------------------------
(* Properties *)

(* Every variable has its type, and never are there more than max_workers,  *)
(* although the monitor decides on counts that are out of date.             *)
ScalingTypeOK ==
  /\ work \in Seq(Tasks \cup {Sentinel})
  /\ shutdown \in BOOLEAN
  /\ call \in [Tasks -> {"new", "checked", "returned", "raised"}]
  /\ future \in [Tasks -> {"pending", "done", "cancelled"}]
  /\ early \subseteq Tasks
  /\ worker \in [Slots -> {"none", "getting", "idle", "checking", "leaving", "dead"} \cup Tasks]
  /\ Count <= MaxWorkers
  /\ closer \in {"open", "closing", "posting", "joining", "done"}
  /\ signals \in 0 .. MaxWorkers
  /\ monitor \in {"sleeping", "measuring", "scaling", "ended"}
  /\ target \in 0 .. MaxWorkers
  /\ toJoin \subseteq Slots

(* While the pool is open and no worker died every task is run, although    *)
(* idle workers may all leave at once and signals to leave outlive those    *)
(* they were meant for: the monitor starts a worker when there is none.     *)
OpenTasksSettle ==
  [](~shutdown /\ \A s \in DOMAIN worker : worker[s] # "dead")
  => []<>EarlySettled

(* shutdown() returns: workers without a signal find the queue empty.       *)
ScalingShutdownReturns == closer = "closing" ~> closer = "done"
=============================================================================
