----------------------------- MODULE PooledTasks -----------------------------
(***************************************************************************)
(* The tasks of the thread pools of threading_patterns/thread_pool.py and  *)
(* the clients that submit them.  A client submits one task and may cancel *)
(* its future; as no pool calls set_running_or_notify_cancel, a future can *)
(* be cancelled until it is done.  Shutdown is tested under a lock, the    *)
(* task is put into the queue after that lock was released.                *)
(***************************************************************************)
EXTENDS Naturals, FiniteSets, Sequences

CONSTANTS Tasks,       (* one per client                                     *)
          Fickle,      (* the tasks whose client may cancel the future       *)
          Sentinel     (* None in the queue: a worker that gets it ends      *)

VARIABLES work,      (* self._work_queue                                     *)
          shutdown,  (* self._shutdown                                       *)
          call,      (* where the client of a task is in submit()            *)
          future,    (* the state of the future of a task                    *)
          early,     (* history: tasks queued before shutdown was set        *)
          worker,    (* what a worker does, or the task that it runs         *)
          closer,    (* where shutdown() is                                  *)
          signals    (* the None that shutdown() has still to put            *)

poolVars == <<work, shutdown, call, future, early, worker, closer, signals>>

Queued == {work[i] : i \in DOMAIN work} \ {Sentinel}
Running == {t \in Tasks : \E w \in DOMAIN worker : worker[w] = t}

Move(t, where) == call' = [call EXCEPT ![t] = where]
Become(w, what) == worker' = [worker EXCEPT ![w] = what]

Settle(t) ==
  future' = [future EXCEPT ![t] = IF @ = "pending" THEN "done" ELSE @]

TasksInit ==
  /\ work = <<>> /\ shutdown = FALSE
  /\ call = [t \in Tasks |-> "new"]
  /\ future = [t \in Tasks |-> "pending"]
  /\ early = {}
  /\ closer = "open" /\ signals = 0

(* submit(), up to the release of the lock. *)
BeginSubmit(t) ==
  /\ call[t] = "new"
  /\ Move(t, IF shutdown THEN "raised" ELSE "checked")
  /\ UNCHANGED <<work, shutdown, future, early, worker, closer, signals>>

(* The item is put into the queue, q so far, and submit returns. *)
Put(t, q) ==
  /\ work' = Append(q, t)
  /\ early' = IF shutdown THEN early ELSE early \cup {t}
  /\ Move(t, "returned")

Cancel(t) ==
  /\ t \in Fickle
  /\ call[t] = "returned" /\ future[t] = "pending"
  /\ future' = [future EXCEPT ![t] = "cancelled"]
  /\ UNCHANGED <<work, shutdown, call, early, worker, closer, signals>>

(* shutdown() sets the flag under the lock, and goes on after it.           *)
BeginShutdown ==
  /\ closer = "open"
  /\ shutdown' = TRUE
  /\ closer' = "closing"
  /\ UNCHANGED <<work, call, future, early, worker, signals>>

-----------------------------------------------------------------------------
(* A task is in one place: queued once, or with one worker, or neither when *)
(* it is settled or was never accepted; nobody gets it twice.               *)
TaskInOnePlace ==
  /\ \A i, j \in DOMAIN work : i # j /\ work[i] = work[j] => work[i] = Sentinel
  /\ \A v, w \in DOMAIN worker : v # w /\ worker[v] = worker[w] => worker[v] \notin Tasks
  /\ Queued \cap Running = {}
  /\ \A t \in Queued \cup Running : call[t] = "returned" /\ future[t] # "done"
  /\ \A t \in early : future[t] = "pending" => t \in Queued \cup Running

(* The tasks queued before shutdown are settled.  As a future stays settled *)
(* and tasks are finitely many, each one is if this comes again and again.  *)
EarlySettled == \A t \in early : future[t] # "pending"
=============================================================================
