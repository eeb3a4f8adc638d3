------------------------ MODULE BackpressureThreadPool -----------------------
(***************************************************************************)
(* BackpressureThreadPool of threading_patterns/thread_pool.py: a fixed    *)
(* number of workers behind a bounded queue and four ways to deal with a   *)
(* full one.  shutdown() puts one None per worker and joins the workers; a *)
(* worker that finds the queue empty for a second ends by itself.          *)
(***************************************************************************)
EXTENDS PooledTasks

CONSTANTS Workers,       (* max_workers threads                              *)
          MaxQueueSize,  (* max_queue_size                                   *)
          Policies       (* the policies to choose from                      *)

ASSUME PoolAssumption ==
  /\ IsFiniteSet(Workers) /\ IsFiniteSet(Tasks)
  /\ Fickle \subseteq Tasks /\ Sentinel \notin Tasks
  /\ Tasks \cap {"getting", "checking", "ended"} = {}
  /\ MaxQueueSize \in Nat \ {0}
  /\ Policies \subseteq {"abort", "caller_runs", "discard", "discard_oldest"}

VARIABLE policy      (* self.rejection_policy                                *)

vars == <<poolVars, policy>>

Init ==
  /\ TasksInit
  /\ worker = [w \in Workers |-> "getting"]
  /\ policy \in Policies

-----------------------------------------------------------------------------
Full == Len(work) >= MaxQueueSize

(* put_nowait(work_item), which may raise Full. *)
Enqueue(t) ==
  /\ call[t] = "checked"
  /\ IF Full THEN Move(t, "full") /\ UNCHANGED <<work, early>> ELSE Put(t, work)
  /\ UNCHANGED <<shutdown, future, worker, policy, closer, signals>>

(* _handle_rejection, by policy.  The queue may have changed since.         *)
(* ABORT and CALLER_RUNS settle the future on the spot, with an error or by *)
(* running the function, which is the same here.                            *)
SettleHere(t) ==
  /\ call[t] = "full" /\ policy \in {"abort", "caller_runs"}
  /\ Settle(t)
  /\ Move(t, "returned")
  /\ UNCHANGED <<work, shutdown, early, worker, policy, closer, signals>>

Discard(t) ==
  /\ call[t] = "full"
  /\ policy = "discard" \/ (policy = "discard_oldest" /\ work = <<>>)
  /\ future' = [future EXCEPT ![t] = "cancelled"]
  /\ Move(t, "returned")
  /\ UNCHANGED <<work, shutdown, early, worker, policy, closer, signals>>

(* Faulty variant: the oldest task is thrown away without a word. *)
DiscardOldestSilently(t) ==
  /\ call[t] = "full" /\ policy = "discard_oldest"
  /\ work # <<>>
  /\ work' = Tail(work)
  /\ Move(t, IF Head(work) = Sentinel THEN "raised" ELSE "retrying")
  /\ UNCHANGED <<future, shutdown, early, worker, policy, closer, signals>>
(* The oldest item may be the None of a worker, which has no future.        *)
DiscardOldest(t) ==
  /\ call[t] = "full" /\ policy = "discard_oldest"
  /\ work # <<>>
  /\ work' = Tail(work)
  /\ \/ /\ Head(work) = Sentinel
        /\ Move(t, "raised")
        /\ UNCHANGED future
     \/ /\ Head(work) # Sentinel
        /\ future' = [future EXCEPT ![Head(work)] = "cancelled"]
        /\ Move(t, "retrying")
  /\ UNCHANGED <<shutdown, early, worker, policy, closer, signals>>

(* The second put_nowait of DISCARD_OLDEST is not guarded.                  *)
EnqueueAgain(t) ==
  /\ call[t] = "retrying"
  /\ IF Full THEN Move(t, "raised") /\ UNCHANGED <<work, early>> ELSE Put(t, work)
  /\ UNCHANGED <<shutdown, future, worker, policy, closer, signals>>

-----------------------------------------------------------------------------
(* The worker gets an item and, if it is a task, looks at its future.       *)
GetItem(w) ==
  /\ worker[w] = "getting"
  /\ work # <<>>
  /\ work' = Tail(work)
  /\ Become(w, IF Head(work) = Sentinel THEN "ended"
               ELSE IF future[Head(work)] = "cancelled" THEN "getting"
               ELSE Head(work))
  /\ UNCHANGED <<shutdown, call, future, early, policy, closer, signals>>

(* The function returned or raised.  If the future was cancelled meanwhile  *)
(* set_result and set_exception raise, which the worker survives.           *)
Finish(w) ==
  /\ worker[w] \in Tasks
  /\ Settle(worker[w])
  /\ Become(w, "getting")
  /\ UNCHANGED <<work, shutdown, call, early, policy, closer, signals>>

(* queue.Empty after a second ... *)
GetNothing(w) ==
  /\ worker[w] = "getting"
  /\ work = <<>>
  /\ Become(w, "checking")
  /\ UNCHANGED <<work, shutdown, call, future, early, policy, closer, signals>>

(* ... after which the worker ends if the pool is shut down.                *)
CheckShutdown(w) ==
  /\ worker[w] = "checking"
  /\ Become(w, IF shutdown THEN "ended" ELSE "getting")
  /\ UNCHANGED <<work, shutdown, call, future, early, policy, closer, signals>>

-----------------------------------------------------------------------------
Shutdown == BeginShutdown /\ UNCHANGED policy

(* A signal for each of the threads.                                        *)
CountThreads ==
  /\ closer = "closing"
  /\ signals' = Cardinality(Workers)
  /\ closer' = IF signals' = 0 THEN "joining" ELSE "posting"
  /\ UNCHANGED <<work, shutdown, call, future, early, worker, policy>>

(* put(None) blocks while the queue is full. *)
PostSignal ==
  /\ closer = "posting"
  /\ ~Full
  /\ work' = Append(work, Sentinel)
  /\ signals' = signals - 1
  /\ closer' = IF signals' = 0 THEN "joining" ELSE "posting"
  /\ UNCHANGED <<shutdown, call, future, early, worker, policy>>

Join ==
  /\ closer = "joining"
  /\ \A w \in Workers : worker[w] = "ended"
  /\ closer' = "done"
  /\ UNCHANGED <<work, shutdown, call, future, early, worker, policy, signals>>

-----------------------------------------------------------------------------
Client(t) ==
  \/ (BeginSubmit(t) \/ Cancel(t)) /\ UNCHANGED policy
  \/ Enqueue(t) \/ SettleHere(t) \/ Discard(t) \/ DiscardOldest(t)
  \/ EnqueueAgain(t)

Work(w) == GetItem(w) \/ Finish(w) \/ GetNothing(w) \/ CheckShutdown(w)

Close == CountThreads \/ PostSignal \/ Join

Next == \/ \E t \in Tasks : Client(t)
        \/ \E w \in Workers : Work(w)
        \/ Shutdown
        \/ Close

Spec == Init /\ [][Next]_vars

(* Workers and a shutdown in progress go on; the functions return.          *)
FairSpec == Spec /\ WF_vars(Close) /\ \A w \in Workers : WF_vars(Work(w))

-----------------------------------------------------------------------------
(* Properties *)

(* Every variable has its type; the queue respects its bound.               *)
TypeOK ==
  /\ work \in Seq(Tasks \cup {Sentinel}) /\ Len(work) <= MaxQueueSize
  /\ shutdown \in BOOLEAN
  /\ call \in [Tasks -> {"new", "checked", "full", "retrying", "returned", "raised"}]
  /\ future \in [Tasks -> {"pending", "done", "cancelled"}]
  /\ early \subseteq Tasks
  /\ worker \in [Workers -> {"getting", "checking", "ended"} \cup Tasks]
  /\ policy \in Policies
  /\ closer \in {"open", "closing", "posting", "joining", "done"}
  /\ signals \in 0 .. Cardinality(Workers)

(* Between its timeout and its test of shutdown a worker is blind: when all *)
(* workers are, tasks and the shutdown may come, and all of them end.       *)
SomeoneLooks == \E w \in Workers : worker[w] # "checking"

(* As long as some worker is not blind, a task that was queued before the   *)
(* pool was shut down is run or cancelled in the end, although workers come *)
(* and go by their timeouts and DISCARD_OLDEST may take away a signal.      *)
EarlyTasksSettle ==
  []SomeoneLooks => []<>EarlySettled

(* Then shutdown() returns, too, when the queue has room for all signals    *)
(* and no client is between its test of shutdown and its put; otherwise the *)
(* queue may be full of items that nobody will take.                        *)
ShutdownReturns ==
  /\ Cardinality(Workers) <= MaxQueueSize
  /\ []SomeoneLooks
  /\ [](shutdown => \A t \in DOMAIN call : call[t] \notin {"checked", "full", "retrying"})
  => (closer = "closing" ~> closer = "done")
=============================================================================
