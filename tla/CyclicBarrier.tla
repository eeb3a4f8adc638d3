---------------------------- MODULE CyclicBarrier ----------------------------
(***************************************************************************)
(* CyclicBarrier of synchronization/barriers.py: Parties threads wait for  *)
(* each other; the last one runs the barrier action and begins the next    *)
(* generation.  A timeout or a failing action breaks the barrier, reset()  *)
(* repairs it.  Everything happens under one RLock, so an action extends   *)
(* from the acquisition of the lock to its release in wait() or at the end.*)
(*                                                                         *)
(* Condition.wait(timeout) reports a timeout when it elapsed before the    *)
(* notification, even if the thread gets the lock back after it.           *)
(***************************************************************************)
EXTENDS Integers, FiniteSets

CONSTANTS Threads,        (* the threads that call wait                      *)
          TimedThreads,   (* those who pass a timeout                        *)
          Parties,        (* parties                                         *)
          ActionMayFail,  (* whether barrier_action can raise                *)
          MaxGeneration   (* bound: no call of wait or reset begins later    *)

ASSUME BarrierAssumption ==
  /\ IsFiniteSet(Threads)
  /\ TimedThreads \subseteq Threads
  /\ Parties \in Nat \ {0}
  /\ ActionMayFail \in BOOLEAN
  /\ MaxGeneration \in Nat

VARIABLES
  count, generation, broken,  (* self._count, _generation, _broken           *)
  asleep,      (* the wait set of self._condition                            *)
  pc,          (* "outside" or, inside wait(), "waiting"                     *)
  expired,     (* threads whose timeout elapsed before a notification        *)
  mine, index, (* the locals generation and index of the last wait()         *)
  outcome,     (* how the last wait() of a thread ended                      *)
  tripped,     (* history: generations whose parties all arrived             *)
  cut          (* history: generations that reset() ended                    *)

history == <<tripped, cut>>
vars == <<count, generation, broken, asleep, pc, expired, mine, index,
          outcome, history>>

Outcomes == {"none", "passed", "timeout", "broken", "failed"}

Init ==
  /\ count = 0 /\ generation = 0 /\ broken = FALSE
  /\ asleep = {}
  /\ pc = [t \in Threads |-> "outside"]
  /\ expired = {}
  /\ mine = [t \in Threads |-> 0]
  /\ index = [t \in Threads |-> 0]
  /\ outcome = [t \in Threads |-> "none"]
  /\ tripped = {} /\ cut = {}

-----------------------------------------------------------------------------
Finish(t, how) ==
  /\ pc' = [pc EXCEPT ![t] = "outside"]
  /\ expired' = expired \ {t}
  /\ outcome' = [outcome EXCEPT ![t] = how]

(* Faulty variant: the other threads are not notified. *)
BreakSilently == broken' = TRUE /\ UNCHANGED asleep
(* _break_barrier *)
Break == broken' = TRUE /\ asleep' = {}

(* Faulty variant: the count goes on from one generation to the next. *)
NextGenerationUncounted ==
  /\ count' = count + 1
  /\ generation' = generation + 1
  /\ asleep' = {}
  /\ tripped' = tripped \cup {generation}
  /\ UNCHANGED broken
(* _next_generation, after a barrier action that did not raise *)
NextGeneration ==
  /\ count' = 0
  /\ generation' = generation + 1
  /\ asleep' = {}
  /\ tripped' = tripped \cup {generation}
  /\ UNCHANGED broken

(* wait() on a broken barrier. *)
Refuse(t) ==
  /\ pc[t] = "outside"
  /\ broken
  /\ Finish(t, "broken")
  /\ UNCHANGED <<count, generation, broken, asleep, mine, index, history>>

(* wait() of the last party: no other thread has time to arrive before the  *)
(* barrier action has ended.                                                *)
ArriveLast(t) ==
  /\ pc[t] = "outside"
  /\ ~broken
  /\ generation < MaxGeneration
  /\ count + 1 = Parties
  /\ mine' = [mine EXCEPT ![t] = generation]
  /\ \/ /\ NextGeneration
        /\ index' = [index EXCEPT ![t] = 0]
        /\ Finish(t, "passed")
        /\ UNCHANGED cut
     \/ /\ ActionMayFail
        /\ count' = count + 1
        /\ Break
        /\ index' = [index EXCEPT ![t] = 0]
        /\ Finish(t, "failed")
        /\ UNCHANGED <<generation, history>>

(* wait() of any other party, up to the first Condition.wait().             *)
Arrive(t) ==
  /\ pc[t] = "outside"
  /\ ~broken
  /\ generation < MaxGeneration
  /\ count + 1 # Parties
  /\ mine' = [mine EXCEPT ![t] = generation]
  /\ index' = [index EXCEPT ![t] = Parties - count - 1]
  /\ count' = count + 1
  /\ pc' = [pc EXCEPT ![t] = "waiting"]
  /\ asleep' = asleep \cup {t}
  /\ UNCHANGED <<generation, broken, expired, outcome, history>>

(* Faulty variant: a thread does not look whether the barrier broke. *)
ResumeUnchecked(t) ==
  /\ pc[t] = "waiting"
  /\ t \notin asleep /\ t \notin expired
  /\ Finish(t, "passed")
  /\ UNCHANGED <<count, generation, broken, asleep, mine, index, history>>
(* Condition.wait() returned True.  The loop is not entered again: nobody   *)
(* is notified whose generation still runs (see SleepersBelong).            *)
Resume(t) ==
  /\ pc[t] = "waiting"
  /\ t \notin asleep /\ t \notin expired
  /\ Finish(t, IF broken THEN "broken" ELSE "passed")
  /\ UNCHANGED <<count, generation, broken, asleep, mine, index, history>>

(* Condition.wait() returned False.                                         *)
TimeOut(t) ==
  /\ pc[t] = "waiting"
  /\ t \in expired
  /\ Break
  /\ Finish(t, "timeout")
  /\ UNCHANGED <<count, generation, mine, index, history>>

(* Faulty variant: the waiting threads are not woken. *)
ResetQuietly ==
  /\ generation < MaxGeneration
  /\ broken' = FALSE
  /\ count' = 0
  /\ generation' = generation + 1
  /\ cut' = cut \cup {generation}
  /\ UNCHANGED <<asleep, pc, expired, mine, index, outcome, tripped>>
(* reset() *)
Reset ==
  /\ generation < MaxGeneration
  /\ asleep' = IF count > 0 THEN {} ELSE asleep
  /\ broken' = FALSE
  /\ count' = 0
  /\ generation' = generation + 1
  /\ cut' = cut \cup {generation}
  /\ UNCHANGED <<pc, expired, mine, index, outcome, tripped>>

Expire(t) ==
  /\ t \in TimedThreads \cap asleep
  /\ expired' = expired \cup {t}
  /\ UNCHANGED <<count, generation, broken, asleep, pc, mine, index, outcome,
                 history>>

Next ==
  \/ \E t \in Threads : \/ Refuse(t) \/ ArriveLast(t) \/ Arrive(t)
                        \/ Resume(t) \/ TimeOut(t) \/ Expire(t)
  \/ Reset

Spec == Init /\ [][Next]_vars

(* A thread that can run gets the lock some day, and clocks advance.        *)
Obliged(t) == Resume(t) \/ TimeOut(t) \/ Expire(t)

FairSpec == Spec /\ \A t \in Threads : WF_vars(Obliged(t))

-----------------------------------------------------------------------------
(* Properties *)

(* Every variable has its type, and the count never exceeds the parties.    *)
TypeOK ==
  /\ count \in 0 .. Parties
  /\ generation \in 0 .. MaxGeneration
  /\ broken \in BOOLEAN
  /\ asleep \subseteq Threads
  /\ pc \in [Threads -> {"outside", "waiting"}]
  /\ expired \subseteq TimedThreads
  /\ mine \in [Threads -> 0 .. MaxGeneration]
  /\ index \in [Threads -> 0 .. Parties - 1]
  /\ outcome \in [Threads -> Outcomes]
  /\ tripped \subseteq 0 .. MaxGeneration
  /\ cut \subseteq 0 .. MaxGeneration

(* The parties of the generation that runs. *)
Waiting == {t \in Threads : pc[t] = "waiting" /\ mine[t] = generation}

(* An intact barrier counts the threads that wait in this generation, not   *)
(* one that waits for the lock since an earlier one: a wrong count would    *)
(* let the barrier trip early or never.                                     *)
CountIsWaiting == ~broken => count = Cardinality(Waiting)

(* Only threads of the generation that runs sleep, and only while the       *)
(* barrier is intact: everyone else has been woken.                         *)
SleepersBelong == asleep # {} => ~broken /\ asleep \subseteq Waiting

(* A thread passes only when all parties of its generation arrived, or when *)
(* a reset cut the generation short.                                        *)
PassedTogether ==
  \A t \in Threads :
    outcome[t] = "passed" /\ pc[t] = "outside" => mine[t] \in tripped \cup cut

(* Threads that passed in the same generation have different indices.       *)
ArrivalIndex ==
  \A s, t \in Threads :
    /\ s # t /\ mine[s] = mine[t]
    /\ outcome[s] = "passed" /\ outcome[t] = "passed"
    /\ pc[s] = "outside" /\ pc[t] = "outside"
    => index[s] # index[t]

(* Nobody stays behind in a barrier that tripped, broke or was reset.       *)
EveryoneLeaves ==
  \A t \in Threads :
    pc[t] = "waiting" /\ (broken \/ mine[t] # generation) ~> pc[t] = "outside"
=============================================================================
