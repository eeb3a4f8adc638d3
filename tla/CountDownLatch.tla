---------------------------- MODULE CountDownLatch ---------------------------
(***************************************************************************)
(* CountDownLatch of synchronization/barriers.py (await_latch), of which   *)
(* threading_patterns/barriers.py has a copy (wait): threads wait until    *)
(* the count has been brought down to zero, once and for all.              *)
(***************************************************************************)
EXTENDS Naturals

CONSTANTS Waiters,       (* the threads that call await_latch *)
          TimedWaiters,  (* those who pass a timeout          *)
          InitialCount   (* count                             *)

VARIABLES latchCount,    (* self._count                                 *)
          latchAsleep,   (* the wait set of self._condition             *)
          latchPc,       (* "outside" or, inside await_latch, "waiting" *)
          latchExpired,  (* threads whose timeout elapsed               *)
          latchResult    (* what await_latch returned last              *)

latchVars == <<latchCount, latchAsleep, latchPc, latchExpired, latchResult>>

Init ==
  /\ latchCount = InitialCount
  /\ latchAsleep = {}
  /\ latchPc = [w \in Waiters |-> "outside"]
  /\ latchExpired = {}
  /\ latchResult = [w \in Waiters |-> "none"]

Return(w, result) ==
  /\ latchPc' = [latchPc EXCEPT ![w] = "outside"]
  /\ latchExpired' = latchExpired \ {w}
  /\ latchResult' = [latchResult EXCEPT ![w] = result]

AwaitLatch(w) ==
  /\ latchPc[w] = "outside"
  /\ \/ /\ latchCount = 0
        /\ Return(w, "True")
        /\ UNCHANGED latchAsleep
     \/ /\ latchCount > 0
        /\ latchPc' = [latchPc EXCEPT ![w] = "waiting"]
        /\ latchAsleep' = latchAsleep \cup {w}
        /\ UNCHANGED <<latchExpired, latchResult>>
  /\ UNCHANGED latchCount

(* A thread is notified only when the count is zero, so that the loop ends.*)
Resume(w) ==
  /\ latchPc[w] = "waiting"
  /\ w \notin latchAsleep /\ w \notin latchExpired
  /\ Return(w, "True")
  /\ UNCHANGED <<latchCount, latchAsleep>>

TimeOut(w) ==
  /\ latchPc[w] = "waiting"
  /\ w \in latchExpired
  /\ Return(w, "False")
  /\ latchAsleep' = latchAsleep \ {w}
  /\ UNCHANGED latchCount

CountDown ==
  /\ latchCount > 0
  /\ latchCount' = latchCount - 1
  /\ latchAsleep' = IF latchCount' = 0 THEN {} ELSE latchAsleep
  /\ UNCHANGED <<latchPc, latchExpired, latchResult>>

Expire(w) ==
  /\ w \in TimedWaiters \cap latchAsleep
  /\ latchExpired' = latchExpired \cup {w}
  /\ UNCHANGED <<latchCount, latchAsleep, latchPc, latchResult>>

Next ==
  \/ \E w \in Waiters : AwaitLatch(w) \/ Resume(w) \/ TimeOut(w) \/ Expire(w)
  \/ CountDown

Spec == Init /\ [][Next]_latchVars

Obliged(w) == Resume(w) \/ TimeOut(w) \/ Expire(w)

FairSpec == Spec /\ \A w \in Waiters : WF_latchVars(Obliged(w))

-----------------------------------------------------------------------------
(* Properties *)

(* Nobody passes a closed latch, and nobody sleeps before an open one,      *)
(* whether it came before or after the last count_down.                     *)
LatchHolds ==
  /\ \A w \in Waiters : latchResult[w] = "True" => latchCount = 0
  /\ latchCount = 0 => latchAsleep = {}

(* A latch that reached zero lets every waiting thread go.                  *)
LatchReleases == \A w \in Waiters : latchCount = 0 ~> latchPc[w] = "outside"
=============================================================================
