------------------------------- MODULE MCQueues ------------------------------
(***************************************************************************)
(* The queues over asyncio.Queue, the buffer over a condition variable and *)
(* the CSP channels for TLC.  A behaviour is about one of them.            *)
(***************************************************************************)
EXTENDS Channels

CONSTANT Subjects

VARIABLE subject

Strategies == {"block", "raise", "drop_oldest", "drop_newest"}

ofBroadcast == <<regs, refs, box, due>>
vars == <<subject, queueVars, lost, ofBroadcast>>

Init == subject \in Subjects /\ SyncInit /\ BroadcastInit

Next ==
  /\ UNCHANGED subject
  /\ \/ /\ \/ \E s \in Strategies : subject = s /\ BoundedNext(s)
           \/ subject = "priority" /\ PriorityNext
           \/ subject = "buffered" /\ ChannelNext(TRUE)
           \/ subject = "unbounded" /\ ChannelNext(FALSE)
           \/ subject = "enhanced" /\ EnhancedNext
        /\ UNCHANGED <<lost, ofBroadcast>>
     \/ subject = "synchronous" /\ SyncNext /\ UNCHANGED ofBroadcast
     \/ subject = "broadcast" /\ BroadcastNext /\ UNCHANGED lost

Spec == Init /\ [][Next]_vars

-----------------------------------------------------------------------------
Plain == Strategies \cup {"buffered", "unbounded", "enhanced"}

(* What went in comes out once and in order; of the priority queue in the   *)
(* order of its heap, the smallest number first, which its docstrings       *)
(* deny; what is handed over in a rendezvous is received once, or lost to   *)
(* the timeout of its receiver.                                             *)
ItemsKept ==
  /\ subject \in Plain => InOrder
  /\ \A s \in Strategies : subject = s => StrategyKept(s)
  /\ subject = "priority" => PriorityKept
  /\ subject = "synchronous" => HandedOver

(* Nobody waits beside what it waits for at a queue or a channel over       *)
(* asyncio.Queue, whatever times out; and whoever is in the list of a       *)
(* broadcast has been sent everything since it registered.                  *)
NobodyPassedOver ==
  /\ subject \notin {"enhanced", "synchronous", "broadcast"} => NobodyForgotten(0)
  /\ subject = "broadcast" => AllAreSentTo

(* Where somebody is passed over, in each of the three classes that do      *)
(* that: a notification is spent on a thread whose time had run out         *)
(* (EnhancedCondition.wait), a partner that was cancelled is dropped and    *)
(* the next one is not looked at (SynchronousChannel), a receiver goes with *)
(* the dead reference of another one (BroadcastChannel).  No other step     *)
(* passes anybody over, before or after.                                    *)
OnlyThesePassOver ==
  /\ [][subject = "enhanced" => WakeUpStep]_vars
  /\ [][subject = "synchronous" => PairStep]_vars
  /\ [][subject = "broadcast" => DropStep]_vars
=============================================================================
