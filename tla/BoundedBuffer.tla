---------------------------- MODULE BoundedBuffer ----------------------------
(***************************************************************************)
(* BoundedBuffer of threading_patterns/producer_consumer.py: one Lock, the *)
(* conditions not_full and not_empty over it, a list and a closed flag.    *)
(*                                                                         *)
(* Everything between an acquisition of the lock and the next release or   *)
(* wait is one action, because every access to the shared fields is inside *)
(* such a section.  A thread that waits is a member of the wait set of its *)
(* condition; notify() removes some member.  As in threading.Condition, a  *)
(* waiter whose timeout elapsed stays in the wait set until it has got the *)
(* lock back, so a notify() can still be spent on it, and wait_for() tests *)
(* its predicate once more before it gives up.                             *)
(***************************************************************************)
EXTENDS Naturals, Sequences, FiniteSets

CONSTANTS Producers,     (* threads that call put                          *)
          Consumers,     (* threads that call get                          *)
          TimedCallers,  (* the threads whose calls pass a finite timeout  *)
          Items,         (* the values put into the buffer                 *)
          None,          (* what get returns without an item               *)
          Capacity,      (* capacity                                       *)
          MaxAccepted    (* bound: no put is called after so many accepted *)

Threads == Producers \cup Consumers

ASSUME BufferAssumption ==
  /\ Producers \cap Consumers = {}
  /\ IsFiniteSet(Threads)
  /\ TimedCallers \subseteq Threads
  /\ Capacity \in Nat \ {0}
  /\ MaxAccepted \in Nat
  /\ None \notin Items \cup {"nothing"}

VARIABLES
  buffer,     (* self.buffer                                               *)
  closed,     (* self.closed                                               *)
  notFull,    (* threads in the wait set of self.not_full                  *)
  notEmpty,   (* threads in the wait set of self.not_empty                 *)
  pc,         (* "idle", or "waiting" from the first wait() to the return  *)
  expired,    (* waiting threads whose timeout has elapsed                 *)
  arg,        (* the item of a producer's call in progress                 *)
  ret,        (* what the last call of a thread returned                   *)
  accepted,   (* history: every item appended to the buffer, in order      *)
  delivered   (* history: every item returned by a get, in order           *)

vars == <<buffer, closed, notFull, notEmpty, pc, expired, arg, ret,
          accepted, delivered>>

(* The possible wait sets after notify() on a condition with wait set W.    *)
(* Which waiter it removes is left open, as in the documentation of         *)
(* threading.  Faulty variant: the notification is forgotten.               *)
AfterNoNotify(W) == {W}
AfterNotify(W) == IF W = {} THEN {{}} ELSE {W \ {t} : t \in W}

Init ==
  /\ buffer = << >>
  /\ closed = FALSE
  /\ notFull = {}
  /\ notEmpty = {}
  /\ pc = [t \in Threads |-> "idle"]
  /\ expired = {}
  /\ arg = [p \in Producers |-> None]
  /\ ret = [t \in Threads |-> "nothing"]
  /\ accepted = << >>
  /\ delivered = << >>

-----------------------------------------------------------------------------
(* The predicates of the two wait_for() calls. *)

(* Faulty variant: one item too many. *)
PutReadyOffByOne == Len(buffer) <= Capacity \/ closed
PutReady == Len(buffer) < Capacity \/ closed

GetReady == Len(buffer) > 0 \/ closed

(* wait_for() stops waiting when the time of the call is over. *)
TimeUp(t) == t \in expired

Return(t, value) ==
  /\ pc' = [pc EXCEPT ![t] = "idle"]
  /\ ret' = [ret EXCEPT ![t] = value]
  /\ expired' = expired \ {t}

(* wait(): the lock is given up with the thread in the wait set. *)
StartWaiting(t) ==
  /\ pc' = [pc EXCEPT ![t] = "waiting"]
  /\ UNCHANGED <<ret, expired>>

-----------------------------------------------------------------------------
(* put *)

(* Faulty variants of FinishPut: closed is not looked at; last in, first out. *)
FinishPutUnchecked(p, x) ==
  /\ buffer' = Append(buffer, x)
  /\ accepted' = Append(accepted, x)
  /\ notEmpty' \in AfterNotify(notEmpty)
  /\ Return(p, "True")
  /\ UNCHANGED <<closed, delivered>>
FinishPutAtHead(p, x) ==
  \/ /\ closed
     /\ Return(p, "False")
     /\ UNCHANGED <<buffer, closed, notEmpty, accepted, delivered>>
  \/ /\ ~closed
     /\ buffer' = <<x>> \o buffer
     /\ accepted' = Append(accepted, x)
     /\ notEmpty' \in AfterNotify(notEmpty)
     /\ Return(p, "True")
     /\ UNCHANGED <<closed, delivered>>
(* The part of put after a successful wait_for. *)
FinishPut(p, x) ==
  \/ /\ closed
     /\ Return(p, "False")
     /\ UNCHANGED <<buffer, closed, notEmpty, accepted, delivered>>
  \/ /\ ~closed
     /\ buffer' = Append(buffer, x)
     /\ accepted' = Append(accepted, x)
     /\ notEmpty' \in AfterNotify(notEmpty)
     /\ Return(p, "True")
     /\ UNCHANGED <<closed, delivered>>

Put(p, x) ==
  /\ pc[p] = "idle"
  /\ Len(accepted) < MaxAccepted
  /\ arg' = [arg EXCEPT ![p] = x]
  /\ \/ /\ PutReady
        /\ FinishPut(p, x)
        /\ UNCHANGED notFull
     \/ /\ ~PutReady
        /\ StartWaiting(p)
        /\ notFull' = notFull \cup {p}
        /\ UNCHANGED <<buffer, closed, notEmpty, accepted, delivered>>

(* A waiting producer has the lock back: it was notified or its time is up. *)
ResumePut(p) ==
  /\ pc[p] = "waiting"
  /\ p \notin notFull \/ p \in expired
  /\ UNCHANGED arg
  /\ \/ /\ PutReady
        /\ notFull' = notFull \ {p}
        /\ FinishPut(p, arg[p])
     \/ /\ ~PutReady
        /\ TimeUp(p)
        /\ notFull' = notFull \ {p}
        /\ Return(p, "False")
        /\ UNCHANGED <<buffer, closed, notEmpty, accepted, delivered>>
     \/ /\ ~PutReady
        /\ ~TimeUp(p)
        /\ notFull' = notFull \cup {p}
        /\ StartWaiting(p)
        /\ UNCHANGED <<buffer, closed, notEmpty, accepted, delivered>>

-----------------------------------------------------------------------------
(* get *)

(* The part of get after a successful wait_for. *)
FinishGet(c) ==
  \/ /\ Len(buffer) = 0
     /\ closed
     /\ Return(c, None)
     /\ UNCHANGED <<buffer, closed, notFull, accepted, delivered>>
  \/ /\ Len(buffer) > 0
     /\ buffer' = Tail(buffer)
     /\ delivered' = Append(delivered, Head(buffer))
     /\ notFull' \in AfterNotify(notFull)
     /\ Return(c, Head(buffer))
     /\ UNCHANGED <<closed, accepted>>

Get(c) ==
  /\ pc[c] = "idle"
  /\ UNCHANGED arg
  /\ \/ /\ GetReady
        /\ FinishGet(c)
        /\ UNCHANGED notEmpty
     \/ /\ ~GetReady
        /\ StartWaiting(c)
        /\ notEmpty' = notEmpty \cup {c}
        /\ UNCHANGED <<buffer, closed, notFull, accepted, delivered>>

ResumeGet(c) ==
  /\ pc[c] = "waiting"
  /\ c \notin notEmpty \/ c \in expired
  /\ UNCHANGED arg
  /\ \/ /\ GetReady
        /\ notEmpty' = notEmpty \ {c}
        /\ FinishGet(c)
     \/ /\ ~GetReady
        /\ TimeUp(c)
        /\ notEmpty' = notEmpty \ {c}
        /\ Return(c, None)
        /\ UNCHANGED <<buffer, closed, notFull, accepted, delivered>>
     \/ /\ ~GetReady
        /\ ~TimeUp(c)
        /\ notEmpty' = notEmpty \cup {c}
        /\ StartWaiting(c)
        /\ UNCHANGED <<buffer, closed, notFull, accepted, delivered>>

-----------------------------------------------------------------------------

(* Faulty variant: notify() instead of notify_all(). *)
CloseWakingOne ==
  /\ closed' = TRUE
  /\ notFull' \in AfterNotify(notFull)
  /\ notEmpty' \in AfterNotify(notEmpty)
  /\ UNCHANGED <<buffer, pc, expired, arg, ret, accepted, delivered>>
Close ==
  /\ closed' = TRUE
  /\ notFull' = {}
  /\ notEmpty' = {}
  /\ UNCHANGED <<buffer, pc, expired, arg, ret, accepted, delivered>>

(* The timeout of a call elapses.  The thread acts on it when it resumes. *)
Expire(t) ==
  /\ t \in TimedCallers
  /\ pc[t] = "waiting"
  /\ expired' = expired \cup {t}
  /\ UNCHANGED <<buffer, closed, notFull, notEmpty, pc, arg, ret,
                 accepted, delivered>>

Next ==
  \/ \E p \in Producers, x \in Items : Put(p, x)
  \/ \E p \in Producers : ResumePut(p)
  \/ \E c \in Consumers : Get(c)
  \/ \E c \in Consumers : ResumeGet(c)
  \/ \E t \in Threads : Expire(t)
  \/ Close

Spec == Init /\ [][Next]_vars

(* A thread that can run again gets the lock some day, and clocks advance. *)
(* Nobody is obliged to call put, get or close.                            *)
Fairness ==
  /\ \A p \in Producers : WF_vars(ResumePut(p))
  /\ \A c \in Consumers : WF_vars(ResumeGet(c))
  /\ \A t \in TimedCallers : WF_vars(Expire(t))

FairSpec == Spec /\ Fairness

-----------------------------------------------------------------------------
(* Properties *)

(* Every variable has its type, the buffer never exceeds its capacity, and *)
(* only a thread inside wait() is in a wait set or has an elapsed timeout. *)
TypeOK ==
  /\ buffer \in Seq(Items)
  /\ Len(buffer) <= Capacity
  /\ closed \in BOOLEAN
  /\ notFull \subseteq Producers
  /\ notEmpty \subseteq Consumers
  /\ pc \in [Threads -> {"idle", "waiting"}]
  /\ expired \subseteq TimedCallers
  /\ arg \in [Producers -> Items \cup {None}]
  /\ ret \in [Threads -> {"nothing", "True", "False", None} \cup Items]
  /\ accepted \in Seq(Items)
  /\ delivered \in Seq(Items)
  /\ \A t \in notFull \cup notEmpty \cup expired : pc[t] = "waiting"
  /\ \A p \in Producers : pc[p] = "waiting" => arg[p] \in Items

(* Items come out once each, in the order in which they went in, and what  *)
(* is still inside is exactly what was accepted and not yet delivered.     *)
Fifo == accepted = delivered \o buffer

(* Threads whose wait() is over although their call has not returned.      *)
WokenProducers == {p \in Producers \ notFull : pc[p] = "waiting"}
WokenConsumers == {c \in Consumers \ notEmpty : pc[c] = "waiting"}

(* put and get wake a single thread each.  That is enough: while a thread  *)
(* sleeps on not_empty there are at least as many consumers on their way   *)
(* to the lock as there are items, likewise for free slots and producers.  *)
(* Otherwise a thread would sleep beside an item (a slot) nobody fetches.  *)
NoLostWakeup ==
  /\ notEmpty # {} => Len(buffer) <= Cardinality(WokenConsumers)
  /\ notFull # {} => Capacity <= Len(buffer) + Cardinality(WokenProducers)

(* close() empties both wait sets and nobody waits afterwards.             *)
ClosedWakesAll == closed => notFull = {} /\ notEmpty = {}

(* The inductive invariant behind Fifo and NoLostWakeup.                   *)
IInv == TypeOK /\ Fifo /\ ClosedWakesAll /\ NoLostWakeup

(* After close() nothing is accepted any more, not even from a producer    *)
(* that began to wait before the close.                                    *)
NothingAcceptedAfterClose ==
  [][closed => accepted' = accepted /\ closed']_vars

(* A call without timeout fails only because of close(): put returns False *)
(* only then, and get returns None only when in addition nothing is left.  *)
FailureMeansClosed ==
  /\ \A p \in Producers \ TimedCallers : ret[p] = "False" => closed
  /\ \A c \in Consumers \ TimedCallers :
       ret[c] = None => closed /\ buffer = << >>

(* close() frees every waiting thread, so that all calls in progress       *)
(* return; a call with a timeout returns whatever the other threads do,    *)
(* and one without fails for no other reason than close().                 *)
CallsReturn ==
  /\ []FailureMeansClosed
  /\ \A t \in Threads : closed ~> pc[t] = "idle"
  /\ \A t \in TimedCallers : pc[t] = "waiting" ~> pc[t] = "idle"

(* The buffer implements the closable first-in first-out channel.          *)
Channel == INSTANCE FifoChannel
  WITH sent <- accepted, received <- delivered, open <- ~closed
ImplementsChannel == Channel!ChanSpec
=============================================================================
