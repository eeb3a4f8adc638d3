----------------------------- MODULE LockClients -----------------------------
(***************************************************************************)
(* The threads that use a reader-writer lock, and how: the parameters that *)
(* the four implementations share, and threading.Condition as they use it. *)
(* The threads inside wait() form the wait set of the condition.  A        *)
(* thread that left the wait set, or whose timeout elapsed, has a step in  *)
(* which it holds the lock again and tests the predicate of wait_for().  A *)
(* waiter whose timeout elapsed stays in the wait set until that step, so  *)
(* that a notify() can still be spent on it.                               *)
(***************************************************************************)
EXTENDS Naturals, FiniteSets

CONSTANTS Threads,       (* the client threads                             *)
          Writers,       (* those who ever call acquire_write              *)
          TimedReaders,  (* those who pass a timeout to acquire_read,      *)
                         (* acquire_upgrade and upgrade_to_write           *)
          TimedWriters,  (* those who pass a timeout to acquire_write      *)
          ContextUsers,  (* those who take an upgrade lock by the context  *)
                         (* manager upgrade_lock()                         *)
          MaxHolds,      (* bound: read locks a thread holds at a time     *)
          NoThread       (* Python's None; also: a mutex nobody holds      *)

ASSUME LockClientsAssumption ==
  /\ IsFiniteSet(Threads)
  /\ Writers \subseteq Threads
  /\ TimedReaders \subseteq Threads
  /\ TimedWriters \subseteq Writers
  /\ ContextUsers \subseteq Threads \ Writers
  /\ MaxHolds \in Nat \ {0}
  /\ NoThread \notin Threads

(* The possible wait sets after notify() on a condition with wait set W.    *)
(* Which waiter it removes is left open, as in the documentation of         *)
(* threading.  Faulty variant: the notification is forgotten.               *)
AfterNoNotify(W) == {W}
AfterNotify(W) == IF W = {} THEN {{}} ELSE {W \ {t} : t \in W}
=============================================================================
