----------------------- MODULE UpgradableReadWriteLock -----------------------
(***************************************************************************)
(* UpgradableReadWriteLock of synchronization/reader_writer.py.  Besides   *)
(* readers and writers there is at most one upgrader: a reader that may    *)
(* turn its read lock into the write lock.  An upgrader that waits for the *)
(* other readers to leave sleeps on the condition of the writers.          *)
(*                                                                         *)
(* A thread holds one lock at a time and releases the one it holds, except *)
(* the threads of ContextUsers: they work in "with lock.upgrade_lock()"    *)
(* blocks, which end with release_upgrade() whatever they did inside.      *)
(***************************************************************************)
EXTENDS LockClients

VARIABLES
  readCount, writeCount, upgradeCount,  (* the three counts                *)
  readers, writer, upgrader,            (* and who holds the locks         *)
  readReady, writeReady, upgradeReady,  (* wait sets of the conditions     *)
  pc,       (* "running" or the call the thread waits in                   *)
  expired,  (* waiting threads whose timeout has elapsed                   *)
  failed    (* threads whose release_upgrade raised RuntimeError           *)

counts == <<readCount, writeCount, upgradeCount>>
holders == <<readers, writer, upgrader>>
waitSets == <<readReady, writeReady, upgradeReady>>
vars == <<counts, holders, waitSets, pc, expired, failed>>

Init ==
  /\ readCount = 0 /\ writeCount = 0 /\ upgradeCount = 0
  /\ readers = {} /\ writer = NoThread /\ upgrader = NoThread
  /\ readReady = {} /\ writeReady = {} /\ upgradeReady = {}
  /\ pc = [t \in Threads |-> "running"]
  /\ expired = {}
  /\ failed = {}

-----------------------------------------------------------------------------
(* The predicates of the wait_for() calls. *)

ReadFree == writeCount = 0

(* Faulty variant: the readers are not considered. *)
WriteFreeIgnoringReaders == writeCount = 0 /\ upgradeCount = 0
WriteFree == readCount = 0 /\ writeCount = 0 /\ upgradeCount = 0

UpgradeFree == writeCount = 0 /\ upgradeCount = 0

Alone(t) == readCount = 1 /\ t \in readers

Goto(t, where) ==
  /\ pc' = [pc EXCEPT ![t] = where]
  /\ expired' = IF where = "running" THEN expired \ {t} ELSE expired

(* The lock is not to be had: sleep, or return False once time is up. *)
Sleep(t, where) == Goto(t, where) /\ UNCHANGED <<counts, holders, failed>>
StayOut(t, where) ==
  Sleep(t, IF t \in expired THEN "running" ELSE where)

(* A thread may continue when it was notified or its time is up. *)
Awake(t, where, W) == pc[t] = where /\ (t \notin W \/ t \in expired)

(* The wait set W when t sleeps another round or returns False. *)
StillWaiting(t, W) == IF t \in expired THEN W \ {t} ELSE W \cup {t}

Idle(t) == pc[t] = "running" /\ t \notin readers /\ writer # t

-----------------------------------------------------------------------------
(* acquire_read *)

EnterRead(t) ==
  /\ readCount' = readCount + 1
  /\ readers' = readers \cup {t}
  /\ Goto(t, "running")
  /\ UNCHANGED <<writeCount, upgradeCount, writer, upgrader, writeReady,
                 upgradeReady, failed>>

AcquireRead(t) ==
  /\ Idle(t)
  /\ \/ ReadFree /\ EnterRead(t) /\ UNCHANGED readReady
     \/ /\ ~ReadFree
        /\ readReady' = readReady \cup {t}
        /\ Sleep(t, "waitRead")
        /\ UNCHANGED <<writeReady, upgradeReady>>

ResumeRead(t) ==
  /\ Awake(t, "waitRead", readReady)
  /\ \/ ReadFree /\ EnterRead(t) /\ readReady' = readReady \ {t}
     \/ /\ ~ReadFree
        /\ readReady' = StillWaiting(t, readReady)
        /\ StayOut(t, "waitRead")
        /\ UNCHANGED <<writeReady, upgradeReady>>

(* Faulty variant: the last reader beside the upgrader notifies nobody. *)
ReleaseReadToWriters(t) ==
  /\ pc[t] = "running" /\ t \in readers /\ t # upgrader
  /\ readCount' = readCount - 1
  /\ readers' = readers \ {t}
  /\ writeReady' \in IF readCount' = 0 THEN AfterNotify(writeReady)
                                       ELSE {writeReady}
  /\ UNCHANGED <<writeCount, upgradeCount, writer, upgrader, readReady,
                 upgradeReady, pc, expired, failed>>
ReleaseRead(t) ==
  /\ pc[t] = "running" /\ t \in readers /\ t # upgrader
  /\ readCount' = readCount - 1
  /\ readers' = readers \ {t}
  /\ writeReady' \in IF \/ readCount' = 0
                        \/ readCount' = 1 /\ upgrader # NoThread
                       THEN AfterNotify(writeReady)
                       ELSE {writeReady}
  /\ UNCHANGED <<writeCount, upgradeCount, writer, upgrader, readReady,
                 upgradeReady, pc, expired, failed>>

-----------------------------------------------------------------------------
(* acquire_write and release_write *)

EnterWrite(t) ==
  /\ writeCount' = 1
  /\ writer' = t
  /\ Goto(t, "running")
  /\ UNCHANGED <<readCount, upgradeCount, readers, upgrader, readReady,
                 upgradeReady, failed>>

AcquireWrite(t) ==
  /\ t \in Writers /\ Idle(t)
  /\ \/ WriteFree /\ EnterWrite(t) /\ UNCHANGED writeReady
     \/ /\ ~WriteFree
        /\ writeReady' = writeReady \cup {t}
        /\ Sleep(t, "waitWrite")
        /\ UNCHANGED <<readReady, upgradeReady>>

ResumeWrite(t) ==
  /\ Awake(t, "waitWrite", writeReady)
  /\ \/ WriteFree /\ EnterWrite(t) /\ writeReady' = writeReady \ {t}
     \/ /\ ~WriteFree
        /\ writeReady' = StillWaiting(t, writeReady)
        /\ StayOut(t, "waitWrite")
        /\ UNCHANGED <<readReady, upgradeReady>>

ReleaseWrite(t) ==
  /\ pc[t] = "running" /\ writer = t /\ t \notin ContextUsers
  /\ writeCount' = 0
  /\ writer' = NoThread
  /\ readReady' = {} /\ writeReady' = {} /\ upgradeReady' = {}
  /\ UNCHANGED <<readCount, upgradeCount, readers, upgrader, pc, expired,
                 failed>>

-----------------------------------------------------------------------------
(* acquire_upgrade, upgrade_to_write and release_upgrade *)

EnterUpgrade(t) ==
  /\ upgradeCount' = 1
  /\ upgrader' = t
  /\ readCount' = readCount + 1
  /\ readers' = readers \cup {t}
  /\ Goto(t, "running")
  /\ UNCHANGED <<writeCount, writer, readReady, writeReady, failed>>

AcquireUpgrade(t) ==
  /\ Idle(t)
  /\ \/ UpgradeFree /\ EnterUpgrade(t) /\ UNCHANGED upgradeReady
     \/ /\ ~UpgradeFree
        /\ upgradeReady' = upgradeReady \cup {t}
        /\ Sleep(t, "waitUpgrade")
        /\ UNCHANGED <<readReady, writeReady>>

ResumeUpgrade(t) ==
  /\ Awake(t, "waitUpgrade", upgradeReady)
  /\ \/ /\ UpgradeFree
        /\ EnterUpgrade(t)
        /\ upgradeReady' = upgradeReady \ {t}
     \/ /\ ~UpgradeFree
        /\ upgradeReady' = StillWaiting(t, upgradeReady)
        /\ StayOut(t, "waitUpgrade")
        /\ UNCHANGED <<readReady, writeReady>>

(* The upgrade lock becomes the write lock. *)
Convert(t) ==
  /\ upgradeCount' = 0
  /\ upgrader' = NoThread
  /\ readCount' = 0
  /\ readers' = readers \ {t}
  /\ writeCount' = 1
  /\ writer' = t
  /\ Goto(t, "running")
  /\ UNCHANGED <<readReady, upgradeReady, failed>>

UpgradeToWrite(t) ==
  /\ pc[t] = "running" /\ upgrader = t
  /\ \/ Alone(t) /\ Convert(t) /\ UNCHANGED writeReady
     \/ /\ ~Alone(t)
        /\ writeReady' = writeReady \cup {t}
        /\ Sleep(t, "waitAlone")
        /\ UNCHANGED <<readReady, upgradeReady>>

ResumeUpgradeToWrite(t) ==
  /\ Awake(t, "waitAlone", writeReady)
  /\ \/ Alone(t) /\ Convert(t) /\ writeReady' = writeReady \ {t}
     \/ /\ ~Alone(t)
        /\ writeReady' = StillWaiting(t, writeReady)
        /\ StayOut(t, "waitAlone")
        /\ UNCHANGED <<readReady, upgradeReady>>

(* Faulty variant: the read lock of the upgrader is forgotten. *)
ReleaseUpgradeOnly(t) ==
  /\ pc[t] = "running" /\ upgrader = t
  /\ upgradeCount' = 0
  /\ upgrader' = NoThread
  /\ readers' = readers \ {t}
  /\ upgradeReady' = {}
  /\ UNCHANGED <<readCount, writeCount, writer, readReady, writeReady, pc,
                 expired, failed>>
ReleaseUpgrade(t) ==
  /\ pc[t] = "running" /\ upgrader = t
  /\ upgradeCount' = 0
  /\ upgrader' = NoThread
  /\ readCount' = readCount - 1
  /\ readers' = readers \ {t}
  /\ upgradeReady' = {}
  /\ writeReady' \in IF readCount' = 0 THEN AfterNotify(writeReady)
                                       ELSE {writeReady}
  /\ UNCHANGED <<writeCount, writer, readReady, pc, expired, failed>>

(* The finally clause of upgrade_lock() after a successful upgrade_to_write:*)
(* release_upgrade raises, and nobody releases the write lock.              *)
LeaveUpgraded(t) ==
  /\ pc[t] = "running" /\ writer = t /\ t \in ContextUsers
  /\ failed' = failed \cup {t}
  /\ UNCHANGED <<counts, holders, waitSets, pc, expired>>

Expire(t) ==
  /\ pc[t] # "running"
  /\ t \in IF pc[t] = "waitWrite" THEN TimedWriters ELSE TimedReaders
  /\ expired' = expired \cup {t}
  /\ UNCHANGED <<counts, holders, waitSets, pc, failed>>

Next ==
  \E t \in Threads :
    \/ AcquireRead(t) \/ ResumeRead(t) \/ ReleaseRead(t)
    \/ AcquireWrite(t) \/ ResumeWrite(t) \/ ReleaseWrite(t)
    \/ AcquireUpgrade(t) \/ ResumeUpgrade(t) \/ ReleaseUpgrade(t)
    \/ UpgradeToWrite(t) \/ ResumeUpgradeToWrite(t) \/ LeaveUpgraded(t)
    \/ Expire(t)

Spec == Init /\ [][Next]_vars

(* Runnable threads run, holders release, clocks advance.  No thread is     *)
(* obliged to ask for a lock or for an upgrade.                             *)
Obliged(t) == \/ ResumeRead(t) \/ ReleaseRead(t)
              \/ ResumeWrite(t) \/ ReleaseWrite(t)
              \/ ResumeUpgrade(t) \/ ReleaseUpgrade(t)
              \/ ResumeUpgradeToWrite(t) \/ Expire(t)

FairSpec == Spec /\ \A t \in Threads : WF_vars(Obliged(t))

-----------------------------------------------------------------------------
(* Properties *)

(* Every variable has its type: no count goes below zero or beyond one      *)
(* upgrader and one writer.                                                 *)
TypeOK ==
  /\ readCount \in Nat /\ writeCount \in {0, 1} /\ upgradeCount \in {0, 1}
  /\ readers \subseteq Threads
  /\ writer \in Threads \cup {NoThread}
  /\ upgrader \in Threads \cup {NoThread}
  /\ readReady \subseteq Threads
  /\ writeReady \subseteq Threads
  /\ upgradeReady \subseteq Threads
  /\ pc \in [Threads -> {"running", "waitRead", "waitWrite", "waitUpgrade",
                         "waitAlone"}]
  /\ expired \subseteq TimedReaders \cup TimedWriters
  /\ failed \subseteq ContextUsers

(* The counts that the wait_for() predicates test say who holds the locks:  *)
(* an upgrader is one of the readers, and gives up both on every way out.   *)
CountsAgree ==
  /\ readCount = Cardinality(readers)
  /\ writeCount = 0 <=> writer = NoThread
  /\ upgradeCount = 0 <=> upgrader = NoThread
  /\ upgrader # NoThread => upgrader \in readers

(* A free lock never has all its waiting writers asleep: release_read and   *)
(* release_upgrade notify one writer only.                                  *)
NoWriterForgotten ==
  WriteFree /\ writeReady # {} =>
    \E t \in Threads \ writeReady : pc[t] = "waitWrite"

(* Threads that wait to read or for the upgrade lock never sleep while that *)
(* lock is to be had.                                                       *)
NobodyElseForgotten ==
  /\ ReadFree => readReady = {}
  /\ UpgradeFree => upgradeReady = {}

(* An upgrader that sleeps although it is the only reader left.             *)
LeftAlone(t) == pc[t] = "waitAlone" /\ t \in writeReady /\ Alone(t)

(* An upgrader is left so in one way only: the one notification of the last *)
(* release_read went to a plain writer that sleeps on the same condition.   *)
UpgraderWoken ==
  \A t \in Threads : LeftAlone(t)' =>
    \/ LeftAlone(t)
    \/ \E w \in writeReady \ writeReady' : pc[w] = "waitWrite"

(* The lock is a reader-writer lock, and an upgrade lets nobody in between. *)
Lock == INSTANCE SharedExclusive
          WITH reading <- readers, writing <- {writer} \ {NoThread}
ImplementsLock == Lock!RWSpec

(* An upgrader whose fellow readers left for good gets the write lock.      *)
UpgradersGetIn ==
  \A t \in Threads :
    <>[](pc[t] = "waitAlone" => Alone(t))
      => (pc[t] = "waitAlone" ~> pc[t] # "waitAlone")

(* That much is true as long as no plain writer sleeps on the same condition. *)
UpgradersGetInAlone ==
  [](\A t \in Threads : pc[t] # "waitWrite") => UpgradersGetIn
=============================================================================
