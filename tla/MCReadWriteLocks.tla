--------------------------- MODULE MCReadWriteLocks --------------------------
(***************************************************************************)
(* The four reader-writer locks under the same clients: lock says which    *)
(* one a behaviour is about.  A property that some of the locks promise is *)
(* stated for those.                                                       *)
(***************************************************************************)
EXTENDS LockClients

CONSTANT Locks  (* the locks to check *)

VARIABLES
  lock,
  readCount, writeCount, upgradeCount, waitingWriters,
  readers, writer, upgrader,
  readReady, writeReady, upgradeReady, noWriters,
  readLock, writeLock,
  pc, expired, failed, holds

Fair == INSTANCE FairReadWriteLock
Basic == INSTANCE BasicReadWriteLock
Preferring == INSTANCE WritePreferringReadWriteLock
Upgradable == INSTANCE UpgradableReadWriteLock

(* The fields that only some of the locks have. *)
noUpgrades == <<upgradeCount, upgrader, upgradeReady, failed>>
noMutexes == <<readLock, writeLock>>
vars == <<lock, readCount, writeCount, waitingWriters, readers, writer,
          readReady, writeReady, noWriters, noMutexes, pc, expired, noUpgrades,
          holds>>

InitNoUpgrades ==
  upgradeCount = 0 /\ upgrader = NoThread /\ upgradeReady = {} /\ failed = {}
InitNoMutexes == readLock = NoThread /\ writeLock = NoThread
InitNoHolds == holds = [t \in Threads |-> 0]

Init ==
  /\ lock \in Locks
  /\ \/ /\ lock = "fair" /\ Fair!Init
        /\ noWriters = {} /\ InitNoMutexes /\ InitNoUpgrades
     \/ /\ lock = "basic" /\ Basic!Init
        /\ waitingWriters = 0 /\ noWriters = {} /\ InitNoUpgrades /\ InitNoHolds
     \/ /\ lock = "write_preferring" /\ Preferring!Init
        /\ readReady = {} /\ InitNoMutexes /\ InitNoUpgrades /\ InitNoHolds
     \/ /\ lock = "upgradable" /\ Upgradable!Init
        /\ waitingWriters = 0 /\ noWriters = {} /\ InitNoMutexes /\ InitNoHolds

(* A step of a lock leaves the fields of the other locks alone. *)
OfFair ==
  lock = "fair" /\ UNCHANGED <<lock, noWriters, noMutexes, noUpgrades>>
OfBasic ==
  /\ lock = "basic"
  /\ UNCHANGED <<lock, waitingWriters, noWriters, noUpgrades, holds>>
OfPreferring ==
  /\ lock = "write_preferring"
  /\ UNCHANGED <<lock, readReady, noMutexes, noUpgrades, holds>>
OfUpgradable ==
  /\ lock = "upgradable"
  /\ UNCHANGED <<lock, waitingWriters, noWriters, noMutexes, holds>>

Next ==
  \/ Fair!Next /\ OfFair
  \/ Basic!Next /\ OfBasic
  \/ Preferring!Next /\ OfPreferring
  \/ Upgradable!Next /\ OfUpgradable

Spec == Init /\ [][Next]_vars

FairSpec ==
  /\ Spec
  /\ \A t \in Threads : /\ WF_vars(Fair!Obliged(t) /\ OfFair)
                       /\ WF_vars(Preferring!Obliged(t) /\ OfPreferring)
                       /\ WF_vars(Upgradable!Obliged(t) /\ OfUpgradable)

-----------------------------------------------------------------------------
(* The fair and the upgradable lock implement the abstract reader-writer   *)
(* lock: readers and a writer exclude each other, also after a release that *)
(* raised, and an upgrade lets nobody in between.                           *)
Reading == IF lock = "fair" THEN Fair!Reading
           ELSE IF lock = "upgradable" THEN readers ELSE {}
Writing == IF lock \in {"fair", "upgradable"} THEN {writer} \ {NoThread} ELSE {}
Lock == INSTANCE SharedExclusive WITH reading <- Reading, writing <- Writing
ImplementsLock == Lock!RWSpec

(* The locks know who is inside and who waits, on every way out of a call:  *)
(* the fields they decide by name and count exactly those threads.  Two     *)
(* exceptions are part of the statement: a release of the fair lock that    *)
(* raised stays counted, and the basic and the write-preferring lock count  *)
(* a reader only some time after its test.                                  *)
CountsAgree ==
  /\ lock = "fair" => /\ Fair!TypeOK
                      /\ Fair!WaitingWritersCounted
                      /\ Fair!HoldersCounted
  /\ lock = "basic" => Basic!TypeOK /\ Basic!HoldersNamed
  /\ lock = "write_preferring" => /\ Preferring!TypeOK
                                  /\ Preferring!WaitingWritersCounted
                                  /\ Preferring!HoldersNamed
  /\ lock = "upgradable" => Upgradable!TypeOK /\ Upgradable!CountsAgree

(* Who never sleeps beside a lock that is free for it: all the waiting      *)
(* writers of a lock at once, the readers of the basic and the upgradable   *)
(* lock, and those who ask for the upgrade lock.  The others, who may, are  *)
(* the readers of the fair and of the write-preferring lock and the         *)
(* upgrader that waits to be alone: OnlyTheseAreForgotten says when.        *)
NobodyForgotten ==
  /\ lock = "fair" => Fair!NoWriterForgotten
  /\ lock = "basic" => Basic!NoWriterForgotten /\ Basic!NoReaderForgotten
  /\ lock = "write_preferring" => Preferring!NoWriterForgotten
  /\ lock = "upgradable" =>
       Upgradable!NoWriterForgotten /\ Upgradable!NobodyElseForgotten

(* The one way in which each of those others is left asleep beside a lock   *)
(* that is free for it: no step of the code does it but a writer's timeout  *)
(* (readers of the fair lock), release_write (readers of the write-         *)
(* preferring lock) and a notification that reaches a plain writer (the     *)
(* upgrader).                                                               *)
OnlyTheseAreForgotten ==
  [][/\ lock = "fair" => Fair!ReadersWoken
     /\ lock = "write_preferring" => Preferring!ReadersWoken
     /\ lock = "upgradable" => Upgradable!UpgraderWoken]_vars

(* The fair and the write-preferring lock let a writer in against a stream  *)
(* of readers, and an upgrader gets in when no plain writer disturbs it.    *)
EveryoneGetsIn ==
  /\ lock = "fair" => Fair!WritersGetIn
  /\ lock = "write_preferring" => Preferring!WritersGetIn
  /\ lock = "upgradable" => Upgradable!UpgradersGetInAlone

-----------------------------------------------------------------------------
(* "Allows multiple readers or one writer": the basic lock.                 *)
BasicExclusion == lock = "basic" => Basic!Exclusion
=============================================================================
