--------------------- MODULE WritePreferringReadWriteLock --------------------
(***************************************************************************)
(* WritePreferringReadWriteLock of synchronization/reader_writer.py: one   *)
(* RLock, three conditions over it, of which read_ready is never waited    *)
(* on.  acquire_read tests for writers in one section of the lock and      *)
(* counts itself in another one; between the two the lock is free.         *)
(***************************************************************************)
EXTENDS LockClients

VARIABLES
  readCount, writeCount, waitingWriters, readers, writer,
  noWriters, writeReady,  (* wait sets of the two conditions waited on *)
  pc, expired

vars == <<readCount, writeCount, waitingWriters, readers, writer, noWriters,
          writeReady, pc, expired>>

Places == {"outside", "waitRead",
           "admitted",  (* passed the test of acquire_read, not yet counted *)
           "reading", "waitWrite", "writing"}

Init ==
  /\ readCount = 0
  /\ writeCount = 0
  /\ waitingWriters = 0
  /\ readers = {}
  /\ writer = NoThread
  /\ noWriters = {}
  /\ writeReady = {}
  /\ pc = [t \in Threads |-> "outside"]
  /\ expired = {}

Goto(t, place) ==
  /\ pc' = [pc EXCEPT ![t] = place]
  /\ expired' = IF place \in {"waitRead", "waitWrite"}
                  THEN expired ELSE expired \ {t}

-----------------------------------------------------------------------------
(* acquire_read *)

(* Faulty variant: waiting writers are not considered. *)
ReadFreeIgnoringQueue == writeCount = 0
ReadFree == writeCount = 0 /\ waitingWriters = 0

PassTest(t) ==
  /\ \/ pc[t] = "outside"
     \/ pc[t] = "waitRead" /\ (t \notin noWriters \/ t \in expired)
  /\ \/ /\ ReadFree
        /\ Goto(t, "admitted")
        /\ noWriters' = noWriters \ {t}
     \/ /\ ~ReadFree
        /\ t \notin expired
        /\ Goto(t, "waitRead")
        /\ noWriters' = noWriters \cup {t}
     \/ /\ ~ReadFree
        /\ t \in expired
        /\ Goto(t, "outside")
        /\ noWriters' = noWriters \ {t}
  /\ UNCHANGED <<readCount, writeCount, waitingWriters, readers, writer,
                 writeReady>>

CountIn(t) ==
  /\ pc[t] = "admitted"
  /\ readCount' = readCount + 1
  /\ readers' = readers \cup {t}
  /\ Goto(t, "reading")
  /\ UNCHANGED <<writeCount, waitingWriters, writer, noWriters, writeReady>>

-----------------------------------------------------------------------------
(* acquire_write *)

WriteFree == readCount = 0 /\ writeCount = 0

(* The finally clause: n writers go on waiting.  The last one wakes the     *)
(* readers, who find the lock taken if the writer has just got it.          *)
(* Faulty variant: the readers are not woken. *)
StopWaitingSilently(n) ==
  /\ waitingWriters' = n
  /\ UNCHANGED noWriters
StopWaiting(n) ==
  /\ waitingWriters' = n
  /\ noWriters' = IF n = 0 THEN {} ELSE noWriters

AcquireWrite(t) ==
  /\ t \in Writers
  /\ pc[t] = "outside"
  /\ UNCHANGED <<readCount, readers>>
  /\ \/ /\ WriteFree
        /\ writeCount' = 1
        /\ writer' = t
        /\ Goto(t, "writing")
        /\ StopWaiting(waitingWriters)
        /\ UNCHANGED writeReady
     \/ /\ ~WriteFree
        /\ waitingWriters' = waitingWriters + 1
        /\ Goto(t, "waitWrite")
        /\ writeReady' = writeReady \cup {t}
        /\ UNCHANGED <<writeCount, writer, noWriters>>

ResumeWrite(t) ==
  /\ pc[t] = "waitWrite"
  /\ t \notin writeReady \/ t \in expired
  /\ UNCHANGED <<readCount, readers>>
  /\ \/ /\ WriteFree
        /\ writeCount' = 1
        /\ writer' = t
        /\ Goto(t, "writing")
        /\ StopWaiting(waitingWriters - 1)
        /\ writeReady' = writeReady \ {t}
     \/ /\ ~WriteFree
        /\ t \in expired
        /\ Goto(t, "outside")
        /\ StopWaiting(waitingWriters - 1)
        /\ writeReady' = writeReady \ {t}
        /\ UNCHANGED <<writeCount, writer>>
     \/ /\ ~WriteFree
        /\ t \notin expired
        /\ Goto(t, "waitWrite")
        /\ writeReady' = writeReady \cup {t}
        /\ UNCHANGED <<writeCount, waitingWriters, writer, noWriters>>

-----------------------------------------------------------------------------
(* release_read and release_write *)

ReleaseRead(t) ==
  /\ pc[t] = "reading"
  /\ readCount' = readCount - 1
  /\ readers' = readers \ {t}
  /\ writeReady' \in IF readCount = 1 THEN AfterNotify(writeReady)
                                      ELSE {writeReady}
  /\ Goto(t, "outside")
  /\ UNCHANGED <<writeCount, waitingWriters, writer, noWriters>>

ReleaseWrite(t) ==
  /\ pc[t] = "writing"
  /\ writeCount' = 0
  /\ writer' = NoThread
  /\ writeReady' \in AfterNotify(writeReady)
  /\ Goto(t, "outside")
  /\ UNCHANGED <<readCount, waitingWriters, readers, noWriters>>

Expire(t) ==
  /\ \/ pc[t] = "waitRead" /\ t \in TimedReaders
     \/ pc[t] = "waitWrite" /\ t \in TimedWriters
  /\ expired' = expired \cup {t}
  /\ UNCHANGED <<readCount, writeCount, waitingWriters, readers, writer,
                 noWriters, writeReady, pc>>

Next ==
  \E t \in Threads :
    \/ PassTest(t) \/ CountIn(t) \/ ReleaseRead(t)
    \/ AcquireWrite(t) \/ ResumeWrite(t) \/ ReleaseWrite(t)
    \/ Expire(t)

Spec == Init /\ [][Next]_vars

(* Runnable threads run, holders release, clocks advance.  No thread is     *)
(* obliged to ask for a lock, so a first PassTest of a reader is not fair.  *)
Obliged(t) == \/ pc[t] = "waitRead" /\ PassTest(t)
              \/ CountIn(t) \/ ReleaseRead(t)
              \/ ResumeWrite(t) \/ ReleaseWrite(t)
              \/ Expire(t)

FairSpec == Spec /\ \A t \in Threads : WF_vars(Obliged(t))

-----------------------------------------------------------------------------
(* Properties *)

(* Every variable has its type, and count and set of readers agree.         *)
TypeOK ==
  /\ readCount = Cardinality(readers)
  /\ writeCount \in {0, 1}
  /\ waitingWriters \in Nat
  /\ readers \subseteq Threads
  /\ writer \in Threads \cup {NoThread}
  /\ noWriters \subseteq Threads
  /\ writeReady \subseteq Threads
  /\ pc \in [Threads -> Places]
  /\ expired \subseteq TimedReaders \cup TimedWriters

(* The count that keeps readers out is the number of writers that wait.     *)
WaitingWritersCounted ==
  waitingWriters = Cardinality({t \in Threads : pc[t] = "waitWrite"})

(* The fields name the threads that are inside, at most one of them a       *)
(* writer.  (A reader that passed the test is not counted yet.)             *)
HoldersNamed ==
  /\ readers = {t \in Threads : pc[t] = "reading"}
  /\ {t \in Threads : pc[t] = "writing"} = {writer} \ {NoThread}
  /\ writeCount = 0 <=> writer = NoThread

(* A free lock never has all its waiting writers asleep.                    *)
NoWriterForgotten ==
  WriteFree /\ writeReady # {} =>
    \E t \in Threads \ writeReady : pc[t] = "waitWrite"

(* The lock comes free over readers that are asleep, or a reader falls      *)
(* asleep beside a free lock, in one way only: release_write, which         *)
(* notifies a writer and no reader.  They then sleep until a later writer   *)
(* stops waiting.                                                           *)
ReadersWoken ==
  ReadFree' /\ noWriters' # {} =>
    \/ ReadFree /\ noWriters' \subseteq noWriters
    \/ writer # NoThread /\ writer' = NoThread

(* Readers do not starve writers: while a writer waits no further reader    *)
(* passes the test, and the ones inside leave.                              *)
WritersGetIn ==
  \A t \in Threads :
    pc[t] = "waitWrite" ~> (pc[t] # "waitWrite" \/ writer # NoThread)
=============================================================================
