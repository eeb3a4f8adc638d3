-------------------------- MODULE FairReadWriteLock --------------------------
(***************************************************************************)
(* FairReadWriteLock of synchronization/reader_writer.py: one RLock with   *)
(* two conditions over it, and a count of waiting writers that keeps new   *)
(* readers out.  All shared fields are accessed under the lock, so a       *)
(* section between acquiring it and giving it up is one action.            *)
(*                                                                         *)
(* The clients use the lock as read_lock() and write_lock() do: they       *)
(* release what they acquired.  A thread may hold the read lock up to      *)
(* MaxHolds times over.  It never asks for a lock while it holds the write *)
(* lock, nor for the write lock while it holds a read lock.                *)
(***************************************************************************)
EXTENDS LockClients

VARIABLES
  readCount, writeCount,  (* self._read_count, self._write_count           *)
  waitingWriters,         (* self._waiting_writers                         *)
  readers, writer,        (* self._readers, self._writer                   *)
  readReady, writeReady,  (* wait sets of the two conditions               *)
  pc,                     (* "running", "waitRead", "waitWrite", "ended"   *)
  expired,                (* waiting threads whose timeout has elapsed     *)
  holds                   (* read locks a client got and did not give back *)

vars == <<readCount, writeCount, waitingWriters, readers, writer, readReady,
          writeReady, pc, expired, holds>>

Init ==
  /\ readCount = 0
  /\ writeCount = 0
  /\ waitingWriters = 0
  /\ readers = {}
  /\ writer = NoThread
  /\ readReady = {}
  /\ writeReady = {}
  /\ pc = [t \in Threads |-> "running"]
  /\ expired = {}
  /\ holds = [t \in Threads |-> 0]

-----------------------------------------------------------------------------
(* The predicates of the wait_for() calls. *)

(* Faulty variant: waiting writers are not considered. *)
ReadFreeIgnoringQueue == writeCount = 0
ReadFree == writeCount = 0 /\ waitingWriters = 0

(* Faulty variant: readers are not considered. *)
WriteFreeIgnoringReaders == writeCount = 0
WriteFree == readCount = 0 /\ writeCount = 0

Goto(t, where) ==
  /\ pc' = [pc EXCEPT ![t] = where]
  /\ expired' = IF where = "running" THEN expired \ {t} ELSE expired

-----------------------------------------------------------------------------
(* acquire_read *)

(* Faulty variant: a thread counts once, however many read locks it has.    *)
EnterReadOnce(t) ==
  /\ readCount' = IF t \in readers THEN readCount ELSE readCount + 1
  /\ readers' = readers \cup {t}
  /\ holds' = [holds EXCEPT ![t] = @ + 1]
  /\ Goto(t, "running")
  /\ UNCHANGED <<writeCount, waitingWriters, writer, writeReady>>
EnterRead(t) ==
  /\ readCount' = readCount + 1
  /\ readers' = readers \cup {t}
  /\ holds' = [holds EXCEPT ![t] = @ + 1]
  /\ Goto(t, "running")
  /\ UNCHANGED <<writeCount, waitingWriters, writer, writeReady>>

AcquireRead(t) ==
  /\ pc[t] = "running"
  /\ writer # t
  /\ holds[t] < MaxHolds
  /\ \/ /\ ReadFree
        /\ EnterRead(t)
        /\ UNCHANGED readReady
     \/ /\ ~ReadFree
        /\ Goto(t, "waitRead")
        /\ readReady' = readReady \cup {t}
        /\ UNCHANGED <<readCount, writeCount, waitingWriters, readers, writer,
                       writeReady, holds>>

ResumeRead(t) ==
  /\ pc[t] = "waitRead"
  /\ t \notin readReady \/ t \in expired
  /\ \/ /\ ReadFree
        /\ EnterRead(t)
        /\ readReady' = readReady \ {t}
     \/ /\ ~ReadFree
        /\ IF t \in expired
             THEN Goto(t, "running") /\ readReady' = readReady \ {t}
             ELSE Goto(t, "waitRead") /\ readReady' = readReady \cup {t}
        /\ UNCHANGED <<readCount, writeCount, waitingWriters, readers, writer,
                       writeReady, holds>>

-----------------------------------------------------------------------------
(* acquire_write.  waitingWriters counts a writer from its entry to the     *)
(* finally clause, so for a writer that need not wait it ends unchanged.    *)

EnterWrite(t) ==
  /\ writeCount' = 1
  /\ writer' = t
  /\ Goto(t, "running")
  /\ UNCHANGED <<readCount, readers, readReady, holds>>

AcquireWrite(t) ==
  /\ t \in Writers
  /\ pc[t] = "running"
  /\ writer # t
  /\ holds[t] = 0
  /\ \/ /\ WriteFree
        /\ EnterWrite(t)
        /\ UNCHANGED <<waitingWriters, writeReady>>
     \/ /\ ~WriteFree
        /\ waitingWriters' = waitingWriters + 1
        /\ Goto(t, "waitWrite")
        /\ writeReady' = writeReady \cup {t}
        /\ UNCHANGED <<readCount, writeCount, readers, writer, readReady,
                       holds>>

(* The wait of a writer ends without the lock: return False. *)
(* Faulty variant: the finally clause is missing. *)
GiveUpWriteStillCounted(t) ==
  /\ writeReady' = writeReady \ {t}
  /\ Goto(t, "running")
  /\ UNCHANGED <<readCount, writeCount, waitingWriters, readers, writer,
                 readReady, holds>>
GiveUpWrite(t) ==
  /\ waitingWriters' = waitingWriters - 1
  /\ writeReady' = writeReady \ {t}
  /\ Goto(t, "running")
  /\ UNCHANGED <<readCount, writeCount, readers, writer, readReady, holds>>

ResumeWrite(t) ==
  /\ pc[t] = "waitWrite"
  /\ t \notin writeReady \/ t \in expired
  /\ \/ /\ WriteFree
        /\ EnterWrite(t)
        /\ waitingWriters' = waitingWriters - 1
        /\ writeReady' = writeReady \ {t}
     \/ /\ ~WriteFree
        /\ t \in expired
        /\ GiveUpWrite(t)
     \/ /\ ~WriteFree
        /\ t \notin expired
        /\ Goto(t, "waitWrite")
        /\ writeReady' = writeReady \cup {t}
        /\ UNCHANGED <<readCount, writeCount, waitingWriters, readers, writer,
                       readReady, holds>>

-----------------------------------------------------------------------------
(* release_read and release_write *)

(* A set remembers who reads, not how often: the second release of a thread *)
(* that holds the read lock twice raises, and the thread ends.              *)
ReleaseRead(t) ==
  /\ pc[t] = "running"
  /\ holds[t] > 0
  /\ holds' = [holds EXCEPT ![t] = @ - 1]
  /\ UNCHANGED <<writeCount, waitingWriters, writer, readReady, expired>>
  /\ \/ /\ t \in readers
        /\ readCount' = readCount - 1
        /\ readers' = readers \ {t}
        /\ writeReady' \in IF readCount = 1 THEN AfterNotify(writeReady)
                                            ELSE {writeReady}
        /\ UNCHANGED pc
     \/ /\ t \notin readers
        /\ pc' = [pc EXCEPT ![t] = "ended"]
        /\ UNCHANGED <<readCount, readers, writeReady>>

(* Faulty variant: the readers are notified only, as if they came first. *)
ReleaseWriteToReaders(t) ==
  /\ pc[t] = "running"
  /\ writer = t
  /\ writeCount' = 0
  /\ writer' = NoThread
  /\ readReady' = {}
  /\ UNCHANGED <<readCount, waitingWriters, readers, writeReady, pc, expired,
                 holds>>
(* Faulty variant: the writers are notified only. *)
ReleaseWriteToWriters(t) ==
  /\ pc[t] = "running"
  /\ writer = t
  /\ writeCount' = 0
  /\ writer' = NoThread
  /\ writeReady' \in AfterNotify(writeReady)
  /\ UNCHANGED <<readCount, waitingWriters, readers, readReady, pc, expired,
                 holds>>
ReleaseWrite(t) ==
  /\ pc[t] = "running"
  /\ writer = t
  /\ writeCount' = 0
  /\ writer' = NoThread
  /\ writeReady' \in AfterNotify(writeReady)
  /\ readReady' = {}
  /\ UNCHANGED <<readCount, waitingWriters, readers, pc, expired, holds>>

Expire(t) ==
  /\ \/ pc[t] = "waitRead" /\ t \in TimedReaders
     \/ pc[t] = "waitWrite" /\ t \in TimedWriters
  /\ expired' = expired \cup {t}
  /\ UNCHANGED <<readCount, writeCount, waitingWriters, readers, writer,
                 readReady, writeReady, pc, holds>>

Next ==
  \E t \in Threads :
    \/ AcquireRead(t) \/ ResumeRead(t) \/ ReleaseRead(t)
    \/ AcquireWrite(t) \/ ResumeWrite(t) \/ ReleaseWrite(t)
    \/ Expire(t)

(* Runnable threads run, holders release, clocks advance.  No thread is     *)
(* obliged to ask for a lock.                                               *)
Obliged(t) == \/ ResumeRead(t) \/ ReleaseRead(t)
              \/ ResumeWrite(t) \/ ReleaseWrite(t)
              \/ Expire(t)

-----------------------------------------------------------------------------
(* Properties *)

(* Every variable has its type: no count goes below zero.                   *)
TypeOK ==
  /\ readCount \in Nat
  /\ writeCount \in {0, 1}
  /\ waitingWriters \in Nat
  /\ readers \subseteq Threads
  /\ writer \in Threads \cup {NoThread}
  /\ readReady \subseteq Threads
  /\ writeReady \subseteq Threads
  /\ pc \in [Threads -> {"running", "waitRead", "waitWrite", "ended"}]
  /\ expired \subseteq TimedReaders \cup TimedWriters
  /\ holds \in [Threads -> 0 .. MaxHolds]

(* The clients that are inside a read section. *)
Reading == {t \in Threads : holds[t] > 0}

(* The count that keeps readers out is the number of writers that wait,     *)
(* however their wait ends: success, timeout or another round.              *)
WaitingWritersCounted ==
  waitingWriters = Cardinality({t \in Threads : pc[t] = "waitWrite"})

(* One ticket for every read lock that a client has to give back.           *)
Tickets == {p \in Threads \X (1 .. MaxHolds) : p[2] <= holds[p[1]]}

(* The count that keeps writers out is the number of read locks the clients *)
(* hold, and one more for every thread whose second release raised: what    *)
(* that release should have taken off stays counted for ever.  The writer's *)
(* flag and the writer's name go together.                                  *)
HoldersCounted ==
  /\ readCount = Cardinality(Tickets)
                   + Cardinality({t \in Threads : pc[t] = "ended"})
  /\ writeCount = 0 <=> writer = NoThread

(* A free lock never has all its waiting writers asleep.  release_read and  *)
(* release_write notify one writer, which may have timed out or be          *)
(* overtaken by a newcomer; another one must not be left behind for that.   *)
NoWriterForgotten ==
  WriteFree /\ writeReady # {} =>
    \E t \in Threads \ writeReady : pc[t] = "waitWrite"

(* The wait of some writer ends without the lock: the time of acquire_write *)
(* is up.                                                                   *)
WriterGivesUp ==
  \E t \in Threads : pc[t] = "waitWrite" /\ pc'[t] = "running" /\ writer' # t

(* The lock comes free over readers that are asleep, or a reader falls      *)
(* asleep beside a free lock, in one way only: the writer they waited for   *)
(* gives up, and acquire_write notifies nobody on that way out.  They then  *)
(* sleep until a later writer has come and gone.                            *)
ReadersWoken ==
  ReadFree' /\ readReady' # {} =>
    \/ ReadFree /\ readReady' \subseteq readReady
    \/ WriterGivesUp

(* A thread that holds a read lock and has, or asks for, a second one. *)
Nested(t) == holds[t] > 1 \/ (holds[t] = 1 /\ pc[t] = "waitRead")

(* A waiting writer is not kept out for ever by a stream of readers: some   *)
(* writer gets the lock, or that wait ends.  A reader that nests read locks *)
(* would wait for the writer that waits for it.                             *)
WritersGetIn ==
  [](\A t \in Threads : ~Nested(t)) =>
    \A t \in Threads :
      pc[t] = "waitWrite" ~> (pc[t] # "waitWrite" \/ writer # NoThread)
=============================================================================
