-------------------------- MODULE BasicReadWriteLock -------------------------
(***************************************************************************)
(* BasicReadWriteLock of synchronization/reader_writer.py, of which        *)
(* threading_patterns/reader_writer.py has a copy.  The two conditions     *)
(* have a lock EACH: readLock guards the reader fields and writeLock the   *)
(* writer fields, but each predicate reads a field of the other side.      *)
(*                                                                         *)
(* A step extends from one access to a field of the other side, or one     *)
(* acquisition of a second lock, to the next.  The variables readLock and  *)
(* writeLock name the thread that holds a lock between two steps.          *)
(***************************************************************************)
EXTENDS LockClients

VARIABLES
  readCount, writeCount, readers, writer,
  readLock, writeLock,    (* who holds the RLock of each condition         *)
  readReady, writeReady,  (* wait sets of the two conditions               *)
  pc,                     (* where a thread is: see Places                 *)
  expired                 (* waiting threads whose timeout has elapsed     *)

vars == <<readCount, writeCount, readers, writer, readLock, writeLock,
          readReady, writeReady, pc, expired>>

Places ==
  {"outside",
   "waitRead",   (* in wait() of acquire_read                              *)
   "enterRead",  (* holds readLock, saw that writeCount is 0               *)
   "reading",
   "tellWriters",(* in release_read, holds readLock, will take writeLock   *)
   "waitWrite", "enterWrite", "writing",
   "tellReaders" (* in release_write, holds writeLock, will take readLock  *)
  }

Init ==
  /\ readCount = 0
  /\ writeCount = 0
  /\ readers = {}
  /\ writer = NoThread
  /\ readLock = NoThread
  /\ writeLock = NoThread
  /\ readReady = {}
  /\ writeReady = {}
  /\ pc = [t \in Threads |-> "outside"]
  /\ expired = {}

counts == <<readCount, writeCount, readers, writer>>

Goto(t, place) ==
  /\ pc' = [pc EXCEPT ![t] = place]
  /\ expired' = IF place \in {"outside", "enterRead", "enterWrite"}
                  THEN expired \ {t} ELSE expired

-----------------------------------------------------------------------------
(* acquire_read: test writeCount under readLock; then count oneself in.     *)

BeginRead(t) ==
  /\ \/ pc[t] = "outside"
     \/ pc[t] = "waitRead" /\ (t \notin readReady \/ t \in expired)
  /\ readLock = NoThread
  /\ UNCHANGED <<counts, writeLock, writeReady>>
  /\ \/ /\ writeCount = 0
        /\ Goto(t, "enterRead")
        /\ readLock' = t
        /\ readReady' = readReady \ {t}
     \/ /\ writeCount # 0
        /\ t \notin expired
        /\ Goto(t, "waitRead")
        /\ readReady' = readReady \cup {t}
        /\ UNCHANGED readLock
     \/ /\ writeCount # 0
        /\ t \in expired
        /\ Goto(t, "outside")
        /\ readReady' = readReady \ {t}
        /\ UNCHANGED readLock

EnterRead(t) ==
  /\ pc[t] = "enterRead"
  /\ readCount' = readCount + 1
  /\ readers' = readers \cup {t}
  /\ Goto(t, "reading")
  /\ readLock' = NoThread
  /\ UNCHANGED <<writeCount, writer, writeLock, readReady, writeReady>>

-----------------------------------------------------------------------------
(* acquire_write: test both counts under writeLock; then take the lock.     *)

WriteFree == readCount = 0 /\ writeCount = 0

BeginWrite(t) ==
  /\ \/ pc[t] = "outside" /\ t \in Writers
     \/ pc[t] = "waitWrite" /\ (t \notin writeReady \/ t \in expired)
  /\ writeLock = NoThread
  /\ UNCHANGED <<counts, readLock, readReady>>
  /\ \/ /\ WriteFree
        /\ Goto(t, "enterWrite")
        /\ writeLock' = t
        /\ writeReady' = writeReady \ {t}
     \/ /\ ~WriteFree
        /\ t \notin expired
        /\ Goto(t, "waitWrite")
        /\ writeReady' = writeReady \cup {t}
        /\ UNCHANGED writeLock
     \/ /\ ~WriteFree
        /\ t \in expired
        /\ Goto(t, "outside")
        /\ writeReady' = writeReady \ {t}
        /\ UNCHANGED writeLock

EnterWrite(t) ==
  /\ pc[t] = "enterWrite"
  /\ writeCount' = 1
  /\ writer' = t
  /\ Goto(t, "writing")
  /\ writeLock' = NoThread
  /\ UNCHANGED <<readCount, readers, readLock, readReady, writeReady>>

-----------------------------------------------------------------------------
(* release_read: the last reader keeps readLock while it takes writeLock.   *)

LeaveRead(t) ==
  /\ pc[t] = "reading"
  /\ readLock = NoThread
  /\ readCount' = readCount - 1
  /\ readers' = readers \ {t}
  /\ \/ readCount # 1 /\ Goto(t, "outside") /\ UNCHANGED readLock
     \/ readCount = 1 /\ Goto(t, "tellWriters") /\ readLock' = t
  /\ UNCHANGED <<writeCount, writer, writeLock, readReady, writeReady>>

(* Faulty variant: the notification is forgotten. *)
TellWritersNothing(t) ==
  /\ pc[t] = "tellWriters"
  /\ writeLock = NoThread
  /\ Goto(t, "outside")
  /\ readLock' = NoThread
  /\ UNCHANGED <<counts, writeLock, readReady, writeReady>>
TellWriters(t) ==
  /\ pc[t] = "tellWriters"
  /\ writeLock = NoThread
  /\ writeReady' = {}
  /\ Goto(t, "outside")
  /\ readLock' = NoThread
  /\ UNCHANGED <<counts, writeLock, readReady>>

-----------------------------------------------------------------------------
(* release_write: writeLock is kept while readLock is taken.                *)

LeaveWrite(t) ==
  /\ pc[t] = "writing"
  /\ writeLock = NoThread
  /\ writeCount' = 0
  /\ writer' = NoThread
  /\ writeReady' = {}
  /\ Goto(t, "tellReaders")
  /\ writeLock' = t
  /\ UNCHANGED <<readCount, readers, readLock, readReady>>

TellReaders(t) ==
  /\ pc[t] = "tellReaders"
  /\ readLock = NoThread
  /\ readReady' = {}
  /\ Goto(t, "outside")
  /\ writeLock' = NoThread
  /\ UNCHANGED <<counts, readLock, writeReady>>

Expire(t) ==
  /\ \/ pc[t] = "waitRead" /\ t \in TimedReaders
     \/ pc[t] = "waitWrite" /\ t \in TimedWriters
  /\ expired' = expired \cup {t}
  /\ UNCHANGED <<counts, readLock, writeLock, readReady, writeReady, pc>>

Next ==
  \E t \in Threads :
    \/ BeginRead(t) \/ EnterRead(t) \/ LeaveRead(t) \/ TellWriters(t)
    \/ BeginWrite(t) \/ EnterWrite(t) \/ LeaveWrite(t) \/ TellReaders(t)
    \/ Expire(t)

Spec == Init /\ [][Next]_vars

-----------------------------------------------------------------------------
(* Properties *)

Reading == {t \in Threads : pc[t] = "reading"}
Writing == {t \in Threads : pc[t] = "writing"}

(* Every variable has its type, and the count and the set of readers agree  *)
(* although they are updated one after the other.                           *)
TypeOK ==
  /\ readCount = Cardinality(readers)
  /\ writeCount \in {0, 1}
  /\ readers \subseteq Threads
  /\ {readLock, writeLock, writer} \subseteq Threads \cup {NoThread}
  /\ readReady \subseteq Threads
  /\ writeReady \subseteq Threads
  /\ pc \in [Threads -> Places]
  /\ expired \subseteq TimedReaders \cup TimedWriters

(* Multiple readers or one writer.                                          *)
Exclusion == Writing # {} => Reading = {}

(* The fields name the threads that are inside, at most one of them a       *)
(* writer, on every way in and out: each side is consistent in itself.      *)
HoldersNamed ==
  /\ readers = Reading
  /\ Writing = {writer} \ {NoThread}
  /\ writeCount = 0 <=> writer = NoThread

(* A writer sleeps only while somebody is inside or about to notify: the    *)
(* test of a writer and the notification of the last reader are both made   *)
(* under writeLock, so none falls between the other's test and wait.        *)
NoWriterForgotten ==
  writeReady # {} =>
    \E t \in Threads : pc[t] \in {"reading", "writing", "tellWriters"}

(* Likewise a reader sleeps only while a writer is inside or on its way to  *)
(* notify.                                                                  *)
NoReaderForgotten ==
  readReady # {} =>
    \E t \in Threads : pc[t] \in {"writing", "tellReaders"}

=============================================================================
