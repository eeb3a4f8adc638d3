------------------------ MODULE ReadWriteLocksProofs -------------------------
(***************************************************************************)
(* Proofs about the four locks of MCReadWriteLocks: for any number of      *)
(* threads, any choice of timeouts and, for the fair lock, any depth of    *)
(* repeated read acquisitions.  The invariant of each lock says who holds  *)
(* what in every place of the code, and who sleeps on which condition.     *)
(***************************************************************************)
EXTENDS MCReadWriteLocks, FiniteSetTheorems, TLAPS

(* Fair lock.  Who waits to write, and who ended in a release that raised.  *)
Gone == {t \in Threads : pc[t] = "ended"}
Queue == {t \in Threads : pc[t] = "waitWrite"}

(* The counts the lock decides by are what the clients hold, and one more   *)
(* for each thread that could not release a read lock it had twice.         *)
FairBooks ==
  /\ readCount = Cardinality(Fair!Tickets) + Cardinality(Gone)
  /\ writeCount = 1 <=> writer # NoThread
  /\ writer # NoThread => readCount = 0
  /\ waitingWriters = Cardinality(Queue)

FairInv == Fair!TypeOK /\ FairBooks

(* A thread that waits to read has room for one more read lock.            *)
Room == \A t \in Threads : pc[t] = "waitRead" => holds[t] < MaxHolds

(* Only waiting writers sleep on write_ready.                              *)
FairAsleep == \A t \in writeReady : t \in Threads /\ pc[t] = "waitWrite"

FairAlert == FairAsleep /\ Fair!NoWriterForgotten

(* Basic lock.  Each mutex, the writer field and the set of readers name    *)
(* exactly the threads that the code has brought to the places they stand   *)
(* for; a writer that has passed its test keeps write_count from changing.  *)
BasicHolders ==
  /\ readers = Basic!Reading
  /\ \A t \in Threads : readLock = t <=> pc[t] \in {"enterRead", "tellWriters"}
  /\ \A t \in Threads : writeLock = t <=> pc[t] \in {"enterWrite", "tellReaders"}
  /\ \A t \in Threads : writer = t <=> pc[t] = "writing"
  /\ writeCount = 0 <=> writer = NoThread
  /\ \A t \in Threads : pc[t] = "enterWrite" => writer = NoThread

BasicAsleep ==
  /\ \A t \in readReady : pc[t] = "waitRead"
  /\ \A t \in writeReady : pc[t] = "waitWrite"

BasicInv == Basic!TypeOK /\ BasicHolders /\ BasicAsleep

BasicAlert == Basic!NoWriterForgotten /\ Basic!NoReaderForgotten

(* Write-preferring lock.  Writers in the code's sense may write beside     *)
(* readers; the counts are right all the same.                              *)
PreferringHolders ==
  /\ readers = {t \in Threads : pc[t] = "reading"}
  /\ \A t \in Threads : writer = t <=> pc[t] = "writing"
  /\ writeCount = 0 <=> writer = NoThread
  /\ Preferring!WaitingWritersCounted
  /\ \A t \in writeReady : pc[t] = "waitWrite"

PreferringInv == Preferring!TypeOK /\ PreferringHolders

(* Upgradable lock.  Who waits to get in holds nothing, who waits to be     *)
(* alone is the upgrader, and a writer has the lock to itself.              *)
UpgradableHolders ==
  /\ Upgradable!CountsAgree
  /\ \A t \in Threads : pc[t] \in {"waitRead", "waitWrite", "waitUpgrade"} =>
       t \notin readers /\ writer # t
  /\ \A t \in Threads : pc[t] = "waitAlone" => upgrader = t
  /\ writer # NoThread => readers = {} /\ upgrader = NoThread

UpgradableAsleep ==
  /\ \A t \in readReady : pc[t] = "waitRead"
  /\ \A t \in writeReady : pc[t] \in {"waitWrite", "waitAlone"}
  /\ \A t \in upgradeReady : pc[t] = "waitUpgrade"

UpgradableInv == Upgradable!TypeOK /\ UpgradableHolders /\ UpgradableAsleep

UpgradableAlert ==
  Upgradable!NoWriterForgotten /\ Upgradable!NobodyElseForgotten

IInv ==
  /\ lock = "fair" => FairInv /\ Room
  /\ lock = "basic" => BasicInv
  /\ lock = "write_preferring" => PreferringInv
  /\ lock = "upgradable" => UpgradableInv

-----------------------------------------------------------------------------
(* Cardinality is the same operator in every instance.                      *)
LEMMA FairCardinality == \A S : Fair!Cardinality(S) = Cardinality(S)
BY Zenon DEF Fair!Cardinality, Cardinality

LEMMA BasicCardinality == \A S : Basic!Cardinality(S) = Cardinality(S)
BY Zenon DEF Basic!Cardinality, Cardinality

LEMMA PreferringCardinality == \A S : Preferring!Cardinality(S) = Cardinality(S)
BY Zenon DEF Preferring!Cardinality, Cardinality

LEMMA UpgradableCardinality == \A S : Upgradable!Cardinality(S) = Cardinality(S)
BY Zenon DEF Upgradable!Cardinality, Cardinality

(* How a set of threads grows and shrinks.                                  *)
LEMMA ThreadSets ==
  ASSUME NEW S \in SUBSET Threads, NEW t \in Threads
  PROVE  /\ Cardinality(S) \in Nat
         /\ Cardinality(S) = 0 <=> S = {}
         /\ t \notin S => Cardinality(S \cup {t}) = Cardinality(S) + 1
         /\ t \in S => Cardinality(S \ {t}) = Cardinality(S) - 1
<1>1. IsFiniteSet(S)
  BY LockClientsAssumption, FS_Subset
<1>2. QED
  BY <1>1, FS_CardinalityType, FS_EmptySet, FS_AddElement, FS_RemoveElement

-----------------------------------------------------------------------------
(* The fair lock *)

LEMMA TicketsFinite == Fair!TypeOK => IsFiniteSet(Fair!Tickets) /\ Cardinality(Fair!Tickets) \in Nat
<1>1. IsFiniteSet(Threads \X (1 .. MaxHolds))
  <2>1. IsFiniteSet(1 .. MaxHolds)
    BY LockClientsAssumption, FS_Interval
  <2>2. QED
    BY <2>1, LockClientsAssumption, FS_Product, Zenon
<1>2. IsFiniteSet(Fair!Tickets)
  BY <1>1, FS_Subset DEF Fair!Tickets
<1>3. QED
  BY <1>2, FS_CardinalityType

LEMMA QueueFinite == IsFiniteSet(Queue) /\ Cardinality(Queue) \in Nat
<1>1. IsFiniteSet(Queue)
  BY LockClientsAssumption, FS_Subset DEF Queue
<1>2. QED
  BY <1>1, FS_CardinalityType

LEMMA GoneFinite == IsFiniteSet(Gone) /\ Cardinality(Gone) \in Nat
<1>1. IsFiniteSet(Gone)
  BY LockClientsAssumption, FS_Subset DEF Gone
<1>2. QED
  BY <1>1, FS_CardinalityType

LEMMA OneMoreGone ==
  ASSUME Fair!TypeOK, NEW t \in Threads, pc[t] # "ended",
         pc' = [pc EXCEPT ![t] = "ended"]
  PROVE  Cardinality(Gone)' = Cardinality(Gone) + 1
<1>1. Gone' = Gone \cup {t} /\ t \notin Gone
  BY DEF Gone, Fair!TypeOK
<1>2. QED
  BY <1>1, GoneFinite, FS_AddElement

LEMMA NobodyGone ==
  ASSUME Fair!TypeOK, NEW t \in Threads, NEW where,
         pc[t] # "ended", where # "ended",
         pc' = [pc EXCEPT ![t] = where]
  PROVE  Gone' = Gone
BY DEF Gone, Fair!TypeOK

(* No tickets, no readers. *)
LEMMA NoTickets ==
  ASSUME Fair!TypeOK, Cardinality(Fair!Tickets) = 0
  PROVE  \A t \in Threads : holds[t] = 0
<1>1. Fair!Tickets = {}
  BY TicketsFinite, FS_EmptySet
<1>2. SUFFICES ASSUME NEW t \in Threads, holds[t] # 0 PROVE FALSE
  OBVIOUS
<1>3. holds[t] \in 0 .. MaxHolds /\ MaxHolds \in Nat
  BY LockClientsAssumption DEF Fair!TypeOK
<1>4. <<t, 1>> \in Fair!Tickets
  BY <1>2, <1>3 DEF Fair!Tickets
<1>5. QED
  BY <1>1, <1>4

(* How the steps move the two cardinalities. *)
LEMMA TakeTicket ==
  ASSUME Fair!TypeOK, NEW t \in Threads, holds[t] < MaxHolds,
         holds' = [holds EXCEPT ![t] = @ + 1]
  PROVE  Cardinality(Fair!Tickets)' = Cardinality(Fair!Tickets) + 1
<1>1. /\ holds \in [Threads -> 0 .. MaxHolds] /\ MaxHolds \in Nat
      /\ holds[t] \in 0 .. MaxHolds
  BY LockClientsAssumption DEF Fair!TypeOK
<1>2. holds'[t] = holds[t] + 1 /\ \A s \in Threads \ {t} : holds'[s] = holds[s]
  BY <1>1
<1>3. ASSUME NEW s \in Threads, NEW i \in 1 .. MaxHolds
      PROVE  i <= holds'[s] <=> i <= holds[s] \/ (s = t /\ i = holds[t] + 1)
  <2>1. CASE s = t
    BY <1>1, <1>2, <2>1
  <2>2. CASE s # t
    BY <1>1, <1>2, <2>2
  <2>3. QED
    BY <2>1, <2>2
<1>4. /\ <<t, holds[t] + 1>> \in Threads \X (1 .. MaxHolds)
      /\ <<t, holds[t] + 1>> \notin Fair!Tickets
  BY <1>1 DEF Fair!Tickets
<1>5. Fair!Tickets' = Fair!Tickets \cup {<<t, holds[t] + 1>>}
  BY <1>3, <1>4 DEF Fair!Tickets
<1>6. QED
  BY <1>4, <1>5, TicketsFinite, FS_AddElement

LEMMA GiveTicket ==
  ASSUME Fair!TypeOK, NEW t \in Threads, holds[t] > 0,
         holds' = [holds EXCEPT ![t] = @ - 1]
  PROVE  /\ Cardinality(Fair!Tickets)' = Cardinality(Fair!Tickets) - 1
         /\ Cardinality(Fair!Tickets) >= 1
<1>1. /\ holds \in [Threads -> 0 .. MaxHolds] /\ MaxHolds \in Nat
      /\ holds[t] \in 0 .. MaxHolds
  BY LockClientsAssumption DEF Fair!TypeOK
<1>2. holds'[t] = holds[t] - 1 /\ \A s \in Threads \ {t} : holds'[s] = holds[s]
  BY <1>1
<1>3. ASSUME NEW s \in Threads, NEW i \in 1 .. MaxHolds
      PROVE  i <= holds'[s] <=> i <= holds[s] /\ ~(s = t /\ i = holds[t])
  <2>1. CASE s = t
    BY <1>1, <1>2, <2>1
  <2>2. CASE s # t
    BY <1>1, <1>2, <2>2
  <2>3. QED
    BY <2>1, <2>2
<1>4. <<t, holds[t]>> \in Fair!Tickets
  BY <1>1 DEF Fair!Tickets
<1>5. Fair!Tickets' = Fair!Tickets \ {<<t, holds[t]>>}
  BY <1>3, <1>4 DEF Fair!Tickets
<1>6. Cardinality(Fair!Tickets') = Cardinality(Fair!Tickets) - 1
  BY <1>4, <1>5, TicketsFinite, FS_RemoveElement
<1>7. Cardinality(Fair!Tickets) # 0
  BY <1>4, TicketsFinite, FS_EmptySet
<1>8. QED
  BY <1>6, <1>7, TicketsFinite

LEMMA JoinQueue ==
  ASSUME Fair!TypeOK, NEW t \in Threads, pc[t] # "waitWrite",
         pc' = [pc EXCEPT ![t] = "waitWrite"]
  PROVE  Cardinality(Queue)' = Cardinality(Queue) + 1
<1>1. Queue' = Queue \cup {t} /\ t \notin Queue
  BY DEF Queue, Fair!TypeOK
<1>2. QED
  BY <1>1, QueueFinite, FS_AddElement

LEMMA LeaveQueue ==
  ASSUME Fair!TypeOK, NEW t \in Threads, pc[t] = "waitWrite",
         pc' = [pc EXCEPT ![t] = "running"]
  PROVE  /\ Cardinality(Queue)' = Cardinality(Queue) - 1
         /\ Cardinality(Queue) >= 1
<1>1. Queue' = Queue \ {t} /\ t \in Queue
  BY DEF Queue, Fair!TypeOK
<1>2. Cardinality(Queue) # 0
  BY <1>1, QueueFinite, FS_EmptySet
<1>3. QED
  BY <1>1, <1>2, QueueFinite, FS_RemoveElement

LEMMA KeepQueue ==
  ASSUME Fair!TypeOK, NEW t \in Threads, NEW where,
         pc' = [pc EXCEPT ![t] = where],
         pc[t] = "waitWrite" <=> where = "waitWrite"
  PROVE  Queue' = Queue
BY DEF Queue, Fair!TypeOK

-----------------------------------------------------------------------------
LEMMA FairInit == Fair!Init => FairInv
<1> SUFFICES ASSUME Fair!Init PROVE FairInv
  OBVIOUS
<1>1. Fair!TypeOK
  BY LockClientsAssumption DEF Fair!Init, Fair!TypeOK
<1>2. Cardinality(Fair!Tickets) = 0
  <2>1. Fair!Tickets = {}
    BY LockClientsAssumption DEF Fair!Init, Fair!Tickets
  <2>2. QED
    BY <2>1, FS_EmptySet
<1>3. Cardinality(Queue) = 0
  <2>1. Queue = {}
    BY DEF Fair!Init, Queue
  <2>2. QED
    BY <2>1, FS_EmptySet
<1>4. Cardinality(Gone) = 0
  <2>1. Gone = {}
    BY DEF Fair!Init, Gone
  <2>2. QED
    BY <2>1, FS_EmptySet
<1>5. QED
  BY <1>1, <1>2, <1>3, <1>4
  DEF Fair!Init, FairInv, FairBooks, Queue

LEMMA FairGoto ==
  ASSUME Fair!TypeOK, NEW t \in Threads, NEW where, Fair!Goto(t, where),
         where \in {"running", "waitRead", "waitWrite"}
  PROVE  /\ pc' \in [Threads -> {"running", "waitRead", "waitWrite", "ended"}]
         /\ expired' \subseteq TimedReaders \cup TimedWriters
         /\ pc' = [pc EXCEPT ![t] = where]
BY DEF Fair!Goto, Fair!TypeOK

(* A reader enters: alone or beside other readers, never beside a writer.  *)
LEMMA FairEnterRead ==
  ASSUME FairInv, NEW t \in Threads, Fair!ReadFree, Fair!EnterRead(t),
         pc[t] \in {"running", "waitRead"}, holds[t] < MaxHolds,
         readReady' \subseteq Threads
  PROVE  FairInv'
<1> USE DEF Fair!EnterRead
<1>1. Fair!TypeOK /\ FairBooks
  BY DEF FairInv
<1>2. /\ pc' \in [Threads -> {"running", "waitRead", "waitWrite", "ended"}]
      /\ expired' \subseteq TimedReaders \cup TimedWriters
      /\ Queue' = Queue
      /\ Gone' = Gone
  BY <1>1, FairGoto, KeepQueue, NobodyGone
<1>3. holds' \in [Threads -> 0 .. MaxHolds]
  BY <1>1, LockClientsAssumption DEF Fair!TypeOK
<1>4. Fair!TypeOK'
  BY <1>1, <1>2, <1>3 DEF Fair!TypeOK
<1>5. Cardinality(Fair!Tickets)' = Cardinality(Fair!Tickets) + 1
  BY <1>1, TakeTicket
<1>6. readCount' = Cardinality(Fair!Tickets)' + Cardinality(Gone)'
  BY <1>1, <1>2, <1>5, TicketsFinite, GoneFinite DEF FairBooks, Fair!TypeOK
<1>7. waitingWriters' = Cardinality(Queue)'
  BY <1>1, <1>2 DEF FairBooks, Queue
<1>8. writer' = NoThread /\ writeCount' = 0
  BY <1>1 DEF Fair!ReadFree, FairBooks, Fair!TypeOK
<1>9. QED
  BY <1>4, <1>6, <1>7, <1>8 DEF FairInv, FairBooks

(* A writer enters: nobody holds a ticket then.                            *)
LEMMA FairEnterWrite ==
  ASSUME FairInv, NEW t \in Threads, Fair!WriteFree, Fair!EnterWrite(t),
         writeReady' \subseteq Threads,
         \/ pc[t] = "running" /\ waitingWriters' = waitingWriters
         \/ pc[t] = "waitWrite" /\ waitingWriters' = waitingWriters - 1
  PROVE  FairInv'
<1> USE DEF Fair!EnterWrite
<1>1. Fair!TypeOK /\ FairBooks
  BY DEF FairInv
<1>2. /\ pc' \in [Threads -> {"running", "waitRead", "waitWrite", "ended"}]
      /\ expired' \subseteq TimedReaders \cup TimedWriters
      /\ pc' = [pc EXCEPT ![t] = "running"]
  BY <1>1, FairGoto
<1>3. waitingWriters' \in Nat /\ waitingWriters' = Cardinality(Queue)'
  <2>1. CASE pc[t] = "running"
    <3>1. Queue' = Queue
      BY <1>1, <1>2, <2>1, KeepQueue
    <3>2. QED
      BY <1>1, <2>1, <3>1 DEF Fair!TypeOK, FairBooks, Queue
  <2>2. CASE pc[t] = "waitWrite"
    <3>1. /\ Cardinality(Queue)' = Cardinality(Queue) - 1
          /\ Cardinality(Queue) >= 1
      BY <1>1, <1>2, <2>2, LeaveQueue
    <3>2. waitingWriters = Cardinality(Queue)
      BY <1>1 DEF FairBooks, Queue
    <3>3. QED
      BY <2>2, <3>1, <3>2, QueueFinite
  <2>3. QED
    BY <2>1, <2>2
<1>4. Fair!TypeOK'
  BY <1>1, <1>2, <1>3 DEF Fair!TypeOK
<1>5. Fair!Tickets' = Fair!Tickets /\ readCount' = 0 /\ Gone' = Gone
  BY <1>1, <1>2, NobodyGone DEF Fair!Tickets, Fair!WriteFree
<1>6. QED
  BY <1>1, <1>3, <1>4, <1>5, LockClientsAssumption
  DEF FairInv, FairBooks, Queue

(* A step that changes nothing but wait sets, timeouts and the place of a  *)
(* thread outside the queue of writers.                                    *)
LEMMA FairMove ==
  ASSUME FairInv,
         UNCHANGED <<readCount, writeCount, waitingWriters, readers, writer,
                     holds>>,
         readReady' \subseteq Threads, writeReady' \subseteq Threads,
         pc' \in [Threads -> {"running", "waitRead", "waitWrite", "ended"}],
         Queue' = Queue, Gone' = Gone,
         expired' \subseteq TimedReaders \cup TimedWriters
  PROVE  FairInv'
<1>1. Fair!TypeOK'
  BY DEF FairInv, Fair!TypeOK
<1>2. Fair!Tickets' = Fair!Tickets
  BY DEF Fair!Tickets
<1>3. QED
  BY <1>1, <1>2 DEF FairInv, FairBooks, Queue

LEMMA FairAcquireRead ==
  ASSUME FairInv, NEW t \in Threads, Fair!AcquireRead(t)
  PROVE  FairInv'
<1>1. CASE Fair!ReadFree /\ Fair!EnterRead(t) /\ UNCHANGED readReady
  BY <1>1, FairEnterRead DEF Fair!AcquireRead, FairInv, Fair!TypeOK
<1>2. CASE ~Fair!ReadFree /\ Fair!Goto(t, "waitRead")
  <2>1. Queue' = Queue /\ Gone' = Gone
    BY <1>2, KeepQueue, NobodyGone DEF Fair!AcquireRead, FairInv, Fair!Goto
  <2>2. QED
    BY <1>2, <2>1, FairGoto, FairMove DEF Fair!AcquireRead, FairInv, Fair!TypeOK
<1>3. QED
  BY <1>1, <1>2 DEF Fair!AcquireRead

(* A thread that waits to read holds fewer read locks than it may.         *)
LEMMA FairResumeRead ==
  ASSUME FairInv, NEW t \in Threads, Fair!ResumeRead(t), holds[t] < MaxHolds
  PROVE  FairInv'
<1>1. CASE Fair!ReadFree /\ Fair!EnterRead(t) /\ readReady' = readReady \ {t}
  BY <1>1, FairEnterRead DEF Fair!ResumeRead, FairInv, Fair!TypeOK
<1>2. CASE ~Fair!ReadFree
  <2>1. \E where \in {"running", "waitRead"} : Fair!Goto(t, where)
    BY <1>2 DEF Fair!ResumeRead
  <2>2. Queue' = Queue /\ Gone' = Gone
    BY <2>1, KeepQueue, NobodyGone DEF Fair!ResumeRead, FairInv, Fair!Goto
  <2>3. UNCHANGED <<readCount, writeCount, waitingWriters, readers, writer,
                    writeReady, holds>>
    BY <1>2 DEF Fair!ResumeRead
  <2>4. readReady' \subseteq Threads
    BY <1>2 DEF Fair!ResumeRead, FairInv, Fair!TypeOK
  <2>5. QED
    BY <2>1, <2>2, <2>3, <2>4, FairGoto, FairMove DEF FairInv, Fair!TypeOK
<1>3. QED
  BY <1>1, <1>2 DEF Fair!ResumeRead

LEMMA FairAcquireWrite ==
  ASSUME FairInv, NEW t \in Threads, Fair!AcquireWrite(t)
  PROVE  FairInv'
<1>1. CASE Fair!WriteFree /\ Fair!EnterWrite(t) /\ UNCHANGED <<waitingWriters, writeReady>>
  BY <1>1, FairEnterWrite DEF Fair!AcquireWrite, FairInv, Fair!TypeOK
<1>2. CASE ~Fair!WriteFree /\ Fair!Goto(t, "waitWrite")
  <2>1. Fair!TypeOK /\ FairBooks
    BY DEF FairInv
  <2>2. /\ waitingWriters' = waitingWriters + 1
        /\ writeReady' = writeReady \cup {t}
        /\ UNCHANGED <<readCount, writeCount, readers, writer, readReady,
                       holds>>
    BY <1>2 DEF Fair!AcquireWrite
  <2>3. Fair!TypeOK'
    BY <1>2, <2>1, <2>2, FairGoto DEF Fair!TypeOK
  <2>4. Cardinality(Queue)' = Cardinality(Queue) + 1
    BY <1>2, <2>1, JoinQueue DEF Fair!AcquireWrite, Fair!Goto
  <2>5. waitingWriters' = Cardinality(Queue)'
    BY <2>1, <2>2, <2>4 DEF FairBooks, Queue
  <2>6. Fair!Tickets' = Fair!Tickets /\ Gone' = Gone
    BY <1>2, <2>1, <2>2, NobodyGone DEF Fair!Tickets, Fair!AcquireWrite, Fair!Goto
  <2>7. QED
    BY <2>1, <2>2, <2>3, <2>5, <2>6 DEF FairInv, FairBooks
<1>3. QED
  BY <1>1, <1>2 DEF Fair!AcquireWrite

LEMMA FairGiveUpWrite ==
  ASSUME FairInv, NEW t \in Threads, pc[t] = "waitWrite", Fair!GiveUpWrite(t)
  PROVE  FairInv'
<1> USE DEF Fair!GiveUpWrite
<1>1. Fair!TypeOK /\ FairBooks
  BY DEF FairInv
<1>2. /\ Cardinality(Queue)' = Cardinality(Queue) - 1
      /\ Cardinality(Queue) >= 1
  BY <1>1, LeaveQueue DEF Fair!Goto
<1>3. waitingWriters = Cardinality(Queue)
  BY <1>1 DEF FairBooks, Queue
<1>4. waitingWriters' = Cardinality(Queue)' /\ waitingWriters' \in Nat
  BY <1>2, <1>3, QueueFinite
<1>5. Fair!TypeOK'
  BY <1>1, <1>4, FairGoto DEF Fair!TypeOK
<1>6. Fair!Tickets' = Fair!Tickets /\ Gone' = Gone
  BY <1>1, NobodyGone DEF Fair!Tickets, Fair!Goto
<1>7. QED
  BY <1>1, <1>4, <1>5, <1>6
  DEF FairInv, FairBooks, Queue

LEMMA FairResumeWrite ==
  ASSUME FairInv, NEW t \in Threads, Fair!ResumeWrite(t)
  PROVE  FairInv'
<1>1. CASE Fair!WriteFree /\ Fair!EnterWrite(t)
  BY <1>1, FairEnterWrite DEF Fair!ResumeWrite, FairInv, Fair!TypeOK
<1>2. CASE ~Fair!WriteFree /\ Fair!GiveUpWrite(t)
  BY <1>2, FairGiveUpWrite DEF Fair!ResumeWrite
<1>3. CASE /\ ~Fair!WriteFree
           /\ Fair!Goto(t, "waitWrite")
           /\ writeReady' = writeReady \cup {t}
           /\ UNCHANGED <<readCount, writeCount, waitingWriters, readers,
                          writer, readReady, holds>>
  <2>1. Queue' = Queue /\ Gone' = Gone
    BY <1>3, KeepQueue, NobodyGone DEF Fair!ResumeWrite, FairInv, Fair!Goto
  <2>2. QED
    BY <1>3, <2>1, FairGoto, FairMove DEF FairInv, Fair!TypeOK
<1>4. QED
  BY <1>1, <1>2, <1>3 DEF Fair!ResumeWrite

(* The count follows a release that succeeds; one that raises leaves it    *)
(* above the number of tickets.                                            *)
LEMMA FairReleaseRead ==
  ASSUME FairInv, NEW t \in Threads, Fair!ReleaseRead(t)
  PROVE  FairInv'
<1>1. Fair!TypeOK /\ FairBooks
  BY DEF FairInv
<1>2. /\ Cardinality(Fair!Tickets)' = Cardinality(Fair!Tickets) - 1
      /\ Cardinality(Fair!Tickets) >= 1
  BY <1>1, GiveTicket DEF Fair!ReleaseRead
<1>3. /\ readCount \in Nat
      /\ readCount = Cardinality(Fair!Tickets) + Cardinality(Gone)
  BY <1>1 DEF Fair!TypeOK, FairBooks
<1>4. /\ readCount' \in {readCount, readCount - 1}
      /\ readCount' = Cardinality(Fair!Tickets)' + Cardinality(Gone)'
  <2>1. CASE t \in readers
    <3>1. readCount' = readCount - 1 /\ Gone' = Gone
      BY <2>1 DEF Fair!ReleaseRead, Gone
    <3>2. QED
      BY <3>1, <1>2, <1>3, <1>1, TicketsFinite, GoneFinite
  <2>2. CASE t \notin readers
    <3>1. readCount' = readCount /\ Cardinality(Gone)' = Cardinality(Gone) + 1
      BY <1>1, <2>2, OneMoreGone DEF Fair!ReleaseRead
    <3>2. QED
      BY <3>1, <1>2, <1>3, <1>1, TicketsFinite, GoneFinite
  <2>3. QED
    BY <2>1, <2>2
<1>5. readCount' \in Nat /\ readCount >= 1
  BY <1>2, <1>3, <1>4, TicketsFinite, GoneFinite, <1>1
<1>6. holds' \in [Threads -> 0 .. MaxHolds]
  BY <1>1, LockClientsAssumption DEF Fair!ReleaseRead, Fair!TypeOK
<1>7. /\ pc' = pc \/ pc' = [pc EXCEPT ![t] = "ended"]
      /\ readers' \subseteq Threads /\ writeReady' \subseteq Threads
  BY <1>1 DEF Fair!ReleaseRead, Fair!TypeOK, Fair!AfterNotify
<1>8. Queue' = Queue
  BY <1>1, <1>7, KeepQueue DEF Fair!ReleaseRead, Queue
<1>9. Fair!TypeOK'
  BY <1>1, <1>5, <1>6, <1>7 DEF Fair!ReleaseRead, Fair!TypeOK
<1>10. writer = NoThread
  BY <1>1, <1>5 DEF FairBooks
<1>11. QED
  BY <1>1, <1>4, <1>8, <1>9, <1>10
  DEF Fair!ReleaseRead, FairInv, FairBooks, Queue

LEMMA FairReleaseWrite ==
  ASSUME FairInv, NEW t \in Threads, Fair!ReleaseWrite(t)
  PROVE  FairInv'
<1>1. Fair!TypeOK /\ FairBooks
  BY DEF FairInv
<1>2. writeReady' \subseteq Threads
  BY <1>1 DEF Fair!ReleaseWrite, Fair!TypeOK, Fair!AfterNotify
<1>3. Fair!TypeOK'
  BY <1>1, <1>2 DEF Fair!ReleaseWrite, Fair!TypeOK
<1>4. Fair!Tickets' = Fair!Tickets /\ Queue' = Queue /\ Gone' = Gone
  BY DEF Fair!ReleaseWrite, Fair!Tickets, Queue, Gone
<1>5. QED
  BY <1>1, <1>3, <1>4
  DEF Fair!ReleaseWrite, FairInv, FairBooks, Queue

LEMMA FairExpire ==
  ASSUME FairInv, NEW t \in Threads, Fair!Expire(t)
  PROVE  FairInv'
<1>1. expired' \subseteq TimedReaders \cup TimedWriters
  BY DEF Fair!Expire, FairInv, Fair!TypeOK
<1>2. Queue' = Queue /\ Gone' = Gone
  BY DEF Fair!Expire, Queue, Gone
<1>3. QED
  BY <1>1, <1>2, FairMove DEF Fair!Expire, FairInv, Fair!TypeOK

-----------------------------------------------------------------------------
LEMMA FairRoomStep ==
  ASSUME Fair!TypeOK, Room, Fair!Next
  PROVE  Room'
<1>2. ASSUME NEW t \in Threads,
             Fair!AcquireRead(t) \/ Fair!ResumeRead(t)
      PROVE  Room'
  BY <1>2 DEF Fair!AcquireRead, Fair!ResumeRead, Fair!EnterRead, Fair!Goto, Room, Fair!TypeOK
<1>3. ASSUME NEW t \in Threads,
             Fair!AcquireWrite(t) \/ Fair!ResumeWrite(t)
      PROVE  Room'
  BY <1>3 DEF Fair!AcquireWrite, Fair!ResumeWrite, Fair!EnterWrite, Fair!GiveUpWrite, Fair!Goto, Room,
              Fair!TypeOK
<1>4. ASSUME NEW t \in Threads,
             Fair!ReleaseRead(t)
      PROVE  Room'
  BY <1>4 DEF Fair!ReleaseRead, Room, Fair!TypeOK
<1>5. ASSUME NEW t \in Threads,
             Fair!ReleaseWrite(t) \/ Fair!Expire(t)
      PROVE  Room'
  BY <1>5 DEF Fair!ReleaseWrite, Fair!Expire, Room
<1>6. QED
  BY <1>2, <1>3, <1>4, <1>5 DEF Fair!Next

LEMMA FairStep ==
  ASSUME FairInv, Room, Fair!Next
  PROVE  FairInv'
<1>2. ASSUME NEW t \in Threads, Fair!AcquireRead(t) PROVE FairInv'
  BY <1>2, FairAcquireRead
<1>3. ASSUME NEW t \in Threads, Fair!ResumeRead(t) PROVE FairInv'
  BY <1>3, FairResumeRead DEF Room, Fair!ResumeRead
<1>4. ASSUME NEW t \in Threads, Fair!ReleaseRead(t) PROVE FairInv'
  BY <1>4, FairReleaseRead
<1>5. ASSUME NEW t \in Threads, Fair!AcquireWrite(t) PROVE FairInv'
  BY <1>5, FairAcquireWrite
<1>6. ASSUME NEW t \in Threads, Fair!ResumeWrite(t) PROVE FairInv'
  BY <1>6, FairResumeWrite
<1>7. ASSUME NEW t \in Threads, Fair!ReleaseWrite(t) PROVE FairInv'
  BY <1>7, FairReleaseWrite
<1>8. ASSUME NEW t \in Threads, Fair!Expire(t) PROVE FairInv'
  BY <1>8, FairExpire
<1>9. QED
  BY <1>2, <1>3, <1>4, <1>5, <1>6, <1>7, <1>8 DEF Fair!Next

(* notify() on a condition on which waiting writers sleep leaves one awake. *)
LEMMA NotifiedWriter ==
  ASSUME FairAsleep, writeReady' \in Fair!AfterNotify(writeReady),
         \A t \in Threads : pc[t] = "waitWrite" => pc'[t] = "waitWrite"
  PROVE  FairAlert'
<1>1. CASE writeReady = {}
  BY <1>1 DEF Fair!AfterNotify, FairAlert, FairAsleep, Fair!NoWriterForgotten
<1>2. CASE writeReady # {}
  <2>1. PICK t \in writeReady : writeReady' = writeReady \ {t}
    BY <1>2 DEF Fair!AfterNotify
  <2>2. t \in Threads \ writeReady' /\ pc'[t] = "waitWrite"
    BY <2>1 DEF FairAsleep
  <2>3. QED
    BY <2>1, <2>2 DEF FairAlert, FairAsleep, Fair!NoWriterForgotten
<1>3. QED
  BY <1>1, <1>2

(* The step of one thread leaves the places of the others.                 *)
LEMMA GotoKeepsAsleep ==
  ASSUME Fair!TypeOK, FairAsleep, NEW t \in Threads, NEW where, Fair!Goto(t, where),
         \/ pc[t] # "waitWrite" /\ writeReady' = writeReady
         \/ writeReady' = writeReady \ {t}
         \/ where = "waitWrite" /\ writeReady' = writeReady \cup {t}
  PROVE  FairAsleep'
<1>1. /\ pc' = [pc EXCEPT ![t] = where]
      /\ pc \in [Threads -> {"running", "waitRead", "waitWrite", "ended"}]
  BY DEF Fair!Goto, Fair!TypeOK
<1>2. QED
  BY <1>1 DEF FairAsleep

LEMMA FairAlertAcquire ==
  ASSUME FairInv, FairInv', FairAlert, NEW t \in Threads, Fair!AcquireRead(t) \/ Fair!AcquireWrite(t)
  PROVE  FairAlert'
<1>1. Fair!TypeOK /\ FairAsleep /\ readCount \in Nat
  BY DEF FairInv, Fair!TypeOK, FairAlert
<1>2. CASE Fair!AcquireRead(t) /\ Fair!ReadFree
  <2>1. Fair!Goto(t, "running") /\ writeReady' = writeReady /\ readCount' = readCount + 1
    BY <1>2 DEF Fair!AcquireRead, Fair!EnterRead
  <2>2. FairAsleep'
    BY <1>1, <1>2, <2>1, GotoKeepsAsleep DEF Fair!AcquireRead
  <2>3. QED
    BY <1>1, <2>1, <2>2 DEF FairAlert, Fair!NoWriterForgotten, Fair!WriteFree
<1>3. CASE Fair!AcquireRead(t) /\ ~Fair!ReadFree
  <2>1. /\ Fair!Goto(t, "waitRead") /\ pc[t] = "running"
        /\ UNCHANGED <<readCount, writeCount, writeReady>>
    BY <1>3 DEF Fair!AcquireRead
  <2>2. FairAsleep'
    BY <1>1, <2>1, GotoKeepsAsleep
  <2>3. \A s \in Threads : pc[s] = "waitWrite" => pc'[s] = "waitWrite"
    BY <1>1, <2>1 DEF Fair!Goto, Fair!TypeOK
  <2>4. QED
    BY <2>1, <2>2, <2>3 DEF FairAlert, Fair!NoWriterForgotten, Fair!WriteFree
<1>4. CASE Fair!AcquireWrite(t) /\ Fair!WriteFree
  <2>1. /\ Fair!Goto(t, "running") /\ pc[t] = "running"
        /\ writeReady' = writeReady /\ writeCount' = 1
    BY <1>4 DEF Fair!AcquireWrite, Fair!EnterWrite
  <2>2. FairAsleep'
    BY <1>1, <2>1, GotoKeepsAsleep
  <2>3. QED
    BY <2>1, <2>2 DEF FairAlert, Fair!NoWriterForgotten, Fair!WriteFree
<1>5. CASE Fair!AcquireWrite(t) /\ ~Fair!WriteFree
  <2>1. /\ Fair!Goto(t, "waitWrite") /\ writeReady' = writeReady \cup {t}
        /\ UNCHANGED <<readCount, writeCount>>
    BY <1>5 DEF Fair!AcquireWrite
  <2>2. FairAsleep'
    BY <1>1, <2>1, GotoKeepsAsleep
  <2>3. QED
    BY <1>5, <2>1, <2>2 DEF FairAlert, Fair!NoWriterForgotten, Fair!WriteFree
<1>6. QED
  BY <1>2, <1>3, <1>4, <1>5

LEMMA FairAlertResume ==
  ASSUME FairInv, FairAlert, NEW t \in Threads, Fair!ResumeRead(t) \/ Fair!ResumeWrite(t)
  PROVE  FairAlert'
<1>1. Fair!TypeOK /\ FairAsleep /\ readCount \in Nat
  BY DEF FairInv, Fair!TypeOK, FairAlert
<1>2. CASE Fair!ResumeRead(t)
  <2>1. /\ \E where \in {"running", "waitRead"} : Fair!Goto(t, where)
        /\ pc[t] = "waitRead" /\ writeReady' = writeReady
        /\ \/ readCount' = readCount + 1
           \/ UNCHANGED <<readCount, writeCount>>
    BY <1>2 DEF Fair!ResumeRead, Fair!EnterRead
  <2>2. FairAsleep'
    BY <1>1, <2>1, GotoKeepsAsleep
  <2>3. \A s \in Threads : pc[s] = "waitWrite" => pc'[s] = "waitWrite"
    BY <1>1, <2>1 DEF Fair!Goto, Fair!TypeOK
  <2>4. QED
    BY <1>1, <2>1, <2>2, <2>3 DEF FairAlert, Fair!NoWriterForgotten, Fair!WriteFree
<1>3. CASE Fair!ResumeWrite(t)
  <2>1. /\ \/ Fair!Goto(t, "running") /\ writeReady' = writeReady \ {t}
           \/ Fair!Goto(t, "waitWrite") /\ writeReady' = writeReady \cup {t}
        /\ \/ writeCount' = 1
           \/ ~Fair!WriteFree /\ UNCHANGED <<readCount, writeCount>>
    BY <1>3 DEF Fair!ResumeWrite, Fair!EnterWrite, Fair!GiveUpWrite
  <2>2. FairAsleep'
    BY <1>1, <2>1, GotoKeepsAsleep
  <2>3. QED
    BY <2>1, <2>2 DEF FairAlert, Fair!NoWriterForgotten, Fair!WriteFree
<1>4. QED
  BY <1>2, <1>3

(* A release that leaves the lock free notifies.                           *)
LEMMA FairAlertRelease ==
  ASSUME FairInv, FairInv', FairAlert, NEW t \in Threads, Fair!ReleaseRead(t) \/ Fair!ReleaseWrite(t)
  PROVE  FairAlert'
<1>1. Fair!TypeOK /\ FairAsleep /\ readCount \in Nat /\ readCount' \in Nat
  BY DEF FairInv, Fair!TypeOK, FairAlert
<1>2. CASE Fair!ReleaseWrite(t)
  BY <1>1, <1>2, NotifiedWriter DEF Fair!ReleaseWrite
<1>3. CASE Fair!ReleaseRead(t) /\ t \in readers /\ readCount = 1
  BY <1>1, <1>3, NotifiedWriter DEF Fair!ReleaseRead
<1>4. CASE Fair!ReleaseRead(t) /\ t \in readers /\ readCount # 1
  <2>1. readCount' # 0 /\ UNCHANGED <<pc, writeReady>>
    BY <1>1, <1>4 DEF Fair!ReleaseRead
  <2>2. QED
    BY <1>1, <2>1 DEF FairAlert, FairAsleep, Fair!NoWriterForgotten, Fair!WriteFree
<1>5. CASE Fair!ReleaseRead(t) /\ t \notin readers
  <2>1. /\ UNCHANGED <<readCount, writeCount, writeReady>>
        /\ pc[t] = "running" /\ pc' = [pc EXCEPT ![t] = "ended"]
    BY <1>5 DEF Fair!ReleaseRead
  <2>2. \A s \in Threads : pc[s] = "waitWrite" => pc'[s] = "waitWrite"
    BY <1>1, <2>1 DEF Fair!TypeOK
  <2>3. QED
    BY <2>1, <2>2 DEF FairAlert, FairAsleep, Fair!NoWriterForgotten, Fair!WriteFree
<1>6. QED
  BY <1>2, <1>3, <1>4, <1>5

LEMMA FairAlertStep ==
  ASSUME FairInv, FairInv', FairAlert, Fair!Next
  PROVE  FairAlert'
<1>1. ASSUME UNCHANGED <<readCount, writeCount, writeReady, pc>> PROVE FairAlert'
  BY <1>1 DEF FairAlert, FairAsleep, Fair!NoWriterForgotten, Fair!WriteFree
<1>3. ASSUME NEW t \in Threads, Fair!Expire(t) PROVE FairAlert'
  BY <1>1, <1>3 DEF Fair!Expire
<1>4. QED
  BY <1>3, FairAlertAcquire, FairAlertResume, FairAlertRelease DEF Fair!Next

-----------------------------------------------------------------------------
(* The basic lock *)

LEMMA BasicInit ==
  ASSUME Basic!Init
  PROVE  BasicInv /\ BasicAlert
<1>1. Cardinality({}) = 0
  BY FS_EmptySet
<1>2. QED
  BY <1>1, BasicCardinality, LockClientsAssumption
  DEF Basic!Init, BasicInv, BasicAlert, Basic!TypeOK, Basic!Places,
      BasicHolders, BasicAsleep, Basic!Reading, Basic!NoWriterForgotten,
      Basic!NoReaderForgotten

(* A thread that goes on to another place leaves the others where they are. *)
LEMMA BasicGoto ==
  ASSUME Basic!TypeOK, NEW t \in Threads, NEW place \in Basic!Places,
         Basic!Goto(t, place)
  PROVE  /\ pc' \in [Threads -> Basic!Places]
         /\ pc'[t] = place
         /\ \A s \in Threads \ {t} : pc'[s] = pc[s]
         /\ expired' \subseteq TimedReaders \cup TimedWriters
BY DEF Basic!TypeOK, Basic!Goto

LEMMA BasicRead ==
  ASSUME BasicInv, NEW t \in Threads, Basic!BeginRead(t)
  PROVE  BasicInv'
<1>1. \E place \in {"enterRead", "waitRead", "outside"} :
        Basic!Goto(t, place) /\ pc[t] \in {"outside", "waitRead"}
  BY DEF Basic!BeginRead
<1>2. PICK place \in {"enterRead", "waitRead", "outside"} :
        /\ pc' \in [Threads -> Basic!Places]
        /\ pc'[t] = place
        /\ \A s \in Threads \ {t} : pc'[s] = pc[s]
        /\ expired' \subseteq TimedReaders \cup TimedWriters
  BY <1>1, BasicGoto DEF BasicInv, Basic!Places
<1>3. Basic!TypeOK'
  BY <1>2 DEF Basic!BeginRead, BasicInv, Basic!TypeOK, Basic!counts
<1>4. BasicHolders'
  BY <1>1, <1>2, LockClientsAssumption DEF Basic!BeginRead, BasicInv, Basic!TypeOK, Basic!counts, BasicHolders,
      Basic!Reading, Basic!Goto
<1>5. BasicAsleep'
  BY <1>1, <1>2 DEF Basic!BeginRead, BasicInv, Basic!TypeOK, BasicAsleep, Basic!Goto
<1>6. QED
  BY <1>3, <1>4, <1>5 DEF BasicInv

LEMMA BasicEnterRead ==
  ASSUME BasicInv, NEW t \in Threads, Basic!EnterRead(t)
  PROVE  BasicInv'
<1> USE DEF BasicInv, Basic!TypeOK, Basic!EnterRead
<1>1. /\ pc' \in [Threads -> Basic!Places] /\ pc'[t] = "reading"
      /\ \A s \in Threads \ {t} : pc'[s] = pc[s]
      /\ expired' \subseteq TimedReaders \cup TimedWriters
  BY BasicGoto DEF Basic!Places
<1>2. readCount' = Cardinality(readers')
  BY ThreadSets, BasicCardinality DEF BasicHolders, Basic!Reading
<1>3. Basic!TypeOK'
  BY <1>1, <1>2, BasicCardinality
<1>4. BasicHolders'
  BY <1>1, LockClientsAssumption DEF BasicHolders, Basic!Reading
<1>5. BasicAsleep'
  BY <1>1 DEF BasicAsleep
<1>6. QED
  BY <1>3, <1>4, <1>5

LEMMA BasicLeaveRead ==
  ASSUME BasicInv, NEW t \in Threads, Basic!LeaveRead(t)
  PROVE  BasicInv'
<1> USE DEF BasicInv, Basic!TypeOK, Basic!LeaveRead
<1>1. PICK place \in {"outside", "tellWriters"} :
        /\ pc' \in [Threads -> Basic!Places] /\ pc'[t] = place
        /\ \A s \in Threads \ {t} : pc'[s] = pc[s]
        /\ expired' \subseteq TimedReaders \cup TimedWriters
        /\ readLock' = IF place = "tellWriters" THEN t ELSE readLock
  BY BasicGoto DEF Basic!Places
<1>2. readCount' = Cardinality(readers')
  BY ThreadSets, BasicCardinality DEF BasicHolders, Basic!Reading
<1>3. Basic!TypeOK'
  BY <1>1, <1>2, BasicCardinality
<1>4. BasicHolders'
  BY <1>1, LockClientsAssumption DEF BasicHolders, Basic!Reading
<1>5. BasicAsleep'
  BY <1>1 DEF BasicAsleep
<1>6. QED
  BY <1>3, <1>4, <1>5

LEMMA BasicWrite ==
  ASSUME BasicInv, NEW t \in Threads, Basic!BeginWrite(t)
  PROVE  BasicInv'
<1>1. \E place \in {"enterWrite", "waitWrite", "outside"} :
        Basic!Goto(t, place) /\ pc[t] \in {"outside", "waitWrite"}
  BY DEF Basic!BeginWrite
<1>2. PICK place \in {"enterWrite", "waitWrite", "outside"} :
        /\ pc' \in [Threads -> Basic!Places] /\ pc'[t] = place
        /\ \A s \in Threads \ {t} : pc'[s] = pc[s]
        /\ expired' \subseteq TimedReaders \cup TimedWriters
  BY <1>1, BasicGoto DEF BasicInv, Basic!Places
<1>3. Basic!TypeOK'
  BY <1>2 DEF Basic!BeginWrite, BasicInv, Basic!TypeOK, Basic!counts
<1>4. BasicHolders'
  BY <1>1, <1>2, LockClientsAssumption
  DEF Basic!BeginWrite, BasicInv, Basic!TypeOK, Basic!counts, BasicHolders,
      Basic!Reading, Basic!Goto, Basic!WriteFree
<1>5. BasicAsleep'
  BY <1>1, <1>2
  DEF Basic!BeginWrite, BasicInv, Basic!TypeOK, BasicAsleep, Basic!Goto
<1>6. QED
  BY <1>3, <1>4, <1>5 DEF BasicInv

LEMMA BasicRest ==
  ASSUME BasicInv, NEW t \in Threads,
         \/ Basic!EnterWrite(t) \/ Basic!LeaveWrite(t)
         \/ Basic!TellWriters(t) \/ Basic!TellReaders(t)
  PROVE  BasicInv'
<1> USE DEF BasicInv, Basic!TypeOK, Basic!counts, Basic!EnterWrite, Basic!LeaveWrite,
            Basic!TellWriters, Basic!TellReaders
<1>1. \E place \in {"writing", "tellReaders", "outside"} : Basic!Goto(t, place)
  OBVIOUS
<1>2. PICK place \in {"writing", "tellReaders", "outside"} :
        /\ pc' \in [Threads -> Basic!Places] /\ pc'[t] = place
        /\ \A s \in Threads \ {t} : pc'[s] = pc[s]
        /\ expired' \subseteq TimedReaders \cup TimedWriters
  BY <1>1, BasicGoto DEF Basic!Places
<1>3. Basic!TypeOK'
  BY <1>2
<1>4. BasicHolders'
  BY <1>2, LockClientsAssumption DEF BasicHolders, Basic!Reading, Basic!Goto
<1>5. BasicAsleep'
  BY <1>2 DEF BasicAsleep
<1>6. QED
  BY <1>3, <1>4, <1>5

LEMMA BasicExpire ==
  ASSUME BasicInv, NEW t \in Threads, Basic!Expire(t)
  PROVE  BasicInv'
BY DEF BasicInv, Basic!Expire, Basic!TypeOK, Basic!counts, BasicHolders,
       BasicAsleep, Basic!Reading

LEMMA BasicStep ==
  ASSUME BasicInv, Basic!Next
  PROVE  BasicInv'
BY BasicRead, BasicEnterRead, BasicLeaveRead, BasicWrite, BasicRest, BasicExpire
DEF Basic!Next

(* Whoever finds the lock taken and sleeps leaves somebody inside, and who  *)
(* leaves last is on its way to notify.                                     *)
LEMMA BasicAlertStep ==
  ASSUME BasicInv, BasicAlert, Basic!Next
  PROVE  BasicAlert'
<1> USE DEF BasicAlert, Basic!NoWriterForgotten, Basic!NoReaderForgotten
<1>1. PICK t \in Threads :
        \/ Basic!BeginRead(t) \/ Basic!EnterRead(t) \/ Basic!LeaveRead(t)
        \/ Basic!TellWriters(t) \/ Basic!BeginWrite(t) \/ Basic!EnterWrite(t)
        \/ Basic!LeaveWrite(t) \/ Basic!TellReaders(t) \/ Basic!Expire(t)
  BY DEF Basic!Next
<1>2. pc \in [Threads -> Basic!Places] /\ readers \subseteq Threads
  BY DEF BasicInv, Basic!TypeOK
<1>3. \A s \in Threads \ {t} : pc'[s] = pc[s]
  BY <1>1, <1>2
  DEF Basic!BeginRead, Basic!EnterRead, Basic!LeaveRead, Basic!TellWriters,
      Basic!BeginWrite, Basic!EnterWrite, Basic!LeaveWrite,
      Basic!TellReaders, Basic!Expire, Basic!Goto
<1>4. writeCount # 0 => \E s \in Threads : pc[s] = "writing"
  BY DEF BasicInv, Basic!TypeOK, BasicHolders
<1>5. readCount # 0 => \E s \in Threads : pc[s] = "reading"
  <2>1. readCount = Cardinality(readers) /\ readers = Basic!Reading
    BY BasicCardinality DEF BasicInv, Basic!TypeOK, BasicHolders
  <2>2. QED
    BY <2>1, FS_EmptySet DEF Basic!Reading
<1>6. CASE Basic!BeginRead(t)
  BY <1>2, <1>3, <1>4, <1>6 DEF Basic!BeginRead, Basic!Goto
<1>7. CASE Basic!BeginWrite(t)
  BY <1>2, <1>3, <1>4, <1>5, <1>7 DEF Basic!BeginWrite, Basic!Goto, Basic!WriteFree
<1>8. CASE Basic!LeaveRead(t)
  <2>1. CASE readCount = 1
    BY <1>2, <1>3, <1>8, <2>1 DEF Basic!LeaveRead, Basic!Goto
  <2>2. CASE readCount # 1
    <3>1. PICK s \in readers \ {t} : TRUE
      <4>1. t \in readers /\ readCount = Cardinality(readers)
        BY <1>8, BasicCardinality
        DEF Basic!LeaveRead, BasicInv, Basic!TypeOK, BasicHolders, Basic!Reading
      <4>2. Cardinality(readers \ {t}) # 0
        BY <1>2, <2>2, <4>1, ThreadSets
      <4>3. readers \ {t} # {}
        BY <4>2, FS_EmptySet
      <4>4. QED
        BY <4>3
    <3>2. pc'[s] = "reading"
      BY <1>3, <3>1 DEF BasicInv, BasicHolders, Basic!Reading
    <3>3. QED
      BY <1>2, <1>3, <1>8, <3>1, <3>2 DEF Basic!LeaveRead
  <2>3. QED
    BY <2>1, <2>2
<1>9. CASE Basic!EnterRead(t) \/ Basic!EnterWrite(t) \/ Basic!LeaveWrite(t)
  BY <1>2, <1>3, <1>9
  DEF Basic!EnterRead, Basic!EnterWrite, Basic!LeaveWrite, Basic!Goto
<1>10. CASE Basic!TellWriters(t) \/ Basic!TellReaders(t) \/ Basic!Expire(t)
  BY <1>2, <1>3, <1>10
  DEF Basic!TellWriters, Basic!TellReaders, Basic!Expire, Basic!Goto
<1>11. QED
  BY <1>1, <1>6, <1>7, <1>8, <1>9, <1>10

-----------------------------------------------------------------------------
(* The write-preferring lock *)

LEMMA PreferringInit ==
  ASSUME Preferring!Init
  PROVE  PreferringInv /\ Preferring!NoWriterForgotten
<1>1. Cardinality({}) = 0
  BY FS_EmptySet
<1>2. {t \in Threads : pc[t] = "waitWrite"} = {}
  BY DEF Preferring!Init
<1>3. QED
  BY <1>1, <1>2, PreferringCardinality, LockClientsAssumption
  DEF Preferring!Init, PreferringInv, Preferring!TypeOK, Preferring!Places,
      PreferringHolders, Preferring!WaitingWritersCounted,
      Preferring!NoWriterForgotten

LEMMA PreferringGoto ==
  ASSUME Preferring!TypeOK, NEW t \in Threads, NEW place \in Preferring!Places,
         Preferring!Goto(t, place)
  PROVE  /\ pc' \in [Threads -> Preferring!Places]
         /\ pc'[t] = place
         /\ \A s \in Threads \ {t} : pc'[s] = pc[s]
         /\ expired' \subseteq TimedReaders \cup TimedWriters
BY DEF Preferring!TypeOK, Preferring!Goto

(* The queue of writers after a step of t to another place.                 *)
LEMMA QueueMoves ==
  ASSUME Preferring!TypeOK, NEW t \in Threads, NEW place \in Preferring!Places,
         Preferring!Goto(t, place)
  PROVE  /\ Cardinality(Queue) \in Nat
         /\ (pc[t] = "waitWrite" <=> place = "waitWrite") => Queue' = Queue
         /\ pc[t] # "waitWrite" /\ place = "waitWrite" =>
              Cardinality(Queue)' = Cardinality(Queue) + 1
         /\ pc[t] = "waitWrite" /\ place # "waitWrite" =>
              /\ Cardinality(Queue)' = Cardinality(Queue) - 1
              /\ Cardinality(Queue) # 0
<1>1. /\ pc'[t] = place
      /\ \A s \in Threads \ {t} : pc'[s] = pc[s]
  BY PreferringGoto
<1>2. Queue \in SUBSET Threads /\ (t \in Queue <=> pc[t] = "waitWrite")
  BY DEF Queue
<1>3. /\ (pc[t] = "waitWrite" <=> place = "waitWrite") => Queue' = Queue
      /\ place = "waitWrite" => Queue' = Queue \cup {t}
      /\ place # "waitWrite" => Queue' = Queue \ {t}
  BY <1>1 DEF Queue
<1>4. /\ Cardinality(Queue) \in Nat
      /\ Cardinality(Queue) = 0 <=> Queue = {}
      /\ t \notin Queue => Cardinality(Queue \cup {t}) = Cardinality(Queue) + 1
      /\ t \in Queue => Cardinality(Queue \ {t}) = Cardinality(Queue) - 1
  BY <1>2, ThreadSets
<1>5. QED
  BY <1>2, <1>3, <1>4

LEMMA PreferringRead ==
  ASSUME PreferringInv, NEW t \in Threads,
         Preferring!PassTest(t) \/ Preferring!CountIn(t)
  PROVE  PreferringInv'
<1> USE DEF PreferringInv, Preferring!TypeOK, Preferring!PassTest, Preferring!CountIn
<1>1. PICK place \in {"outside", "admitted", "waitRead", "reading"} :
        /\ Preferring!Goto(t, place) /\ pc[t] # "waitWrite" /\ pc[t] # "reading"
        /\ IF place = "reading"
             THEN readers' = readers \cup {t} /\ readCount' = readCount + 1
             ELSE UNCHANGED <<readers, readCount>>
  OBVIOUS
<1>2. /\ pc' \in [Threads -> Preferring!Places] /\ pc'[t] = place
      /\ \A s \in Threads \ {t} : pc'[s] = pc[s]
      /\ expired' \subseteq TimedReaders \cup TimedWriters
  BY <1>1, PreferringGoto DEF Preferring!Places
<1>3. Queue' = Queue
  BY <1>1, QueueMoves DEF Preferring!Places
<1>4. readCount' = Cardinality(readers')
  <2>1. readCount = Cardinality(readers) /\ readers \subseteq Threads
    BY PreferringCardinality
  <2>2. t \notin readers
    BY <1>1 DEF PreferringHolders
  <2>3. QED
    BY <1>1, <2>1, <2>2, ThreadSets
<1>5. Preferring!TypeOK'
  BY <1>1, <1>2, <1>4, PreferringCardinality
<1>6. PreferringHolders'
  BY <1>1, <1>2, <1>3
  DEF PreferringHolders, Preferring!WaitingWritersCounted, Queue
<1>7. QED
  BY <1>5, <1>6

LEMMA PreferringWrite ==
  ASSUME PreferringInv, NEW t \in Threads,
         Preferring!AcquireWrite(t) \/ Preferring!ResumeWrite(t)
  PROVE  PreferringInv'
<1> USE DEF PreferringInv, Preferring!TypeOK, Preferring!AcquireWrite,
            Preferring!ResumeWrite, Preferring!StopWaiting
<1>1. PICK place \in {"outside", "waitWrite", "writing"} :
        /\ Preferring!Goto(t, place) /\ pc[t] \in {"outside", "waitWrite"}
        /\ waitingWriters' =
             IF pc[t] = "waitWrite" /\ place # "waitWrite" THEN waitingWriters - 1
             ELSE IF pc[t] # "waitWrite" /\ place = "waitWrite"
               THEN waitingWriters + 1 ELSE waitingWriters
        /\ \/ writeReady' = writeReady \ {t}
           \/ pc[t] # "waitWrite" /\ UNCHANGED writeReady
           \/ place = "waitWrite" /\ writeReady' = writeReady \cup {t}
  OBVIOUS
<1>2. /\ pc' \in [Threads -> Preferring!Places] /\ pc'[t] = place
      /\ \A s \in Threads \ {t} : pc'[s] = pc[s]
      /\ expired' \subseteq TimedReaders \cup TimedWriters
  BY <1>1, PreferringGoto DEF Preferring!Places
<1>3. waitingWriters = Cardinality(Queue)
  BY PreferringCardinality
  DEF PreferringHolders, Preferring!WaitingWritersCounted, Queue
<1>4. waitingWriters' = Cardinality(Queue)' /\ waitingWriters' \in Nat
  BY <1>1, <1>3, QueueMoves DEF Preferring!Places
<1>5. Preferring!TypeOK'
  BY <1>1, <1>2, <1>4
<1>6. /\ \A s \in Threads : writer' = s <=> pc'[s] = "writing"
      /\ writeCount' = 0 <=> writer' = NoThread
  <2>1. /\ pc[t] # "writing" /\ writer # t
        /\ \A s \in Threads : writer = s <=> pc[s] = "writing"
        /\ writeCount = 0 <=> writer = NoThread
    BY <1>1 DEF PreferringHolders
  <2>2. CASE place = "writing"
    <3>1. writeCount' = 1 /\ writer' = t /\ writeCount = 0
      BY <1>1, <1>2, <2>2 DEF Preferring!WriteFree, Preferring!Goto
    <3>2. QED
      BY <1>2, <2>1, <2>2, <3>1, LockClientsAssumption
  <2>3. CASE place # "writing"
    <3>1. UNCHANGED <<writeCount, writer>>
      BY <1>1, <1>2, <2>3 DEF Preferring!Goto
    <3>2. QED
      BY <1>2, <2>1, <2>3, <3>1
  <2>4. QED
    BY <2>2, <2>3
<1>7. PreferringHolders'
  BY <1>1, <1>2, <1>4, <1>6, PreferringCardinality
  DEF PreferringHolders, Preferring!WaitingWritersCounted, Queue
<1>8. QED
  BY <1>5, <1>7

LEMMA PreferringRelease ==
  ASSUME PreferringInv, NEW t \in Threads,
         Preferring!ReleaseRead(t) \/ Preferring!ReleaseWrite(t)
  PROVE  PreferringInv'
<1> USE DEF PreferringInv, Preferring!TypeOK, Preferring!ReleaseRead,
            Preferring!ReleaseWrite
<1>1. /\ Preferring!Goto(t, "outside") /\ pc[t] \in {"reading", "writing"}
      /\ IF pc[t] = "reading"
           THEN readers' = readers \ {t} /\ readCount' = readCount - 1
           ELSE UNCHANGED <<readers, readCount>>
  OBVIOUS
<1>2. /\ pc' \in [Threads -> Preferring!Places] /\ pc'[t] = "outside"
      /\ \A s \in Threads \ {t} : pc'[s] = pc[s]
      /\ expired' \subseteq TimedReaders \cup TimedWriters
  BY <1>1, PreferringGoto DEF Preferring!Places
<1>3. Queue' = Queue
  BY <1>1, QueueMoves DEF Preferring!Places
<1>4. readCount' = Cardinality(readers')
  <2>1. readCount = Cardinality(readers) /\ readers \subseteq Threads
    BY PreferringCardinality
  <2>2. pc[t] = "reading" => t \in readers
    BY DEF PreferringHolders
  <2>3. QED
    BY <1>1, <2>1, <2>2, ThreadSets
<1>5. writeReady' \subseteq writeReady
  BY DEF Preferring!AfterNotify
<1>6. Preferring!TypeOK'
  BY <1>1, <1>2, <1>4, <1>5, PreferringCardinality
<1>7. /\ \A s \in Threads : writer' = s <=> pc'[s] = "writing"
      /\ writeCount' = 0 <=> writer' = NoThread
  BY <1>1, <1>2, LockClientsAssumption DEF PreferringHolders
<1>8. PreferringHolders'
  BY <1>1, <1>2, <1>3, <1>5, <1>7
  DEF PreferringHolders, Preferring!WaitingWritersCounted, Queue
<1>9. QED
  BY <1>6, <1>8

LEMMA PreferringExpire ==
  ASSUME PreferringInv, NEW t \in Threads, Preferring!Expire(t)
  PROVE  PreferringInv'
BY DEF PreferringInv, Preferring!Expire, Preferring!TypeOK, PreferringHolders,
       Preferring!WaitingWritersCounted

LEMMA PreferringStep ==
  ASSUME PreferringInv, Preferring!Next
  PROVE  PreferringInv'
BY PreferringRead, PreferringWrite, PreferringRelease, PreferringExpire
DEF Preferring!Next

(* A release that leaves the lock free wakes a writer; the other steps       *)
(* leave the lock taken, or every thread in its place.                      *)
LEMMA PreferringAlertStep ==
  ASSUME PreferringInv, Preferring!NoWriterForgotten, Preferring!Next
  PROVE  Preferring!NoWriterForgotten'
<1> USE DEF Preferring!NoWriterForgotten, Preferring!WriteFree
<1>1. PICK t \in Threads :
        \/ Preferring!PassTest(t) \/ Preferring!CountIn(t)
        \/ Preferring!ReleaseRead(t) \/ Preferring!AcquireWrite(t)
        \/ Preferring!ResumeWrite(t) \/ Preferring!ReleaseWrite(t)
        \/ Preferring!Expire(t)
  BY DEF Preferring!Next
<1>2. /\ pc \in [Threads -> Preferring!Places] /\ readers \subseteq Threads
      /\ readCount = Cardinality(readers) /\ readCount \in Nat
      /\ writeReady \subseteq Queue
  BY ThreadSets, PreferringCardinality
  DEF PreferringInv, Preferring!TypeOK, PreferringHolders, Queue
<1>3. CASE Preferring!ReleaseRead(t) \/ Preferring!ReleaseWrite(t)
  <2>1. \A s \in Queue : pc'[s] = "waitWrite"
    BY <1>2, <1>3
    DEF Preferring!ReleaseRead, Preferring!ReleaseWrite, Preferring!Goto, Queue
  <2>2. CASE writeReady' \in Preferring!AfterNotify(writeReady)
    <3>1. writeReady' = {} \/ \E s \in writeReady : writeReady' = writeReady \ {s}
      BY <2>2 DEF Preferring!AfterNotify
    <3>2. QED
      BY <1>2, <2>1, <3>1 DEF Queue
  <2>3. CASE Preferring!ReleaseRead(t) /\ readCount # 1
    BY <1>2, <2>3 DEF Preferring!ReleaseRead
  <2>4. QED
    BY <1>3, <2>2, <2>3 DEF Preferring!ReleaseRead, Preferring!ReleaseWrite
<1>4. CASE Preferring!PassTest(t) \/ Preferring!Expire(t)
  BY <1>2, <1>4 DEF Preferring!PassTest, Preferring!Expire, Preferring!Goto
<1>5. CASE Preferring!CountIn(t)
  BY <1>2, <1>5 DEF Preferring!CountIn
<1>6. CASE Preferring!AcquireWrite(t) \/ Preferring!ResumeWrite(t)
  BY <1>6 DEF Preferring!AcquireWrite, Preferring!ResumeWrite
<1>7. QED
  BY <1>1, <1>3, <1>4, <1>5, <1>6

-----------------------------------------------------------------------------
(* The upgradable lock *)

LEMMA UpgradableInit ==
  ASSUME Upgradable!Init
  PROVE  UpgradableInv /\ UpgradableAlert
<1>1. Cardinality({}) = 0
  BY FS_EmptySet
<1>2. QED
  BY <1>1, UpgradableCardinality, LockClientsAssumption
  DEF Upgradable!Init, UpgradableInv, UpgradableAlert, Upgradable!TypeOK,
      UpgradableHolders, Upgradable!CountsAgree, UpgradableAsleep,
      Upgradable!NoWriterForgotten, Upgradable!NobodyElseForgotten

Waits == {"running", "waitRead", "waitWrite", "waitUpgrade", "waitAlone"}

LEMMA UpgradableGoto ==
  ASSUME Upgradable!TypeOK, NEW t \in Threads, NEW where \in Waits,
         Upgradable!Goto(t, where)
  PROVE  /\ pc' \in [Threads -> Waits]
         /\ pc'[t] = where
         /\ \A s \in Threads \ {t} : pc'[s] = pc[s]
         /\ expired' \subseteq TimedReaders \cup TimedWriters
BY DEF Upgradable!TypeOK, Upgradable!Goto, Waits

(* acquire_read and acquire_upgrade, for a thread that gets in.             *)
LEMMA UpgradableEnter ==
  ASSUME UpgradableInv, NEW t \in Threads,
         t \notin readers, writer # t,
         \/ /\ Upgradable!ReadFree /\ Upgradable!EnterRead(t)
            /\ \/ pc[t] = "running" /\ readReady' = readReady
               \/ pc[t] = "waitRead" /\ readReady' = readReady \ {t}
         \/ /\ Upgradable!UpgradeFree /\ Upgradable!EnterUpgrade(t)
            /\ \/ pc[t] = "running" /\ upgradeReady' = upgradeReady
               \/ pc[t] = "waitUpgrade" /\ upgradeReady' = upgradeReady \ {t}
  PROVE  UpgradableInv'
<1> USE DEF UpgradableInv, Upgradable!TypeOK, Upgradable!EnterRead,
            Upgradable!EnterUpgrade, Upgradable!ReadFree,
            Upgradable!UpgradeFree
<1>1. /\ Upgradable!Goto(t, "running")
      /\ readers' = readers \cup {t} /\ readCount' = readCount + 1
      /\ UNCHANGED <<writeCount, writer, failed, writeReady>>
      /\ readReady' \subseteq readReady /\ upgradeReady' \subseteq upgradeReady
      /\ \/ UNCHANGED <<upgradeCount, upgrader>>
         \/ upgradeCount' = 1 /\ upgrader' = t
      /\ \/ pc[t] = "running"
         \/ pc[t] = "waitRead" /\ t \notin readReady'
         \/ pc[t] = "waitUpgrade" /\ t \notin upgradeReady'
  OBVIOUS
<1>2. /\ pc' \in [Threads -> Waits] /\ pc'[t] = "running"
      /\ \A s \in Threads \ {t} : pc'[s] = pc[s]
      /\ expired' \subseteq TimedReaders \cup TimedWriters
  BY <1>1, UpgradableGoto DEF Waits
<1>3. readCount' = Cardinality(readers')
  <2>1. readCount = Cardinality(readers) /\ readers \subseteq Threads
    BY UpgradableCardinality DEF UpgradableHolders, Upgradable!CountsAgree
  <2>2. QED
    BY <1>1, <2>1, ThreadSets
<1>4. Upgradable!TypeOK'
  BY <1>1, <1>2 DEF Waits
<1>5. writer = NoThread
  BY DEF UpgradableHolders, Upgradable!CountsAgree
<1>6. Upgradable!CountsAgree'
  <2>1. readCount' = Upgradable!Cardinality(readers')
    BY <1>3, UpgradableCardinality
  <2>2. QED
    BY <1>1, <2>1, LockClientsAssumption
    DEF UpgradableHolders, Upgradable!CountsAgree
<1>7. \A s \in Threads : pc'[s] = "waitAlone" => upgrader' = s
  BY <1>1, <1>2, LockClientsAssumption
  DEF UpgradableHolders, Upgradable!CountsAgree
<1>8. UpgradableHolders'
  <2>1. ASSUME NEW s \in Threads,
               pc'[s] \in {"waitRead", "waitWrite", "waitUpgrade"}
        PROVE  s \notin readers' /\ writer' # s
    BY <1>1, <1>2, <2>1 DEF UpgradableHolders
  <2>2. writer' = NoThread
    BY <1>1, <1>5
  <2>3. QED
    BY <1>6, <1>7, <2>1, <2>2 DEF UpgradableHolders
<1>9. UpgradableAsleep'
  BY <1>1, <1>2 DEF UpgradableAsleep
<1>10. QED
  BY <1>4, <1>8, <1>9

(* A thread that finds the lock taken sleeps in the place where it waits,   *)
(* or is back with False.                                                   *)
Round(t, place, where, next, W) ==
  IF place # where THEN W ELSE IF next = "running" THEN W \ {t} ELSE W \cup {t}

LEMMA UpgradableWait ==
  ASSUME UpgradableInv, NEW t \in Threads, NEW where \in Waits \ {"running"},
         NEW next \in {"running", where}, Upgradable!Goto(t, next),
         UNCHANGED <<Upgradable!counts, Upgradable!holders, failed>>,
         pc[t] \in {"running", where},
         IF where = "waitAlone" THEN upgrader = t ELSE t \notin readers /\ writer # t,
         readReady' = Round(t, "waitRead", where, next, readReady),
         upgradeReady' = Round(t, "waitUpgrade", where, next, upgradeReady),
         \/ where \in {"waitWrite", "waitAlone"} /\ next = "running"
              /\ writeReady' = writeReady \ {t}
         \/ where \in {"waitWrite", "waitAlone"} /\ next = where
              /\ writeReady' = writeReady \cup {t}
         \/ where \in {"waitRead", "waitUpgrade"} /\ UNCHANGED writeReady
  PROVE  UpgradableInv'
<1> USE DEF UpgradableInv, Upgradable!TypeOK, Upgradable!counts, Upgradable!holders
<1>1. /\ pc' \in [Threads -> Waits] /\ pc'[t] = next
      /\ \A s \in Threads \ {t} : pc'[s] = pc[s]
      /\ expired' \subseteq TimedReaders \cup TimedWriters
  BY UpgradableGoto DEF Waits
<1>2. Upgradable!TypeOK'
  BY <1>1 DEF Waits, Round
<1>3. UpgradableHolders'
  BY <1>1 DEF UpgradableHolders, Upgradable!CountsAgree, Waits
<1>4. readReady' \subseteq readReady \cup {t} /\ upgradeReady' \subseteq upgradeReady \cup {t}
  BY DEF Round
<1>5. /\ t \in readReady' => next = "waitRead"
      /\ t \in upgradeReady' => next = "waitUpgrade"
  BY DEF Round, UpgradableAsleep, Waits
<1>6. /\ writeReady' \subseteq writeReady \cup {t}
      /\ t \in writeReady' => next \in {"waitWrite", "waitAlone"}
  BY DEF UpgradableAsleep, Waits
<1>7. UpgradableAsleep'
  BY <1>1, <1>4, <1>5, <1>6 DEF UpgradableAsleep
<1>8. QED
  BY <1>2, <1>3, <1>7

(* A writer, or an upgrader whose fellow readers have left, gets the lock.  *)
LEMMA UpgradableOwn ==
  ASSUME UpgradableInv, NEW t \in Threads,
         \/ /\ Upgradable!WriteFree /\ Upgradable!EnterWrite(t)
            /\ pc[t] \in {"running", "waitWrite"}
         \/ /\ Upgradable!Alone(t) /\ Upgradable!Convert(t)
            /\ upgrader = t /\ pc[t] \in {"running", "waitAlone"},
         \/ pc[t] = "running" /\ writeReady' = writeReady
         \/ writeReady' = writeReady \ {t}
  PROVE  UpgradableInv'
<1> USE DEF UpgradableInv, Upgradable!TypeOK, Upgradable!EnterWrite,
            Upgradable!Convert, Upgradable!WriteFree, Upgradable!Alone
<1>1. /\ pc' \in [Threads -> Waits] /\ pc'[t] = "running"
      /\ \A s \in Threads \ {t} : pc'[s] = pc[s]
      /\ expired' \subseteq TimedReaders \cup TimedWriters
  BY UpgradableGoto DEF Waits
<1>2. readCount = Cardinality(readers) /\ readers \subseteq Threads
  BY UpgradableCardinality DEF UpgradableHolders, Upgradable!CountsAgree
<1>3. readers' = {} /\ readCount' = 0
  <2>1. CASE Upgradable!WriteFree /\ Upgradable!EnterWrite(t)
    BY <1>2, <2>1, ThreadSets
  <2>2. CASE Upgradable!Alone(t) /\ Upgradable!Convert(t)
    <3>1. t \in readers /\ Cardinality(readers) = 1
      BY <1>2, <2>2
    <3>2. Cardinality(readers \ {t}) = 0
      BY <1>2, <3>1, ThreadSets
    <3>3. readers \ {t} = {}
      BY <1>2, <3>2, ThreadSets
    <3>4. QED
      BY <2>2, <3>3
  <2>3. QED
    BY <2>1, <2>2
<1>4. upgradeCount' = 0 /\ upgrader' = NoThread
  BY DEF UpgradableHolders, Upgradable!CountsAgree
<1>5. writeCount' = 1 /\ writer' = t
  OBVIOUS
<1>6. UNCHANGED <<readReady, upgradeReady, failed>>
  OBVIOUS
<1>7. Upgradable!TypeOK'
  BY <1>1, <1>3, <1>4, <1>5, <1>6 DEF Waits
<1>8. Upgradable!CountsAgree'
  BY <1>3, <1>4, <1>5, FS_EmptySet, UpgradableCardinality, LockClientsAssumption
  DEF Upgradable!CountsAgree
<1>9. \A s \in Threads : pc'[s] # "waitAlone"
  BY <1>1, <1>4, LockClientsAssumption DEF UpgradableHolders, Upgradable!CountsAgree
<1>10. UpgradableHolders'
  BY <1>1, <1>3, <1>4, <1>5, <1>8, <1>9 DEF UpgradableHolders
<1>11. UpgradableAsleep'
  BY <1>1, <1>6 DEF UpgradableAsleep
<1>12. QED
  BY <1>7, <1>10, <1>11

LEMMA UpgradableLeave ==
  ASSUME UpgradableInv, NEW t \in Threads,
         Upgradable!ReleaseRead(t) \/ Upgradable!ReleaseUpgrade(t)
  PROVE  UpgradableInv'
<1> USE DEF UpgradableInv, Upgradable!TypeOK, Upgradable!ReleaseRead,
            Upgradable!ReleaseUpgrade
<1>1. t \in readers /\ pc[t] = "running" /\ readers \subseteq Threads
  BY LockClientsAssumption DEF UpgradableHolders, Upgradable!CountsAgree
<1>2. /\ readers' = readers \ {t} /\ readCount' = readCount - 1
      /\ UNCHANGED <<writeCount, writer, readReady, pc, expired, failed>>
      /\ \/ t # upgrader /\ UNCHANGED <<upgradeCount, upgrader>>
         \/ upgradeCount' = 0 /\ upgrader' = NoThread /\ upgrader = t
      /\ upgradeReady' \subseteq upgradeReady
  OBVIOUS
<1>3. writeReady' \subseteq writeReady
  BY DEF Upgradable!AfterNotify
<1>4. readCount = Cardinality(readers)
  BY UpgradableCardinality DEF UpgradableHolders, Upgradable!CountsAgree
<1>5. readCount' = Cardinality(readers') /\ readCount' \in Nat
  BY <1>1, <1>2, <1>4, ThreadSets
<1>6. Upgradable!TypeOK'
  BY <1>2, <1>3, <1>5
<1>7. Upgradable!CountsAgree'
  BY <1>2, <1>5, UpgradableCardinality, LockClientsAssumption
  DEF UpgradableHolders, Upgradable!CountsAgree
<1>8. \A s \in Threads : pc'[s] = "waitAlone" => upgrader' = s
  BY <1>1, <1>2 DEF UpgradableHolders
<1>9. UpgradableHolders'
  BY <1>1, <1>2, <1>7, <1>8 DEF UpgradableHolders
<1>10. UpgradableAsleep'
  BY <1>2, <1>3 DEF UpgradableAsleep
<1>11. QED
  BY <1>6, <1>9, <1>10

LEMMA UpgradableRest ==
  ASSUME UpgradableInv, NEW t \in Threads,
         \/ Upgradable!ReleaseWrite(t) \/ Upgradable!LeaveUpgraded(t)
         \/ Upgradable!Expire(t)
  PROVE  UpgradableInv'
<1> USE DEF UpgradableInv, Upgradable!TypeOK, Upgradable!counts,
            Upgradable!holders, Upgradable!waitSets, Upgradable!ReleaseWrite,
            Upgradable!LeaveUpgraded, Upgradable!Expire
<1>1. Upgradable!TypeOK'
  OBVIOUS
<1>2. UpgradableHolders'
  BY LockClientsAssumption DEF UpgradableHolders, Upgradable!CountsAgree
<1>3. UpgradableAsleep'
  BY DEF UpgradableAsleep
<1>4. QED
  BY <1>1, <1>2, <1>3

LEMMA UpgradableStep ==
  ASSUME UpgradableInv, Upgradable!Next
  PROVE  UpgradableInv'
<1> USE DEF Upgradable!Idle, Upgradable!Awake, Upgradable!Sleep,
            Upgradable!StayOut, Upgradable!StillWaiting, Round, Waits
<1>1. ASSUME NEW t \in Threads,
             Upgradable!AcquireRead(t) \/ Upgradable!ResumeRead(t)
      PROVE  UpgradableInv'
  <2>1. t \notin readers /\ writer # t
    BY <1>1 DEF UpgradableInv, UpgradableHolders, Upgradable!AcquireRead,
                Upgradable!ResumeRead
  <2>2. CASE Upgradable!ReadFree
    BY <1>1, <2>1, <2>2, UpgradableEnter
    DEF Upgradable!AcquireRead, Upgradable!ResumeRead
  <2>3. CASE ~Upgradable!ReadFree
    BY <1>1, <2>1, <2>3, UpgradableWait
    DEF Upgradable!AcquireRead, Upgradable!ResumeRead
  <2>4. QED
    BY <2>2, <2>3
<1>2. ASSUME NEW t \in Threads,
             Upgradable!AcquireWrite(t) \/ Upgradable!ResumeWrite(t)
      PROVE  UpgradableInv'
  <2>1. t \notin readers /\ writer # t
    BY <1>2 DEF UpgradableInv, UpgradableHolders, Upgradable!AcquireWrite,
                Upgradable!ResumeWrite
  <2>2. CASE Upgradable!WriteFree
    BY <1>2, <2>2, UpgradableOwn
    DEF Upgradable!AcquireWrite, Upgradable!ResumeWrite
  <2>3. CASE ~Upgradable!WriteFree
    BY <1>2, <2>1, <2>3, UpgradableWait
    DEF Upgradable!AcquireWrite, Upgradable!ResumeWrite
  <2>4. QED
    BY <2>2, <2>3
<1>3. ASSUME NEW t \in Threads,
             Upgradable!AcquireUpgrade(t) \/ Upgradable!ResumeUpgrade(t)
      PROVE  UpgradableInv'
  <2>1. t \notin readers /\ writer # t
    BY <1>3 DEF UpgradableInv, UpgradableHolders, Upgradable!AcquireUpgrade,
                Upgradable!ResumeUpgrade
  <2>2. CASE Upgradable!UpgradeFree
    BY <1>3, <2>1, <2>2, UpgradableEnter
    DEF Upgradable!AcquireUpgrade, Upgradable!ResumeUpgrade
  <2>3. CASE ~Upgradable!UpgradeFree
    BY <1>3, <2>1, <2>3, UpgradableWait
    DEF Upgradable!AcquireUpgrade, Upgradable!ResumeUpgrade
  <2>4. QED
    BY <2>2, <2>3
<1>4. ASSUME NEW t \in Threads,
             Upgradable!UpgradeToWrite(t) \/ Upgradable!ResumeUpgradeToWrite(t)
      PROVE  UpgradableInv'
  <2>1. upgrader = t
    BY <1>4 DEF UpgradableInv, UpgradableHolders, Upgradable!UpgradeToWrite,
                Upgradable!ResumeUpgradeToWrite
  <2>2. CASE Upgradable!Alone(t)
    BY <1>4, <2>1, <2>2, UpgradableOwn
    DEF Upgradable!UpgradeToWrite, Upgradable!ResumeUpgradeToWrite
  <2>3. CASE ~Upgradable!Alone(t)
    BY <1>4, <2>1, <2>3, UpgradableWait
    DEF Upgradable!UpgradeToWrite, Upgradable!ResumeUpgradeToWrite
  <2>4. QED
    BY <2>2, <2>3
<1>5. QED
  BY <1>1, <1>2, <1>3, <1>4, UpgradableLeave, UpgradableRest
  DEF Upgradable!Next

(* Of the plain writers that sleep one is woken when the lock becomes free; *)
(* an upgrader that sleeps on the same condition is then the one holder.    *)
LEMMA UpgradableAlertStep ==
  ASSUME UpgradableInv, UpgradableInv', UpgradableAlert, Upgradable!Next
  PROVE  UpgradableAlert'
<1> USE DEF UpgradableAlert, Upgradable!NoWriterForgotten,
            Upgradable!NobodyElseForgotten, Upgradable!ReadFree,
            Upgradable!WriteFree, Upgradable!UpgradeFree
<1>1. PICK t \in Threads :
        \/ Upgradable!AcquireRead(t) \/ Upgradable!ResumeRead(t)
        \/ Upgradable!ReleaseRead(t) \/ Upgradable!AcquireWrite(t)
        \/ Upgradable!ResumeWrite(t) \/ Upgradable!ReleaseWrite(t)
        \/ Upgradable!AcquireUpgrade(t) \/ Upgradable!ResumeUpgrade(t)
        \/ Upgradable!ReleaseUpgrade(t) \/ Upgradable!UpgradeToWrite(t)
        \/ Upgradable!ResumeUpgradeToWrite(t) \/ Upgradable!LeaveUpgraded(t)
        \/ Upgradable!Expire(t)
  BY DEF Upgradable!Next
<1>2. /\ readCount \in Nat /\ readCount' \in Nat
      /\ writeCount \in {0, 1} /\ upgradeCount \in {0, 1}
      /\ pc \in [Threads -> Waits]
  BY DEF UpgradableInv, Upgradable!TypeOK, Waits
<1>3. CASE Upgradable!ReleaseRead(t) \/ Upgradable!ReleaseUpgrade(t)
  <2>1. /\ UNCHANGED <<writeCount, readReady, pc>>
        /\ readCount' = 0 => writeReady' \in Upgradable!AfterNotify(writeReady)
        /\ \/ UNCHANGED <<upgradeCount, upgradeReady>>
           \/ upgradeCount' = 0 /\ upgradeReady' = {}
    BY <1>3 DEF Upgradable!ReleaseRead, Upgradable!ReleaseUpgrade
  <2>2. Upgradable!NobodyElseForgotten'
    BY <2>1
  <2>3. ASSUME Upgradable!WriteFree', writeReady' # {}
        PROVE  \E s \in Threads \ writeReady' : pc'[s] = "waitWrite"
    <3>1. PICK s \in writeReady : writeReady' = writeReady \ {s}
      BY <2>1, <2>3 DEF Upgradable!AfterNotify
    <3>2. upgrader' = NoThread
      BY <2>3 DEF UpgradableInv, UpgradableHolders, Upgradable!CountsAgree
    <3>3. s \in Threads /\ pc[s] \in {"waitWrite", "waitAlone"}
      BY DEF UpgradableInv, Upgradable!TypeOK, UpgradableAsleep
    <3>4. pc'[s] # "waitAlone"
      BY <3>2, <3>3, LockClientsAssumption DEF UpgradableInv, UpgradableHolders
    <3>5. QED
      BY <2>1, <3>1, <3>3, <3>4
  <2>4. QED
    BY <2>2, <2>3
<1>4. CASE Upgradable!ReleaseWrite(t)
  BY <1>4 DEF Upgradable!ReleaseWrite
<1>5. CASE Upgradable!LeaveUpgraded(t) \/ Upgradable!Expire(t)
  BY <1>5 DEF Upgradable!LeaveUpgraded, Upgradable!Expire, Upgradable!counts,
              Upgradable!waitSets
<1>6. CASE Upgradable!AcquireRead(t) \/ Upgradable!ResumeRead(t)
  <2>1. CASE readCount' = readCount + 1 /\ UNCHANGED <<writeCount, upgradeCount, upgradeReady>>
             /\ readReady' \subseteq readReady
    BY <1>2, <2>1
  <2>2. CASE /\ writeCount # 0
             /\ UNCHANGED <<writeCount, upgradeCount>>
    BY <1>2, <2>2
  <2>3. QED
    BY <1>6, <2>1, <2>2
    DEF Upgradable!AcquireRead, Upgradable!ResumeRead, Upgradable!EnterRead,
        Upgradable!Sleep, Upgradable!StayOut, Upgradable!counts
<1>7. CASE Upgradable!AcquireUpgrade(t) \/ Upgradable!ResumeUpgrade(t)
  <2>1. CASE readCount' = readCount + 1 /\ upgradeCount' = 1 /\ UNCHANGED <<writeCount, readReady>>
    BY <1>2, <2>1
  <2>2. CASE /\ writeCount # 0 \/ upgradeCount # 0
             /\ UNCHANGED <<writeCount, upgradeCount, readReady>>
    BY <1>2, <2>2
  <2>3. QED
    BY <1>7, <2>1, <2>2
    DEF Upgradable!AcquireUpgrade, Upgradable!ResumeUpgrade, Upgradable!EnterUpgrade,
        Upgradable!Sleep, Upgradable!StayOut, Upgradable!counts
<1>8. CASE Upgradable!AcquireWrite(t) \/ Upgradable!ResumeWrite(t)
  <2>1. CASE writeCount' = 1
    BY <2>1
  <2>2. CASE /\ ~Upgradable!WriteFree
             /\ UNCHANGED <<readCount, writeCount, upgradeCount, readReady, upgradeReady>>
    BY <1>2, <2>2
  <2>3. QED
    BY <1>8, <2>1, <2>2
    DEF Upgradable!AcquireWrite, Upgradable!ResumeWrite, Upgradable!EnterWrite,
        Upgradable!Sleep, Upgradable!StayOut, Upgradable!counts
<1>9. CASE Upgradable!UpgradeToWrite(t) \/ Upgradable!ResumeUpgradeToWrite(t)
  <2>1. CASE writeCount' = 1
    BY <2>1
  <2>2. CASE UNCHANGED <<readCount, writeCount, upgradeCount, readReady, upgradeReady>>
    <3>1. upgradeCount # 0
      BY <1>9, LockClientsAssumption
      DEF Upgradable!UpgradeToWrite, Upgradable!ResumeUpgradeToWrite,
          Upgradable!Awake, UpgradableInv, UpgradableHolders, Upgradable!CountsAgree
    <3>2. QED
      BY <1>2, <2>2, <3>1
  <2>3. QED
    BY <1>9, <2>1, <2>2
    DEF Upgradable!UpgradeToWrite, Upgradable!ResumeUpgradeToWrite,
        Upgradable!Convert, Upgradable!Sleep, Upgradable!StayOut, Upgradable!counts
<1>10. QED
  BY <1>1, <1>3, <1>4, <1>5, <1>6, <1>7, <1>8, <1>9

-----------------------------------------------------------------------------
(* The four locks *)

Alert ==
  /\ lock = "fair" => FairAlert
  /\ lock = "basic" => BasicAlert
  /\ lock = "write_preferring" => Preferring!NoWriterForgotten
  /\ lock = "upgradable" => UpgradableAlert

LEMMA Start == Init => IInv /\ Alert
<1>1. Fair!Init => FairInv /\ Room /\ FairAlert
  <2>1. Fair!Init => Room
    BY DEF Fair!Init, Room
  <2>2. Fair!Init => FairAlert
    BY DEF Fair!Init, FairAlert, FairAsleep, Fair!NoWriterForgotten
  <2>3. QED
    BY <2>1, <2>2, FairInit
<1>2. QED
  BY <1>1, BasicInit, PreferringInit, UpgradableInit DEF Init, IInv, Alert

(* A step that changes nothing keeps every formula about the lock.          *)
LEMMA Stutter ==
  ASSUME IInv, Alert, UNCHANGED vars
  PROVE  IInv' /\ Alert'
<1> USE DEF vars, noUpgrades, noMutexes
<1>1. lock = "basic" => (BasicInv /\ BasicAlert)'
  BY DEF IInv, Alert, BasicInv, Basic!TypeOK, BasicHolders, BasicAsleep, Basic!Reading,
         BasicAlert, Basic!NoWriterForgotten, Basic!NoReaderForgotten
<1>2. lock = "write_preferring" => (PreferringInv /\ Preferring!NoWriterForgotten)'
  BY DEF IInv, Alert, PreferringInv, Preferring!TypeOK, PreferringHolders,
         Preferring!WaitingWritersCounted, Preferring!NoWriterForgotten,
         Preferring!WriteFree
<1>3. lock = "upgradable" => (UpgradableInv /\ UpgradableAlert)'
  BY DEF IInv, Alert, UpgradableInv, Upgradable!TypeOK, UpgradableHolders,
         Upgradable!CountsAgree, UpgradableAsleep, UpgradableAlert,
         Upgradable!NoWriterForgotten, Upgradable!NobodyElseForgotten,
         Upgradable!ReadFree, Upgradable!WriteFree, Upgradable!UpgradeFree
<1>4. lock = "fair" => (FairInv /\ Room /\ FairAlert)'
  BY DEF IInv, Alert, FairInv, Fair!TypeOK, FairBooks, Fair!Tickets, Queue, Gone, Room, FairAlert,
         FairAsleep, Fair!NoWriterForgotten, Fair!WriteFree
<1>5. QED
  BY <1>1, <1>2, <1>3, <1>4 DEF IInv, Alert

LEMMA Step ==
  ASSUME IInv, Alert, [Next]_vars
  PROVE  IInv' /\ Alert'
<1>1. CASE Basic!Next /\ OfBasic
  BY <1>1, BasicStep, BasicAlertStep DEF OfBasic, IInv, Alert
<1>2. CASE Preferring!Next /\ OfPreferring
  BY <1>2, PreferringStep, PreferringAlertStep DEF OfPreferring, IInv, Alert
<1>3. CASE Upgradable!Next /\ OfUpgradable
  BY <1>3, UpgradableStep, UpgradableAlertStep DEF OfUpgradable, IInv, Alert
<1>4. CASE Fair!Next /\ OfFair
  <2>1. lock = "fair" /\ lock' = lock /\ FairInv /\ Room /\ FairAlert
    BY <1>4 DEF OfFair, IInv, Alert
  <2>2. FairInv' /\ Room'
    BY <1>4, <2>1, FairStep, FairRoomStep DEF FairInv
  <2>3. FairAlert'
    BY <1>4, <2>1, <2>2, FairAlertStep
  <2>4. QED
    BY <2>1, <2>2, <2>3 DEF IInv, Alert
<1>5. QED
  BY <1>1, <1>2, <1>3, <1>4, Stutter DEF Next

LEMMA Inductive == Spec => [](IInv /\ Alert)
<1>1. Init => IInv /\ Alert
  BY Start
<1>2. IInv /\ Alert /\ [Next]_vars => (IInv /\ Alert)'
  BY Step
<1>3. QED
  BY <1>1, <1>2, PTL DEF Spec

(* The fields by which the four locks decide name and count exactly the     *)
(* threads that are inside and that wait, on every way out of every call: a *)
(* timeout, an upgrade, a failed acquisition; a release of the fair lock    *)
(* that raised stays counted.                                               *)
THEOREM CountsRight == Spec => []CountsAgree
<1>1. FairInv => /\ Fair!TypeOK
                 /\ Fair!WaitingWritersCounted
                 /\ Fair!HoldersCounted
  BY FairCardinality
  DEF FairInv, FairBooks, Queue, Gone, Fair!WaitingWritersCounted,
      Fair!HoldersCounted, Fair!TypeOK
<1>2. BasicInv => Basic!TypeOK /\ Basic!HoldersNamed
  BY LockClientsAssumption
  DEF BasicInv, BasicHolders, Basic!HoldersNamed, Basic!Writing, Basic!TypeOK
<1>3. PreferringInv => /\ Preferring!TypeOK
                       /\ Preferring!WaitingWritersCounted
                       /\ Preferring!HoldersNamed
  BY LockClientsAssumption
  DEF PreferringInv, PreferringHolders, Preferring!HoldersNamed,
      Preferring!TypeOK
<1>4. UpgradableInv => Upgradable!TypeOK /\ Upgradable!CountsAgree
  BY DEF UpgradableInv, UpgradableHolders
<1>5. IInv => CountsAgree
  BY <1>1, <1>2, <1>3, <1>4 DEF IInv, CountsAgree
<1>6. QED
  BY <1>5, Inductive, PTL

(* No notification of the four locks is spent where it leaves a lock free   *)
(* and all its writers asleep, and none falls between the test and the      *)
(* sleep of a reader of the basic or the upgradable lock or of a thread     *)
(* that asks for the upgrade lock.                                          *)
THEOREM WritersLeftAwake == Spec => []NobodyForgotten
<1>1. Alert => NobodyForgotten
  BY DEF Alert, NobodyForgotten, FairAlert, BasicAlert, UpgradableAlert
<1>2. QED
  BY <1>1, Inductive, PTL

-----------------------------------------------------------------------------
(* Who is left asleep beside a lock that is free for him, and by which step *)

(* Of the fair lock: readers, by a writer that gives up.                    *)
LEMMA FairReadersWoken ==
  ASSUME FairInv, Fair!Next
  PROVE  Fair!ReadersWoken
<1> USE DEF Fair!ReadersWoken, Fair!ReadFree
<1>1. Fair!TypeOK
  BY DEF FairInv
<1>2. ASSUME NEW t \in Threads, Fair!AcquireRead(t) \/ Fair!ResumeRead(t)
      PROVE  Fair!ReadersWoken
  BY <1>2 DEF Fair!AcquireRead, Fair!ResumeRead, Fair!EnterRead
<1>3. ASSUME NEW t \in Threads, Fair!AcquireWrite(t) \/ Fair!ResumeWrite(t)
      PROVE  Fair!ReadersWoken
  <2>1. CASE writeCount' = 1
    BY <2>1
  <2>2. CASE waitingWriters' = waitingWriters + 1
    BY <1>1, <2>2 DEF Fair!TypeOK
  <2>3. CASE pc[t] = "waitWrite" /\ Fair!GiveUpWrite(t)
    <3>1. CASE writer = t
      <4>1. writeCount' # 0
        BY <2>3, <3>1, LockClientsAssumption
        DEF FairInv, FairBooks, Fair!GiveUpWrite, Fair!TypeOK
      <4>2. QED
        BY <4>1
    <3>2. CASE writer # t
      <4>1. pc'[t] = "running" /\ writer' # t
        BY <1>1, <2>3, <3>2 DEF Fair!GiveUpWrite, Fair!Goto, Fair!TypeOK
      <4>2. QED
        BY <2>3, <4>1 DEF Fair!WriterGivesUp
    <3>3. QED
      BY <3>1, <3>2
  <2>4. CASE UNCHANGED <<writeCount, waitingWriters, readReady>>
    BY <2>4
  <2>5. QED
    BY <1>3, <2>1, <2>2, <2>3, <2>4
    DEF Fair!AcquireWrite, Fair!ResumeWrite, Fair!EnterWrite
<1>4. ASSUME NEW t \in Threads,
             Fair!ReleaseRead(t) \/ Fair!ReleaseWrite(t) \/ Fair!Expire(t)
      PROVE  Fair!ReadersWoken
  BY <1>4 DEF Fair!ReleaseRead, Fair!ReleaseWrite, Fair!Expire
<1>5. QED
  BY <1>2, <1>3, <1>4 DEF Fair!Next

(* Of the write-preferring lock: readers, by release_write.                 *)
LEMMA PreferringReadersWoken ==
  ASSUME PreferringInv, Preferring!Next
  PROVE  Preferring!ReadersWoken
<1> USE DEF Preferring!ReadersWoken, Preferring!ReadFree
<1>1. ASSUME NEW t \in Threads, Preferring!PassTest(t)
      PROVE  Preferring!ReadersWoken
  BY <1>1 DEF Preferring!PassTest
<1>2. ASSUME NEW t \in Threads,
             Preferring!AcquireWrite(t) \/ Preferring!ResumeWrite(t)
      PROVE  Preferring!ReadersWoken
  BY <1>2 DEF Preferring!AcquireWrite, Preferring!ResumeWrite,
              Preferring!StopWaiting, PreferringInv, Preferring!TypeOK
<1>3. ASSUME NEW t \in Threads, Preferring!ReleaseWrite(t)
      PROVE  Preferring!ReadersWoken
  BY <1>3, LockClientsAssumption
  DEF Preferring!ReleaseWrite, PreferringInv, PreferringHolders
<1>4. ASSUME NEW t \in Threads,
             \/ Preferring!CountIn(t) \/ Preferring!ReleaseRead(t)
             \/ Preferring!Expire(t)
      PROVE  Preferring!ReadersWoken
  BY <1>4 DEF Preferring!CountIn, Preferring!ReleaseRead, Preferring!Expire
<1>5. QED
  BY <1>1, <1>2, <1>3, <1>4 DEF Preferring!Next

(* Of the upgradable lock: the upgrader, by a notification that reaches a   *)
(* plain writer.                                                            *)
LEMMA UpgradableUpgraderWoken ==
  ASSUME UpgradableInv, Upgradable!Next
  PROVE  Upgradable!UpgraderWoken
<1> SUFFICES ASSUME NEW u \in Threads, Upgradable!LeftAlone(u)'
             PROVE  \/ Upgradable!LeftAlone(u)
                    \/ \E w \in writeReady \ writeReady' : pc[w] = "waitWrite"
  BY DEF Upgradable!UpgraderWoken
<1> USE DEF Upgradable!LeftAlone, Upgradable!Alone
<1>1. /\ Upgradable!TypeOK /\ UpgradableHolders /\ UpgradableAsleep
      /\ pc'[u] = "waitAlone" /\ u \in writeReady'
      /\ readCount' = 1 /\ u \in readers'
  BY DEF UpgradableInv
<1>2. CASE \E t \in Threads : Upgradable!ReleaseRead(t)
  <2>1. PICK t \in Threads : Upgradable!ReleaseRead(t)
    BY <1>2
  <2>2. pc[u] = "waitAlone" /\ upgrader = u /\ upgrader # NoThread
    BY <1>1, <2>1, LockClientsAssumption
    DEF Upgradable!ReleaseRead, UpgradableHolders
  <2>3. writeReady' \in Upgradable!AfterNotify(writeReady)
    BY <1>1, <2>1, <2>2 DEF Upgradable!ReleaseRead
  <2>4. PICK w \in writeReady : writeReady' = writeReady \ {w}
    BY <1>1, <2>3 DEF Upgradable!AfterNotify
  <2>5. w # u /\ w \in Threads /\ pc[w] \in {"waitWrite", "waitAlone"}
    BY <1>1, <2>4 DEF UpgradableAsleep, Upgradable!TypeOK
  <2>6. pc[w] = "waitWrite"
    BY <1>1, <2>2, <2>5 DEF UpgradableHolders
  <2>7. QED
    BY <2>4, <2>6
<1>3. ASSUME NEW t \in Threads,
             Upgradable!AcquireRead(t) \/ Upgradable!ResumeRead(t)
      PROVE  pc'[u] = pc[u] /\ u \in writeReady /\ upgrader = u
             /\ \/ readCount' = readCount /\ readers' = readers
                \/ readCount' = readCount + 1
  BY <1>1, <1>3
  DEF Upgradable!AcquireRead, Upgradable!ResumeRead, Upgradable!EnterRead,
      Upgradable!Sleep, Upgradable!StayOut, Upgradable!Goto, Upgradable!TypeOK,
      Upgradable!holders, Upgradable!counts, UpgradableHolders
<1>4. ASSUME NEW t \in Threads,
             Upgradable!AcquireRead(t) \/ Upgradable!ResumeRead(t)
      PROVE  Upgradable!LeftAlone(u)
  <2>1. u \in readers /\ readers \subseteq Threads
        /\ readCount = Cardinality(readers)
    BY <1>1, <1>3, <1>4, LockClientsAssumption, UpgradableCardinality
    DEF UpgradableHolders, Upgradable!CountsAgree, Upgradable!TypeOK
  <2>2. readCount \in Nat /\ readCount # 0
    BY <2>1, ThreadSets
  <2>3. readCount' = readCount /\ readers' = readers
    BY <1>1, <1>3, <1>4, <2>2
  <2>4. QED
    BY <1>1, <1>3, <1>4, <2>3
<1>5. ASSUME NEW t \in Threads,
             Upgradable!AcquireWrite(t) \/ Upgradable!ResumeWrite(t)
      PROVE  Upgradable!LeftAlone(u)
  BY <1>1, <1>5
  DEF Upgradable!AcquireWrite, Upgradable!ResumeWrite, Upgradable!EnterWrite,
      Upgradable!Sleep, Upgradable!StayOut, Upgradable!StillWaiting,
      Upgradable!Goto, Upgradable!TypeOK, Upgradable!holders,
      Upgradable!counts, UpgradableHolders
<1>6. ASSUME NEW t \in Threads, Upgradable!ReleaseWrite(t)
      PROVE  Upgradable!LeftAlone(u)
  BY <1>1, <1>6 DEF Upgradable!ReleaseWrite
<1>7. ASSUME NEW t \in Threads,
             Upgradable!AcquireUpgrade(t) \/ Upgradable!ResumeUpgrade(t)
      PROVE  Upgradable!LeftAlone(u)
  <2>1. pc[u] = "waitAlone" /\ upgrader = u /\ u \in Threads
    BY <1>1, <1>7
    DEF Upgradable!AcquireUpgrade, Upgradable!ResumeUpgrade,
        Upgradable!EnterUpgrade, Upgradable!Sleep, Upgradable!StayOut,
        Upgradable!Goto, Upgradable!TypeOK, UpgradableHolders
  <2>2. ~Upgradable!UpgradeFree
    BY <1>1, <2>1, LockClientsAssumption
    DEF Upgradable!UpgradeFree, UpgradableHolders, Upgradable!CountsAgree
  <2>3. QED
    BY <1>1, <1>7, <2>1, <2>2
    DEF Upgradable!AcquireUpgrade, Upgradable!ResumeUpgrade,
        Upgradable!Sleep, Upgradable!StayOut, Upgradable!holders,
        Upgradable!counts
<1>8. ASSUME NEW t \in Threads,
             Upgradable!UpgradeToWrite(t) \/ Upgradable!ResumeUpgradeToWrite(t)
      PROVE  Upgradable!LeftAlone(u)
  <2>1. CASE Upgradable!Convert(t)
    BY <1>1, <2>1 DEF Upgradable!Convert
  <2>2. CASE ~Upgradable!Convert(t)
    <3>1. /\ ~Upgradable!Alone(t)
          /\ UNCHANGED <<readCount, readers>>
          /\ writeReady' \in {writeReady \cup {t}, writeReady \ {t}}
          /\ \A s \in Threads \ {t} : pc'[s] = pc[s]
      BY <1>1, <1>8, <2>2
      DEF Upgradable!UpgradeToWrite, Upgradable!ResumeUpgradeToWrite,
          Upgradable!Sleep, Upgradable!StayOut, Upgradable!StillWaiting,
          Upgradable!Goto, Upgradable!holders, Upgradable!counts,
          Upgradable!TypeOK
    <3>2. u # t
      BY <1>1, <3>1
    <3>3. QED
      BY <1>1, <3>1, <3>2
  <2>3. QED
    BY <2>1, <2>2
<1>9. ASSUME NEW t \in Threads, Upgradable!ReleaseUpgrade(t)
       PROVE  FALSE
  <2>1. pc[u] = "waitAlone" /\ upgrader = u /\ t = u /\ pc[t] = "running"
    BY <1>1, <1>9 DEF Upgradable!ReleaseUpgrade, UpgradableHolders
  <2>2. QED
    BY <2>1
<1>10. ASSUME NEW t \in Threads,
              Upgradable!LeaveUpgraded(t) \/ Upgradable!Expire(t)
       PROVE  Upgradable!LeftAlone(u)
  BY <1>1, <1>10
  DEF Upgradable!LeaveUpgraded, Upgradable!Expire, Upgradable!counts,
      Upgradable!holders, Upgradable!waitSets
<1>11. QED
  BY <1>2, <1>4, <1>5, <1>6, <1>7, <1>8, <1>9, <1>10 DEF Upgradable!Next

(* Three kinds of threads are left asleep beside a lock that is free for    *)
(* them, and each by one step of the code only: readers of the fair lock by *)
(* a writer's timeout, readers of the write-preferring lock by              *)
(* release_write, the upgrader by a notification that reached a writer.     *)
THEOREM OnlyTheseLeftAsleep == Spec => OnlyTheseAreForgotten
<1>1. IInv /\ [Next]_vars =>
        [/\ lock = "fair" => Fair!ReadersWoken
         /\ lock = "write_preferring" => Preferring!ReadersWoken
         /\ lock = "upgradable" => Upgradable!UpgraderWoken]_vars
  <2> SUFFICES ASSUME IInv, Next
               PROVE  /\ lock = "fair" => Fair!ReadersWoken
                      /\ lock = "write_preferring" => Preferring!ReadersWoken
                      /\ lock = "upgradable" => Upgradable!UpgraderWoken
    OBVIOUS
  <2>1. CASE lock = "fair" /\ Fair!Next
    BY <2>1, FairReadersWoken DEF IInv
  <2>2. CASE lock = "basic"
    BY <2>2
  <2>3. CASE lock = "write_preferring" /\ Preferring!Next
    BY <2>3, PreferringReadersWoken DEF IInv
  <2>4. CASE lock = "upgradable" /\ Upgradable!Next
    BY <2>4, UpgradableUpgraderWoken DEF IInv
  <2>5. QED
    BY <2>1, <2>2, <2>3, <2>4
    DEF Next, OfFair, OfBasic, OfPreferring, OfUpgradable
<1>2. QED
  BY <1>1, Inductive, PTL DEF Spec, OnlyTheseAreForgotten

-----------------------------------------------------------------------------
(* The fair lock implements the abstract reader-writer lock, although a     *)
(* reader that acquires twice corrupts the count: release_read can only     *)
(* leave it too high.                                                       *)

LEMMA FairReadStep ==
  ASSUME FairInv, lock = "fair", lock' = lock, NEW t \in Threads, Fair!ReadFree, Fair!EnterRead(t)
  PROVE  Lock!StartReading(t)
<1>1. Writing = {} /\ Writing' = {}
  BY LockClientsAssumption DEF FairInv, FairBooks, Fair!ReadFree, Fair!EnterRead, Writing
<1>2. Reading' = Reading \cup {t}
  <2>1. /\ holds'[t] = holds[t] + 1 /\ holds[t] \in Nat
        /\ \A s \in Threads \ {t} : holds'[s] = holds[s]
    BY DEF Fair!EnterRead, FairInv, Fair!TypeOK
  <2>2. QED
    BY <2>1 DEF Reading, Fair!Reading
<1>3. QED
  BY <1>1, <1>2 DEF Lock!StartReading

LEMMA FairWriteStep ==
  ASSUME FairInv, lock = "fair", lock' = lock, NEW t \in Threads, Fair!WriteFree, Fair!EnterWrite(t)
  PROVE  Lock!StartWriting(t)
<1>1. Cardinality(Fair!Tickets) = 0
  BY TicketsFinite, GoneFinite DEF FairInv, FairBooks, Fair!WriteFree, Fair!TypeOK
<1>2. Reading = {} /\ Reading' = {}
  BY <1>1, NoTickets DEF FairInv, Reading, Fair!Reading, Fair!EnterWrite
<1>3. Writing = {} /\ Writing' = {t}
  BY LockClientsAssumption DEF FairInv, FairBooks, Fair!WriteFree, Fair!EnterWrite, Writing
<1>4. QED
  BY <1>2, <1>3 DEF Lock!StartWriting

LEMMA FairReleaseReadStep ==
  ASSUME FairInv, lock = "fair", lock' = lock, NEW t \in Threads, Fair!ReleaseRead(t)
  PROVE  Lock!StopReading(t) \/ UNCHANGED Lock!rwVars
<1>1. /\ holds[t] \in Nat /\ holds[t] > 0 /\ holds'[t] = holds[t] - 1
      /\ \A s \in Threads \ {t} : holds'[s] = holds[s]
  BY DEF Fair!ReleaseRead, FairInv, Fair!TypeOK
<1>2. Writing' = Writing
  BY DEF Fair!ReleaseRead, Writing
<1>3. CASE holds[t] = 1
  <2>1. t \in Reading /\ Reading' = Reading \ {t}
    BY <1>1, <1>3 DEF Reading, Fair!Reading
  <2>2. QED
    BY <1>2, <2>1 DEF Lock!StopReading
<1>4. CASE holds[t] # 1
  <2>1. Reading' = Reading
    BY <1>1, <1>4 DEF Reading, Fair!Reading
  <2>2. QED
    BY <1>2, <2>1 DEF Lock!rwVars
<1>5. QED
  BY <1>3, <1>4

LEMMA FairReleaseWriteStep ==
  ASSUME FairInv, lock = "fair", lock' = lock, NEW t \in Threads, Fair!ReleaseWrite(t)
  PROVE  Lock!StopWriting(t)
<1>1. t \in Writing /\ Writing' = Writing \ {t}
  BY LockClientsAssumption DEF Fair!ReleaseWrite, Writing
<1>2. Reading' = Reading
  BY DEF Fair!ReleaseWrite, Reading, Fair!Reading
<1>3. QED
  BY <1>1, <1>2 DEF Lock!StopWriting

LEMMA FairLockStep ==
  ASSUME FairInv, lock = "fair", lock' = lock, Fair!Next
  PROVE  [Lock!RWNext]_(Lock!rwVars)
<1>1. ASSUME UNCHANGED <<holds, writer>> PROVE UNCHANGED Lock!rwVars
  BY <1>1 DEF Lock!rwVars, Reading, Fair!Reading, Writing
<1>2. PICK t \in Threads :
        \/ Fair!ReadFree /\ Fair!EnterRead(t)
        \/ Fair!WriteFree /\ Fair!EnterWrite(t)
        \/ Fair!ReleaseRead(t) \/ Fair!ReleaseWrite(t)
        \/ UNCHANGED <<holds, writer>>
  BY DEF Fair!Next, Fair!AcquireRead, Fair!ResumeRead, Fair!AcquireWrite,
         Fair!ResumeWrite, Fair!GiveUpWrite, Fair!Expire
<1>3. QED
  BY <1>1, <1>2, FairReadStep, FairWriteStep, FairReleaseReadStep,
     FairReleaseWriteStep DEF Lock!RWNext

-----------------------------------------------------------------------------
(* The upgradable lock implements it, too.                                  *)

LEMMA ReadSide ==
  ASSUME UpgradableInv, lock = "upgradable", lock' = lock, NEW t \in Threads,
         \/ Upgradable!ReadFree /\ Upgradable!EnterRead(t)
         \/ Upgradable!UpgradeFree /\ Upgradable!EnterUpgrade(t)
         \/ Upgradable!ReleaseRead(t) \/ Upgradable!ReleaseUpgrade(t)
  PROVE  Lock!StartReading(t) \/ Lock!StopReading(t)
<1>1. writer' = writer
  BY DEF Upgradable!EnterRead, Upgradable!EnterUpgrade, Upgradable!ReleaseRead,
         Upgradable!ReleaseUpgrade
<1>2. CASE Upgradable!ReleaseRead(t) \/ Upgradable!ReleaseUpgrade(t)
  <2>1. t \in readers /\ readers' = readers \ {t}
    BY <1>2, LockClientsAssumption
    DEF Upgradable!ReleaseRead, Upgradable!ReleaseUpgrade, UpgradableInv,
        UpgradableHolders, Upgradable!CountsAgree
  <2>2. QED
    BY <1>1, <2>1 DEF Lock!StopReading, Reading, Writing
<1>3. CASE \/ Upgradable!ReadFree /\ Upgradable!EnterRead(t)
           \/ Upgradable!UpgradeFree /\ Upgradable!EnterUpgrade(t)
  <2>1. writer = NoThread /\ readers' = readers \cup {t}
    BY <1>3
    DEF Upgradable!ReadFree, Upgradable!EnterRead, Upgradable!UpgradeFree,
        Upgradable!EnterUpgrade, UpgradableInv, UpgradableHolders,
        Upgradable!CountsAgree
  <2>2. QED
    BY <1>1, <2>1 DEF Lock!StartReading, Reading, Writing
<1>4. QED
  BY <1>2, <1>3

LEMMA WriteSide ==
  ASSUME UpgradableInv, lock = "upgradable", lock' = lock, NEW t \in Threads
  PROVE  /\ Upgradable!WriteFree /\ Upgradable!EnterWrite(t) => Lock!StartWriting(t)
         /\ Upgradable!ReleaseWrite(t) => Lock!StopWriting(t)
         /\ Upgradable!Alone(t) /\ Upgradable!Convert(t) => Lock!Upgrade(t)
<1>1. /\ readCount = Cardinality(readers) /\ readers \in SUBSET Threads
      /\ writeCount = 0 <=> writer = NoThread
      /\ writer # NoThread => readers = {}
  BY UpgradableCardinality DEF UpgradableInv, Upgradable!TypeOK, UpgradableHolders,
     Upgradable!CountsAgree
<1>2. ASSUME Upgradable!WriteFree, Upgradable!EnterWrite(t)
      PROVE  Lock!StartWriting(t)
  <2>1. readers = {} /\ writer = NoThread
    BY <1>1, <1>2, ThreadSets DEF Upgradable!WriteFree
  <2>2. readers' = readers /\ writer' = t
    BY <1>2 DEF Upgradable!EnterWrite
  <2>3. QED
    BY <2>1, <2>2, LockClientsAssumption DEF Lock!StartWriting, Reading, Writing
<1>3. ASSUME Upgradable!ReleaseWrite(t)
      PROVE  Lock!StopWriting(t)
  BY <1>3, LockClientsAssumption
  DEF Upgradable!ReleaseWrite, Lock!StopWriting, Reading, Writing
<1>4. ASSUME Upgradable!Alone(t), Upgradable!Convert(t)
      PROVE  Lock!Upgrade(t)
  <2>1. t \in readers /\ Cardinality(readers) = 1
    BY <1>1, <1>4 DEF Upgradable!Alone
  <2>2. Cardinality(readers \ {t}) = 0
    BY <1>1, <2>1, ThreadSets
  <2>3. readers \ {t} = {}
    BY <1>1, <2>2, ThreadSets
  <2>4. /\ readers = {t} /\ writer = NoThread
        /\ readers' = {} /\ writer' = t
    BY <1>1, <1>4, <2>1, <2>3 DEF Upgradable!Convert
  <2>5. QED
    BY <2>4, LockClientsAssumption DEF Lock!Upgrade, Reading, Writing
<1>5. QED
  BY <1>2, <1>3, <1>4

LEMMA LockStep ==
  ASSUME IInv, [Next]_vars
  PROVE  [Lock!RWNext]_(Lock!rwVars)
<1> USE DEF Lock!RWNext
<1>1. ASSUME lock' = lock, lock # "fair",
             lock # "upgradable" \/ UNCHANGED <<readers, writer>>
      PROVE  UNCHANGED Lock!rwVars
  BY <1>1 DEF Lock!rwVars, Reading, Writing
<1>2. CASE OfBasic \/ OfPreferring
  <2>1. lock' = lock /\ lock # "fair" /\ lock # "upgradable"
    BY <1>2 DEF OfBasic, OfPreferring
  <2>2. QED
    BY <1>1, <2>1
<1>3. CASE Upgradable!Next /\ OfUpgradable
  <2>1. lock = "upgradable" /\ lock' = lock /\ UpgradableInv
    BY <1>3 DEF OfUpgradable, IInv
  <2>2. PICK t \in Threads :
          \/ UNCHANGED <<readers, writer>>
          \/ Upgradable!ReadFree /\ Upgradable!EnterRead(t)
          \/ Upgradable!UpgradeFree /\ Upgradable!EnterUpgrade(t)
          \/ Upgradable!ReleaseRead(t) \/ Upgradable!ReleaseUpgrade(t)
          \/ Upgradable!WriteFree /\ Upgradable!EnterWrite(t)
          \/ Upgradable!ReleaseWrite(t)
          \/ Upgradable!Alone(t) /\ Upgradable!Convert(t)
    BY <1>3
    DEF Upgradable!Next, Upgradable!AcquireRead, Upgradable!ResumeRead,
        Upgradable!AcquireWrite, Upgradable!ResumeWrite,
        Upgradable!AcquireUpgrade, Upgradable!ResumeUpgrade,
        Upgradable!UpgradeToWrite, Upgradable!ResumeUpgradeToWrite,
        Upgradable!LeaveUpgraded, Upgradable!Expire, Upgradable!Sleep,
        Upgradable!StayOut, Upgradable!holders
  <2>3. QED
    BY <1>1, <2>1, <2>2, ReadSide, WriteSide
<1>4. CASE Fair!Next /\ OfFair
  BY <1>4, FairLockStep DEF OfFair, IInv
<1>5. CASE UNCHANGED vars
  BY <1>5 DEF vars, Lock!rwVars, Reading, Fair!Reading, Writing
<1>6. QED
  BY <1>2, <1>3, <1>4, <1>5 DEF Next

(* Readers and writers of the fair and of the upgradable lock exclude each  *)
(* other, and an upgrade lets nobody in between.                            *)
THEOREM Refinement == Spec => ImplementsLock
<1>1. Init => Lock!RWInit
  BY LockClientsAssumption
  DEF Init, Lock!RWInit, Reading, Fair!Reading, Writing, Fair!Init,
      Upgradable!Init
<1>2. IInv /\ [Next]_vars => [Lock!RWNext]_(Lock!rwVars)
  BY LockStep
<1>3. QED
  BY <1>1, <1>2, Inductive, PTL DEF Spec, ImplementsLock, Lock!RWSpec

=============================================================================
