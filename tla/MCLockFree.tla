----------------------------- MODULE MCLockFree ------------------------------
(***************************************************************************)
(* The lock-free structures for TLC.  A behaviour is about one of them,    *)
(* its subject.                                                            *)
(***************************************************************************)
EXTENDS LockFreeNodes, TLC

CONSTANTS Subjects, Producers, Consumers, Updaters, Keys

ASSUME RolesAssumption == Producers \cup Consumers \subseteq Threads

VARIABLES subject, content, taken, tail, tl, sent, sawEmpty,
          key, marked, prev, op, want, sure, quiet

E == INSTANCE LockFreeEnds
M == INSTANCE LockFreeEntries

ofEnds == <<tail, tl, sent, sawEmpty>>
ofEntries == <<key, marked, prev, op, want, sure, quiet>>
vars == <<subject, nodeVars, content, taken, ofEnds, ofEntries>>

NoEnds == tail = Nil /\ tl = <<>> /\ sent = <<>> /\ sawEmpty = {}
NoEntries == /\ key = <<>> /\ marked = {} /\ prev = <<>> /\ op = <<>>
             /\ want = <<>> /\ sure = {} /\ quiet = {}

Init ==
  /\ subject \in Subjects
  /\ \/ subject = "stack" /\ E!StackInit /\ NoEnds /\ NoEntries
     \/ subject = "queue" /\ E!QueueInit /\ content = <<>> /\ NoEntries
     \/ subject = "map" /\ M!EntriesInit /\ content = <<>> /\ taken = <<>> /\ NoEnds
     \/ subject = "list" /\ M!EntriesInit /\ content = <<>> /\ taken = <<>> /\ NoEnds

Next ==
  /\ UNCHANGED subject
  /\ \/ subject = "stack" /\ E!StackNext /\ UNCHANGED <<ofEnds, ofEntries>>
     \/ subject = "queue" /\ E!QueueNext /\ UNCHANGED <<content, ofEntries>>
     \/ subject = "map" /\ M!MapNext /\ UNCHANGED <<content, taken, ofEnds>>
     \/ subject = "list" /\ M!ListNext /\ UNCHANGED <<content, taken, ofEnds>>

(* The threads with the same roles may change places. *)
Symmetry == Permutations(Updaters)

Spec == Init /\ [][Next]_vars

-----------------------------------------------------------------------------
(* What is linked is what was put and not taken, however the steps of the   *)
(* threads interleave; the sizes lag behind by the calls that have not      *)
(* counted yet, and dequeue returns None only if the queue was empty.       *)
EndsKept ==
  /\ subject = "stack" => E!StackIsList /\ E!StackSizeLags
  /\ subject = "queue" => E!QueueIsList /\ E!QueueSizeLags /\ E!EmptyIsReal

(* No key of the map has two entries, the list is sorted, and a lookup      *)
(* finds what was surely put and not removed.                               *)
EntriesKept ==
  /\ subject = "map" => M!UniqueKeys
  /\ subject = "list" => M!Sorted
  /\ subject \in {"map", "list"} => M!NothingMissed

(* A stack is a stack, and with one producer the queue is a queue: what     *)
(* pop and dequeue take is what an atomic stack and a channel would give.   *)
Dequeued == IF subject = "queue" THEN taken ELSE <<>>
Channel == INSTANCE FifoChannel
  WITH Items <- Nodes, Capacity <- MaxNodes, sent <- sent, received <- Dequeued,
       open <- TRUE
Linearizable ==
  /\ [][subject = "stack" => E!LastInFirstOut]_<<content, taken>>
  /\ Channel!ChanSpec

(* "Lock-free queue implementation using Michael & Scott algorithm": with   *)
(* several producers, too, what was enqueued is in the list.                *)
NoItemLost == subject = "queue" => E!QueueIsList
=============================================================================
