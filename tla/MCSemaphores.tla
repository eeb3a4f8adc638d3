----------------------------- MODULE MCSemaphores ----------------------------
(***************************************************************************)
(* The semaphores and the resource pool for TLC.  A behaviour is about one *)
(* of them, its subject; those with common variables share them.           *)
(***************************************************************************)
EXTENDS ResourcePool

CONSTANTS Priority,
          Subjects,      (* the classes to check                         *)
          Urgent,        (* the threads with priority 1                  *)
          Relaxed        (* ... and with priority 2; the others have 3   *)

ASSUME PriorityAssumption == Priority \in [Threads -> Int]

VARIABLES subject, queue, granted, lost, gaveUp

G == INSTANCE GrantedSemaphore

ofGranted == <<queue, granted, lost, gaveUp>>
ofPool == <<shelf, hand, stage>>
allVars == <<subject, poolVars, ofGranted>>

MCPriority == [t \in Threads |-> IF t \in Urgent THEN 1
                                  ELSE IF t \in Relaxed THEN 2 ELSE 3]

MCInit ==
  /\ subject \in Subjects
  /\ PoolInit
  /\ queue = <<>> /\ granted = {} /\ lost = 0 /\ gaveUp = FALSE

OfCounting == subject = "counting" /\ UNCHANGED <<subject, ofPool, ofGranted>>
OfPool == subject = "pool" /\ UNCHANGED <<subject, ofGranted>>
OfFair == subject = "fair" /\ UNCHANGED <<subject, asleep, ofPool>>
OfPrior == subject = "priority" /\ UNCHANGED <<subject, asleep, ofPool>>
OfAsync == subject = "async" /\ UNCHANGED <<subject, asleep, ofPool>>

MCNext == \/ Next /\ OfCounting
          \/ PoolNext /\ OfPool
          \/ G!FairNext /\ OfFair
          \/ G!PriorityNext /\ OfPrior
          \/ G!AsyncNext /\ OfAsync

MCSpec ==
  /\ MCInit /\ [][MCNext]_allVars
  /\ \A t \in Threads : /\ WF_allVars(G!FairObliged(t) /\ OfFair)
                        /\ WF_allVars(G!PriorityObliged(t) /\ OfPrior)

-----------------------------------------------------------------------------
(* The properties of the queued semaphores, under names of this module;     *)
(* ResourcePool brings its own.                                             *)

(* In every one of the classes permits are free, held, on their way, or     *)
(* lost; at a FairSemaphore and a PrioritySemaphore none is lost before     *)
(* somebody gives up.  No request of a queued semaphore is lost or left     *)
(* behind.  Nobody sleeps beside enough permits at a CountingSemaphore;     *)
(* the FIRST in line does not at an AsyncSemaphore, unless it is a          *)
(* cancelled task, nor at a PrioritySemaphore before somebody gives up.     *)
(* Whoever is behind the first one may: the code stops at a request that    *)
(* does not fit.  A FairSemaphore promises nothing of the kind, since its   *)
(* acquire() does not look at the permits.                                  *)
NobodyForgotten ==
  /\ G!PermitsAccounted
  /\ NoSleeperFits
  /\ subject \in {"fair", "priority", "async"} => G!QueueIsWaiting
  /\ subject \in {"fair", "priority"} => G!NothingLost
  /\ subject = "priority" => G!FirstWaitsForMore
  /\ subject = "async" => ~G!FirstFits

(* Where permits do get lost, and where the first in line of a              *)
(* PrioritySemaphore does come to sleep beside enough of them: a thread     *)
(* that timed out and was granted its permits before it left keeps them for *)
(* ever; a woken task of an AsyncSemaphore has its permits deducted a       *)
(* second time; the one who leaves the head of the heap serves nobody.      *)
(* Nothing else loses a permit or leaves one idle before the first in line. *)
OnlyTheseLose ==
  /\ [][G!LossStep(subject = "async")]_allVars
  /\ [][subject = "priority" => G!IdleStep]_allVars

(* While requests for one permit are in the queue of a FairSemaphore or an  *)
(* AsyncSemaphore they do not overtake each other, and a PrioritySemaphore  *)
(* passes nobody over for a less urgent thread.  A task of an AsyncSemaphore *)
(* leaves the queue when it is woken and may have to queue up once more, at *)
(* the end: this says nothing of it.                                        *)
ServedInOrder ==
  /\ G!SinglesInOrder
  /\ [][subject = "priority" => G!UrgentStep]_allVars

(* While permits come back, a request for one is served at a FairSemaphore  *)
(* and the most urgent one at a PrioritySemaphore.                          *)
EveryoneServed ==
  /\ subject = "fair" => G!SinglesServed
  /\ subject = "priority" => G!UrgentServed
=============================================================================
