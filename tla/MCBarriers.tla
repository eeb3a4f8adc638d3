------------------------------ MODULE MCBarriers -----------------------------
(***************************************************************************)
(* The barrier, the latch and the phaser for TLC.  A behaviour is about    *)
(* one of them, its subject, and leaves the other two as they are.         *)
(***************************************************************************)
EXTENDS CyclicBarrier

CONSTANTS Subjects,  (* the classes to check *)
          Waiters, TimedWaiters, InitialCount,
          Clients, Founders, TimedClients, MaxPhase

ASSUME ClientsAssumption ==
  /\ InitialCount \in Nat
  /\ IsFiniteSet(Clients)
  /\ Founders \subseteq Clients

VARIABLES
  subject,
  latchCount, latchAsleep, latchPc, latchExpired, latchResult,
  phase, parties, arrived, terminated, phaserAsleep, phaserPc, phaserExpired,
  awaited, members, arrivedIn, refused, deregistered

Latch == INSTANCE CountDownLatch
Phases == INSTANCE Phaser

ofLatch == <<latchCount, latchAsleep, latchPc, latchExpired, latchResult>>
ofPhaser == <<phase, parties, arrived, terminated, phaserAsleep, phaserPc,
              phaserExpired, awaited, members, arrivedIn, refused,
              deregistered>>
allVars == <<subject, vars, ofLatch, ofPhaser>>

MCInit == subject \in Subjects /\ Init /\ Latch!Init /\ Phases!Init

OfBarrier == subject = "barrier" /\ UNCHANGED <<subject, ofLatch, ofPhaser>>
OfLatch == subject = "latch" /\ UNCHANGED <<subject, vars, ofPhaser>>
OfPhaser == subject = "phaser" /\ UNCHANGED <<subject, vars, ofLatch>>

MCNext == \/ Next /\ OfBarrier
          \/ Latch!Next /\ OfLatch
          \/ Phases!Next /\ OfPhaser

MCSpec ==
  /\ MCInit /\ [][MCNext]_allVars
  /\ \A t \in Threads : WF_allVars(Obliged(t) /\ OfBarrier)
  /\ \A w \in Waiters : WF_allVars(Latch!Obliged(w) /\ OfLatch)
  /\ \A c \in Clients : WF_allVars(Phases!Obliged(c) /\ OfPhaser)

-----------------------------------------------------------------------------
(* The properties of the latch and of the phaser, under names of this       *)
(* module; CyclicBarrier brings its own.                                    *)

(* Nobody passes a closed latch or sleeps before an open one; and until a   *)
(* party leaves, the phaser counts parties and arrivals right and ends a    *)
(* phase only when every party has arrived.                                 *)
CountsDecide ==
  /\ [](Latch!LatchHolds /\ Phases!PhaserCounts)
  /\ Phases!AdvanceUntilDeregistration

(* Nobody waits on in a barrier that tripped, broke or was reset, at an     *)
(* open latch, or for a phase that is over.                                 *)
EveryoneReleased ==
  EveryoneLeaves /\ Latch!LatchReleases /\ Phases!PhaserReleases
=============================================================================
