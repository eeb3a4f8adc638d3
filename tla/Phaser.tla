-------------------------------- MODULE Phaser -------------------------------
(***************************************************************************)
(* Phaser of synchronization/barriers.py, without a parent: a barrier whose*)
(* parties may come and go.  The code counts; who the parties are, and who *)
(* has arrived in which phase, is known to the clients only (members and   *)
(* arrivedIn).  A member arrives once per phase, as the class intends; it  *)
(* may wait for the end of a phase in which it arrived.                    *)
(***************************************************************************)
EXTENDS Integers, FiniteSets

CONSTANTS Clients,       (* the threads                               *)
          Founders,      (* the parties of the constructor            *)
          TimedClients,  (* the threads that pass a timeout           *)
          MaxPhase       (* bound: no call but a return begins later  *)

VARIABLES
  phase, parties, arrived, terminated,  (* the fields of the same names  *)
  phaserAsleep,                         (* the wait set of _condition    *)
  phaserPc,       (* "outside" or, inside a waiting call, "waiting"      *)
  phaserExpired,  (* threads whose timeout elapsed                       *)
  awaited,        (* the phase whose end a thread awaits                 *)
  members,        (* the clients that are registered                     *)
  arrivedIn,      (* the last phase in which a client arrived            *)
  refused,        (* clients told "Too many arrivals"                    *)
  deregistered    (* history: arrive_and_deregister was called           *)

phaserVars == <<phase, parties, arrived, terminated, phaserAsleep, phaserPc,
                phaserExpired, awaited, members, arrivedIn, refused,
                deregistered>>

Init ==
  /\ phase = 0 /\ parties = Cardinality(Founders) /\ arrived = 0
  /\ terminated = FALSE
  /\ phaserAsleep = {}
  /\ phaserPc = [c \in Clients |-> "outside"]
  /\ phaserExpired = {}
  /\ awaited = [c \in Clients |-> -1]
  /\ members = Founders
  /\ arrivedIn = [c \in Clients |-> -1]
  /\ refused = {}
  /\ deregistered = FALSE

-----------------------------------------------------------------------------
(* A call begins. *)
Call(c) == phaserPc[c] = "outside" /\ ~terminated /\ phase < MaxPhase

Arriving(c) == Call(c) /\ c \in members /\ arrivedIn[c] # phase

(* _advance_phase *)
AdvancePhase ==
  /\ phase' = phase + 1
  /\ arrived' = 0
  /\ phaserAsleep' = {}

(* _terminate *)
Terminate == terminated' = TRUE /\ phaserAsleep' = {}

(* The thread sleeps in Condition.wait() until phase p has ended. *)
Sleep(c, p) ==
  /\ phaserPc' = [phaserPc EXCEPT ![c] = "waiting"]
  /\ awaited' = [awaited EXCEPT ![c] = p]

Register(c) ==
  /\ Call(c) /\ c \notin members
  /\ members' = members \cup {c}
  /\ parties' = parties + 1
  /\ UNCHANGED <<phase, arrived, terminated, phaserAsleep, phaserPc,
                 phaserExpired, awaited, arrivedIn, refused, deregistered>>

(* arrive() and arrive_and_await_advance() raise. *)
Refuse(c) ==
  /\ Arriving(c)
  /\ arrived >= parties
  /\ refused' = refused \cup {c}
  /\ UNCHANGED <<phase, parties, arrived, terminated, phaserAsleep, phaserPc,
                 phaserExpired, awaited, members, arrivedIn, deregistered>>

(* Faulty variant: the last party but one ends the phase. *)
ArriveEarly(c) ==
  /\ Arriving(c)
  /\ arrived < parties
  /\ arrivedIn' = [arrivedIn EXCEPT ![c] = phase]
  /\ IF arrived + 1 >= parties - 1
       THEN AdvancePhase
       ELSE arrived' = arrived + 1 /\ UNCHANGED <<phase, phaserAsleep>>
  /\ UNCHANGED <<parties, terminated, phaserPc, phaserExpired, awaited,
                 members, refused, deregistered>>
Arrive(c) ==
  /\ Arriving(c)
  /\ arrived < parties
  /\ arrivedIn' = [arrivedIn EXCEPT ![c] = phase]
  /\ IF arrived + 1 = parties
       THEN AdvancePhase
       ELSE arrived' = arrived + 1 /\ UNCHANGED <<phase, phaserAsleep>>
  /\ UNCHANGED <<parties, terminated, phaserPc, phaserExpired, awaited,
                 members, refused, deregistered>>

ArriveAndAwaitAdvance(c) ==
  /\ Arriving(c)
  /\ arrived < parties
  /\ arrivedIn' = [arrivedIn EXCEPT ![c] = phase]
  /\ \/ /\ arrived + 1 = parties
        /\ AdvancePhase
        /\ UNCHANGED <<phaserPc, awaited>>
     \/ /\ arrived + 1 # parties
        /\ arrived' = arrived + 1
        /\ phaserAsleep' = phaserAsleep \cup {c}
        /\ Sleep(c, phase)
        /\ UNCHANGED phase
  /\ UNCHANGED <<parties, terminated, phaserExpired, members, refused,
                 deregistered>>

(* The arrival is counted and the party is not, so that two things change   *)
(* in the comparison at once.                                               *)
ArriveAndDeregister(c) ==
  /\ Arriving(c)
  /\ parties > 0
  /\ arrivedIn' = [arrivedIn EXCEPT ![c] = phase]
  /\ members' = members \ {c}
  /\ parties' = parties - 1
  /\ deregistered' = TRUE
  /\ \/ /\ parties' = 0
        /\ Terminate
        /\ arrived' = arrived + 1
        /\ UNCHANGED phase
     \/ /\ parties' # 0
        /\ UNCHANGED terminated
        /\ IF arrived + 1 = parties'
             THEN AdvancePhase
             ELSE arrived' = arrived + 1 /\ UNCHANGED <<phase, phaserAsleep>>
  /\ UNCHANGED <<phaserPc, phaserExpired, awaited, refused>>

(* await_advance(phase), by a party that has arrived or by an observer.     *)
AwaitAdvance(c) ==
  /\ Call(c)
  /\ c \in members => arrivedIn[c] = phase
  /\ Sleep(c, phase)
  /\ phaserAsleep' = phaserAsleep \cup {c}
  /\ UNCHANGED <<phase, parties, arrived, terminated, phaserExpired, members,
                 arrivedIn, refused, deregistered>>

(* The waiting call of a thread ends, after a notification or a timeout.    *)
Return(c) ==
  /\ phaserPc[c] = "waiting"
  /\ c \notin phaserAsleep \/ c \in phaserExpired
  /\ phaserPc' = [phaserPc EXCEPT ![c] = "outside"]
  /\ phaserAsleep' = phaserAsleep \ {c}
  /\ phaserExpired' = phaserExpired \ {c}
  /\ UNCHANGED <<phase, parties, arrived, terminated, awaited, members,
                 arrivedIn, refused, deregistered>>

ForceTermination ==
  /\ Terminate
  /\ UNCHANGED <<phase, parties, arrived, phaserPc, phaserExpired, awaited,
                 members, arrivedIn, refused, deregistered>>

Expire(c) ==
  /\ c \in TimedClients \cap phaserAsleep
  /\ phaserExpired' = phaserExpired \cup {c}
  /\ UNCHANGED <<phase, parties, arrived, terminated, phaserAsleep, phaserPc,
                 awaited, members, arrivedIn, refused, deregistered>>

Next ==
  \/ \E c \in Clients :
       \/ Register(c) \/ Refuse(c) \/ Arrive(c) \/ ArriveAndAwaitAdvance(c)
       \/ ArriveAndDeregister(c) \/ AwaitAdvance(c) \/ Return(c) \/ Expire(c)
  \/ ForceTermination

Spec == Init /\ [][Next]_phaserVars

Obliged(c) == Return(c) \/ Expire(c)

FairSpec == Spec /\ \A c \in Clients : WF_phaserVars(Obliged(c))

-----------------------------------------------------------------------------
(* Properties *)

(* Until a party leaves, the two counts are what the clients know, and a    *)
(* client that keeps to one arrival per phase is never refused.             *)
PhaserCounts ==
  ~deregistered =>
    /\ parties = Cardinality(members)
    /\ ~terminated /\ phase < MaxPhase =>
         arrived = Cardinality({c \in members : arrivedIn[c] = phase})
    /\ refused = {}

AllArrived == \A c \in members' : arrivedIn'[c] = phase

(* Until a party leaves a phase ends when every registered one has arrived  *)
(* in it; arrive_and_deregister counts an arrival and one party less.       *)
AdvanceUntilDeregistration ==
  [][phase' # phase => deregistered' \/ AllArrived]_phaserVars

(* Nobody sleeps for a phase that is over, or in a terminated phaser: each  *)
(* thread that waits for either goes on.                                    *)
PhaserReleases ==
  \A c \in Clients :
    phaserPc[c] = "waiting" /\ (terminated \/ phase # awaited[c])
      ~> phaserPc[c] = "outside"
=============================================================================
