------------------------------- MODULE MCActors ------------------------------
(***************************************************************************)
(* The actor system, the mailboxes, a supervisor and the patterns between  *)
(* actors, for TLC.  A behaviour is about one of them, its subject.        *)
(***************************************************************************)
EXTENDS ActorSystem

CONSTANTS Subjects,
          Receivers, MailRoom, MaxMail,
          ChildIds, Policy, Strategies, MaxRestarts, RequestKinds, MaxRequests, MaxDeaths,
          Peers, MaxCalls, MaxQueue, FailureThreshold, SuccessThreshold, Steps

(* A bounded mailbox has room for a message: with a max_size of 0 its deque *)
(* would have no oldest one to drop.  A circuit breaker tolerates less than *)
(* failure_threshold failures, so that it is at least one.  Users send a    *)
(* supervisor its three public messages, and max_restarts is a count.       *)
ASSUME ActorsAssumption ==
  /\ Receivers # {} /\ IsFiniteSet(Receivers) /\ MailRoom \in Nat \ {0} /\ MaxMail \in Nat
  /\ FailureThreshold \in Nat \ {0} /\ Steps \in Nat
  /\ RequestKinds \subseteq {"StartChild", "StopChild", "RestartChild"} /\ MaxRestarts \in Nat

VARIABLES subject,
          kind, mail, priority, shutMail, blocked, receiving, stash, sent, refused, dropped, taken, held, unstashed,
          strategy, inbox, doing, todo, children, specs, alive, made, watched, records,
          requests, deaths, wished, meddled, raised, granted, disowned, unstarted,
          letters, serving, awaiting, calls, replies,
          breaker, queue, begun, failureCount, successCount, cooled, inRow,
          sagaState, at, completed, undo, undone, runs

M == INSTANCE Mailboxes
S == INSTANCE Supervisor
P == INSTANCE ActorPatterns

ofMail == <<kind, mail, priority, shutMail, blocked, receiving, stash, sent, refused, dropped, taken, held,
            unstashed>>
ofSupervisor == <<strategy, inbox, doing, todo, children, specs, alive, made, watched, records,
                  requests, deaths, wished, meddled, raised, granted, disowned, unstarted>>
ofPeers == <<letters, serving, awaiting, calls, replies>>
ofBreaker == <<breaker, queue, begun, failureCount, successCount, cooled, inRow>>
ofSaga == <<sagaState, at, completed, undo, undone, runs>>
vars == <<subject, actorVars, ofMail, ofSupervisor, ofPeers, ofBreaker, ofSaga>>

MCPolicy == [c \in ChildIds |-> IF c = "job" THEN "TEMPORARY"
                                ELSE IF c = "task" THEN "TRANSIENT" ELSE "PERMANENT"]

Init ==
  /\ subject \in Subjects
  /\ ActorsInit /\ M!MailInit /\ S!SupInit /\ P!PatternsInit
  /\ subject = "mailbox" \/ kind = "unbounded"
  /\ subject = "supervisor" \/ strategy = "ONE_FOR_ONE"

OfSystem(A) == subject = "system" /\ A /\ UNCHANGED <<subject, ofMail, ofSupervisor, ofPeers, ofBreaker, ofSaga>>
OfMail(A) == subject = "mailbox" /\ A /\ UNCHANGED <<subject, actorVars, ofSupervisor, ofPeers, ofBreaker, ofSaga>>
OfSupervisor(A) == subject = "supervisor" /\ A /\ UNCHANGED <<subject, actorVars, ofMail, ofPeers, ofBreaker, ofSaga>>
OfPeers(A) == subject = "peers" /\ A /\ UNCHANGED <<subject, actorVars, ofMail, ofSupervisor, ofBreaker, ofSaga>>
OfBreaker(A) == subject = "breaker" /\ A /\ UNCHANGED <<subject, actorVars, ofMail, ofSupervisor, ofPeers, ofSaga>>
OfSaga(A) == subject = "saga" /\ A /\ UNCHANGED <<subject, actorVars, ofMail, ofSupervisor, ofPeers, ofBreaker>>

Next ==
  \/ OfSystem(ActorsNext)
  \/ OfMail(M!MailNext)
  \/ OfSupervisor(S!SupNext)
  \/ OfPeers(P!PeersNext)
  \/ OfBreaker(P!BreakerNext)
  \/ OfSaga(P!SagaNext)

(* While the task of some actor, a monitor or the supervisor can go on, one *)
(* of them does, and so does a shutdown whose tasks have ended; nobody must *)
(* send, ask or end, and no time must run out.                              *)
Fair ==
  /\ WF_actorVars(subject = "system" /\ (Down \/ \E a \in Actors : ActorStep(a)))
  /\ WF_ofSupervisor(subject = "supervisor" /\ (S!Handler \/ \E w \in watched : S!Notify(w)))

Spec == Init /\ [][Next]_vars /\ Fair

-----------------------------------------------------------------------------
(* An answer belongs to its own ask, after timeouts too, and it has seen    *)
(* what its caller told before; an actor works only while it is open.       *)
AnswersAreOwn ==
  /\ AnswersOwn /\ WorksWhileOpen /\ NoAskLeftOver
  /\ P!RepliesOwn

(* A mailbox holds every message in one place and gives them out in the     *)
(* order of its class: as they came, but for what was put back from a       *)
(* stash, by priority, and for a balancing one in even shares.              *)
MailIsKept == M!MailKept /\ M!MailInOrder /\ M!SharedEvenly

(* No step refuses or loses a message but as drop_policy, the limit or the  *)
(* closing of the mailbox has it.                                           *)
OnlyPolicyLoses == [][M!LosesByPolicy]_ofMail

(* What a failure leads to: a supervisor runs what its books say and        *)
(* restarts as often as ends and policies give reason to, an open circuit   *)
(* stays open, a saga is undone in reverse.                                 *)
FailuresContained == S!ChildrenAsSpecified /\ P!BreakerHolds /\ P!SagaUndoes

(* A shutdown returns when every actor's task has ended, and a supervisor   *)
(* that restarts one for one brings its children back, unless it gives them *)
(* up or cannot start them.                                                 *)
ActorsSettle ==
  /\ ActorsStop
  /\ subject = "supervisor" => S!EndedComeBack

=============================================================================
