---------------------------- MODULE ActorPatterns ----------------------------
(***************************************************************************)
(* actor_model/patterns.py: request and response between actors, the       *)
(* circuit breaker and the saga.  Their method tell, which Actor does not  *)
(* have, is external: it delivers as ActorRef.tell does.                   *)
(***************************************************************************)
EXTENDS Integers, Sequences, FiniteSets, SequencesExt

CONSTANTS Peers,                     (* RequestResponseActors                 *)
          MaxCalls,                  (* bound: asks of each                   *)
          MaxQueue,                  (* bound: requests the breaker has yet   *)
                                     (* to handle                             *)
          FailureThreshold, SuccessThreshold,
          Steps                      (* number of the saga's steps            *)

VARIABLES letters,   (* peer -> its mailbox                                   *)
          serving,   (* peer -> the request in handle_request, or Nobody      *)
          awaiting,  (* peer -> its ask from inside (handle_request) and from *)
                     (* outside: the id of the request and its future         *)
          calls,     (* peer -> requests made so far                          *)
          replies,   (* history: <<peer, request, what came back>>            *)
          breaker,   (* CircuitBreakerActor.state, which is Actor.state too   *)
          queue,     (* the breaker's mailbox: number of requests             *)
          begun,     (* the message loop has begun                            *)
          failureCount, successCount, cooled,  (* the timeout has passed      *)
          inRow,     (* history: forwards that failed since one succeeded     *)
          sagaState, at, completed,            (* the loop, completed_steps   *)
          undo,      (* completed steps that _compensate has yet to undo      *)
          undone,    (* history: the compensations called, in order           *)
          runs       (* history: calls of execute_saga                        *)

peerVars == <<letters, serving, awaiting, calls, replies>>
breakerVars == <<breaker, queue, begun, failureCount, successCount, cooled, inRow>>
sagaVars == <<sagaState, at, completed, undo, undone, runs>>

Nobody == [kind |-> "nobody"]
NoFuture == [n |-> 0, future |-> 0]

PatternsInit ==
  /\ letters = [p \in Peers |-> <<>>] /\ serving = [p \in Peers |-> Nobody]
  /\ awaiting = [s \in Peers \X {"inside", "outside"} |-> NoFuture]
  /\ calls = [p \in Peers |-> 0] /\ replies = {}
  /\ breaker = "CLOSED" /\ queue = 0
  /\ begun = FALSE /\ failureCount = 0 /\ successCount = 0 /\ cooled = FALSE /\ inRow = 0
  /\ sagaState = "pending" /\ at = 1 /\ completed = <<>> /\ undo = <<>> /\ undone = <<>> /\ runs = 1

-----------------------------------------------------------------------------
(* RequestResponseActor.ask: from a task of its own, or from its handler.   *)
Ask(p, where, to) ==
  /\ awaiting[<<p, where>>] = NoFuture /\ calls[p] < MaxCalls
  /\ where = "inside" => serving[p] # Nobody
  /\ calls' = [calls EXCEPT ![p] = @ + 1]
  /\ awaiting' = [awaiting EXCEPT ![<<p, where>>] = [n |-> calls[p] + 1, future |-> 0]]
  /\ letters' = [letters EXCEPT ![to] = Append(@, [kind |-> "request", n |-> calls[p] + 1, by |-> p])]
  /\ UNCHANGED <<serving, replies>>

AskEnds(p, where) ==
  /\ awaiting[<<p, where>>].n # 0     \* with the response, or with the timeout
  /\ replies' = replies \cup {<<p, awaiting[<<p, where>>].n, awaiting[<<p, where>>].future>>}
  /\ awaiting' = [awaiting EXCEPT ![<<p, where>>] = NoFuture]
  /\ UNCHANGED <<letters, serving, calls>>

(* receive: a request is handled, a response completes its future, if that  *)
(* is still pending.  While it handles a request it receives nothing.       *)
ReceiveRequest(p) ==
  /\ serving[p] = Nobody /\ letters[p] # <<>> /\ Head(letters[p]).kind = "request"
  /\ serving' = [serving EXCEPT ![p] = Head(letters[p])]
  /\ letters' = [letters EXCEPT ![p] = Tail(@)]
  /\ UNCHANGED <<awaiting, calls, replies>>

(* handle_request has returned or raised.                                   *)
Answer(p) ==
  /\ serving[p] # Nobody /\ awaiting[<<p, "inside">>] = NoFuture
  /\ serving' = [serving EXCEPT ![p] = Nobody]
  /\ letters' = [letters EXCEPT ![serving[p].by] = Append(@, [kind |-> "response", n |-> serving[p].n])]
  /\ UNCHANGED <<awaiting, calls, replies>>

ReceiveResponse(p) ==
  /\ serving[p] = Nobody /\ letters[p] # <<>> /\ Head(letters[p]).kind = "response"
  /\ letters' = [letters EXCEPT ![p] = Tail(@)]
  /\ LET n == Head(letters[p]).n
     IN awaiting' = [s \in DOMAIN awaiting |->
          IF s[1] = p /\ awaiting[s].n = n THEN [awaiting[s] EXCEPT !.future = n] ELSE awaiting[s]]
  /\ UNCHANGED <<serving, calls, replies>>

PeersNext ==
  \E p \in Peers :
    \/ ReceiveRequest(p) \/ Answer(p) \/ ReceiveResponse(p)
    \/ \E where \in {"inside", "outside"} :
         AskEnds(p, where) \/ \E q \in Peers \ {p} : Ask(p, where, q)

-----------------------------------------------------------------------------
(* CircuitBreakerActor.  Its state is the field in which the message loop   *)
(* notes RUNNING, once, and in which the delivery looks: what is sent to it *)
(* after it has opened is dropped, also when it is CLOSED again; what came  *)
(* before is handled.                                                       *)

BreakerBegins ==
  /\ breaker = "CLOSED" /\ ~ begun /\ breaker' = "RUNNING" /\ begun' = TRUE
  /\ UNCHANGED <<queue, failureCount, successCount, cooled, inRow>>

RequestBreaker ==
  /\ breaker = "RUNNING" /\ queue < MaxQueue
  /\ queue' = queue + 1
  /\ UNCHANGED <<breaker, begun, failureCount, successCount, cooled, inRow>>

Cool ==
  /\ breaker = "OPEN" /\ ~ cooled /\ cooled' = TRUE
  /\ UNCHANGED <<breaker, queue, begun, failureCount, successCount, inRow>>

(* _handle_request of an open circuit.                                      *)
Reject ==
  /\ queue > 0 /\ breaker = "OPEN" /\ ~ cooled
  /\ queue' = queue - 1
  /\ UNCHANGED <<breaker, begun, failureCount, successCount, cooled, inRow>>

(* ... and of one that lets it through, where half open is what it becomes  *)
(* when the timeout has passed.                                             *)
Through == queue > 0 /\ (breaker = "OPEN" => cooled) /\ queue' = queue - 1 /\ UNCHANGED begun
HalfOpen == breaker \in {"OPEN", "HALF_OPEN"}
Probes == IF breaker = "OPEN" THEN 0 ELSE successCount

Succeed ==
  /\ Through
  /\ successCount' = IF HalfOpen THEN Probes + 1 ELSE successCount
  /\ breaker' = IF HalfOpen THEN IF Probes + 1 >= SuccessThreshold THEN "CLOSED" ELSE "HALF_OPEN"
                ELSE breaker
  /\ failureCount' = IF breaker' = "CLOSED" THEN 0 ELSE failureCount
  /\ inRow' = 0 /\ UNCHANGED cooled

(* Faulty variant: one more failure is allowed.                             *)
FailLate ==
  /\ Through
  /\ failureCount' = failureCount + 1 /\ successCount' = Probes /\ inRow' = inRow + 1
  /\ breaker' = IF failureCount + 1 > FailureThreshold THEN "OPEN"
                ELSE IF HalfOpen THEN "HALF_OPEN" ELSE breaker
  /\ cooled' = FALSE
Fail ==
  /\ Through
  /\ failureCount' = failureCount + 1 /\ successCount' = Probes /\ inRow' = inRow + 1
  /\ breaker' = IF failureCount + 1 >= FailureThreshold THEN "OPEN"
                ELSE IF HalfOpen THEN "HALF_OPEN" ELSE breaker
  /\ cooled' = FALSE

BreakerNext == BreakerBegins \/ RequestBreaker \/ Cool \/ Reject \/ Succeed \/ Fail

-----------------------------------------------------------------------------
(* SagaActor.execute_saga.  A saga that has failed may be executed again.   *)

Execute ==
  /\ sagaState = "compensated" /\ at' = 1 /\ sagaState' = "pending"
  /\ runs = 1 /\ runs' = 2
  /\ UNCHANGED <<completed, undo, undone>>

Act ==
  /\ sagaState = "pending" /\ at <= Steps
  /\ completed' = Append(completed, at) /\ at' = at + 1
  /\ UNCHANGED <<sagaState, undo, undone, runs>>

Complete ==
  /\ sagaState = "pending" /\ at > Steps /\ sagaState' = "completed"
  /\ UNCHANGED <<at, completed, undo, undone, runs>>

ActRaises ==
  /\ sagaState = "pending" /\ at <= Steps
  /\ sagaState' = "compensating" /\ undo' = Reverse(completed)
  /\ UNCHANGED <<at, completed, undone, runs>>

(* A cancelled task ends without compensation.                              *)
Cancel ==
  /\ sagaState \in {"pending", "compensating"} /\ sagaState' = "cancelled"
  /\ UNCHANGED <<at, completed, undo, undone, runs>>

(* _compensate calls one compensation after the other, whether they raise   *)
(* or not.                                                                  *)
Compensate ==
  /\ sagaState = "compensating" /\ undo # <<>>
  /\ undo' = Tail(undo) /\ undone' = Append(undone, Head(undo))
  /\ UNCHANGED <<sagaState, at, completed, runs>>
Compensated ==
  /\ sagaState = "compensating" /\ undo = <<>> /\ sagaState' = "compensated"
  /\ UNCHANGED <<at, completed, undo, undone, runs>>

SagaNext == Execute \/ Act \/ Complete \/ ActRaises \/ Cancel \/ Compensate \/ Compensated

-----------------------------------------------------------------------------
(* Properties *)

(* What an ask returns answers its own request, also after a timeout.       *)
RepliesOwn == \A r \in replies : r[3] \in {0, r[2]}

(* After FailureThreshold failures in a row nothing reaches the target      *)
(* before the timeout has passed, and the circuit never closes on it.       *)
BreakerHolds == inRow >= FailureThreshold => breaker = "OPEN"

(* Compensation undoes the completed steps, the last one first; after one   *)
(* execution a saga has done each step and not undone it, or undone exactly *)
(* what it did.                                                             *)
SagaUndoes ==
  /\ sagaState \in {"compensating", "compensated"} => IsSuffix(Reverse(completed), undone \o undo)
  /\ sagaState = "compensated" /\ runs = 1 => undone = Reverse(completed)
  /\ sagaState = "completed" => IsSuffix([i \in 1 .. Steps |-> i], completed)
=============================================================================
