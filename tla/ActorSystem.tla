----------------------------- MODULE ActorSystem -----------------------------
(***************************************************************************)
(* actor_model/actor_system.py: actors, the references through which tasks *)
(* tell and ask them, and the system that creates and stops them.  Tasks   *)
(* interleave where they await.  What an actor does with a message is up   *)
(* to its class: it returns a value, returns None, or raises; here it is a *)
(* CounterActor, or a ForwarderActor that asks another one.                *)
(***************************************************************************)
EXTENDS Integers, Sequences, FiniteSets

CONSTANTS Actors, Callers,
          Answering,    (* actors whose receive also takes an AskMessage; the *)
                        (* repository's own take a UserMessage only           *)
          Forwarders, Target,  (* these ask Target what they receive          *)
          MaxMessages,  (* bound: messages of each caller                     *)
          MaxFailures   (* bound: hooks and receives that raise               *)

VARIABLES sys,       (* "running"; in shutdown() "stopping" and, when the     *)
                     (* time is over, "cancelled"; then "down" or "forced"    *)
          actors,    (* the keys of _actors                                   *)
          state,     (* actor -> its ActorState; "TORN" is STOPPING for good, *)
                     (* the task having ended in post_stop                    *)
          stopFlag,  (* the actors with _stopping                             *)
          mailbox, handling, (* actor -> the queue, the message it works on   *)
          opened,    (* the actors after pre_start and before post_stop       *)
          count,     (* actor -> CounterActor.count                           *)
          asking,    (* task -> the ask it awaits: its number, its future,    *)
                     (* and history: which ask the answer is for, its value,  *)
                     (* and the increments told before                        *)
          registered,(* the keys of _pending_asks                             *)
          asked,     (* task -> the messages it has sent so far               *)
          counted,   (* history: <<task, actor>> -> its increments accepted   *)
          failures

actorVars == <<sys, actors, state, stopFlag, mailbox, handling, opened, count,
               asking, registered, asked, counted, failures>>
lifeVars == <<sys, actors, state, stopFlag, opened>>
callVars == <<asking, registered, asked, counted>>

Nothing == [kind |-> "nothing"]
Askers == Callers \cup Forwarders
Stop == [kind |-> "stop"]
Restart == [kind |-> "restart"]
Accepting == {"RUNNING", "STARTING"}
NotAsking == [future |-> "none"]

ActorsInit ==
  /\ sys = "running" /\ actors = {}
  /\ state = [a \in Actors |-> "CREATED"]
  /\ stopFlag = {} /\ opened = {}
  /\ mailbox = [a \in Actors |-> <<>>]
  /\ handling = [a \in Actors |-> Nothing]
  /\ count = [a \in Actors |-> 0]
  /\ asking = [t \in Askers |-> NotAsking] /\ registered = {}
  /\ asked = [t \in Askers |-> 0]
  /\ counted = [p \in Callers \X Actors |-> 0]
  /\ failures = 0

-----------------------------------------------------------------------------
(* _deliver_message drops what is for an unknown actor, for one whose task  *)
(* has not begun, and for one that has ended.                               *)
Delivers(a) == a \in actors /\ state[a] \in Accepting
Deliver(a, m) ==
  mailbox' = IF Delivers(a) THEN [mailbox EXCEPT ![a] = Append(@, m)] ELSE mailbox

(* A task that has a reference, which actor_of returns, sends.              *)
Created == actors \cup stopFlag
Sends(t, a) == a \in Created /\ asking[t] = NotAsking /\ asked[t] < MaxMessages

(* ActorRef.tell.                                                           *)
Tell(t, a) ==
  /\ Sends(t, a)
  /\ Deliver(a, [kind |-> "user", by |-> t])
  /\ asked' = [asked EXCEPT ![t] = @ + 1]
  /\ counted' = IF Delivers(a) THEN [counted EXCEPT ![<<t, a>>] = @ + 1] ELSE counted
  /\ UNCHANGED <<lifeVars, handling, count, asking, registered, failures>>

(* A system message may be told by anyone.                                  *)
TellSystem(t, a, m) ==
  /\ Sends(t, a) /\ Deliver(a, m)
  /\ asked' = [asked EXCEPT ![t] = @ + 1]
  /\ UNCHANGED <<lifeVars, handling, count, asking, registered, counted, failures>>

(* ActorRef.ask up to wait_for: a future under a new response_id.           *)
AskOf(t, a) ==
  LET n == asked[t] + 1
  IN /\ asking' = [asking EXCEPT ![t] = [future |-> "open", n |-> n, for |-> 0, value |-> 0, own |-> 0]]
     /\ registered' = registered \cup {<<t, n>>}
     /\ asked' = [asked EXCEPT ![t] = n]
     /\ Deliver(a, [kind |-> "ask", by |-> t, n |-> n,
                    own |-> IF t \in Callers /\ a \notin Forwarders THEN counted[<<t, a>>] ELSE 0])

Ask(t, a) ==
  /\ Sends(t, a) /\ AskOf(t, a)
  /\ UNCHANGED <<lifeVars, handling, count, counted, failures>>

(* It returns or raises, and in either case the future is deregistered.     *)
EndAsk(t) ==
  /\ asking' = [asking EXCEPT ![t] = NotAsking]
  /\ registered' = registered \ {<<t, asking[t].n>>}

Answered(t) == asking[t].future = "done"

AskReturns(t) ==
  /\ t \in Callers /\ asking[t].future \notin {"none", "open"}
  /\ EndAsk(t)
  /\ UNCHANGED <<lifeVars, mailbox, handling, count, asked, counted, failures>>

AskTimesOut(t) ==
  /\ t \in Callers /\ asking[t].future = "open"
  /\ EndAsk(t)
  /\ UNCHANGED <<lifeVars, mailbox, handling, count, asked, counted, failures>>

Answer(ask, m, value) ==
  [ask EXCEPT !.future = "done", !.for = m.n, !.value = value, !.own = m.own]
(* Faulty variant: whatever future of the asking task is registered.        *)
ResponseToAsker(m, value) ==
  asking' = IF asking[m.by].future = "open"
              THEN [asking EXCEPT ![m.by] = Answer(@, m, value)] ELSE asking
(* _handle_response: the future of that response_id, if it still waits.     *)
HandleResponse(m, value) ==
  asking' = IF <<m.by, m.n>> \in registered /\ asking[m.by].future = "open"
              THEN [asking EXCEPT ![m.by] = Answer(@, m, value)] ELSE asking

-----------------------------------------------------------------------------
(* The system.                                                              *)

ActorOf(a) ==
  /\ sys = "running" /\ a \notin actors /\ (a \in Forwarders => Target \in actors)
  /\ actors' = actors \cup {a}
  /\ UNCHANGED <<sys, state, stopFlag, opened, mailbox, handling, count, callVars, failures>>

(* shutdown: Actor.stop() of every actor, then it waits for their tasks.    *)
Shutdown ==
  /\ sys = "running" /\ sys' = "stopping"
  /\ stopFlag' = stopFlag \cup actors
  /\ mailbox' = [a \in Actors |-> IF a \in actors THEN Append(mailbox[a], Stop) ELSE mailbox[a]]
  /\ UNCHANGED <<actors, state, opened, handling, count, callVars, failures>>

(* The time is over: wait_for cancels the tasks that have not ended.  One   *)
(* that has not begun never will, one in post_stop ends there, the others   *)
(* go on to it; an ask inside receive ends with them.                       *)
Ended(a) == state[a] \in {"STOPPED", "TORN"}
Cancelled(s) == IF s = "STOPPING" THEN "TORN" ELSE IF s \in Accepting THEN "STOPPING" ELSE s
TimeOver ==
  /\ sys = "stopping" /\ sys' = "cancelled"
  /\ \E a \in actors : ~ Ended(a)
  /\ state' = [a \in Actors |-> Cancelled(state[a])]
  /\ opened' = {a \in opened : state[a] # "STOPPING"}
  /\ handling' = [a \in Actors |-> Nothing]
  /\ asking' = [t \in Askers |-> IF t \in Forwarders THEN NotAsking ELSE asking[t]]
  /\ registered' = {r \in registered : r[1] \notin Forwarders}
  /\ UNCHANGED <<actors, stopFlag, mailbox, count, asked, counted, failures>>

(* The tasks have ended, by themselves or cancelled.                        *)
Down ==
  /\ \/ sys = "stopping" /\ (\A a \in actors : Ended(a)) /\ sys' = "down"
     \/ sys = "cancelled" /\ (\A a \in actors : Ended(a) \/ state[a] = "CREATED") /\ sys' = "forced"
  /\ asking' = [t \in Askers |-> IF asking[t].future = "open" /\ <<t, asking[t].n>> \in registered
                                   THEN [asking[t] EXCEPT !.future = "cancelled"] ELSE asking[t]]
  /\ actors' = {} /\ registered' = {}
  /\ UNCHANGED <<state, stopFlag, opened, mailbox, handling, count, asked, counted, failures>>

-----------------------------------------------------------------------------
(* The task of an actor.                                                    *)

MayFail == failures < MaxFailures
Fails == MayFail /\ failures' = failures + 1

Begin(a) ==
  /\ a \in Created /\ state[a] = "CREATED" /\ sys \in {"running", "stopping"}
  /\ state' = [state EXCEPT ![a] = "STARTING"]
  /\ UNCHANGED <<sys, actors, stopFlag, opened, mailbox, handling, count, callVars, failures>>

(* pre_start returns; the loop does not run for an actor that was stopped   *)
(* meanwhile.  Or it raises, and post_stop is called all the same.          *)
Started(a) ==
  /\ state[a] = "STARTING"
  /\ \/ /\ opened' = opened \cup {a} /\ UNCHANGED failures
        /\ state' = [state EXCEPT ![a] = IF a \in stopFlag THEN "STOPPING" ELSE "RUNNING"]
     \/ Fails /\ state' = [state EXCEPT ![a] = "STOPPING"] /\ UNCHANGED opened
  /\ UNCHANGED <<sys, actors, stopFlag, mailbox, handling, count, callVars>>

(* post_stop returns, or raises out of the task.                            *)
Stopped(a) ==
  /\ state[a] = "STOPPING"
  /\ \/ state' = [state EXCEPT ![a] = "STOPPED"] /\ UNCHANGED failures
     \/ Fails /\ state' = [state EXCEPT ![a] = "TORN"]
  /\ opened' = opened \ {a}
  /\ UNCHANGED <<sys, actors, stopFlag, mailbox, handling, count, callVars>>

(* The loop gets a message: Stop ends it, even when nobody called stop().   *)
InGet(a) == state[a] = "RUNNING" /\ handling[a] = Nothing
NextMessage(a) == Head(mailbox[a])
LeaveLoop(a) == state' = [state EXCEPT ![a] = "STOPPING"]
(* After each message the loop looks at _stopping.                          *)
Heed(a) == IF a \in stopFlag THEN LeaveLoop(a) ELSE UNCHANGED state

(* Faulty variant: Stop is taken and the loop goes on.                      *)
TakeStopUnheeded(a) ==
  /\ InGet(a) /\ mailbox[a] # <<>> /\ NextMessage(a) = Stop
  /\ mailbox' = [mailbox EXCEPT ![a] = Tail(@)]
  /\ UNCHANGED <<lifeVars, handling, count, callVars, failures>>
TakeStop(a) ==
  /\ InGet(a) /\ mailbox[a] # <<>> /\ NextMessage(a) = Stop
  /\ mailbox' = [mailbox EXCEPT ![a] = Tail(@)]
  /\ LeaveLoop(a)
  /\ UNCHANGED <<sys, actors, stopFlag, opened, handling, count, callVars, failures>>

(* _handle_restart: post_stop, then pre_start; an error is logged, and the  *)
(* actor goes on, unless it was stopped meanwhile.                          *)
TakeRestart(a) ==
  /\ InGet(a) /\ mailbox[a] # <<>> /\ NextMessage(a) = Restart
  /\ mailbox' = [mailbox EXCEPT ![a] = Tail(@)]
  /\ \/ opened' = opened \cup {a} /\ UNCHANGED failures
     \/ opened' = opened \ {a} /\ Fails
  /\ Heed(a)
  /\ UNCHANGED <<sys, actors, stopFlag, handling, count, callVars>>

Take(a) ==
  /\ InGet(a) /\ mailbox[a] # <<>> /\ NextMessage(a) \notin {Stop, Restart}
  /\ mailbox' = [mailbox EXCEPT ![a] = Tail(@)]
  /\ handling' = [handling EXCEPT ![a] = NextMessage(a)]
  /\ UNCHANGED <<lifeVars, count, callVars, failures>>

Finish(a) == handling' = [handling EXCEPT ![a] = Nothing] /\ Heed(a)

(* CounterActor.receive of an increment ...                                 *)
Count(a) ==
  /\ handling[a].kind = "user" /\ a \notin Forwarders
  /\ count' = [count EXCEPT ![a] = @ + 1]
  /\ Finish(a)
  /\ UNCHANGED <<sys, actors, stopFlag, opened, mailbox, callVars, failures>>

(* ... and of a get; None is no answer.                                     *)
Get(a) ==
  /\ handling[a].kind = "ask" /\ a \notin Forwarders
  /\ IF a \in Answering THEN HandleResponse(handling[a], count[a]) ELSE UNCHANGED asking
  /\ Finish(a)
  /\ UNCHANGED <<sys, actors, stopFlag, opened, mailbox, count, registered, asked, counted, failures>>

(* receive raises: _handle_error writes a line, and that is all.            *)
HandleError(a) ==
  /\ handling[a] # Nothing /\ a \notin Forwarders
  /\ Fails /\ Finish(a)
  /\ UNCHANGED <<sys, actors, stopFlag, opened, mailbox, count, callVars>>

(* ForwarderActor.receive asks its target and waits for the answer inside   *)
(* its own loop.                                                            *)
Forward(a) ==
  /\ a \in Forwarders /\ handling[a] # Nothing /\ asking[a] = NotAsking
  /\ IF handling[a].kind = "user" \/ a \in Answering
       THEN AskOf(a, Target) /\ UNCHANGED <<handling, state>>
       ELSE Finish(a) /\ UNCHANGED <<asking, registered, asked, mailbox>>
  /\ UNCHANGED <<sys, actors, stopFlag, opened, count, counted, failures>>

(* The answer of the target becomes its own; without one receive raises.    *)
Forwarded(a) ==
  /\ a \in Forwarders /\ asking[a].future \notin {"none", "open"}
  /\ LET m == handling[a]
         answers == m.kind = "ask" /\ Answered(a) /\ <<m.by, m.n>> \in registered
                    /\ asking[m.by].future = "open"
     IN asking' = [t \in Askers |->
          IF t = a THEN NotAsking
          ELSE IF answers /\ t = m.by THEN Answer(asking[t], m, asking[a].value) ELSE asking[t]]
  /\ registered' = registered \ {<<a, asking[a].n>>}
  /\ Finish(a)
  /\ UNCHANGED <<sys, actors, stopFlag, opened, mailbox, count, asked, counted, failures>>

(* Its ask times out: that error too is only logged.                        *)
ForwardTimesOut(a) ==
  /\ a \in Forwarders /\ asking[a].future = "open"
  /\ asking' = [asking EXCEPT ![a] = NotAsking]
  /\ registered' = registered \ {<<a, asking[a].n>>}
  /\ Finish(a)
  /\ UNCHANGED <<sys, actors, stopFlag, opened, mailbox, count, asked, counted, failures>>

ActorStep(a) ==
  \/ Begin(a) \/ Started(a) \/ Stopped(a)
  \/ TakeStop(a) \/ TakeRestart(a) \/ Take(a)
  \/ Count(a) \/ Get(a) \/ HandleError(a) \/ Forward(a) \/ Forwarded(a) \/ ForwardTimesOut(a)

ActorsNext ==
  \/ \E t \in Callers, a \in Actors :
       Tell(t, a) \/ Ask(t, a) \/ TellSystem(t, a, Restart) \/ TellSystem(t, a, Stop)
  \/ \E t \in Callers : AskReturns(t) \/ AskTimesOut(t)
  \/ \E a \in Actors : ActorOf(a)
  \/ Shutdown \/ TimeOver \/ Down
  \/ \E a \in Actors : ActorStep(a)

-----------------------------------------------------------------------------
(* Properties *)

(* An answer belongs to the ask that returns it, also after earlier asks    *)
(* have timed out, and it counts every increment that the same task had     *)
(* told before, unless one was lost to an error.                            *)
AnswersOwn ==
  \A t \in Askers :
    /\ Answered(t) => asking[t].for = asking[t].n
    /\ Answered(t) /\ failures = 0 => asking[t].value >= asking[t].own

(* Until a hook or receive has failed an actor works only between pre_start *)
(* and post_stop, on one message at a time.                                 *)
WorksWhileOpen ==
  failures = 0 => \A a \in Actors : handling[a] # Nothing => a \in opened /\ state[a] = "RUNNING"

(* A future that is registered is awaited by its ask.                       *)
NoAskLeftOver == \A r \in registered : asking[r[1]].future # "none" /\ asking[r[1]].n = r[2]

(* shutdown returns, also if nothing is ever cancelled, and by then every   *)
(* actor's task has ended: as STOPPED, unless its post_stop raised or its   *)
(* time was over.                                                           *)
ActorsStop ==
  \A a \in Actors : a \in stopFlag ~>
    \/ sys = "down" /\ (state[a] = "STOPPED" \/ (state[a] = "TORN" /\ failures > 0))
    \/ sys = "forced" /\ (Ended(a) \/ state[a] = "CREATED")
=============================================================================
