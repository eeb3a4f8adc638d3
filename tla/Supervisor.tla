----------------------------- MODULE Supervisor ------------------------------
(***************************************************************************)
(* actor_model/supervisor.py.  A supervisor handles one message after the  *)
(* other; while a handler awaits the end of a child or its restart delay,  *)
(* children end and their monitors send.  The handlers call start_actor,   *)
(* stop_actor and wait_for_termination, which ActorSystem does not have;   *)
(* they are external: start_actor raises for a name that is in use, and    *)
(* may raise for another reason; stop_actor returns when the child has     *)
(* ended, or raises; wait_for_termination raises what ended the child.     *)
(***************************************************************************)
EXTENDS Integers, Sequences, FiniteSets, SequencesExt

CONSTANTS ChildIds,
          Policy,        (* child -> its restart_policy                       *)
          Strategies,    (* of which one is configured                        *)
          MaxRestarts,
          RequestKinds,  (* what the supervisor's users send                  *)
          MaxRequests,   (* bound: their messages                             *)
          MaxDeaths      (* bound: children that end by themselves            *)

VARIABLES strategy,
          inbox,
          doing,      (* the handler in progress: its kind, its child and the *)
                      (* children it starts in the end                        *)
          todo,       (* children that it has yet to stop                     *)
          children,   (* child -> incarnation that children refers to, or 0   *)
          specs,      (* the keys of child_specs, in the order of insertion   *)
          alive,      (* <<child, incarnation>> that runs                     *)
          made,       (* child -> incarnations so far                         *)
          watched,    (* <<child, incarnation, reason>>: ended, its monitor   *)
                      (* has yet to send                                      *)
          records,    (* child -> its recent restart_records                  *)
          requests, deaths,
          wished,     (* history: child -> messages of users to start it      *)
          meddled,    (* history: children that users stop or restart         *)
          raised,     (* history: <<child, incarnation>> that an error ended  *)
          granted,    (* history: child -> the incarnations whose end was     *)
                      (* answered with a restart                              *)
          disowned,   (* history: <<child, incarnation>> that was forgotten   *)
                      (* for the end of an earlier one                        *)
          unstarted   (* history: children of which a start has failed        *)

supVars == <<strategy, inbox, doing, todo, children, specs, alive, made, watched,
             records, requests, deaths, wished, meddled, raised, granted, disowned, unstarted>>
ofUsers == <<strategy, requests, deaths, wished, meddled, raised>>

Idle == [kind |-> "idle"]
Doing(k, c, cs) == [kind |-> k, child |-> c, starts |-> cs]
OfAll == {"ONE_FOR_ALL", "REST_FOR_ONE"}
Message(k, c) == [kind |-> k, child |-> c]
(* actor_ref is the incarnation.                                            *)
ChildTerminated(c, i, r) == [kind |-> "ChildTerminated", child |-> c, actor_ref |-> i, reason |-> r]

SupInit ==
  /\ strategy \in Strategies
  /\ inbox = <<>> /\ doing = Idle /\ todo = <<>>
  /\ children = [c \in ChildIds |-> 0] /\ specs = <<>>
  /\ alive = {} /\ made = [c \in ChildIds |-> 0] /\ watched = {}
  /\ records = [c \in ChildIds |-> 0]
  /\ requests = 0 /\ deaths = 0
  /\ wished = [c \in ChildIds |-> 0] /\ meddled = {} /\ raised = {}
  /\ granted = [c \in ChildIds |-> <<>>] /\ disowned = {} /\ unstarted = {}

-----------------------------------------------------------------------------
(* start_child, stop_child and the RestartChild message of users.           *)
Request(k, c) ==
  /\ requests < MaxRequests /\ requests' = requests + 1
  /\ inbox' = Append(inbox, Message(k, c))
  /\ wished' = IF k = "StopChild" THEN wished ELSE [wished EXCEPT ![c] = @ + 1]
  /\ meddled' = IF k = "StartChild" THEN meddled ELSE meddled \cup {c}
  /\ UNCHANGED <<strategy, doing, todo, children, specs, alive, made, watched, records, deaths, raised, granted, disowned, unstarted>>

(* A child returns, or receive raises out of its loop.                      *)
Die(c, reason) ==
  /\ deaths < MaxDeaths /\ deaths' = deaths + 1
  /\ \E i \in 1 .. made[c] :
       /\ <<c, i>> \in alive /\ alive' = alive \ {<<c, i>>}
       /\ watched' = watched \cup {<<c, i, reason>>}
       /\ raised' = IF reason = "error" THEN raised \cup {<<c, i>>} ELSE raised
  /\ UNCHANGED <<strategy, inbox, doing, todo, children, specs, made, records, requests, wished, meddled,
                 granted, disowned, unstarted>>

(* The monitor task of a child.                                             *)
Notify(w) ==
  /\ w \in watched /\ watched' = watched \ {w}
  /\ inbox' = Append(inbox, ChildTerminated(w[1], w[2], w[3]))
  /\ UNCHANGED <<doing, todo, children, specs, alive, made, records, ofUsers, granted, disowned, unstarted>>

(* The restart period of the oldest record passes.                          *)
Forget(c) ==
  /\ records[c] > 0 /\ records' = [records EXCEPT ![c] = @ - 1]
  /\ UNCHANGED <<inbox, doing, todo, children, specs, alive, made, watched, ofUsers, granted, disowned, unstarted>>

-----------------------------------------------------------------------------
(* _handle_start_child: a child that is referred to is left alone; a start  *)
(* that fails, as it does for a name in use, is logged and stores nothing.  *)
Running(c) == \E i \in 1 .. made[c] : <<c, i>> \in alive
Added(c) == IF c \in ToSet(specs) THEN specs ELSE Append(specs, c)

StartActor(c) ==
  /\ ~ Running(c)
  /\ made' = [made EXCEPT ![c] = @ + 1]
  /\ alive' = alive \cup {<<c, made[c] + 1>>}
  /\ children' = [children EXCEPT ![c] = made[c] + 1]
  /\ specs' = Added(c)
  /\ UNCHANGED unstarted
StartFails(c) == unstarted' = unstarted \cup {c} /\ UNCHANGED <<children, specs, alive, made>>
HandleStartChild(c) ==
  IF children[c] # 0 THEN UNCHANGED <<children, specs, alive, made, unstarted>>
                     ELSE StartActor(c) \/ StartFails(c)

ShouldRestart(c, reason) ==
  Policy[c] = "PERMANENT" \/ (Policy[c] = "TRANSIENT" /\ reason # "none")

CanRestart(c) == records[c] < MaxRestarts

-----------------------------------------------------------------------------
(* The next message, up to the first await of its handler.                  *)

Arrives(k) == doing = Idle /\ inbox # <<>> /\ Head(inbox).kind = k
It == Head(inbox).child

ReceiveStart ==
  /\ Arrives("StartChild") /\ inbox' = Tail(inbox)
  /\ HandleStartChild(It)
  /\ UNCHANGED <<doing, todo, watched, records, ofUsers, granted, disowned>>

ReceiveStop ==
  /\ Arrives("StopChild") /\ inbox' = Tail(inbox)
  /\ IF children[It] = 0 THEN UNCHANGED <<doing, todo>>
     ELSE doing' = Doing("stop", It, <<>>) /\ todo' = <<It>>
  /\ UNCHANGED <<children, specs, alive, made, watched, records, ofUsers, granted, disowned, unstarted>>

(* _handle_restart_child stops the child first, if it is referred to.       *)
ReceiveRestart ==
  /\ Arrives("RestartChild") /\ inbox' = Tail(inbox)
  /\ IF It \notin ToSet(specs) THEN UNCHANGED <<doing, todo>>
     ELSE /\ doing' = Doing("restart", It, <<It>>)
          /\ todo' = IF children[It] # 0 THEN <<It>> ELSE <<>>
  /\ UNCHANGED <<children, specs, alive, made, watched, records, ofUsers, granted, disowned, unstarted>>

(* _handle_child_terminated: whichever incarnation has ended, the entry is  *)
(* deleted; then the policy, the limit and the strategy decide.  A restart  *)
(* of one is a message to itself, one of all goes on here, and to escalate  *)
(* fails, as an actor has no parent_ref.                                    *)
Without(c) == IF c \in ToSet(specs) THEN RemoveAt(specs, CHOOSE i \in DOMAIN specs : specs[i] = c)
                                    ELSE specs

GivesUp(c) ==
  /\ specs' = Without(c) /\ inbox' = Tail(inbox)
  /\ UNCHANGED <<doing, todo, records, granted>>

ApplyStrategy(c) ==
  /\ records' = [records EXCEPT ![c] = @ + 1] /\ UNCHANGED specs
  /\ granted' = [granted EXCEPT ![c] = Append(@, Head(inbox).actor_ref)]
  /\ inbox' = IF strategy = "ONE_FOR_ONE"
                THEN Append(Tail(inbox), Message("RestartChild", c)) ELSE Tail(inbox)
  /\ IF strategy \notin OfAll THEN UNCHANGED <<doing, todo>>
     ELSE /\ doing' = Doing(strategy, c, specs)
          /\ todo' = SelectSeq(specs, LAMBDA x : x # c /\ children[x] # 0)

ReceiveTerminated ==
  /\ Arrives("ChildTerminated")
  /\ children' = [children EXCEPT ![It] = 0]
  /\ disowned' = IF children[It] \in {0, Head(inbox).actor_ref} THEN disowned
                 ELSE disowned \cup {<<It, children[It]>>}
  /\ IF It \in ToSet(specs) /\ ShouldRestart(It, Head(inbox).reason) /\ CanRestart(It)
       THEN ApplyStrategy(It) ELSE GivesUp(It)
  /\ UNCHANGED <<alive, made, watched, ofUsers, unstarted>>

(* _handle_stop_child: stop_actor ends the child, which its monitor will    *)
(* report; then both entries are deleted.  If it raises, they stay.         *)
StopActor ==
  LET c == Head(todo)
      one == <<c, children[c]>>
  IN /\ alive' = alive \ {one}
     /\ watched' = IF one \in alive THEN watched \cup {<<c, children[c], "none">>} ELSE watched
     /\ children' = [children EXCEPT ![c] = 0]
     /\ specs' = Without(c)
StopFails == UNCHANGED <<alive, watched, children, specs>>
HandleStopChild ==
  /\ todo # <<>> /\ todo' = Tail(todo)
  /\ StopActor \/ StopFails
  /\ UNCHANGED <<inbox, doing, made, records, ofUsers, granted, disowned, unstarted>>

(* After the delay the children are started one by one.  The first that has *)
(* been stopped has no spec any more: KeyError ends the handler.            *)
Restart ==
  /\ doing # Idle /\ todo = <<>>
  /\ IF doing.starts # <<>> /\ Head(doing.starts) \in ToSet(specs)
       THEN HandleStartChild(Head(doing.starts)) /\ doing' = [doing EXCEPT !.starts = Tail(@)]
       ELSE doing' = Idle /\ UNCHANGED <<children, specs, alive, made, unstarted>>
  /\ UNCHANGED <<inbox, todo, watched, records, ofUsers, granted, disowned>>

Handler ==
  ReceiveStart \/ ReceiveStop \/ ReceiveRestart \/ ReceiveTerminated \/ HandleStopChild \/ Restart

SupNext ==
  \/ \E c \in ChildIds : \/ \E k \in RequestKinds : Request(k, c)
                         \/ Die(c, "none") \/ Die(c, "error") \/ Forget(c)
  \/ \E w \in watched : Notify(w)
  \/ Handler

-----------------------------------------------------------------------------
(* Properties *)

(* A child that is referred to has a spec, which its stop looks up, and a   *)
(* child that runs is the one referred to, unless the notice of an earlier  *)
(* incarnation's end made the supervisor forget it.                         *)
BooksMatch ==
  /\ IsInjective(specs)
  /\ \A c \in ChildIds : children[c] # 0 => c \in ToSet(specs)
  /\ \A one \in alive : children[one[1]] = one[2] \/ one \in disowned

(* No child is made more often than users have asked for it and ends of it  *)
(* have been answered with a restart, whichever the strategy.  That is as   *)
(* the policy says: never for a TEMPORARY child, for a TRANSIENT one only   *)
(* when an error ended that incarnation, and within the limit.              *)
RestartsEarned ==
  \A c \in ChildIds :
    /\ made[c] <= wished[c] + Len(granted[c])
    /\ Policy[c] = "TEMPORARY" => granted[c] = <<>>
    /\ Policy[c] = "TRANSIENT" => \A i \in ToSet(granted[c]) : <<c, i>> \in raised
    /\ records[c] <= MaxRestarts

ChildrenAsSpecified == BooksMatch /\ RestartsEarned

(* Restarting one for one, a child with a spec runs again in the end, or is *)
(* given up for its policy or its limit, unless users stop or restart it or *)
(* a start of it has failed, which nobody tries again.                      *)
EndedComeBack ==
  \A c \in ChildIds :
    strategy = "ONE_FOR_ONE" /\ c \in ToSet(specs) /\ ~ Running(c)
      ~> Running(c) \/ c \notin ToSet(specs) \/ c \in meddled \/ c \in unstarted
=============================================================================
