---------------------------- MODULE SelectPatterns ----------------------------
(***************************************************************************)
(* csp_patterns/select.py: a Select polls its cases in random order until  *)
(* one is ready and executes that one; and two that are built on it, the   *)
(* SelectLoop and the requests of the RequestResponsePattern.              *)
(***************************************************************************)
EXTENDS Integers, Sequences, FiniteSets

CONSTANTS Requesters,
          Room,            (* of the loop's channels                          *)
          MaxRequests      (* bound: requests of each caller, values and      *)
                           (* rounds of the loop                              *)

VARIABLES box,        (* channel -> its buffer                                *)
          shut,       (* the closed channels                                  *)
          clock,      (* selecting task -> "unset", "running" or "elapsed"    *)
          polling,    (* the tasks whose Select found nothing ready so far    *)
          asked,      (* requester -> number of its last request              *)
          registered, (* requester -> the request whose channel is registered *)
          handling,   (* the request that the handler works on                *)
          answers,    (* history: requester -> <<request, what it got>>       *)
          rounds,     (* iteration_count of the loop                          *)
          took, put   (* history: what the loop's cases received and sent     *)

selectVars == <<box, shut, clock, polling, asked, registered, handling, answers, rounds, took, put>>

None == 0
Idle == <<"", None>>
Case(op, c) == [op |-> op, ch |-> c]
Boxes == {"requests", "in", "out"} \cup Requesters

SelectInit ==
  /\ box = [c \in Boxes |-> <<>>] /\ shut = {}
  /\ clock = [t \in Requesters \cup {"loop"} |-> "unset"]
  /\ polling = {}
  /\ asked = [r \in Requesters |-> 0] /\ registered = [r \in Requesters |-> None]
  /\ handling = Idle
  /\ answers = [r \in Requesters |-> <<>>]
  /\ rounds = 0 /\ took = <<>> /\ put = <<>>

(* is_ready of each kind of case: a timeout starts its clock when it is     *)
(* first asked, and says no.                                                *)
ReceiveCase(case) == case.op = "receive" /\ (box[case.ch] # <<>> \/ case.ch \in shut)
SendCase(case) == case.op = "send" /\ case.ch \notin shut /\ Len(box[case.ch]) < Room
TimeoutCase(t, case) == case.op = "timeout" /\ clock[t] = "elapsed"
DefaultCase(case) == case.op = "default"
Ready(t, case) == ReceiveCase(case) \/ SendCase(case) \/ TimeoutCase(t, case) \/ DefaultCase(case)

(* Select.execute: any ready case, the default one only if no other is.     *)
Choices(t, cases) ==
  LET ready == {c \in cases : Ready(t, c)}
      others == {c \in ready : c.op # "default"}
  IN IF others # {} THEN others ELSE ready

ClockStarts(t, cases) ==
  clock' = IF clock[t] = "unset" /\ \E c \in cases : c.op = "timeout"
             THEN [clock EXCEPT ![t] = "running"] ELSE clock

Poll(t, cases) ==
  /\ Choices(t, cases) = {} /\ t \notin polling
  /\ polling' = polling \cup {t}
  /\ ClockStarts(t, cases)
  /\ UNCHANGED <<box, shut, asked, registered, handling, answers, rounds, took, put>>

Elapse(t) ==
  /\ clock[t] = "running"
  /\ clock' = [clock EXCEPT ![t] = "elapsed"]
  /\ UNCHANGED <<box, shut, polling, asked, registered, handling, answers, rounds, took, put>>

Received(c) == IF box[c] = <<>> THEN None ELSE Head(box[c])
Taken(c) == IF box[c] = <<>> THEN box ELSE [box EXCEPT ![c] = Tail(@)]

-----------------------------------------------------------------------------
(* RequestResponsePattern.request: registers a fresh channel under a fresh  *)
(* correlation id and selects between the response and the timeout.         *)
Request(r) ==
  /\ registered[r] = None /\ asked[r] < MaxRequests
  /\ asked' = [asked EXCEPT ![r] = @ + 1]
  /\ registered' = [registered EXCEPT ![r] = asked[r] + 1]
  /\ box' = [box EXCEPT ![r] = <<>>, !["requests"] = Append(@, <<r, asked[r] + 1>>)]
  /\ clock' = [clock EXCEPT ![r] = "unset"]
  /\ UNCHANGED <<shut, polling, handling, answers, rounds, took, put>>

RequestCases(r) == {Case("receive", r), Case("timeout", r)}

(* The request returns, and its channel is deregistered.                    *)
Return(r, got) ==
  /\ answers' = [answers EXCEPT ![r] = Append(@, <<registered[r], got>>)]
  /\ registered' = [registered EXCEPT ![r] = None]
  /\ polling' = polling \ {r}

Respond(r) ==
  /\ registered[r] # None
  /\ \E c \in Choices(r, RequestCases(r)) :
       IF c.op = "timeout" THEN Return(r, None) /\ UNCHANGED box
       ELSE Return(r, Received(r)) /\ box' = Taken(r)
  /\ ClockStarts(r, RequestCases(r))
  /\ UNCHANGED <<shut, asked, handling, rounds, took, put>>

(* The RequestHandler: takes a request; when its handler has returned or    *)
(* raised, it answers unless the caller has given up.                       *)
TakeRequest ==
  /\ handling = Idle /\ box["requests"] # <<>>
  /\ handling' = Head(box["requests"]) /\ box' = Taken("requests")
  /\ UNCHANGED <<shut, clock, polling, asked, registered, answers, rounds, took, put>>
(* Faulty variant: an answer goes to whatever request is registered.        *)
SendToWhoeverAsks ==
  /\ handling # Idle
  /\ box' = IF registered[handling[1]] # None
              THEN [box EXCEPT ![handling[1]] = Append(@, handling[2])] ELSE box
  /\ handling' = Idle
  /\ UNCHANGED <<shut, clock, polling, asked, registered, answers, rounds, took, put>>
SendResponse ==
  /\ handling # Idle
  /\ box' = IF registered[handling[1]] = handling[2]
              THEN [box EXCEPT ![handling[1]] = Append(@, handling[2])] ELSE box
  /\ handling' = Idle
  /\ UNCHANGED <<shut, clock, polling, asked, registered, answers, rounds, took, put>>

-----------------------------------------------------------------------------
(* SelectLoop.run over a receive, a send, a timeout and a default case; its *)
(* TimeoutCase is the same in every round and its clock is never reset.     *)
LoopCases(default) == {Case("receive", "in"), Case("send", "out"), Case("timeout", "loop")}
                        \cup (IF default THEN {Case("default", "loop")} ELSE {})

Iterate(default) ==
  /\ rounds < MaxRequests + 1
  /\ \E c \in Choices("loop", LoopCases(default)) :
       /\ box' = CASE c.op = "receive" -> Taken("in")
                   [] c.op = "send" -> [box EXCEPT !["out"] = Append(@, rounds)]
                   [] OTHER -> box
       /\ took' = IF c.op = "receive" THEN Append(took, Received("in")) ELSE took
       /\ put' = IF c.op = "send" THEN Append(put, rounds) ELSE put
  /\ rounds' = rounds + 1 /\ polling' = polling \ {"loop"}
  /\ ClockStarts("loop", LoopCases(default))
  /\ UNCHANGED <<shut, asked, registered, handling, answers>>

(* The neighbours of the loop.                                              *)
Feed(v) ==
  /\ "in" \notin shut /\ Len(box["in"]) < Room /\ v = Len(took) + Len(box["in"]) + 1
  /\ box' = [box EXCEPT !["in"] = Append(@, v)]
  /\ UNCHANGED <<shut, clock, polling, asked, registered, handling, answers, rounds, took, put>>
Drain ==
  /\ box["out"] # <<>> /\ box' = Taken("out")
  /\ UNCHANGED <<shut, clock, polling, asked, registered, handling, answers, rounds, took, put>>
CloseEnd(c) ==
  /\ shut' = shut \cup {c}
  /\ UNCHANGED <<box, clock, polling, asked, registered, handling, answers, rounds, took, put>>

Handle == TakeRequest \/ SendResponse

RequestNext ==
  \/ \E r \in Requesters : Request(r) \/ (registered[r] # None /\ Poll(r, RequestCases(r)))
                             \/ Elapse(r) \/ Respond(r)
  \/ Handle

LoopNext ==
  \/ \E default \in BOOLEAN : Poll("loop", LoopCases(default)) \/ Iterate(default)
  \/ Elapse("loop") \/ Drain
  \/ \E v \in 1..MaxRequests : Feed(v)
  \/ \E c \in {"in", "out"} : CloseEnd(c)

-----------------------------------------------------------------------------
(* Who gets an answer gets the answer to the request it has just made.      *)
OwnAnswer == \A r \in Requesters : \A i \in DOMAIN answers[r] :
               /\ answers[r][i][1] = i
               /\ answers[r][i][2] \in {None, i}

(* The loop's cases lose nothing: what it took was fed to it, in order, and *)
(* nothing is sent or taken from a channel in the round of another case.    *)
LoopTakesInOrder == LET values == SelectSeq(took, LAMBDA v : v # None)
                    IN /\ values = [i \in DOMAIN values |-> i]
                       /\ Len(took) + Len(put) <= rounds
                       /\ (None \in {took[i] : i \in DOMAIN took} => "in" \in shut)

(* A request is answered, or its time runs out.                             *)
RequestsEnd == \A r \in Requesters : registered[r] # None ~> registered[r] = None
=============================================================================
