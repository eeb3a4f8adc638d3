---------------------------- MODULE ProcessNetwork ----------------------------
(***************************************************************************)
(* The processes of csp_patterns/processes.py and the patterns that        *)
(* csp_patterns/patterns.py builds from them: tasks connected by buffered  *)
(* channels.  A process takes a value, works out what to send where, and   *)
(* sends it.  The callers of a pattern are its sources and its sinks.      *)
(* A channel's close() is no coroutine: awaiting it closes the channel and *)
(* then raises a TypeError in the process.                                 *)
(***************************************************************************)
EXTENDS Integers, Sequences, FiniteSets, SequencesExt

CONSTANTS Capacity,      (* of every channel                                  *)
          Length,        (* network -> how many values 1, 2 ... a source sends*)
          MaxFailures    (* network -> bound: calls of functions that raise   *)

VARIABLES net,        (* the network of this behaviour                        *)
          chan,       (* channel -> its buffer                                *)
          closed,     (* the closed channels                                  *)
          state,      (* process -> what it is about to do                    *)
          todo,       (* process -> what it still has to send, and where      *)
          cursor,     (* process -> round_robin_index                         *)
          watching,   (* process -> the channels of its running Select        *)
          subs,       (* the subscribers' channels of the topic               *)
          live,       (* the broker is iterating over this list of them       *)
          delivered,  (* history: sink -> the values it received              *)
          failures, stopped

netVars == <<net, chan, closed, state, todo, cursor, watching, subs, live, delivered,
             failures, stopped>>

None == 0
N(kind, ins, outs, tag) == [kind |-> kind, ins |-> ins, outs |-> outs, tag |-> tag]

(* Who reads and writes what; a function adds its tag to a value.           *)
ProducerConsumer == [source |-> N("produce", <<>>, <<"a">>, 0), sink |-> N("consume", <<"a">>, <<>>, 0)]
Processes == [source |-> N("produce", <<>>, <<"a">>, 0),
              evens |-> N("filter", <<"a">>, <<"b">>, 0),
              squares |-> N("transform", <<"b">>, <<"c">>, 10),
              sink |-> N("consume", <<"c">>, <<>>, 0)]
SplitterMerger == [source |-> N("produce", <<>>, <<"a">>, 0),
                   splitter |-> N("split", <<"a">>, <<"b", "c">>, 0),
                   branch1 |-> N("transform", <<"b">>, <<"d">>, 10),
                   branch2 |-> N("transform", <<"c">>, <<"e">>, 20),
                   reader1 |-> N("work", <<"d">>, <<"f">>, 0),
                   reader2 |-> N("work", <<"e">>, <<"f">>, 0),
                   merger |-> N("gather", <<"reader1", "reader2">>, <<"f">>, 0),
                   sink |-> N("consume", <<"f">>, <<>>, 0)]
FanOutPattern == [source |-> N("client", <<>>, <<"a">>, 0),
                  distributor |-> N("distribute", <<"a">>, <<"b", "c">>, 0),
                  worker1 |-> N("work", <<"b">>, <<"d">>, 10),
                  worker2 |-> N("work", <<"c">>, <<"d">>, 20),
                  sink |-> N("consume", <<"d">>, <<>>, 0)]
FanInPattern == [source |-> N("client", <<>>, <<"a">>, 10),
                 source2 |-> N("client", <<>>, <<"b">>, 20),
                 collector |-> N("collect", <<"a", "b">>, <<"c">>, 0),
                 sink |-> N("results", <<"c">>, <<>>, 0)]
Pipeline == [source |-> N("client", <<>>, <<"a">>, 0),
             stage1 |-> N("transform", <<"a">>, <<"b">>, 10),
             stage2 |-> N("transform", <<"b">>, <<"c">>, 20),
             sink |-> N("consume", <<"c">>, <<>>, 0)]
WorkerPool == [source |-> N("client", <<>>, <<"a">>, 0),
               worker1 |-> N("guarded", <<"a">>, <<"b">>, 10),
               worker2 |-> N("guarded", <<"a">>, <<"b">>, 20),
               sink |-> N("consume", <<"b">>, <<>>, 0)]
PubSubBroker == [source |-> N("client", <<>>, <<"a">>, 0),
                 broker |-> N("broker", <<"a">>, <<>>, 0),
                 sink |-> N("consume", <<"s">>, <<>>, 0),
                 sink2 |-> N("consume", <<"t">>, <<>>, 0)]

Networks == [producer_consumer |-> ProducerConsumer, processes |-> Processes,
             splitter_merger |-> SplitterMerger, fan_out |-> FanOutPattern,
             fan_in |-> FanInPattern, pipeline |-> Pipeline, worker_pool |-> WorkerPool,
             pubsub |-> PubSubBroker]
Procs == DOMAIN Networks[net]
Node(p) == Networks[net][p]
Kind(p) == Node(p).kind
Out(p) == Node(p).outs[1]
Channels == {"a", "b", "c", "d", "e", "f", "s", "t"}
Sources == {"produce", "client"}
Taking == {"consume", "results"}
Done == {"terminated", "error"}

NetInit ==
  /\ chan = [c \in Channels |-> <<>>] /\ closed = {}
  /\ state = [p \in Procs |-> IF Kind(p) \in Sources THEN "sending" ELSE "looping"]
  /\ todo = [p \in Procs |-> IF Kind(p) \in Sources
                                THEN [v \in 1..Length[net] |-> <<Out(p), v + Node(p).tag>>] ELSE <<>>]
  /\ cursor = [p \in Procs |-> 1]
  /\ watching = [p \in Procs |-> {}]
  /\ subs = <<"s">> /\ live = FALSE
  /\ delivered = [p \in Procs |-> <<>>]
  /\ failures = 0 /\ stopped = FALSE

(* What a process sends for value v, and where.                             *)
Filtered(p, v) == IF v % 2 = 1 THEN <<<<Out(p), v>>>> ELSE <<>>
Transformed(p, v) == <<<<Out(p), v + Node(p).tag>>>>
Split(p, v) == LET outs == Node(p).outs IN [i \in DOMAIN outs |-> <<outs[i], v>>]
Distributed(p, v) == <<<<Node(p).outs[cursor[p]], v>>>>
Published(v) == [i \in DOMAIN subs |-> <<subs[i], v>>]
Failed(p, v) == <<<<Out(p), v + 50>>>>
Plan(p, v) ==
  CASE Kind(p) = "filter" -> Filtered(p, v)
    [] Kind(p) = "split" -> Split(p, v)
    [] Kind(p) = "broker" -> Published(v)
    [] Kind(p) = "distribute" -> Distributed(p, v)
    [] Kind(p) \in Taking -> <<>>
    [] OTHER -> Transformed(p, v)

Goes(p, s) == state' = [state EXCEPT ![p] = s]

(* The value v came: it is worked on, or the function raises.  The guarded  *)
(* workers of a pool answer with the failure.                               *)
Process(p, v) ==
  /\ delivered' = IF Kind(p) \in Taking
                     THEN [delivered EXCEPT ![p] = Append(@, v)] ELSE delivered
  /\ live' = (live \/ Kind(p) = "broker")
  /\ \/ /\ todo' = [todo EXCEPT ![p] = Plan(p, v)]
        /\ Goes(p, IF Plan(p, v) = <<>> THEN "looping" ELSE "sending")
        /\ UNCHANGED failures
     \/ /\ failures < MaxFailures[net] /\ Kind(p) \in {"filter", "transform", "work", "consume", "guarded"}
        /\ failures' = failures + 1
        /\ IF Kind(p) = "guarded"
             THEN todo' = [todo EXCEPT ![p] = Failed(p, v)] /\ Goes(p, "sending")
             ELSE UNCHANGED todo /\ Goes(p, "raising")

(* async for data in channel: waits, takes a value, or ends at None.        *)
Receive(p) ==
  /\ state[p] \in {"looping", "receiving"} /\ Kind(p) \notin {"gather", "collect"}
  /\ LET c == Node(p).ins[1]
     IN \/ /\ chan[c] # <<>> /\ Head(chan[c]) # None
           /\ chan' = [chan EXCEPT ![c] = Tail(@)]
           /\ Process(p, Head(chan[c]))
        \/ /\ chan[c] # <<>> /\ Head(chan[c]) = None
           /\ chan' = [chan EXCEPT ![c] = Tail(@)]
           /\ Goes(p, IF Kind(p) = "results" THEN "looping" ELSE "closing")
           /\ UNCHANGED <<todo, delivered, failures, live>>
        \/ /\ chan[c] = <<>> /\ state[p] = "looping"
           /\ Goes(p, IF c \in closed THEN "closing" ELSE "receiving")
           /\ UNCHANGED <<chan, todo, delivered, failures, live>>
  /\ UNCHANGED <<net, closed, cursor, watching, subs, stopped>>

(* send: a closed channel raises when the call is made, but not in a send   *)
(* that already waits for room.                                             *)
Sent(p) ==
  /\ todo' = [todo EXCEPT ![p] = Tail(@)]
  /\ cursor' = IF Kind(p) = "distribute"
                 THEN [cursor EXCEPT ![p] = (@ % Len(Node(p).outs)) + 1] ELSE cursor
  /\ live' = (live /\ (Kind(p) = "broker" => Len(todo[p]) > 1))
  /\ Goes(p, IF Len(todo[p]) > 1 THEN "sending"
             ELSE IF Kind(p) \in Sources THEN "closing" ELSE "looping")

Send(p) ==
  /\ state[p] \in {"sending", "full"}
  /\ LET c == todo[p][1][1]
     IN \/ /\ state[p] = "sending" /\ c \in closed
           /\ IF Kind(p) = "broker" THEN Sent(p) ELSE Goes(p, "raising") /\ UNCHANGED <<todo, cursor, live>>
           /\ UNCHANGED chan
        \/ /\ state[p] = "full" \/ c \notin closed
           /\ Len(chan[c]) < Capacity
           /\ chan' = [chan EXCEPT ![c] = Append(@, todo[p][1][2])]
           /\ Sent(p)
        \/ /\ state[p] = "sending" /\ c \notin closed /\ Len(chan[c]) = Capacity
           /\ Goes(p, "full") /\ UNCHANGED <<chan, todo, cursor, live>>
  /\ UNCHANGED <<net, closed, watching, subs, delivered, failures, stopped>>

(* A text with "closed" in it is taken for a notice; one value of the first *)
(* source is such a text.                                                   *)
ReadsClosed(v) == v = 12

(* The Collector's Select over the sources that were open when it began;    *)
(* a closed one is ready and yields None, which is sent on like a value.    *)
(* What looks like a notice that the channel is closed is discarded.        *)
Collect(p) ==
  /\ Kind(p) = "collect" /\ state[p] \in {"looping", "receiving"}
  /\ LET cases == IF state[p] = "looping" THEN {c \in Range(Node(p).ins) : c \notin closed}
                                          ELSE watching[p]
         ready == {c \in cases : chan[c] # <<>> \/ c \in closed}
     IN \/ /\ cases = {}
           /\ Goes(p, "closing") /\ UNCHANGED <<chan, todo, watching>>
        \/ \E c \in ready :
             LET v == IF chan[c] = <<>> THEN None ELSE Head(chan[c])
             IN /\ chan' = [chan EXCEPT ![c] = IF @ = <<>> THEN @ ELSE Tail(@)]
                /\ watching' = [watching EXCEPT ![p] = {}]
                /\ IF ReadsClosed(v) THEN Goes(p, "looping") /\ UNCHANGED todo
                                     ELSE Goes(p, "sending") /\ todo' = [todo EXCEPT ![p] = <<<<Out(p), v>>>>]
        \/ /\ ready = {} /\ cases # {} /\ state[p] = "looping"
           /\ watching' = [watching EXCEPT ![p] = cases]
           /\ Goes(p, "receiving") /\ UNCHANGED <<chan, todo>>
  /\ UNCHANGED <<net, closed, cursor, subs, live, delivered, failures, stopped>>

Closers == {"produce", "filter", "transform", "split", "distribute", "gather", "client"}

(* A merger ends when its readers have, or when one of them has failed.     *)
Gathered(p) ==
  /\ Kind(p) = "gather" /\ state[p] = "looping"
  /\ \/ \A r \in Range(Node(p).ins) : state[r] = "terminated"
     \/ \E r \in Range(Node(p).ins) : state[r] = "error"

(* The end of run(): the outputs are to be closed, and the first one is.    *)
(* The distributor and the stages close only when they come to their end.   *)
Finish(p) ==
  /\ state[p] \in {"closing", "raising"} \/ Gathered(p)
  /\ LET closes == Kind(p) \in Closers
                   /\ (state[p] = "raising" => Kind(p) # "distribute" /\ net # "pipeline")
     IN /\ closed' = IF closes THEN closed \cup {Out(p)} ELSE closed
        /\ Goes(p, IF closes \/ state[p] = "raising" THEN "error" ELSE "terminated")
  /\ UNCHANGED <<net, chan, todo, cursor, watching, subs, live, delivered, failures, stopped>>

(* A caller that goes on without closing.                                   *)
LeaveOpen(p) ==
  /\ state[p] = "closing" /\ Kind(p) = "client"
  /\ Goes(p, "terminated")
  /\ UNCHANGED <<net, chan, closed, todo, cursor, watching, subs, live, delivered, failures, stopped>>

(* stop() of the network cancels all tasks, whose finally clauses close.    *)
Stop ==
  /\ ~ stopped /\ stopped' = TRUE
  /\ closed' = closed \cup {Out(p) : p \in {q \in Procs :
                  Kind(q) \in Closers \ {"client", "distribute"} /\ net # "pipeline" /\ state[q] \notin Done}}
  /\ state' = [p \in Procs |-> IF state[p] \in Done \/ Kind(p) \in {"client", "results"} THEN state[p] ELSE
                  IF Kind(p) \in Closers \ {"distribute"} /\ net # "pipeline" THEN "error" ELSE "terminated"]
  /\ UNCHANGED <<net, chan, todo, cursor, watching, subs, live, delivered, failures>>

(* subscribe appends to the list that the broker may be iterating over;     *)
(* unsubscribe builds another list.                                         *)
Subscribe ==
  /\ net = "pubsub" /\ "t" \notin Range(subs)
  /\ subs' = Append(subs, "t")
  /\ todo' = IF live THEN [todo EXCEPT !["broker"] = Append(@, <<"t", Last(@)[2]>>)] ELSE todo
  /\ UNCHANGED <<net, chan, closed, state, cursor, watching, live, delivered, failures, stopped>>
Unsubscribe ==
  /\ net = "pubsub" /\ "t" \in Range(subs)
  /\ subs' = SelectSeq(subs, LAMBDA c : c # "t") /\ live' = FALSE
  /\ UNCHANGED <<net, chan, closed, state, todo, cursor, watching, delivered, failures, stopped>>

Step(p) == Receive(p) \/ Send(p) \/ Collect(p) \/ Finish(p)

NetNext ==
  \/ \E p \in Procs : Step(p) \/ LeaveOpen(p)
  \/ Stop \/ Subscribe \/ Unsubscribe

-----------------------------------------------------------------------------
Sinks == {p \in Procs : Kind(p) \in Taking}

(* Whatever the processes do, what a sink receives along one route comes    *)
(* in the order in which the source sent it, and nothing comes twice.       *)
RoutesInOrder ==
  \A s \in Sinks : \A i, j \in DOMAIN delivered[s] :
    (i < j /\ delivered[s][i] \div 10 = delivered[s][j] \div 10) => delivered[s][i] < delivered[s][j]

(* The routes by which value v must come to the sink, or one of which.      *)
Arrived(v) ==
  LET got(route) == v + 10 * route \in Range(delivered["sink"])
  IN CASE net = "processes" -> v % 2 = 1 => got(1)
       [] net = "splitter_merger" -> got(1) /\ got(2)
       [] net = "fan_in" -> \A route \in {1, 2} : got(route) \/ ReadsClosed(v + 10 * route)
       [] net \in {"fan_out", "worker_pool"} -> got(1) \/ got(2)
       [] net = "pipeline" -> got(3)
       [] OTHER -> got(0)

(* Everything that was sent has arrived, unless a function raised, somebody *)
(* stopped the network, or a source of a FanInPattern was closed, which may *)
(* lose values; a FanInPattern drops a value that reads like a notice.      *)
Settled == stopped \/ failures > 0 \/ (net = "fan_in" /\ closed # {}) \/ \A v \in 1..Length[net] : Arrived(v)
=============================================================================
