------------------------------ MODULE MCStreams ------------------------------
(***************************************************************************)
(* The CSP networks, what is built on Select, the observables, the         *)
(* asynchronous iterators and the algorithms over chunks, for TLC.  A      *)
(* behaviour is about one of them, its subject.                            *)
(***************************************************************************)
EXTENDS ProcessNetwork

CONSTANTS Subjects,
          Requesters, Room, MaxRequests,
          Observers, Count, MaxEmitted, MaxTime,
          BatchSize, BufferSize, MaxItems,
          Small, MaxLength, MaxValue, MaxProcesses

VARIABLES subject,
          box, shut, clock, polling, asked, registered, handling, answers, rounds, took, put,
          op, status, observers, emitted, since, until, got, n, now, latest, timers, feeds, doing,
          source, broken, batch, buffer, finished, yielded, elapsed, calls,
          data, procs

S == INSTANCE SelectPatterns
O == INSTANCE Observables
I == INSTANCE AsyncIterators
A == INSTANCE ParallelAlgorithms

ofSelect == <<box, shut, clock, polling, asked, registered, handling, answers, rounds, took, put>>
ofObservable == <<op, status, observers, emitted, since, until, got, n, now, latest, timers, feeds, doing>>
ofIterator == <<source, broken, batch, buffer, finished, yielded, elapsed, calls>>
ofAlgorithm == <<data, procs>>
vars == <<subject, netVars, ofSelect, ofObservable, ofIterator, ofAlgorithm>>

(* The splitter copies every value, the other networks have shorter ways.   *)
MCLength == [x \in DOMAIN Networks |-> IF x = "splitter_merger" THEN 2 ELSE 3]
MCMaxFailures == [x \in DOMAIN Networks |-> IF x = "splitter_merger" THEN 0 ELSE 1]

Operators == O!Hot \cup O!Threaded \cup {"cold"}
Pulling == {"batch", "buffered", "processor"}

Init ==
  /\ subject \in Subjects
  /\ net = IF subject \in DOMAIN Networks THEN subject ELSE "producer_consumer"
  /\ op = IF subject \in Operators THEN subject ELSE "plain"
  /\ NetInit /\ S!SelectInit /\ O!ObsInit /\ I!IterInit /\ A!AlgoInit
  /\ subject = "algorithms" \/ procs = 1

OfNetwork(B) == subject \in DOMAIN Networks /\ B /\ UNCHANGED <<subject, ofSelect, ofObservable, ofIterator, ofAlgorithm>>
OfSelect(s, B) == subject = s /\ B /\ UNCHANGED <<subject, netVars, ofObservable, ofIterator, ofAlgorithm>>
OfObservable(B) == subject \in Operators /\ B /\ UNCHANGED <<subject, netVars, ofSelect, ofIterator, ofAlgorithm>>
OfIterator(s, B) == subject = s /\ B /\ UNCHANGED <<subject, netVars, ofSelect, ofObservable, ofAlgorithm>>
OfAlgorithm(B) == subject = "algorithms" /\ B /\ UNCHANGED <<subject, netVars, ofSelect, ofObservable, ofIterator>>

Next ==
  \/ OfNetwork(NetNext)
  \/ OfSelect("requests", S!RequestNext)
  \/ OfSelect("loop", S!LoopNext)
  \/ OfObservable(O!ObsNext)
  \/ OfIterator("batch", I!BatchNext)
  \/ OfIterator("buffered", I!BufferedNext)
  \/ OfIterator("processor", I!ProcessorNext)
  \/ OfAlgorithm(A!AlgoNext)

(* While some task or thread can go on, one of them does; nobody must stop, *)
(* fail, time out or subscribe.                                             *)
Fair ==
  /\ WF_netVars(subject \in DOMAIN Networks /\ \E p \in Procs : Step(p))
  /\ WF_ofSelect(subject = "requests" /\ S!Handle)
  /\ \A r \in Requesters : WF_ofSelect(subject = "requests" /\ S!Respond(r))
  /\ WF_ofObservable(subject \in Operators /\ (O!Fire \/ O!EmitLatest \/ \E f \in O!Feeds : O!Feed(f)))
  /\ WF_ofIterator(subject = "processor" /\ (I!FillBatch \/ I!ProcessBatch))

Spec == Init /\ [][Next]_vars /\ Fair

-----------------------------------------------------------------------------
(* What comes out of a network, a Select, an observable or an iterator      *)
(* comes in the order in which it went in, along every route, and nothing   *)
(* comes twice; a request gets its own answer; an observer misses no value  *)
(* that its operator lets through, and hears none after the end, but those  *)
(* that EndComesLast names; an iteration that ends without a timeout or an  *)
(* error has yielded everything.                                            *)
StreamsInOrder ==
  /\ subject \in DOMAIN Networks => RoutesInOrder
  /\ subject = "requests" => S!OwnAnswer
  /\ subject = "loop" => S!LoopTakesInOrder
  /\ subject \in Operators => O!HearsItsPart /\ O!EndComesLast
  /\ subject \in Pulling => I!IteratesInOrder

(* The counts of the operators hold, also of a take whose values come from  *)
(* several threads; what is computed in chunks or pulled through a chain of *)
(* iterators is what one task would compute, and only the calls named in    *)
(* OnlyTheseRaise end in an exception instead.                              *)
ResultsRight ==
  /\ subject \in Operators => O!CountsHold
  /\ subject = "algorithms" => A!ResultsAsSequential /\ A!OnlyTheseRaise /\ I!IteratorsRight(data)

(* While nobody stops a network and no function raises, everything that is  *)
(* sent arrives; a request ends; a merge completes and a debounced value is *)
(* passed on.                                                               *)
EverythingArrives ==
  /\ <>(subject \in DOMAIN Networks => Settled)
  /\ S!RequestsEnd
  /\ O!StreamsEnd
=============================================================================
