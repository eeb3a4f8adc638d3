------------------------------ MODULE Observables ------------------------------
(***************************************************************************)
(* reactive_patterns/observables.py: sources that emit to observers, and   *)
(* the operators that stand between a source and an observer.  A hot       *)
(* source emits under its lock; iterables, intervals and timers emit from  *)
(* threads of their own.  An operator keeps its count for all its          *)
(* observers, and what it subscribes to its source is never unsubscribed.  *)
(* The functions given to map and filter do not raise here.                *)
(***************************************************************************)
EXTENDS Integers, Sequences, FiniteSets, SequencesExt

CONSTANTS Observers,
          Count,          (* of take and skip; interval of throttle           *)
          MaxEmitted,     (* bound: values emitted by each source             *)
          MaxTime

VARIABLES op,           (* the operator, or the kind of source               *)
          status,       (* _state of the source                              *)
          observers,    (* the source's observers, in order                  *)
          emitted,      (* history: the values a hot source emitted          *)
          since, until, (* observer -> what had been emitted when it         *)
                        (* subscribed and when it unsubscribed               *)
          got,          (* history: observer -> what it was called with      *)
          n,            (* taken, skipped or last_emit_time                  *)
          now,
          latest,       (* latest_value of debounce                          *)
          timers,       (* the values whose timers run, or wait for the lock *)
          feeds,        (* emitting thread -> the values it has yet to emit  *)
          doing         (* emitting thread -> step inside on_next            *)

obsVars == <<op, status, observers, emitted, since, until, got, n, now, latest, timers, feeds, doing>>

Completed == -1
Error == -2
Nothing == 0
Never == -1
Hot == {"plain", "map", "filter", "take", "skip", "throttle", "debounce"}
Threaded == {"merge", "merge_take", "iterable", "shared_iterator", "interval"}
Feeds == {1, 2}

FeedValues(f) == [i \in 1..MaxEmitted |-> 10 * f + i]

ObsInit ==
  /\ status = "active" /\ observers = <<>> /\ emitted = <<>>
  /\ since = [o \in Observers |-> Never] /\ until = [o \in Observers |-> MaxEmitted]
  /\ got = [o \in Observers |-> <<>>]
  /\ n = IF op = "throttle" THEN - Count ELSE 0
  /\ now = 0
  /\ latest = Nothing /\ timers = <<>>
  /\ feeds = [f \in Feeds |-> FeedValues(f)]
  /\ doing = [f \in Feeds |-> "idle"]

(* on_next of the operator for one observer; got and n so far are in acc.   *)
Tell(acc, o, v) == [acc EXCEPT !.got[o] = Append(@, v)]
MapNext(v, o, acc) == Tell(acc, o, v + 100)
FilterNext(v, o, acc) == IF v % 2 = 1 THEN Tell(acc, o, v) ELSE acc
TakeNext(v, o, acc) ==
  IF acc.n >= Count THEN acc
  ELSE LET told == [Tell(acc, o, v) EXCEPT !.n = @ + 1]
       IN IF told.n >= Count THEN Tell(told, o, Completed) ELSE told
SkipNext(v, o, acc) == IF acc.n < Count THEN [acc EXCEPT !.n = @ + 1] ELSE Tell(acc, o, v)
ThrottleNext(v, o, acc) ==
  IF now - acc.n >= Count THEN [Tell(acc, o, v) EXCEPT !.n = now] ELSE acc

OnNext(v, o, acc) ==
  CASE op \in {"plain", "interval"} -> Tell(acc, o, v)
    [] op = "map" -> MapNext(v, o, acc)
    [] op = "filter" -> FilterNext(v, o, acc)
    [] op = "take" -> TakeNext(v, o, acc)
    [] op = "skip" -> SkipNext(v, o, acc)
    [] op = "throttle" -> ThrottleNext(v, o, acc)
    [] OTHER -> acc

(* debounce: the value is kept and the timer that ran is cancelled.         *)
DebounceNext(v) ==
  /\ latest' = v
  /\ timers' = Append(SelectSeq(timers, LAMBDA t : t < 0), v)

(* _emit_next, under the source's lock: all observers in turn.              *)
EmitNext(v) ==
  LET after == FoldLeft(LAMBDA acc, o : OnNext(v, o, acc), [got |-> got, n |-> n], observers)
  IN /\ got' = after.got /\ n' = after.n

Emit ==
  /\ status = "active" /\ Len(emitted) < MaxEmitted
  /\ emitted' = Append(emitted, Len(emitted) + 1)
  /\ EmitNext(Len(emitted) + 1)
  /\ IF op = "debounce" /\ observers # <<>> THEN DebounceNext(Len(emitted) + 1) ELSE UNCHANGED <<latest, timers>>
  /\ UNCHANGED <<op, status, observers, since, until, now, feeds, doing>>

HotEmit == op \in Hot /\ Emit
TimerLoop == op = "interval" /\ (emitted # <<>> \/ observers # <<>>) /\ Emit   \* runs from the first subscription on

(* _emit_completed and _emit_error: the first one ends the source.          *)
End(mark) ==
  /\ op \in Hot /\ status = "active"
  /\ status' = IF mark = Completed THEN "completed" ELSE "error"
  /\ got' = FoldLeft(LAMBDA g, o : [g EXCEPT ![o] = Append(@, mark)], got, observers)
  /\ UNCHANGED <<op, observers, emitted, since, until, n, now, latest, timers, feeds, doing>>

Dispose ==
  /\ op \in Hot \cup {"interval", "iterable", "shared_iterator"} /\ status # "disposed"
  /\ status' = "disposed" /\ observers' = <<>>
  /\ until' = [o \in Observers |-> IF o \in Range(observers) THEN Len(emitted) ELSE until[o]]
  /\ UNCHANGED <<op, emitted, since, got, n, now, latest, timers, feeds, doing>>

(* The timer and the merge are modelled for one observer.                   *)
Single == op \in {"merge", "merge_take", "debounce"}

(* subscribe: a cold source produces all of its values inside the call.     *)
ColdProducer == <<1, 2, Completed>>
Subscribe(o) ==
  /\ status # "disposed" /\ since[o] = Never
  /\ Single => observers = <<>>
  /\ observers' = Append(observers, o)
  /\ since' = [since EXCEPT ![o] = Len(emitted)]
  /\ got' = IF op = "cold" THEN [got EXCEPT ![o] = ColdProducer] ELSE got
  /\ UNCHANGED <<op, status, emitted, until, n, now, latest, timers, feeds, doing>>

(* unsubscribe reaches the source only where no operator is between.        *)
Unsubscribe(o) ==
  /\ op \in {"plain", "interval"} /\ o \in Range(observers)
  /\ observers' = SelectSeq(observers, LAMBDA p : p # o)
  /\ until' = [until EXCEPT ![o] = Len(emitted)]
  /\ UNCHANGED <<op, status, emitted, since, got, n, now, latest, timers, feeds, doing>>

Tick == /\ op = "throttle" /\ now < MaxTime /\ now' = now + 1
        /\ UNCHANGED <<op, status, observers, emitted, since, until, got, n, latest, timers, feeds, doing>>

(* The timer of debounce: cancel() comes too late for one that has fired    *)
(* (-t) and waits for the lock; whoever has it emits the latest value.      *)
Fire == /\ timers # <<>> /\ Last(timers) > 0
        /\ timers' = [timers EXCEPT ![Len(timers)] = - @]
        /\ UNCHANGED <<op, status, observers, emitted, since, until, got, n, now, latest, feeds, doing>>
EmitLatest ==
  \E i \in DOMAIN timers :
    /\ timers[i] < 0 /\ timers' = RemoveAt(timers, i)
    /\ latest' = Nothing
    /\ got' = IF latest = Nothing THEN got
              ELSE [o \in Observers |-> IF since[o] = Never THEN got[o] ELSE Append(got[o], latest)]
    /\ UNCHANGED <<op, status, observers, emitted, since, until, n, now, feeds, doing>>

-----------------------------------------------------------------------------
(* The threads of FromIterableObservables: one for each source of a merge,  *)
(* or one for each subscription.  They call the observer without a lock.    *)
Listener(f) == IF op \in {"merge", "merge_take"} THEN observers[1] ELSE observers[f]
Runs(f) == op \in Threaded \ {"interval"} /\ status = "active"
           /\ Len(observers) >= (IF op \in {"merge", "merge_take"} THEN 1 ELSE f)

Say(o, v) == got' = [got EXCEPT ![o] = Append(@, v)]

FeedOf(f) == IF op = "shared_iterator" THEN 1 ELSE f

(* emit_values: the next value; all threads over one iterator share it.     *)
FeedNext(f) ==
  /\ Runs(f) /\ doing[f] = "idle" /\ op # "merge_take"
  /\ feeds[FeedOf(f)] # <<>>
  /\ feeds' = [feeds EXCEPT ![FeedOf(f)] = Tail(@)]
  /\ Say(Listener(f), Head(feeds[FeedOf(f)]))
  /\ UNCHANGED <<op, status, observers, emitted, since, until, n, now, latest, timers, doing>>

(* take behind a merge, on the sources' threads: tests its count, passes    *)
(* the value on, counts it, and looks again.  += is one step: from Python   *)
(* 3.11 on, no other thread comes between its load and its store.           *)
FeedTest(f) ==
  /\ Runs(f) /\ doing[f] = "idle" /\ op = "merge_take" /\ feeds[f] # <<>>
  /\ IF n < Count THEN doing' = [doing EXCEPT ![f] = "passed"] /\ UNCHANGED feeds
                  ELSE feeds' = [feeds EXCEPT ![f] = Tail(@)] /\ UNCHANGED doing
  /\ UNCHANGED <<op, status, observers, emitted, since, until, got, n, now, latest, timers>>
FeedPass(f) ==
  /\ doing[f] = "passed"
  /\ Say(Listener(f), Head(feeds[f]))
  /\ feeds' = [feeds EXCEPT ![f] = Tail(@)] /\ doing' = [doing EXCEPT ![f] = "told"]
  /\ UNCHANGED <<op, status, observers, emitted, since, until, n, now, latest, timers>>
FeedCount(f) ==
  /\ doing[f] = "told"
  /\ n' = n + 1 /\ doing' = [doing EXCEPT ![f] = "counted"]
  /\ UNCHANGED <<op, status, observers, emitted, since, until, got, now, latest, timers, feeds>>
FeedTaken(f) ==
  /\ doing[f] = "counted"
  /\ doing' = [doing EXCEPT ![f] = "idle"]
  /\ IF n >= Count THEN Say(Listener(f), Completed) ELSE UNCHANGED got
  /\ UNCHANGED <<op, status, observers, emitted, since, until, n, now, latest, timers, feeds>>

Merging == op \in {"merge", "merge_take"}
EndedFeeds == Cardinality({g \in Feeds : doing[g] = "ended"})     \* completed_count of the merge

(* Faulty variant: the merge waits for one source more than it has.         *)
FeedEndLate(f) ==
  /\ Runs(f) /\ doing[f] = "idle" /\ feeds[FeedOf(f)] = <<>>
  /\ doing' = [doing EXCEPT ![f] = "ended"]
  /\ IF Merging => EndedFeeds + 1 > Cardinality(Feeds) THEN Say(Listener(f), Completed) ELSE UNCHANGED got
  /\ UNCHANGED <<op, status, observers, emitted, since, until, n, now, latest, timers, feeds>>

(* The thread's values are used up: a merge completes with its last source. *)
FeedEnd(f) ==
  /\ Runs(f) /\ doing[f] = "idle" /\ feeds[FeedOf(f)] = <<>>
  /\ doing' = [doing EXCEPT ![f] = "ended"]
  /\ IF Merging => EndedFeeds + 1 >= Cardinality(Feeds) THEN Say(Listener(f), Completed) ELSE UNCHANGED got
  /\ UNCHANGED <<op, status, observers, emitted, since, until, n, now, latest, timers, feeds>>

Feed(f) == FeedNext(f) \/ FeedTest(f) \/ FeedPass(f) \/ FeedCount(f) \/ FeedTaken(f) \/ FeedEnd(f)

ObsNext ==
  \/ HotEmit \/ TimerLoop \/ (\E mark \in {Completed, Error} : End(mark)) \/ Dispose \/ Tick
  \/ \E o \in Observers : Subscribe(o) \/ Unsubscribe(o)
  \/ Fire \/ EmitLatest
  \/ \E f \in Feeds : Feed(f)

-----------------------------------------------------------------------------
Proper(o) == SelectSeq(got[o], LAMBDA v : v > 0)
Heard(o) == SubSeq(emitted, since[o] + 1, IF until[o] < Len(emitted) THEN until[o] ELSE Len(emitted))

Increasing(s) == \A i, j \in DOMAIN s : i < j => s[i] < s[j]
OfFeed(o, f) == SelectSeq(Proper(o), LAMBDA v : v \div 10 = f)

(* What an observer hears of what was emitted while it was subscribed: all  *)
(* of it from a source, an interval, map and filter; take the first and     *)
(* skip the last values of it; from a merge and from an iterable what each  *)
(* thread has produced so far, to which the take behind a merge gives no    *)
(* value that an earlier one of its thread did not precede; and from        *)
(* throttle, debounce, a cold source and a shared iterator some of it, in   *)
(* order and once.                                                          *)
HearsItsPart ==
  \A o \in Observers : since[o] # Never =>
    CASE op \in {"plain", "interval"} -> Proper(o) = Heard(o)
      [] op = "map" -> Proper(o) = [i \in DOMAIN Heard(o) |-> Heard(o)[i] + 100]
      [] op = "filter" -> Proper(o) = SelectSeq(Heard(o), LAMBDA v : v % 2 = 1)
      [] op = "take" -> IsPrefix(Proper(o), Heard(o))
      [] op = "skip" -> IsSuffix(Proper(o), Heard(o))
      [] op = "merge" -> \A f \in Feeds : OfFeed(o, f) \o feeds[f] = FeedValues(f)
      [] op = "merge_take" -> \A f \in Feeds : IsPrefix(OfFeed(o, f), FeedValues(f))
      [] op = "iterable" -> \A f \in Feeds \cap DOMAIN observers :
                              observers[f] = o => Proper(o) \o feeds[f] = FeedValues(f)
      [] OTHER -> Increasing(Proper(o))

(* No value comes after a completion or an error, but for two operators:    *)
(* debounce passes the completion on at once and may emit the value it has  *)
(* kept afterwards, at most that one; and a take behind a merge completes   *)
(* only when it has passed on its count or all sources have ended, but      *)
(* other threads that passed the test before may still pass on one value    *)
(* each.                                                                    *)
AfterEnd(o) == {i \in DOMAIN got[o] : got[o][i] > 0 /\ \E j \in 1..(i - 1) : got[o][j] < 0}
EndComesLast ==
  \A o \in Observers :
    /\ Cardinality(AfterEnd(o)) <= (IF op = "debounce" THEN 1
                                    ELSE IF op = "merge_take" THEN Cardinality(Feeds) - 1 ELSE 0)
    /\ (op = "merge_take" /\ Completed \in Range(got[o])) =>
         \/ Len(Proper(o)) - Cardinality(AfterEnd(o)) >= Count
         \/ EndedFeeds = Cardinality(Feeds)

Told == LET told(o) == Len(Proper(o)) IN FoldFunction(LAMBDA a, b : a + b, 0, [o \in Observers |-> told(o)])

(* The counts of the operators: take passes on no more than its count and   *)
(* skip drops no more, both for all observers together; behind a merge,     *)
(* each other thread may take it beyond its count by one; throttle passes   *)
(* on one value per interval, debounce each value at most once; observers   *)
(* over one iterator get different values.                                  *)
CountsHold ==
  /\ op = "take" => Told <= Count
  /\ op = "merge_take" => Told <= Count + Cardinality(Feeds) - 1
  /\ op = "skip" => n <= Count /\ (observers # <<>> => n = Count \/ Told = 0)
  /\ op = "throttle" => Told * Count <= now + Count
  /\ op = "debounce" => Told <= Len(emitted)
  /\ op = "shared_iterator" => \A o, p \in Observers : o # p => Range(Proper(o)) \cap Range(Proper(p)) = {}

(* Threads come to their end: a merge completes, the last value of a        *)
(* debounced source is passed on.                                           *)
Begun == IF op = "merge" THEN observers # <<>> ELSE op = "debounce" /\ latest # Nothing
Ended == IF op = "merge" THEN \E o \in Observers : Completed \in Range(got[o]) ELSE latest = Nothing
StreamsEnd == Begun ~> Ended
=============================================================================
