----------------------------- MODULE BoundedQueues ----------------------------
(***************************************************************************)
(* A queue of items with callers that wait until there is room or an item, *)
(* each kind of caller in its own first-in first-out line, as asyncio.Queue*)
(* and threading.Condition keep them.  Who is woken leaves the line and    *)
(* looks again when it runs: another caller may have come first.           *)
(*                                                                         *)
(* Built on it: AsyncBoundedQueue and AsyncPriorityQueue of                *)
(* asyncio_patterns/async_producer_consumer.py, over asyncio.Queue, and    *)
(* BoundedBuffer of synchronization/condition_variables.py.  The           *)
(* statistics are left out; a put into a closed queue raises and changes   *)
(* nothing.  AsyncBoundedBuffer is not here: its put and get hold          *)
(* self.lock and wait for a condition over the same asyncio.Lock, which    *)
(* asks for it once more, so that the first call hangs and no other gets   *)
(* the lock.                                                               *)
(***************************************************************************)
EXTENDS Integers, Sequences, FiniteSets, SequencesExt

CONSTANTS Producers, Consumers,   (* tasks or threads that put, and that get *)
          Timed,                  (* those whose calls pass a timeout        *)
          Items,
          Capacity,
          MaxAccepted             (* bound: items accepted                   *)

ASSUME QueueAssumption ==
  /\ IsFiniteSet(Producers) /\ IsFiniteSet(Consumers)
  /\ Producers \cap Consumers = {}
  /\ Items \subseteq Int
  /\ Capacity \in Nat \ {0}

VARIABLES buffer,     (* the items in the queue                              *)
          closed,
          putters,    (* the line of those that wait for room                *)
          getters,    (* the line of those that wait for an item             *)
          pc,         (* "idle", "put" or "get": waiting, or woken           *)
          arg,        (* the item of a put, or what was handed to a get      *)
          expired,    (* waiting callers whose time is over                  *)
          accepted,   (* history: items that were put in, in order           *)
          gone        (* history: items that left, in order                  *)

queueVars == <<buffer, closed, putters, getters, pc, arg, expired, accepted, gone>>

Tasks == Producers \cup Consumers
NoItem == 0

QueueInit ==
  /\ buffer = <<>> /\ closed = FALSE
  /\ putters = <<>> /\ getters = <<>>
  /\ pc = [t \in Tasks |-> "idle"]
  /\ arg = [t \in Tasks |-> NoItem]
  /\ expired = {}
  /\ accepted = <<>> /\ gone = <<>>

Waiting(line) == {line[i] : i \in DOMAIN line}
(* list.remove *)
Without(line, t) ==
  IF t \in Waiting(line) THEN RemoveAt(line, CHOOSE i \in DOMAIN line : line[i] = t)
                         ELSE line
Next1(line) == IF line = <<>> THEN <<>> ELSE Tail(line)   \* the first one is woken

Idle(t) == pc' = [pc EXCEPT ![t] = "idle"] /\ arg' = [arg EXCEPT ![t] = NoItem]

(* put_nowait and get_nowait: in and out, and the first waiter is woken.    *)
PutIn(x) ==
  /\ buffer' = Append(buffer, x)
  /\ accepted' = Append(accepted, x)
  /\ getters' = Next1(getters)
TakeOut ==
  /\ buffer' = Tail(buffer)
  /\ gone' = Append(gone, Head(buffer))
  /\ putters' = Next1(putters)

(* put, of a new call or of one that was woken.                             *)
PutOrWait(t, x, room) ==
  \/ /\ room
     /\ PutIn(x) /\ Idle(t)
     /\ UNCHANGED <<closed, putters, expired, gone>>
  \/ /\ ~ room
     /\ putters' = Append(putters, t)
     /\ pc' = [pc EXCEPT ![t] = "put"] /\ arg' = [arg EXCEPT ![t] = x]
     /\ UNCHANGED <<buffer, closed, getters, expired, accepted, gone>>

GetOrWait(t) ==
  \/ /\ buffer # <<>>
     /\ TakeOut /\ Idle(t)
     /\ UNCHANGED <<closed, getters, expired, accepted>>
  \/ /\ buffer = <<>>
     /\ getters' = Append(getters, t)
     /\ pc' = [pc EXCEPT ![t] = "get"]
     /\ UNCHANGED <<buffer, closed, putters, arg, expired, accepted, gone>>

CallsPut(t) == t \in Producers /\ pc[t] = "idle" /\ Len(accepted) < MaxAccepted
CallsGet(t) == t \in Consumers /\ pc[t] = "idle"

Woken(t) == pc[t] # "idle" /\ t \notin Waiting(putters) \cup Waiting(getters)

Resume(t, room) ==
  /\ Woken(t) /\ t \notin expired
  /\ IF pc[t] = "put" THEN PutOrWait(t, arg[t], room) ELSE GetOrWait(t)

(* asyncio.wait_for: the time of the call is over, also of one that was     *)
(* woken and has not run: it passes the wake-up on.                         *)
TimeOut(t, room) ==
  /\ t \in Timed /\ pc[t] # "idle"
  /\ putters' = IF pc[t] = "put" /\ Woken(t) /\ room THEN Next1(putters)
                                                    ELSE Without(putters, t)
  /\ getters' = IF pc[t] = "get" /\ Woken(t) /\ buffer # <<>> THEN Next1(getters)
                                                             ELSE Without(getters, t)
  /\ Idle(t)
  /\ UNCHANGED <<buffer, closed, expired, accepted, gone>>

Close == closed' = TRUE
         /\ UNCHANGED <<buffer, putters, getters, pc, arg, expired, accepted, gone>>

-----------------------------------------------------------------------------
(* AsyncBoundedQueue, with one of the strategies block, raise, drop_oldest  *)
(* and drop_newest.                                                         *)

Full == Len(buffer) >= Capacity

(* The oldest item makes room; who waits for an item is not disturbed, as   *)
(* nobody waits at a full queue.                                            *)
DropOldest(t, x) ==
  /\ Full
  /\ buffer' = Append(Tail(buffer), x)
  /\ gone' = Append(gone, Head(buffer))
  /\ accepted' = Append(accepted, x)
  /\ putters' = Next1(putters)
  /\ getters' = Next1(getters)
  /\ UNCHANGED <<closed, pc, arg, expired>>

Put(strategy, t, x) ==
  /\ CallsPut(t) /\ ~ closed
  /\ \/ ~ Full /\ PutOrWait(t, x, TRUE)
     \/ Full /\ strategy = "block" /\ PutOrWait(t, x, FALSE)
     \/ strategy = "drop_oldest" /\ DropOldest(t, x)

PutNowait(strategy, t, x) ==
  /\ CallsPut(t) /\ ~ closed
  /\ \/ ~ Full /\ PutOrWait(t, x, TRUE)
     \/ strategy = "drop_oldest" /\ DropOldest(t, x)

Get(t) == CallsGet(t) /\ ~ (closed /\ buffer = <<>>) /\ GetOrWait(t)

GetNowait(t) == CallsGet(t) /\ buffer # <<>> /\ GetOrWait(t)

BoundedNext(strategy) ==
  \/ \E t \in Producers, x \in Items : Put(strategy, t, x) \/ PutNowait(strategy, t, x)
  \/ \E t \in Consumers : Get(t) \/ GetNowait(t)
  \/ \E t \in Tasks : Resume(t, ~ Full) \/ TimeOut(t, ~ Full)
  \/ Close

-----------------------------------------------------------------------------
(* AsyncPriorityQueue: an item is its priority; the heap gives the smallest *)
(* first, and the counter keeps equal ones in order.  (The docstrings say   *)
(* "higher priority items first" and "higher number = higher priority":     *)
(* the code does the opposite.)                                             *)

PriorityIn(t, x) ==
  /\ ~ Full
  /\ \E i \in 1 .. Len(buffer) + 1 :
       /\ \A j \in DOMAIN buffer : buffer[j] <= x <=> j < i
       /\ buffer' = InsertAt(buffer, i, x)
  /\ accepted' = Append(accepted, x)
  /\ getters' = Next1(getters)
  /\ Idle(t)
  /\ UNCHANGED <<closed, putters, expired, gone>>

PriorityPut(t, x) ==
  CallsPut(t) /\ ~ closed /\ (PriorityIn(t, x) \/ (Full /\ PutOrWait(t, x, FALSE)))

PriorityResume(t) ==
  IF pc[t] = "put" THEN Woken(t) /\ (PriorityIn(t, arg[t])
                                     \/ (Full /\ PutOrWait(t, arg[t], FALSE)))
                   ELSE Resume(t, ~ Full)

PriorityNext ==
  \/ \E t \in Producers, x \in Items : PriorityPut(t, x)
  \/ \E t \in Consumers : Get(t)
  \/ \E t \in Tasks : PriorityResume(t) \/ TimeOut(t, ~ Full)
  \/ Close

-----------------------------------------------------------------------------
(* BoundedBuffer of synchronization/condition_variables.py, with            *)
(* EnhancedCondition.wait, whose statistics are left out.  Each call is a   *)
(* section of the lock up to its wait.                                      *)

ThreadPut(t, x) == CallsPut(t) /\ PutOrWait(t, x, ~ Full)
ThreadGet(t) == CallsGet(t) /\ GetOrWait(t)

(* The timeout of a wait elapses; the thread stays in the line until it has *)
(* the lock back, so that it may still be notified.                         *)
Expire(t) ==
  /\ t \in Timed /\ t \in Waiting(putters) \cup Waiting(getters)
  /\ expired' = expired \cup {t}
  /\ UNCHANGED <<buffer, closed, putters, getters, pc, arg, accepted, gone>>

(* wait returns TIMEOUT without looking at the predicate again: the         *)
(* notification of a thread that was notified too late is lost.             *)
GiveUp(t) ==
  /\ t \in expired
  /\ expired' = expired \ {t}
  /\ putters' = Without(putters, t)
  /\ getters' = Without(getters, t)
  /\ Idle(t)
  /\ UNCHANGED <<buffer, closed, accepted, gone>>

EnhancedNext ==
  \/ \E t \in Producers, x \in Items : ThreadPut(t, x)
  \/ \E t \in Consumers : ThreadGet(t)
  \/ \E t \in Tasks : Resume(t, ~ Full) \/ Expire(t) \/ GiveUp(t)

-----------------------------------------------------------------------------
(* Properties *)

(* What was put in and did not come out is still inside, in order.          *)
InOrder == accepted = gone \o buffer

(* Nobody waits for an item, or for room, that none of the woken callers    *)
(* will fetch; but for n items, or places, at most.                         *)
NobodyForgotten(n) ==
  LET running(k) == Cardinality({t \in Tasks : Woken(t) /\ pc[t] = k})
  IN /\ getters # <<>> => Len(buffer) <= running("get") + n
     /\ putters # <<>> => Capacity <= Len(buffer) + running("put") + n

(* What is forgotten becomes more in one way only, and then by one: a       *)
(* thread that was notified after its time had run out gives up.            *)
WakeUpStep ==
  \A n \in 0 .. Capacity : NobodyForgotten(n) =>
    \/ NobodyForgotten(n)'
    \/ /\ \E t \in expired : Woken(t) /\ pc'[t] = "idle"
       /\ NobodyForgotten(n + 1)'

(* A queue that never lets a put wait has nobody in its line for room.      *)
StrategyKept(strategy) ==
  /\ Len(buffer) <= Capacity
  /\ strategy # "block" => putters = <<>>

(* Nothing is lost or invented, and the items wait in the order of the      *)
(* heap, the smallest number first, against the docstrings.                 *)
Count(x, s) == Cardinality({i \in DOMAIN s : s[i] = x})

PriorityKept ==
  /\ \A x \in Items : Count(x, accepted) = Count(x, gone) + Count(x, buffer)
  /\ \A i, j \in DOMAIN buffer : i < j => buffer[i] <= buffer[j]
=============================================================================
