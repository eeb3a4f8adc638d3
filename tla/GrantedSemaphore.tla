--------------------------- MODULE GrantedSemaphore --------------------------
(***************************************************************************)
(* FairSemaphore, PrioritySemaphore and AsyncSemaphore of                  *)
(* synchronization/semaphores.py.  In all of them a thread (a task) that   *)
(* wants permits queues up, then waits for an event (a future) of its own; *)
(* somebody else deducts its permits and sets the event.                   *)
(***************************************************************************)
EXTENDS Naturals, FiniteSets, SequencesExt

CONSTANTS Threads,
          TimedThreads,  (* those that pass a timeout to acquire; tasks that  *)
                         (* may be cancelled                                  *)
          Priority,      (* priority of a thread, lower numbers first         *)
          MaxPermits     (* permits of the constructor                        *)

VARIABLES permits,   (* self._permits                                        *)
          held,      (* what a thread has acquired and not yet released      *)
          wants,     (* inside acquire(): its argument permits, otherwise 0  *)
          queue,     (* _waiting_queue, _waiters, or _waiting_heap in order  *)
                     (* of service                                           *)
          granted,   (* threads whose event is set                           *)
          expired,   (* threads whose event.wait() returned False; tasks that*)
                     (* were cancelled                                       *)
          lost,      (* history: permits granted to a thread that gave up    *)
          gaveUp     (* history: somebody gave up                            *)

vars == <<permits, held, wants, queue, granted, expired, lost, gaveUp>>

Init ==
  /\ permits = MaxPermits
  /\ held = [t \in Threads |-> 0]
  /\ wants = [t \in Threads |-> 0]
  /\ queue = <<>>
  /\ granted = {} /\ expired = {}
  /\ lost = 0 /\ gaveUp = FALSE

-----------------------------------------------------------------------------
(* What the threads of S have of f, all together, permit by permit. *)
Total(S, f) == Cardinality({p \in S \X (1 .. MaxPermits) : p[2] <= f[p[1]]})

First(q, k) == {q[i] : i \in 1 .. k}

(* The loop of _process_waiting_ takes k threads from the front of q: as    *)
(* many as n permits satisfy.                                               *)
Serves(q, want, k, n) ==
  /\ Total(First(q, k), want) <= n
  /\ k < Len(q) => Total(First(q, k + 1), want) > n

(* The first k threads of q get their permits out of n.                     *)
Grant(q, want, k, n) ==
  /\ permits' = n - Total(First(q, k), want)
  /\ granted' = granted \cup First(q, k)

(* min(n, self._max_permits) *)
Capped(n) == IF n > MaxPermits THEN MaxPermits ELSE n

(* What is left of q when the threads of S are taken out of it.             *)
Without(r, q, S) ==
  LET staying == {i \in DOMAIN q : q[i] \notin S}
  IN \E place \in Bijection(1 .. Cardinality(staying), staying) :
       /\ \A i, j \in DOMAIN place : i < j => place[i] < place[j]
       /\ r = [i \in DOMAIN place |-> q[place[i]]]

(* event.wait() returned True.                                              *)
Proceed(t) ==
  /\ wants[t] > 0
  /\ t \in granted \ expired
  /\ held' = [held EXCEPT ![t] = wants[t]]
  /\ wants' = [wants EXCEPT ![t] = 0]
  /\ granted' = granted \ {t}
  /\ UNCHANGED <<permits, queue, expired, lost, gaveUp>>

(* event.wait() times out.  The thread holds no lock: the event may be set  *)
(* before it takes itself out of the queue.                                 *)
Expire(t) ==
  /\ t \in TimedThreads \ (granted \cup expired)
  /\ wants[t] > 0
  /\ expired' = expired \cup {t}
  /\ UNCHANGED <<permits, held, wants, queue, granted, lost, gaveUp>>

(* Faulty variant: the thread stays in the queue. *)
GiveUpQueued(t) ==
  /\ t \in expired
  /\ expired' = expired \ {t}
  /\ wants' = [wants EXCEPT ![t] = 0]
  /\ lost' = IF t \in granted THEN lost + wants[t] ELSE lost
  /\ granted' = granted \ {t}
  /\ gaveUp' = TRUE
  /\ UNCHANGED <<permits, held, queue>>
(* The timed out thread leaves the queue if it is still there; permits that *)
(* it was granted meanwhile stay deducted.                                  *)
GiveUp(t) ==
  /\ t \in expired
  /\ Without(queue', queue, {t})
  /\ expired' = expired \ {t}
  /\ wants' = [wants EXCEPT ![t] = 0]
  /\ lost' = IF t \in granted THEN lost + wants[t] ELSE lost
  /\ granted' = granted \ {t}
  /\ gaveUp' = TRUE
  /\ UNCHANGED <<permits, held>>

-----------------------------------------------------------------------------
(* FairSemaphore.  acquire() does not look at the permits: only a           *)
(* release() grants any.                                                    *)

FairAcquire(t, n) ==
  /\ wants[t] = 0 /\ held[t] = 0
  /\ wants' = [wants EXCEPT ![t] = n]
  /\ queue' = Append(queue, t)
  /\ UNCHANGED <<permits, held, granted, expired, lost, gaveUp>>

(* Faulty variant: the last thread of the queue is served first. *)
ProcessQueueBackwards(n) ==
  LET q == Reverse(queue)
  IN \E k \in 0 .. Len(q) :
     /\ Serves(q, wants, k, n) /\ Grant(q, wants, k, n)
     /\ queue' = Reverse(SubSeq(q, k + 1, Len(q)))
(* _process_waiting_queue, with n permits.  The first request that does not *)
(* fit has been taken out and is put back, behind all others.               *)
ProcessQueue(n) ==
  \E k \in 0 .. Len(queue) :
    LET rest == SubSeq(queue, k + 1, Len(queue))
    IN /\ Serves(queue, wants, k, n) /\ Grant(queue, wants, k, n)
       /\ queue' = IF permits' > 0 /\ rest # <<>>
                     THEN Append(Tail(rest), Head(rest))
                     ELSE rest

(* release(n) of a thread that holds as many.                               *)
FairRelease(t, n) ==
  /\ n <= held[t]
  /\ held' = [held EXCEPT ![t] = @ - n]
  /\ ProcessQueue(Capped(permits + n))
  /\ UNCHANGED <<wants, expired, lost, gaveUp>>

(* A call of release() while no permit is taken: it adds nothing, but       *)
(* without it nobody ever gets the first one.                               *)
Nudge ==
  /\ permits = MaxPermits
  /\ ProcessQueue(Capped(permits + 1))
  /\ UNCHANGED <<held, wants, expired, lost, gaveUp>>

FairNext ==
  \/ \E t \in Threads :
       \/ \E n \in 1 .. MaxPermits : FairAcquire(t, n) \/ FairRelease(t, n)
       \/ Proceed(t) \/ Expire(t) \/ GiveUp(t)
  \/ Nudge

(* A thread runs on when its event is set or its timeout has elapsed, and   *)
(* gives its permits back.  Nobody is obliged to nudge the semaphore.       *)
FairObliged(t) ==
  Proceed(t) \/ GiveUp(t) \/ \E n \in 1 .. MaxPermits : FairRelease(t, n)

-----------------------------------------------------------------------------
(* PrioritySemaphore.  The heap is a sequence in the order of service: by   *)
(* priority, then by arrival.                                               *)

(* heappush: position i of the queue is where t belongs. *)
Belongs(t, i) ==
  /\ \A j \in 1 .. i - 1 : Priority[queue[j]] <= Priority[t]
  /\ \A j \in i .. Len(queue) : Priority[queue[j]] > Priority[t]

(* Faulty variant: a request that does not fit is passed over. *)
ProcessHeapGreedily(q, want, n) ==
  LET Fits(s) == want[s] <= n
      first == SelectSeq(q, Fits)
  IN IF first = <<>>
       THEN Grant(q, want, 0, n) /\ queue' = q
       ELSE /\ Grant(first, want, 1, n)
            /\ queue' = SelectSeq(q, LAMBDA s : s # Head(first))
(* _process_waiting_heap on the heap q, with n permits.                     *)
ProcessHeap(q, want, n) ==
  \E k \in 0 .. Len(q) :
    /\ Serves(q, want, k, n) /\ Grant(q, want, k, n)
    /\ queue' = SubSeq(q, k + 1, Len(q))

PriorityAcquire(t, n) ==
  /\ wants[t] = 0 /\ held[t] = 0
  /\ wants' = [wants EXCEPT ![t] = n]
  /\ \E i \in 1 .. Len(queue) + 1 :
       Belongs(t, i) /\ ProcessHeap(InsertAt(queue, i, t), wants', permits)
  /\ UNCHANGED <<held, expired, lost, gaveUp>>

(* Faulty variant: release does not look at the heap. *)
PriorityReleaseOnly(t, n) ==
  /\ n <= held[t]
  /\ held' = [held EXCEPT ![t] = @ - n]
  /\ permits' = Capped(permits + n)
  /\ UNCHANGED <<wants, queue, granted, expired, lost, gaveUp>>
(* release(n) of a thread that holds as many.                               *)
PriorityRelease(t, n) ==
  /\ n <= held[t]
  /\ held' = [held EXCEPT ![t] = @ - n]
  /\ ProcessHeap(queue, wants, Capped(permits + n))
  /\ UNCHANGED <<wants, expired, lost, gaveUp>>

PriorityNext ==
  \E t \in Threads :
    \/ \E n \in 1 .. MaxPermits : PriorityAcquire(t, n) \/ PriorityRelease(t, n)
    \/ Proceed(t) \/ Expire(t) \/ GiveUp(t)

(* A thread runs on when its event is set or its timeout has elapsed, and   *)
(* gives its permits back.                                                  *)
PriorityObliged(t) ==
  Proceed(t) \/ GiveUp(t) \/ \E n \in 1 .. MaxPermits : PriorityRelease(t, n)

-----------------------------------------------------------------------------
(* AsyncSemaphore.  Tasks interleave where acquire() awaits its future.     *)

(* Permits that are there are taken, whoever waits.                         *)
TakeOrWait(t, n) ==
  IF permits >= n
    THEN /\ permits' = permits - n
         /\ held' = [held EXCEPT ![t] = n] /\ wants' = [wants EXCEPT ![t] = 0]
         /\ UNCHANGED queue
    ELSE /\ wants' = [wants EXCEPT ![t] = n] /\ queue' = Append(queue, t)
         /\ UNCHANGED <<permits, held>>

AsyncAcquire(t, n) ==
  /\ wants[t] = 0 /\ held[t] = 0 /\ t \notin expired
  /\ TakeOrWait(t, n)
  /\ UNCHANGED <<granted, expired, lost, gaveUp>>

(* The future is set: the loop looks again, and takes the permits that were *)
(* deducted for it a second time, or waits for them once more.              *)
AsyncResume(t) ==
  /\ t \in granted
  /\ TakeOrWait(t, wants[t])
  /\ lost' = lost + wants[t]
  /\ granted' = granted \ {t}
  /\ UNCHANGED <<expired, gaveUp>>

(* CancelledError ends the task.  Its future, if it was not set, stays      *)
(* among the waiters and is done.                                           *)
AsyncCancel(t) ==
  /\ t \in TimedThreads \ expired /\ wants[t] > 0
  /\ expired' = expired \cup {t}
  /\ gaveUp' = TRUE
  /\ granted' = granted \ {t}
  /\ IF t \in granted THEN lost' = lost + wants[t] /\ wants' = [wants EXCEPT ![t] = 0]
                      ELSE UNCHANGED <<lost, wants>>
  /\ UNCHANGED <<permits, held, queue>>

(* _notify_waiters passes over futures that are done, up to the first       *)
(* request, of a cancelled task too, that is more than what is left.        *)
NotifyWaiters(n) ==
  LET live(k) == First(queue, k) \ expired
      left(k) == n - Total(live(k), wants)
  IN \E k \in 0 .. Len(queue) :
       /\ \A i \in 1 .. k : wants[queue[i]] <= left(i - 1)
       /\ k < Len(queue) => wants[queue[k + 1]] > left(k)
       /\ permits' = left(k)
       /\ granted' = granted \cup live(k)
       /\ Without(queue', queue, live(k))

(* release(n) of a task that holds as many.                                 *)
AsyncRelease(t, n) ==
  /\ n <= held[t]
  /\ held' = [held EXCEPT ![t] = @ - n]
  /\ NotifyWaiters(Capped(permits + n))
  /\ UNCHANGED <<wants, expired, lost, gaveUp>>

AsyncNext ==
  \E t \in Threads :
    \/ \E n \in 1 .. MaxPermits : AsyncAcquire(t, n) \/ AsyncRelease(t, n)
    \/ AsyncResume(t) \/ AsyncCancel(t)

-----------------------------------------------------------------------------
(* Properties *)

(* Permits are free, held, on their way to a thread whose event is set, or  *)
(* lost to a thread that timed out or was cancelled in the same moment, or  *)
(* to a task that took them twice; none appears or disappears otherwise.    *)
PermitsAccounted ==
  MaxPermits = permits + lost + Total(Threads, held) + Total(granted, wants)

(* The queue holds every waiting thread that was not granted its permits,   *)
(* once, and nobody else: no request is lost or left behind.                *)
QueueIsWaiting ==
  /\ IsInjective(queue)
  /\ Range(queue) = {t \in Threads : wants[t] > 0} \ granted

(* While a request for one permit is in the queue, none that is behind it   *)
(* gets in front of it or is served before it: the put-back at the end of   *)
(* the queue moves larger ones only.  (A thread that has given up may be    *)
(* passed over.)  Nothing is said of a task of an AsyncSemaphore that was   *)
(* woken and finds its permits gone: it is not in the queue any more, and   *)
(* comes back at its end, behind requests that came later.                  *)
SinglesInOrder ==
  [][\A j \in DOMAIN queue : \A i \in 1 .. j - 1 : wants[queue[i]] = 1 =>
       /\ queue[j] \in granted' => queue[i] \in granted' \cup expired
       /\ \A k, m \in DOMAIN queue' :
            queue'[k] = queue[i] /\ queue'[m] = queue[j] => k < m
    ]_vars

(* While permits keep coming back, a thread that wants one gets it.         *)
SinglesServed ==
  \A t \in Threads :
    []<>(\E s \in Threads : held[s] > 0) => (wants[t] = 1 ~> wants[t] = 0)

Before(s, t) == Priority[s] < Priority[t]

(* Permits go to the most urgent waiting threads: nobody is passed over by  *)
(* a thread of a lower priority, whether this one wants less or came first. *)
UrgentStep ==
  \A t \in granted' \ granted :
    \A s \in Threads : wants'[s] > 0 /\ Before(s, t) => s \in granted'

(* The first in line, unless it timed out or was cancelled, waits beside as *)
(* many permits as it wants.                                                *)
FirstFits ==
  queue # <<>> /\ Head(queue) \notin expired /\ permits >= wants[Head(queue)]

(* Before somebody gives up no permit is lost (FairSemaphore and            *)
(* PrioritySemaphore), ...                                                  *)
NothingLost == ~gaveUp => lost = 0

(* ... and the first in line has a reason to wait (PrioritySemaphore).      *)
FirstWaitsForMore == ~gaveUp => ~FirstFits

(* Permits are lost with their grant: to a thread that had timed out before *)
(* it was granted them, or, Twice, to the one that takes them again; they   *)
(* are all that it wanted.                                                  *)
LossStep(Twice) ==
  lost' # lost => \E t \in granted \ granted' :
                    (Twice \/ t \in expired) /\ lost' = lost + wants[t]

(* The first in line comes to wait beside enough permits in one way only:   *)
(* the one before it gives up, and nobody serves the heap then.             *)
IdleStep ==
  FirstFits' => FirstFits \/ (queue # <<>> /\ Head(queue) \in expired \ expired')

(* The most urgent thread is served while permits keep coming back ...      *)
MostUrgent(t) == \A s \in Threads \ {t} : Before(t, s)

(* ... even if it wants them all.                                           *)
UrgentServed ==
  \A t \in Threads :
    MostUrgent(t) /\ []<>(\E s \in Threads : held[s] > 0)
      => (wants[t] > 0 ~> wants[t] = 0)
=============================================================================
