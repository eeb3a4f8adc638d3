# Verification of concurrent-patterns

TLA+ specifications, model-checking configurations and machine-checked proofs
for the library of concurrency patterns in this repository (Python, `src/`).
The reference is the code; docs, comments and tests are used as statements of
what the code is meant to do. Paths below are relative to `src/src/`, those that
begin with `docs/` or `tests/` to `src/`.

Contents: 1 inventory, 2 plan, 3 modules and code, 4 runs, 5 fairness,
6 proofs, 7 findings, 8 what is not modelled.

## 1. Inventory

The library is a collection of building blocks that client threads, coroutines
or processes share; it has no program of its own. Components interact through
calls made by their clients and, inside a component, through fields guarded by
locks, conditions and events.

### 1.1 Modelled

**Bounded buffer** (`threading_patterns/producer_consumer.py`, `BoundedBuffer`).
State: a list, the capacity, `closed`, and two conditions over one lock.
Operations: `put` and `get` with optional timeouts, `close`. Hard: each put and
get wakes ONE thread, which may time out in that moment or find its item taken;
`close` must wake everybody, keep what is inside and refuse the rest. Correct
when: first in first out without loss, no thread sleeps beside an item or a
free place, only `close` makes an untimed call fail, every call in progress
ends after `close`.

**Reader-writer locks** (`synchronization/reader_writer.py`). Four classes.
State: counts of readers, writers, upgraders and waiting writers, sets of
holders, two or three conditions. Operations: `acquire_*`/`release_*`,
`upgrade_to_write`, context managers. Hard: which condition shares which lock,
whom a release notifies, counts that must survive timeouts, readers against
writers, nested read locks.

| class | locks | exclusion | who waits for whom |
|---|---|---|---|
| `BasicReadWriteLock` | an RLock per condition | does not hold (finding) | no order |
| `FairReadWriteLock` | one RLock | proved | waiting writers keep readers out |
| `UpgradableReadWriteLock` | one RLock | proved | one upgrader beside readers |
| `WritePreferringReadWriteLock` | an RLock, two conditions; readers test and count in two sections | not promised by the code | waiting writers keep readers out |

**Barriers** (`synchronization/barriers.py`). `CyclicBarrier`: count,
generation, broken flag; `wait` with timeout and barrier action, `reset`.
`CountDownLatch`: a count; `await_latch`, `count_down`. `Phaser`: phase,
parties, arrived, terminated; `register`, `arrive`, `arrive_and_await_advance`,
`arrive_and_deregister`, `await_advance`, `force_termination`. Hard: fast
threads that are back before slow ones have looked, a timeout or failing action
that breaks the barrier for all, a reset while others wait, parties that come
and go in the middle of a phase. Correct when: counts are those of the threads
that really wait, nobody passes alone, nobody stays asleep.

**Semaphores and resource pool** (`synchronization/semaphores.py`).
`CountingSemaphore` (and its binary and bounded subclasses): permits behind one
condition. `FairSemaphore`, `PrioritySemaphore`: a queue or a heap of requests
with an event each; somebody else deducts the permits and sets the event.
`ResourcePool`: a `queue.Queue` of resources behind a `CountingSemaphore`, each
with a lock of its own. Hard: a timeout against a grant, a request that does
not fit, two updates under two locks. Correct when: permits and resources are
conserved, no request is forgotten, the order of service is the promised one.

**Thread pools** (`threading_patterns/thread_pool.py`).
`BackpressureThreadPool`: bounded queue, fixed workers, four rejection
policies, `shutdown`. `ScalingThreadPool`: workers between a core and a maximum
size, a monitor thread. Hard: `submit` tests `shutdown` under the lock and
queues the task after it; workers end by `None` or by themselves; the monitor
decides on counts that are out of date; futures can be cancelled while they
run. Correct when: a task is in one place, is never run twice, is settled if it
was queued in time, and `shutdown()` returns.

**Lock-free structures** (`synchronization/lock_free.py`). `LockFreeStack`,
`LockFreeQueue`, `LockFreeHashMap`, `LockFreeLinkedList`. State: nodes with a
`next` and a `marked` field, atomic references to head and tail, a size.
Operations: push/pop, enqueue/dequeue, put/get/remove, add/remove/contains.
Hard: only the references are swapped atomically; the swap of a `next` field is
a test and a write (:250), marks are plain writes (:338), sizes follow later
(:147). Correct when: what is linked is what was put and not taken, nothing
that is surely there is missed, pop and dequeue take what an atomic stack and a
channel would give.

**Condition variables, asyncio queues and channels**
(`synchronization/condition_variables.py`,
`asyncio_patterns/async_producer_consumer.py`, `csp_patterns/channels.py`).
Ten subjects: `AsyncBoundedQueue` with four strategies, `AsyncPriorityQueue`,
the buffer over `EnhancedCondition`, and the `Synchronous`, `Buffered`,
`Unbounded` and `BroadcastChannel`. State: items, waiting putters and getters,
a closed flag. Hard: a waiter's timeout or cancellation against its wake-up;
`close` that wakes nobody; receivers that leave a broadcast. Correct when: items
come out once and in order; nobody waits beside what it waits for, and where
the code does let somebody, it does so in one place only.

**CSP processes, patterns and select** (`csp_patterns/processes.py`,
`patterns.py`, `select.py`). Tasks connected by buffered channels: producers,
consumers, filters, transformers, splitters, mergers, fan-out, fan-in,
pipelines, worker pools, a broker with topics; request and response over
`Select`; `SelectLoop`. Hard: functions that raise, a stop at any time,
`await channel.close()`, which raises after it has closed; a case that was
ready when it was tested. Correct when: every route keeps its order, everything
sent arrives while nobody interferes, an answer belongs to its request.

**Observables and iterators** (`reactive_patterns/observables.py`,
`asyncio_patterns/async_iterators.py`, `AsyncBatchProcessor`). Subscriptions,
operator state, threads of cold and merged sources, timers; batches and
buffers filled by tasks of their own. Hard: counts and iterators that observers
share, several threads on one operator, timeouts in the middle of a batch.
Correct when: an observer hears its part in order and its end last, a merge
ends, nothing is left in a batch unseen.

**Parallel algorithms and map-reduce** (`multiprocessing_patterns/`
`parallel_algorithms.py`, `map_reduce.py`). Pure functions over chunks. Correct
when: the result is that of one process, whatever the number of chunks.

**Actors** (`actor_model/`). `ActorSystem` and `Actor`: life cycle, mailbox,
`tell`, `ask` with futures, `shutdown`. Five mailboxes. `Supervisor`: children,
their specifications, restart records, monitors. `RequestResponseActor`,
`CircuitBreakerActor`, `SagaActor`. Hard: late answers, failing handlers,
messages before the start and after a stop, a notice of a death that is handled
after the child was replaced, a start or a stop of a child that fails, a
shutdown whose time runs out. Correct when: an answer reaches its own ask, a
mailbox loses only what its policy drops, a child is restarted only for an end
that its policy and its limit grant, every task ends after a shutdown.

The components interact where one is built on another: the buffers and channels
on conditions and futures, the patterns on channels, the supervisor and the
patterns on actors; the models follow these calls.

### 1.2 Not modelled

| component | hard behaviour | why not |
|---|---|---|
| asyncio barrier (`barriers.py`, `AsyncBarrier`) | awaits its parties inside the lock they need (:521) | with more than one party nobody after the first arrives; there is no further behaviour |
| buffer over `AsyncCondition` (`condition_variables.py`, `AsyncBoundedBuffer`) | `put` (:443) and `get` (:462) hold `self.lock` when `AsyncCondition.wait` asks for the same `asyncio.Lock` (:341) | the first call waits for itself and every other one for it; there is no further behaviour |
| `AsyncGroupByIterator` (`async_iterators.py`) | it is to group "consecutive items" (:250) | it yields nothing, whatever its source |
| connection pool (`asyncio_patterns/connection_pool.py`) | `acquire` awaits a connection inside the lock that `release` needs (:198) | likewise: it stops at the first `acquire` beyond its size |
| priority thread pool (`thread_pool.py`) | `None` is compared with tasks in a heap (:279) | what follows the TypeError depends on the layout of the heap |
| producer and consumer threads, asyncio producers and consumers | a consumer ends after an idle second (`producer_consumer.py`:151) | loops around modelled queues |
| rate limiters (`rate_limiting.py`) | - | arithmetic on clocks |
| `ReadWriteLock`, `Monitor` of `condition_variables.py` | a timed-out writer clears the flag of the others (:255) | a fifth lock of the same family |
| process pool, shared memory, messages between processes | a worker dies with its task (`process_pool.py`:259) | behaviour of multiprocessing queues, sockets and files |
| second copies of barriers and locks, collections, worker threads (`threading_patterns/`) | - | the same code, or one lock per operation |
| phasers with a parent, `WorkerPoolManager`, `EventBus`, supervisors that escalate to a parent | - | the actors raise TypeError or AttributeError at once; the tree is left out |
| examples, benchmarks, tests | - | clients of the library |

`PROJECT.json` lists all components with their status and, under `hazards`, the
lines where this code is hard to test, with the properties that watch them.

## 2. Plan

The order follows the weight in the library: what the other parts rest on or
imitate first, then what is subtle, then what is long.

Done: (1) bounded buffer, (2) reader-writer locks, (3) barriers, (4) semaphores
and resource pool, the asyncio semaphore among them, (5) two thread pools,
(6) lock-free structures, (7) queues, conditions and channels, (8) select,
processes and patterns, (9) observables, iterators and the algorithms over
chunks, (10) actors, mailboxes, supervision and patterns; proofs for the buffer,
the four locks, barrier, latch and phaser, the semaphores and the resource
pool, both thread pools, the lock-free stack and queue, all queues, buffers and
channels, and the actors with their mailboxes, supervisor and patterns. (All of
(7) except the buffer over `AsyncCondition`, see 1.2.)

To come: phaser trees; the threads around `BoundedBuffer` (composition by
INSTANCE); the process pool with dying workers.

Theorems to come: as far as it can be had without an induction over links, the
order of the lock-free list in `EntriesKept`.

Runs of one family are kept together, as the classes are small: a behaviour of
an MC module picks its subject in the initial state and then only that class
moves, so the states add up and do not multiply.

## 3. Modules and code

### Conventions

* `threading.Condition`, described in the heads of `LockClients` and
  `BoundedBuffer`: the threads inside `wait()` form a wait set, `notify()`
  removes an arbitrary member, `notify_all()` empties it.
  A notified thread has a later step in which it holds the lock again. Any
  other thread may come in between. `wait_for(timeout)` tests its predicate once
  more after the timeout; a plain `wait(timeout)` returns False when the time
  was over before the notification. Each module models the one its class uses.
* One action extends from an acquisition of a lock to its release or the next
  wait. Where fields are read outside the lock, or under different locks, each
  access is an action.
* Timeouts have no length: the time of a call with a timeout may be up at any
  moment of its wait (`Expire`). Calls without a timeout never expire.
* Coroutines interleave only where they await something that is not ready: one
  action extends from there to the next such place.
* In the lock-free modules every read or write of a shared field is an action.
* Clients release what they hold, as the context managers of the library do.
  What they may do wrong is stated in the head of each module.
* Counters in the code are unbounded; the bounds are constants named `Max...`
  and appear only in the guards of calls that begin something new.
* An operator headed "Faulty variant" is a plausible bug. No specification uses
  one; replacing the definition below it by the variant breaks a property,
  which shows that the property depends on that line of the code.

### Which module models what

| module | models | remarks |
|---|---|---|
| `FifoChannel` | what a bounded closable queue promises | abstract |
| `BoundedBuffer` | `BoundedBuffer` | `Put`/`Get` up to the first wait, `ResumePut`/`ResumeGet` after it, `Close`; `accepted` and `delivered` are histories |
| `SharedExclusive` | what a reader-writer lock promises | abstract |
| `LockClients` | threads, timeouts and bounds of all locks; the conditions they wait on | no state |
| `FairReadWriteLock` | `FairReadWriteLock` | `holds` is what a client believes it holds, `readers` what the lock believes: they differ after nesting |
| `BasicReadWriteLock` | `BasicReadWriteLock` | two RLocks as variables, a step per section |
| `WritePreferringReadWriteLock` | the class of that name | `PassTest` and `CountIn` are two sections of `acquire_read` |
| `UpgradableReadWriteLock` | the class of that name | `LeaveUpgraded` is the block of `upgrade_lock()` that raises |
| `CyclicBarrier` | `CyclicBarrier` | `ArriveLast` contains the barrier action, which runs under the lock |
| `CountDownLatch` | `CountDownLatch` | |
| `Phaser` | `Phaser` without parent | `members` and `arrivedIn` are what the clients know; the code only counts |
| `GrantedSemaphore` | fair, priority and asyncio semaphore | a set event, or a future that is done, is membership of `granted`; the heap is a sequence in order of service |
| `ResourcePool` | counting, binary and bounded semaphores; `ResourcePool` | `stage` says between which two updates a thread is |
| `PooledTasks` | clients, futures and queue of both pools | `early`: tasks queued before shutdown |
| `BackpressureThreadPool`, `ScalingThreadPool` | the classes of those names | a place in `Slots` stands for a worker id |
| `LockFreeNodes` | nodes, links and threads of the next two | `pc` names the access a thread makes next |
| `LockFreeEnds` | `LockFreeStack`, `LockFreeQueue` | `content`, `taken`, `sent`: the histories an atomic stack and queue would have |
| `LockFreeEntries` | `LockFreeHashMap`, `LockFreeLinkedList` | `sure`: keys no call in progress touches |
| `BoundedQueues` | callers that wait in order, wake-ups and timeouts, which all queues share; `AsyncBoundedQueue`, `AsyncPriorityQueue`, the buffer over `EnhancedCondition` | `asyncio.Queue` is external |
| `Channels` | the four CSP channels | extends `BoundedQueues`; `lost`: values handed to a receiver in the moment of its timeout |
| `ProcessNetwork` | CSP processes and patterns | a network is a record of nodes; a tag in a value names its route |
| `SelectPatterns` | `Select`, `SelectLoop`, `RequestResponsePattern` | |
| `Observables` | sources, operators, subscriptions | `op` is the operator of the behaviour |
| `AsyncIterators` | iterators, `AsyncBatchProcessor` | sequential iterators are operators on sequences |
| `ParallelAlgorithms` | algorithms and map-reduce | operators; the state is the input |
| `ActorSystem` | `Actor`, `ActorSystem`, `ActorRef.ask` | `asking`: the future of a caller; `registered`: futures the system keeps; `TORN`: a task that ended in `post_stop`, its state STOPPING for good |
| `Mailboxes` | the mailbox classes | messages are numbered in the order of sending; a heap is a sequence in which a new message may be put anywhere among its equals, as `time.time()` (:219, :248) may repeat or go back |
| `Supervisor` | `Supervisor` | methods that `ActorSystem` and `Actor` lack (`start_actor`, `stop_actor`, `wait_for_termination`, `self.tell`) are modelled as it uses them; `granted`, `wished`, `raised`, `disowned` are histories |
| `ActorPatterns` | request and response, circuit breaker, saga | `breaker` is also the field in which the message loop notes RUNNING, once, and the delivery looks |
| `MCReadWriteLocks`, `MCBarriers`, `MCSemaphores`, `MCThreadPools`, `MCLockFree`, `MCQueues`, `MCStreams`, `MCActors` | one subject per behaviour, chosen initially | for TLC |
| `BoundedBufferProofs`, `ReadWriteLocksProofs`, `BarriersProofs`, `SemaphoresProofs`, `ThreadPoolsProofs`, `LockFreeProofs`, `QueuesProofs`, `ActorsProofs` | theorems | section 6 |

The refinements have the identity on what a client sees: `sent` is the
history of accepted items, `received` that of delivered ones, `open` is
`~closed` (the lock-free queue implements the same `FifoChannel` as the bounded
buffer, with as much capacity as there are nodes, and is never closed); `reading` is the set of clients with `holds > 0` (fair lock) or
`readers` (upgradable lock), `writing` the writer, if any. The abstract modules
know no waits, so waiting and timing out are stuttering steps.

## 4. Runs

States are distinct states. Deadlock is checked where it says so; elsewhere the
system may stop, for the reason given in the `.cfg`.

| run | instance | states | shows |
|---|---|---|---|
| `bounded_buffer` | 2 producers, 2 consumers, one of each timed; 2 items, capacity 2, 3 puts accepted | 114,584, deadlock checked | order, no lost wake-up, failures mean close, refinement, calls return |
| `read_write_locks` | 4 threads, 2 write, a timed reader and writer, one upgrading by the context manager, on each of the four locks; nesting to depth 2 in the fair lock | 20,413 | exact counts, who is never forgotten and by which step others are, refinement by the fair and the upgradable lock, progress |
| `barriers` | 3 threads for 2 parties, 3 generations; latch of 2; phaser of 2 that a third party joins, 2 phases | 57,535 | counts decide for the right threads, nobody passes alone or stays asleep |
| `semaphores` | 3 threads, 2 timed, 3 priorities, 2 permits, 2 resources; five classes | 9,404 | conservation, the two ways in which permits are lost, order of service, the first in line, everyone served |
| `thread_pools` | 3 tasks, one of which may be cancelled, 2 workers, queue of 2, three policies; scaling: 2 tasks, core 1, maximum 2 | 287,455 | tasks in one place, tasks settle, shutdown returns |
| `lock_free` | 3 nodes; stack: 3 threads; queue: 1 producer, 2 consumers; map and list: 2 threads, 2 keys | 2,599,090 | structure, nothing missed, refinement |
| `queues` | 2 producers, 3 consumers, one of each timed, capacity 2, 3 items accepted; 10 subjects | 488,387 | items once and in order, nobody passed over but by three named steps |
| `streams` | channels of 1; 3 values per source, 1 failure; 2 observers, 3 emissions; inputs of up to 5 values out of 3 on up to 4 processes; 27 subjects | 194,228 | order, results, arrival |
| `actors` | 2 actors and 1 caller, 2 messages each, 1 failure; mailboxes of 2, 4 messages; 3 children, 3 requests, 2 deaths; 2 peers; thresholds of 2; saga of 3 steps | 692,768 | answers, mail, what a step may lose, failures |
| `actors_settle` | of these the system, and a supervisor that restarts two children one for one | 156,281 | tasks of actors end after the shutdown, children come back or are given up |
| `basic_exclusion`, `lock_free_queue_loses` | as the passing runs, reduced to the class; two producers | - | counterexamples, section 7 |

Why the bounds suffice for what the runs are to show:

* *Buffer.* Two threads of each kind are the least with which one is notified
  and another overtakes it; a timed and an untimed one show a notification
  spent on a thread that gives up. Capacity 2 and three accepted items fill,
  block, drain and wrap. Two values show an exchange. The proofs remove all
  bounds for the safety properties.
* *Locks.* Two writers show a notification that reaches the wrong one, two
  further readers a stream of readers; nesting to depth 2 is the case that
  breaks `release_read`.
* *Barriers.* A third thread for two parties is the one that is early for the
  next generation; three generations let it be two ahead of a slow thread.
* *Semaphores.* Requests for one or two of two permits are the least with a
  request that does not fit; three priorities order all threads.
* *Pools.* Three tasks are one more than the queue holds and also the victim of
  DISCARD_OLDEST and its successor; two workers are the least with which one
  ends and one remains. "abort" settles the future like "caller_runs", which
  stands for both.

* *Lock-free.* Two threads that meet at one node and one that comes between
  them; three nodes give an insertion between a removed node and its
  predecessor. The queue has one producer, because with two the class loses
  items (finding); two consumers compete for the head.
* *Queues.* Capacity 2 and three accepted items fill, block and drain; a timed
  and an untimed task on each side show a wake-up spent on a task that gives up,
  a third consumer somebody else whom it should have reached.
* *Streams.* Channels of one block every sender; three values and two routes
  show values that overtake each other. Inputs of five values in up to three
  chunks contain remainders, equal values and empty chunks; with four processes
  a quick sort opens a pool inside a pool.
* *Actors.* One failure, one restart and one more death than restarts are
  allowed reach every branch of the policies; a bounded mailbox of two meets
  four messages. `MaxQueue` bounds the mail of a breaker by five, more than two
  thresholds. `actors_settle` has two children, one PERMANENT and one TRANSIENT:
  under ONE_FOR_ONE they meet only in the supervisor's mailbox.

What the less obvious properties say:

* `NoLostWakeup`: while a consumer sleeps, at least as many consumers are awake
  as there are items, and likewise for producers and free places. That is the
  reason why single notifications are enough.
* `NobodyForgotten` and `OnlyTheseAreForgotten` of the locks: the first says who
  never sleeps beside a lock that is free for him: all waiting writers of a
  lock at once, the readers of the basic and the upgradable lock, and those who
  ask for the upgrade lock. The second is about the three kinds of threads that
  the code does leave asleep, and names the one step each by which it happens:
  readers of the fair lock when a waiting writer gives up (:206-212), readers
  of the write-preferring lock at `release_write` (:490), and the upgrader that
  waits to be alone when the notification goes to a plain writer (:356).
* `CountsAgree`: in each lock the fields that decide are exactly the threads
  they stand for, on every way in and out. In the fair lock `readCount` is the
  number of read locks held and one more for every thread whose second release
  raised; in the basic and the write-preferring lock a reader that has passed
  the test and is not counted yet is not among them.
* `CountIsWaiting`, `CountsDecide`: the number that decides equals the number of
  threads it stands for, however they came and went.
* `PassedTogether`: whoever passes the barrier does so in a generation whose
  parties all arrived, or one that `reset()` cut short.
* `NobodyForgotten` of the semaphores contains the sum: maximum = free + held +
  granted + lost, and that no request is lost from a queue. Nobody sleeps beside
  enough permits at a `CountingSemaphore`. At a `PrioritySemaphore` (until
  somebody gives up) and an `AsyncSemaphore` it is said of the FIRST in line
  only: the code stops at a request that does not fit, and a smaller one behind
  it sleeps beside permits that would do (:186, :239). Of a `FairSemaphore`
  nothing of the kind is said, as its `acquire` does not look at the permits.
* `OnlyTheseLose`: `lost` grows in two ways only, by a grant to a thread that
  had timed out, or by a task of an `AsyncSemaphore` that takes its permits a
  second time (:446), and by what it wanted; and the first in line of a
  `PrioritySemaphore` comes to wait beside enough permits only when the one
  before it gives up.
* `TasksKept`: a task is queued once, or with one worker, or neither and
  settled. It excludes tasks taken twice and accepted tasks that vanish.
* `CallsReturn` also contains that an untimed call fails only after `close`.
* `ServedInOrder`: while a request for one permit is in the queue of a fair or an
  asyncio semaphore, it is neither served after one behind it nor moved behind
  one; a request for more may be, as the code puts a request that does not fit
  at the end (finding). A task of an `AsyncSemaphore` leaves the queue when it is
  woken; if it finds its permits gone it queues up again, at the end, behind
  requests that came later (:402-405), and nothing is said of that. The priority
  semaphore grants to nobody less urgent than one who waits.
* `EndsKept`, `EntriesKept`: along the links one finds what the histories say;
  a size is off by no more than the calls that have not counted yet; `dequeue`
  returns None only if the queue was empty at some moment of the call; no key
  has two entries, the list is sorted, and a lookup finds a key that was there
  all the time.
* `ItemsKept`: accepted = delivered, then inside, in order (up to what a
  strategy drops); a value handed over in a rendezvous is received once. For
  `AsyncPriorityQueue` the order is that of its heap, the smallest number first:
  its docstrings say the opposite (section 7), and the property follows the code.
* `NobodyPassedOver`, `OnlyThesePassOver`: at a queue or channel over
  `asyncio.Queue` there are never more items than woken callers beside a waiting
  one. Three classes do pass somebody over; for each of them the second property
  says that one step only makes matters worse, and by how much: a notified
  thread of `EnhancedCondition` whose time had run out gives up (one item or
  place each, in any state, also after earlier ones); a caller of a
  `SynchronousChannel` drops the first partner, which was cancelled; a receiver
  of a broadcast goes with the dead reference beside it.
* `StreamsInOrder`, `EverythingArrives`: per network, what comes along one route
  keeps its order; without a failure, a stop or an early close, all of it comes.
  A fan-in discards values that look like an error or a closed notice
  (`patterns.py:134`); the network sends such values and arrival is promised for
  the others. Nothing is heard after an end, with two exceptions of which the
  property says how far they go: a debounced value may follow the completion,
  and behind a merge each other thread may still pass on one value after the
  take has completed.
* `ResultsRight`: a take behind a merge, whose test, call and count are steps of
  their own, passes on at most one value too many for each other thread. The
  algorithms give the sequential result wherever they do not raise, and
  `OnlyTheseRaise` names the calls that do: a merge sort of fewer items than
  processes, a quick sort by four processes or more with a long part (a pool
  inside a daemonic worker, `parallel_algorithms.py:126-139`), reductions and
  levels of a search that go to the pool with a nested function, an empty stream
  (`map_reduce.py:432`).
* `AnswersAreOwn`: an answer belongs to its ask, even after earlier asks of the
  same caller timed out, and reflects what the caller told before.
* `MailIsKept`, `OnlyPolicyLoses`: a message is in one place only. The order is
  stated per class: as they came (drop_new, drop_old, unbounded, each worker of
  the balancing mailbox), by priority with equals in any order, and over a stash
  as they came but for what was put back, since `unstash_all` reverses it
  (:326). Under "block" nothing is said of the order, as waiting senders come in
  as they wake. Whatever is refused or lost, a step did it that had a reason: a
  full mailbox of a class that has a limit, the oldest message of a full
  drop_old one, or a closed mailbox.
* `FailuresContained`: `BooksMatch` says that a child the supervisor refers to
  has a specification and that one that runs is referred to, or was disowned by
  the late notice of an earlier incarnation's end (:212). `RestartsEarned`
  counts: a child is made no more often than users asked for it and ends of it
  were answered with a restart; that is never for a TEMPORARY child, only for
  an error of a TRANSIENT one, and within the limit. That ONE_FOR_ALL restarts
  all, or a PERMANENT child always, is not said, as the code does not do it
  (section 7). The breaker is open after its threshold of failures in a row; a
  failed saga is undone in reverse, each step as often as it was completed.
* `ActorsSettle`: a shutdown returns, and does so without the timeout when none
  comes. By then each actor is STOPPED, or its `post_stop` raised, or the time
  was over and its task was cancelled, before it had begun or in `post_stop`. A
  child restarted one for one comes back or is given up, unless users stop it or
  a start of it has failed, which nobody tries again.
* `TasksSettle`, `PoolsShutDown`: promised under conditions, because the code
  needs them: some worker is at every moment not between `queue.Empty` and its
  test of `_shutdown`; no client is still between its test and its put; the
  queue has room for all signals; no worker died of a cancelled future. The
  modules say which condition belongs to which pool.

Some passing properties of an MC module put the properties of its classes
together, one conjunct per class. Each subject is reached, and every action of
every class fires.

## 5. Fairness

Weak fairness, and only for steps that the interpreter's scheduler performs by
itself once they are possible:

* a thread that was notified or whose time is up gets the lock and runs on
  (`Resume...`, `Proceed`, `GiveUp`, `TimeOut`, `Return`);
* the clock advances (`Expire`): a timeout that was given elapses some day;
* holders of a lock or of permits release them (`Release...`), as the context
  managers do: their absence would refute any progress property of any lock;
* workers, the monitor and a shutdown in progress go on; the submitted
  functions return.

* a process of a network, a task or thread of a stream, an actor, a monitor or
  the supervisor goes on while it can, and so does `shutdown` once the tasks it
  waits for have ended (`Down`); that its time runs out is not assumed. The runs
  `streams` and `actors_settle` assume only that SOME of them does (weak fairness
  of their disjunction; for the answers to requests, of each requester): the
  histories are finite, so that this suffices.

For locks and semaphores these are one disjunction per thread (`Obliged(t)`),
since one thread does one thing at a time and each of its steps, once possible,
is followed by another. Nobody is obliged to call anything new: `put`, `get`,
`close`, `acquire_*`, `wait`, `count_down`, `register`, `submit`, `shutdown`
and `cancel` are without fairness. The CPython locks promise no fairness
between threads; no property relies on a strong one.

## 6. Proofs

Eight modules hold 35 theorems and 495 lemmas, checked by TLAPS in about 17,600
obligations. They hold for every value of the constants that satisfies the named
assumptions of the modules:

* finite sets of threads, timed threads among the threads, and `None` distinct
  from whatever it stands beside (`BufferAssumption`, `LockClientsAssumption`,
  `BarrierAssumption`, `NodesAssumption`, the two `ClientsAssumption`s);
* capacities, parties and bounds that are positive natural numbers, as many
  permits as resources (`PoolAssumption` of `ResourcePool`), integer priorities
  (`PriorityAssumption`), since the constructors take such numbers;
* tasks that are no worker states and not the signal to end, known policies
  (`PoolAssumption` of `BackpressureThreadPool`), and at most as many core
  workers as workers and workers as ids (`ScalingAssumption`);
* finite and disjoint producers and consumers, integer items
  (`QueueAssumption`), and 0, which marks a receiver that is gone, no consumer
  (`ReceiversAssumption`);
* receivers that are finitely many and at least one, room in a mailbox and a
  failure threshold that are positive, natural numbers as bounds of the
  messages sent, the steps of a saga and the restarts, and no other messages of
  users to a supervisor than its three public ones (`ActorsAssumption`).

`OneProducer` is no assumption on a constant but a hypothesis of two theorems,
`EndsStay` and `LinearizableEnds`: it says that all producers of the lock-free
queue are one thread. Run `lock_free_queue_loses` shows that they fail without
it. It restricts the queue only; `StackStays` says what holds of the stack
without it.

| module | theorem | says |
|---|---|---|
| `BoundedBufferProofs` | `TypeCorrect` | types; the capacity is never exceeded |
| | `FifoOrder` | accepted = delivered followed by what is inside |
| | `NobodyForgotten` | `NoLostWakeup` |
| | `ClosedForGood` | nothing is accepted after `close` |
| | `FailuresMeanClosed` | an untimed call fails only after `close`, a get only when nothing is left |
| | `Refinement` | the buffer implements `FifoChannel` |
| `ReadWriteLocksProofs` | `CountsRight` | `CountsAgree`: in all four locks the counts and names that decide are exactly the threads they stand for |
| | `WritersLeftAwake` | `NobodyForgotten` of the locks: waiting writers are never all asleep beside a free lock, nor any reader of the basic and upgradable one or anybody who asks for the upgrade lock |
| | `OnlyTheseLeftAsleep` | `OnlyTheseAreForgotten`: the other threads are left asleep by one named step each |
| | `Refinement` | the fair and the upgradable lock implement `SharedExclusive`: a writer is alone |
| `BarriersProofs` | `TypeCorrect`, `CountIsRight`, `NoSleeperLeft`, `NobodyPassesAlone` | the invariants of the run, for the cyclic barrier |
| | `UniqueIndex` | threads that pass in one generation have different indices |
| | `CountsRight` | `CountsDecide`, for latch and phaser |
| `SemaphoresProofs` | `TypeCorrect`, `PermitMeansResource`, `Exclusive` | a permit always finds a resource, which has one user |
| | `NobodyForgets` | `NobodyForgotten`: permits add up, queues hold who waits, the first in line has a reason to wait |
| | `NothingElseIsLost` | `OnlyTheseLose`: no step but two loses permits, and one leaves them idle |
| | `InOrder` | `ServedInOrder`, for requests while they are in a queue |
| `ThreadPoolsProofs` | `TasksNeverLost` | `TasksKept`, for both pools |
| `LockFreeProofs` | `StackStays` | the stack's list, size and order, for all threads |
| | `EndsStay`, `LinearizableEnds` | `EndsKept` and `Linearizable`, given `OneProducer` |
| `QueuesProofs` | `QueuesInvariant` | the inductive invariant of all ten queues and channels |
| | `ItemsComeOut`, `NobodyLeftWaiting` | `ItemsKept`, `NobodyPassedOver` |
| | `NobodyElseIsPassedOver` | `OnlyThesePassOver`: the three steps by which somebody is |
| `ActorsProofs` | `ActorsInvariant` | the inductive invariant of system, mailboxes, supervisor and patterns |
| | `AnswersOwned` | `AnswersAreOwn` |
| | `MailStays` | `MailIsKept`, for the five mailbox classes |
| | `LostByPolicy` | `OnlyPolicyLoses`: no step refuses or loses mail without the class's reason |
| | `Contained` | `FailuresContained` |

The arguments, and why an invariant had to be strengthened:

* **Buffer.** `IInv = TypeOK /\ Fifo /\ ClosedWakesAll /\ NoLostWakeup`. A
  lost wake-up cannot be excluded by looking at conditions alone: what is
  inductive is the comparison of the number of items with the number of woken
  consumers. A put raises both by one, or leaves nobody asleep; a get lowers
  both, since a consumer that takes an item was awake. `ClosedWakesAll` is
  needed because after `close` a consumer may return without an item, which
  lowers only one side, but then nobody sleeps. The refinement goes through
  `StepEffect`, which says what each step does to the two histories.
  `FailuresMeanClosed` is inductive once each answer is known to be the
  thread's own (`AnswersWell`): a closed and empty buffer remains so, hence a
  failure that was justified when it was returned stays justified.
* **Fair lock.** `FairInv = TypeOK /\ FairBooks`. After a nested read lock the
  code's `readers` is too small and `readCount` too large, so neither equals what
  the clients hold. `FairBooks` therefore counts tickets, a pair of a thread and a
  number for each hold: `readCount` is their number and one more for each thread
  that has ended in a release that raised, a writer implies that it is zero, and
  `waitingWriters` is the number of waiting writers. `Room` adds that a thread
  that waits to read may have one more read lock. The writers of
  `NobodyForgotten` rest on `FairAlert`: whoever sleeps on `write_ready` is a
  waiting writer, and while one sleeps beside a free lock another waiting
  writer is awake. A busy lock owes nothing; the release that frees it notifies
  one sleeper, if there is one; and a writer whose time is over gives up only
  after it has found the lock busy once more, so the notification it received
  is not lost with it. Its readers are the matter of `OnlyTheseLeftAsleep`, which
  needs no invariant beyond the types: each step is looked at by itself.
* **Other locks.** Each class has an invariant that ties every field to the
  places of the threads in the code: of the basic lock, that mutexes, writer
  and readers name exactly the threads at those places (`BasicHolders`); of the
  write-preferring lock, that readers, the writer and waiting writers are named
  and counted although the test and the count of a reader are two sections; of
  the upgradable lock, that waiters hold nothing, that the upgrader is the one
  thread that waits on while others read, and that a writer excludes readers and
  upgrader. To each belongs an `Alert` part as in the fair lock. In the basic
  lock, exclusion is no part of it, since it does not hold.
* **Cyclic barrier.** `IInv` adds to the checked invariants which generations
  are over (`Generations`), that in an intact barrier all waiting threads of
  the running generation sleep, so that a woken thread's generation is over
  (`Woken`), and that the indices of a generation are given away from the top
  (`Indices`). `Woken` is what makes the code's `while` loop equivalent to the
  single test that `Resume` models.
* **Latch and phaser.** A woken waiter of the latch means a count of zero
  (`LatchInv`). `PhaserInv`: until somebody deregisters, the code's numbers of
  parties and arrivals are the numbers of members and of those who have
  arrived, and no client that arrives once per phase is refused. The condition
  is the code's: after `arrive_and_deregister` the counts are off (finding).
* **Semaphores.** The number of permits held is a sum over threads. To need no
  induction over folds, it is counted as a set of pairs of a thread and a
  number, so that an acquisition adds and a release removes pairs.
  `QueuedInv` is `PermitsAccounted` and `QueueIsWaiting`, for any of the classes;
  `ClassInv` adds that the heap is sorted and, except in the fair semaphore, that
  the first request does not fit: that a release which grants as long as the
  first fits leaves nobody asleep who is first. `InOrder` follows from a lemma
  that the queue after a step keeps the order of the requests for one permit
  (`SameOrder`). `NothingElseIsLost` looks at every step in a state of `QueuedInv`.
* **Resource pool.** `IInv = TypeOK /\ Stages /\ Counts /\ NoResourceShared`.
  Permits and resources are never equal in number while a thread is between
  the two updates; the proof counts each by itself, permits against the threads
  that hold one and resources against the threads that use one. Users are a
  proper part of the holders while somebody is taking, hence there is a
  resource. The steps of the pool on permits are steps of its semaphore, whose
  lemmas they use.
* **Thread pools.** `Kept` says of each task: it is at most once in the queue,
  has at most one runner, is not both queued and running, is settled or
  somewhere if it was accepted, and is with its client before it is queued
  (`Fresh`), its future pending and unknown to anybody else. `Fresh` is what
  the property lacks: without it, a task in the hands of a client between
  `submit` and `put` could be thought to be running. The bounded pool needs
  besides that a shutdown that still posts has signals left.
* **Stack and queue.** `StackInv`: a node is its thread's own until it is
  swapped in, a node that was swapped in keeps its link, and the chain from the
  head spells `content`; hence a successful swap of the head finds the list its
  thread saw, even if the head changed and came back between. `QueueInv`: nodes
  form a line in which head and tail have positions (`Line`), and for each place
  of the code what its thread knows (`Produces`, `Consumes`), for instance that
  the next node it read still follows. Only one producer keeps what `Produces`
  says about the tail's empty link, which is the finding seen from the proof.
* **Queues, buffers and channels.** `IInv = Callers /\ Lines` and a part per
  kind. For queues over futures it compares numbers, as in the buffer: there are
  no more items than woken getters, or nobody waits (`NobodyWaitsInVain`), and
  likewise for places. For `EnhancedCondition` the same comparison, off by any
  n, is kept by every step but the one that spends a wake-up, which makes it n+1:
  that is `WakeUpStep`, for every n at once, so no history of wasted wake-ups is
  needed. Of a synchronous channel every value taken from a sender is with a
  receiver, on its way or lost to a timeout (`HandedOver`), and `PairStep` looks
  at each way in which a caller may come to wait. A broadcast owes each receiver
  in its list what was sent since it registered (`AllAreSentTo`); every place of
  that list is one of the list of references too. The order of
  `AsyncPriorityQueue` is proved by counting, for every item, how often it was
  put and taken.
* **Actors.** `ActorsInv` follows an ask by its number: the future of a caller
  holds the answer to the ask that waits or nothing, and an answer in flight
  names the ask it belongs to, so that one which comes after its ask has timed
  out meets no future (`AsksInv`). That an answer counts what its caller told
  before is not inductive as it stands. `SeenInv` says why it holds: for every
  ask in a mailbox, what the actor has counted and the increments in front of
  the ask make at least as many as the caller had sent. It is promised as long
  as no handler has failed and no task was cancelled (`CutOffInv`: then no actor
  works any more); a forwarder counts nothing and owes nothing.
* **Mailboxes.** `Once`: what was sent is in one place only, a queue, the stash,
  with a blocked sender, taken, refused or dropped. The order needs a part per
  class: numbers ascend in what was taken and then in what waits (`FifoInv`),
  likewise over a stash but for the numbers that were put back (`StashInv`, by
  lemmas on sequences that ascend but for a set), each share of a balancing
  mailbox ascends (`SharesInv`), the heap is sorted by priority (`HeapInv`), what
  drop_old dropped is older than what waits (`DroppedInv`), and limits hold
  (`RoomInv`). `EvenInv` gives the lengths of the shares as quotient and remainder
  of the number of messages. `LostByPolicy` looks at the steps by themselves.
* **Supervisor.** That a child is made no more often than users asked for it and
  its ends were granted a restart is not inductive: between the reason and the
  start lie messages and delays. `Earned` adds to what was made what is still to
  be made: messages to start or restart the child that wait in the inbox, the
  restart in hand, and under ONE_FOR_ALL and REST_FOR_ONE one for each
  specification without a child, which the next restart of all would start.
  Each step moves at most one from the second number to the first; that a stop
  deletes the specification together with the child is what keeps a restart of
  all from starting siblings anew. `Known` and `Noticed` say that what runs was
  made and is referred to or disowned, and that what is reported as ended does
  not run; `Granted` states the policies for the histories.
* **Patterns.** A future between peers holds the number of its request or
  nothing (`PeersInv`); the breaker counts at least the failures in a row, as
  only a success sets its count back (`BreakerInv`); what a saga has completed
  ends in the steps before the current one, and what is undone and still to
  undo ends in its reverse (`SagaInv`).

Only model-checked:

* every liveness property: fairness and `ENABLED` are beyond the prover;
* `EntriesKept`, the hash map and the linked list: who can be reached along the
  links is defined by recursion, and the proof that a removed node does not
  take others with it is an induction over it with an operator as parameter,
  which the installed provers cannot do;
* `StreamsInOrder`, `ResultsRight`: networks, observables, iterators and
  algorithms are folds and recursive functions over sequences, and
  `AsyncIterators` and `ParallelAlgorithms` declare RECURSIVE operators.

## 7. Findings

Runs that end in a counterexample, each against a sentence of the repository:

| run | code | sentence | behaviour |
|---|---|---|---|
| `basic_exclusion` | `synchronization/reader_writer.py:83` | :76 "Allows multiple readers or one writer." | a reader tests `_write_count` under one RLock while a writer tests `_read_count` under the other; both enter |
| `lock_free_queue_loses` | `synchronization/lock_free.py:250` | :185 "Lock-free queue implementation using Michael & Scott algorithm" | two producers pass the test of `_compare_and_swap_next` together; the second write cuts the first node off |

Other disagreements that the models contain, or that were met while reading.
They have no run of their own; where a property would meet one, the property
says so.

* Fair lock: a writer that times out wakes no reader (:206-212); a thread that
  nests read locks, as `tests/test_all_patterns.py:387` ("Multiple readers OK")
  does, is forgotten at its first release and the second one raises (:223);
  after that the count of readers stays too high and shuts all writers out.
* Basic lock: `release_read` and `release_write` take the two RLocks in
  opposite order (:133, :149).
* Write-preferring lock: a reader is counted outside the section of its test
  (:434); `release_write` wakes no reader (:490).
* Upgradable lock ("Prevents deadlocks during lock upgrades.", :248): the
  notification for the upgrader may go to a plain writer on the same condition
  and all sleep (:356); `upgrade_lock()` raises after an upgrade and keeps the
  write lock (:399).
* Cyclic barrier: `reset` repairs the barrier before the waiters look, so that
  they pass instead of failing (:131-136).
* Phaser: `arrive_and_deregister` adds an arrival and removes a party, so that
  a phase may end without one of the others (:361, against "All remaining
  parties arrived, advance phase", :362); `arrive` at the parent may raise
  before the own waiters are woken (:399); `_terminate` iterates over children
  that remove themselves (:404-416).
* Semaphores: the timeout starts anew at every wake-up (:65); the fair semaphore
  never looks at its permits in `acquire`, so that the first thread at a fresh
  one waits until somebody releases (:186, against "Prevents starvation",
  `docs/synchronization-primitives.md:57`); permits granted to a thread that
  times out are lost (:192-206, :309-317); a request that does not fit goes back
  to the end of the queue (:251), against "FIFO ordering of waiters"
  (`docs/synchronization-primitives.md:56`); a request that gives up does not
  let the smaller ones behind it pass (:313). The asyncio semaphore deducts a
  waiter's permits twice (:446) and a cancelled waiter's request still blocks
  those behind it; a woken task that finds its permits gone queues up again at
  the end (:402-405).
* Pools: a task may be queued behind the signals (:102-111); DISCARD_OLDEST may
  remove a signal and raise TypeError (:141-142), or lose two tasks (:145);
  `put(None)` may block for ever (:160); all workers may end between
  `queue.Empty` and the test of `_shutdown` (:93); statistics are incremented
  without a lock (:90); a future cancelled while it runs kills a worker of the
  scaling pool (:337-338); idle workers may leave below the core size (:344).
* Lock-free: two removers of one map entry both lower the size (:338); an update
  of an entry that is being removed is lost; `remove` of the list may return
  False although it removed, and may cut off an entry added behind it.
* Conditions and queues: `EnhancedCondition.wait` returns TIMEOUT without
  another look at its predicate and wastes the notification
  (`condition_variables.py:71`); `AsyncBoundedBuffer.put` and `get` hold the lock
  that `AsyncCondition.wait` asks for (:443, :462, :341), so that the first call
  hangs; `close` of `AsyncBoundedQueue` and `BufferedChannel` wakes
  nobody; `AsyncPriorityQueue` serves the smallest number first, its docstrings
  say the highest (`async_producer_consumer.py:31`, :172, :191); the partner of a `SynchronousChannel` may be gone already, and
  then a sender and a receiver wait for each other (`channels.py:109`); a value
  handed over in the moment of a timeout is lost; a broadcast forgets a live
  receiver once one of its `receive` calls has ended (`channels.py:424`).
* CSP: `await channel.close()` raises TypeError after it has closed; splitters
  and `close_sources` therefore close their FIRST output only; a receiver that
  waits when its channel is closed waits for ever, so that `network.wait()` does
  not return; the clock of a `TimeoutCase` is not reset by `SelectLoop`.
* Observables: several threads at one `take` emit more than its count
  (`observables.py:395`, behind a `merge`); the counts of `take` and `skip` are
  shared by all observers; unsubscribing from an operator leaves its source
  subscribed; `observable_just` has one iterator for all; `take` completes once
  more when its source does; `debounce` completes before it emits the value it
  has kept (`observables.py:486-500`).
* Iterators: a timeout or an error ends a batch iterator's source; the buffered
  iterator swallows errors; `AsyncGroupByIterator` yields nothing
  ("Async iterator that groups consecutive items", `async_iterators.py:250`); a window's
  step beyond its size advances by its size; a batch processor that was idle
  longer than its timeout takes nothing any more
  (`async_producer_consumer.py:419`).
* Algorithms: `merge_sort_parallel` with more processes than a list has
  elements would have chunks of size zero (excluded by the threshold of 1,000);
  reductions and searches send nested functions to a pool, which cannot pickle
  them; `quick_sort_parallel` on four processes or more opens a pool inside a
  daemonic worker and raises AssertionError (`parallel_algorithms.py:126-139`);
  `monte_carlo_pi` divides by samples it does not take; a
  `HashPartitioner` differs between processes with different hash seeds;
  `process_stream` raises NameError for an empty stream (`map_reduce.py:432`).
* Actors: a message or ask sent before the task of the new actor has run is
  dropped (`actor_system.py:339`); an ask whose handler raises is never answered
  (:210); what is queued behind a stop is never handled; a restart resets
  nothing; `unstash_all` puts messages back in reverse order ("Maintain order",
  `mailbox.py:326`) and ignores refusals; `dequeue` may return None beside a
  message; the supervisor deletes the specification of a child it stops, so
  that a restart of a running child and ONE_FOR_ALL end in KeyError
  (`supervisor.py:307`), against "Restart all supervised actors" (:21) and "Always
  restart" (:28); a late notice of a death removes the new child from the books,
  which runs on without an entry (:212); a start that fails is logged and not
  tried again (:157); an actor whose `post_stop` raises stays STOPPING
  (`actor_system.py:217-220`);
  `RequestResponseActor` cannot be answered while its own handler asks;
  `CircuitBreakerActor.state` hides `Actor.state`: once it has opened the delivery
  drops all its messages, also when it is CLOSED again, as only the start of the
  task sets RUNNING; a cancelled saga does not compensate, and a second `execute_saga`
  compensates the steps of the first one again.

## 8. Not modelled, and why

Section 1.2 lists the components without a model. Left out of the modelled
classes:

* statistics, getters and demos: they change nothing the classes decide by;
* the lengths of timeouts and idle times: a timed wait may end at any moment;
* `Phaser.bulk_register` and phasers with a parent;
* releases by threads that hold nothing (the code raises, or caps);
* `shutdown(wait=False)`, which is a prefix of the modelled shutdown;
* exceptions inside functions submitted to a pool: they settle the future like a
  result;
* `LockFreeCounter`, whose `reset` calls a method that does not exist, and
  `HazardPointer`, which no other class uses;
* `AsyncRateLimitedIterator`, which only sleeps, and `AsyncGroupByIterator`, which
  yields nothing;
* functions given to `map` and `filter` of observables that raise;
* a stash over a bounded base mailbox: the model's is over an unbounded one;
* supervisors that escalate, whose handler fails on attributes `Actor` lacks;
* the example actors, whose `receive` answers no `AskMessage`: the modelled
  actors answer, as the class `Actor` allows.

Sockets, files and the queues of `multiprocessing` belong to the operating
system; `multiprocessing.Pool.map` is taken to return its results in order.
`threading_patterns/reader_writer.py` is the basic lock under other names.
