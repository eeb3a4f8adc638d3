---------------------------- MODULE ResourcePool -----------------------------
(***************************************************************************)
(* CountingSemaphore of synchronization/semaphores.py, and with it         *)
(* BinarySemaphore (MaxPermits = 1) and BoundedSemaphore (whose release    *)
(* raises where this one caps; neither happens to a client that releases   *)
(* what it holds, see PermitsAccounted).  One condition guards everything, *)
(* so that an action is what a thread does from one wait to the next.      *)
(*                                                                         *)
(* Below it, ResourcePool of the same file: a queue of resources behind a  *)
(* CountingSemaphore.  The two are updated one after the other, without a  *)
(* common lock.                                                            *)
(***************************************************************************)
EXTENDS Integers, FiniteSets, Sequences, Functions

CONSTANTS Threads,
          TimedThreads,  (* those that pass a timeout to acquire             *)
          MaxPermits     (* permits of the constructor                       *)

ASSUME ClientsAssumption ==
  /\ IsFiniteSet(Threads)
  /\ TimedThreads \subseteq Threads
  /\ MaxPermits \in Nat \ {0}

VARIABLES permits,  (* self._permits                                         *)
          held,     (* what a thread has acquired and not yet released       *)
          wants,    (* inside acquire(): its argument permits, otherwise 0   *)
          asleep,   (* the wait set of self._condition                       *)
          expired   (* threads whose timeout elapsed before a notification   *)

vars == <<permits, held, wants, asleep, expired>>

Init ==
  /\ permits = MaxPermits
  /\ held = [t \in Threads |-> 0]
  /\ wants = [t \in Threads |-> 0]
  /\ asleep = {} /\ expired = {}

-----------------------------------------------------------------------------
Enough(n) == permits >= n

(* min(n, self._max_permits) *)
Capped(n) == IF n > MaxPermits THEN MaxPermits ELSE n

Take(t, n) ==
  /\ permits' = permits - n
  /\ held' = [held EXCEPT ![t] = @ + n]

(* acquire(n), up to the first wait.                                        *)
Acquire(t, n) ==
  /\ wants[t] = 0 /\ held[t] = 0
  /\ \/ /\ Enough(n)
        /\ Take(t, n)
        /\ UNCHANGED <<wants, asleep>>
     \/ /\ ~Enough(n)
        /\ wants' = [wants EXCEPT ![t] = n]
        /\ asleep' = asleep \cup {t}
        /\ UNCHANGED <<permits, held>>
  /\ UNCHANGED expired

(* The thread was notified and tests again.                                 *)
Resume(t) ==
  /\ wants[t] > 0
  /\ t \notin asleep /\ t \notin expired
  /\ \/ /\ Enough(wants[t])
        /\ Take(t, wants[t])
        /\ wants' = [wants EXCEPT ![t] = 0]
        /\ UNCHANGED asleep
     \/ /\ ~Enough(wants[t])
        /\ asleep' = asleep \cup {t}
        /\ UNCHANGED <<permits, held, wants>>
  /\ UNCHANGED expired

(* Condition.wait returned False.                                           *)
TimeOut(t) ==
  /\ t \in expired
  /\ wants' = [wants EXCEPT ![t] = 0]
  /\ asleep' = asleep \ {t}
  /\ expired' = expired \ {t}
  /\ UNCHANGED <<permits, held>>

(* release(n), by a thread that holds as many.                              *)
Release(t, n) ==
  /\ n <= held[t]
  /\ permits' = Capped(permits + n)
  /\ held' = [held EXCEPT ![t] = @ - n]
  /\ asleep' = {}
  /\ UNCHANGED <<wants, expired>>

Expire(t) ==
  /\ t \in TimedThreads \cap asleep
  /\ expired' = expired \cup {t}
  /\ UNCHANGED <<permits, held, wants, asleep>>

Next ==
  \E t \in Threads :
    \/ \E n \in 1 .. MaxPermits : Acquire(t, n) \/ Release(t, n)
    \/ Resume(t) \/ TimeOut(t) \/ Expire(t)

Spec == Init /\ [][Next]_vars

-----------------------------------------------------------------------------
(* The pool *)

CONSTANTS Resources, NoResource

ASSUME PoolAssumption ==
  /\ IsFiniteSet(Resources)
  /\ MaxPermits = Cardinality(Resources)
  /\ NoResource \notin Resources

VARIABLES shelf,  (* self.available_resources                               *)
          hand,   (* the resource a thread has got, or None                 *)
          stage   (* where a thread is in acquire_ or release_resource      *)

poolVars == <<permits, held, wants, asleep, expired, shelf, hand, stage>>

PoolInit ==
  /\ Init
  /\ shelf \in [1 .. MaxPermits -> Resources] /\ IsInjective(shelf)
  /\ hand = [t \in Threads |-> NoResource]
  /\ stage = [t \in Threads |-> "idle"]

-----------------------------------------------------------------------------
GoTo(t, where) == stage' = [stage EXCEPT ![t] = where]

(* self.semaphore.acquire(timeout=timeout) *)
Ask(t) ==
  /\ stage[t] = "idle"
  /\ Acquire(t, 1)
  /\ GoTo(t, IF Enough(1) THEN "taking" ELSE "asking")
  /\ UNCHANGED <<shelf, hand>>

AskAgain(t) ==
  /\ stage[t] = "asking"
  /\ Resume(t)
  /\ GoTo(t, IF Enough(1) THEN "taking" ELSE "asking")
  /\ UNCHANGED <<shelf, hand>>

AskInVain(t) ==
  /\ stage[t] = "asking"
  /\ TimeOut(t)
  /\ GoTo(t, "idle")
  /\ UNCHANGED <<shelf, hand>>

(* Faulty variant: the resource stays on the shelf. *)
TakeResourceOnly(t) ==
  /\ stage[t] = "taking"
  /\ hand' = [hand EXCEPT ![t] = Head(shelf)]
  /\ GoTo(t, "using")
  /\ UNCHANGED <<vars, shelf>>
(* get_nowait(), or release() after queue.Empty.                            *)
TakeResource(t) ==
  /\ stage[t] = "taking"
  /\ IF shelf = <<>>
       THEN /\ Release(t, 1)
            /\ GoTo(t, "idle")
            /\ UNCHANGED <<shelf, hand>>
       ELSE /\ hand' = [hand EXCEPT ![t] = Head(shelf)]
            /\ shelf' = Tail(shelf)
            /\ GoTo(t, "using")
            /\ UNCHANGED vars

(* Faulty variant: the permit is given back before the resource. *)
PutBackLate(t) ==
  /\ stage[t] = "using"
  /\ Release(t, 1)
  /\ GoTo(t, "returning")
  /\ UNCHANGED <<shelf, hand>>
(* release_resource: first the resource ...                                 *)
PutBack(t) ==
  /\ stage[t] = "using"
  /\ shelf' = Append(shelf, hand[t])
  /\ hand' = [hand EXCEPT ![t] = NoResource]
  /\ GoTo(t, "returning")
  /\ UNCHANGED vars

(* ... then the permit.                                                     *)
GiveBack(t) ==
  /\ stage[t] = "returning"
  /\ Release(t, 1)
  /\ GoTo(t, "idle")
  /\ UNCHANGED <<shelf, hand>>

PoolExpire(t) == Expire(t) /\ UNCHANGED <<shelf, hand, stage>>

PoolNext ==
  \E t \in Threads :
    \/ Ask(t) \/ AskAgain(t) \/ AskInVain(t) \/ TakeResource(t)
    \/ PutBack(t) \/ GiveBack(t) \/ PoolExpire(t)

PoolSpec == PoolInit /\ [][PoolNext]_poolVars

-----------------------------------------------------------------------------
(* Properties *)

(* Nobody sleeps beside enough permits: in a mixture of small and large     *)
(* requests the notification of a release reaches all it could satisfy.     *)
NoSleeperFits == \A t \in asleep : ~Enough(wants[t])

(* Every variable of the semaphore and of the pool has its type.            *)
TypeOK ==
  /\ permits \in 0 .. MaxPermits
  /\ held \in [Threads -> 0 .. MaxPermits]
  /\ wants \in [Threads -> 0 .. MaxPermits]
  /\ asleep \subseteq Threads
  /\ expired \subseteq TimedThreads
  /\ shelf \in Seq(Resources)
  /\ hand \in [Threads -> Resources \cup {NoResource}]
  /\ stage \in [Threads -> {"idle", "asking", "taking", "using", "returning"}]

(* "This shouldn't happen": whoever got a permit finds a resource, although *)
(* the permits and the resources are counted apart.                         *)
ResourceThere == \A t \in Threads : stage[t] = "taking" => shelf # <<>>

(* A resource is on the shelf, once, or in the hand of one thread.          *)
NoResourceShared ==
  /\ IsInjective(shelf)
  /\ \A t \in Threads : stage[t] = "using" =>
       /\ hand[t] \in Resources \ Range(shelf)
       /\ \A s \in Threads \ {t} : stage[s] = "using" => hand[s] # hand[t]
=============================================================================
