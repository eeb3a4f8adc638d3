------------------------------ MODULE Mailboxes ------------------------------
(***************************************************************************)
(* actor_model/mailbox.py: the unbounded, bounded, priority, stash and     *)
(* balancing mailboxes.  A call is one step up to where it awaits another  *)
(* task; kind names the class, and for a bounded one its drop_policy.      *)
(***************************************************************************)
EXTENDS Integers, Sequences, FiniteSets, SequencesExt

CONSTANTS Receivers,     (* tasks that dequeue; also the worker ids           *)
          MailRoom,      (* max_size                                          *)
          MaxMail        (* bound: messages 1, 2 ... are enqueued             *)

VARIABLES kind,
          mail,      (* worker -> its queue; all but the balancing one have   *)
                     (* a single queue                                        *)
          priority,  (* message -> its priority, lower numbers first          *)
          shutMail,  (* _closed                                               *)
          blocked,   (* messages whose enqueue awaits room                    *)
          receiving, (* tasks that await a message                            *)
          stash,     (* _stash                                                *)
          sent,      (* history: number of messages so far                    *)
          refused, dropped,  (* history: not accepted; accepted and dropped   *)
          taken,     (* history: what was dequeued, in order                  *)
          held,      (* history: dequeued, to be handled or stashed           *)
          unstashed  (* history: what was put back behind the others          *)

mailVars == <<kind, mail, priority, shutMail, blocked, receiving, stash, sent,
              refused, dropped, taken, held, unstashed>>

Bounded == {"drop_new", "drop_old", "block"}
Kinds == Bounded \cup {"unbounded", "priority", "stash", "balancing"}
Shared == CHOOSE w \in Receivers : TRUE
Box(w) == IF kind = "balancing" THEN w ELSE Shared
Workers == SetToSeq(Receivers)

MailInit ==
  /\ kind \in Kinds
  /\ mail = [w \in Receivers |-> <<>>] /\ blocked = {} /\ receiving = {} /\ stash = <<>>
  /\ priority = [m \in 1 .. MaxMail |-> 0]
  /\ shutMail = FALSE /\ sent = 0
  /\ refused = {} /\ dropped = {} /\ taken = <<>> /\ held = {} /\ unstashed = {}

Full == Len(mail[Shared]) >= MailRoom
New == sent + 1
Put(w, m) == mail' = [mail EXCEPT ![w] = Append(@, m)]
Call == sent < MaxMail /\ sent' = New
Refuse == refused' = refused \cup {New} /\ UNCHANGED <<mail, priority, blocked, dropped>>
Accept(w) == Put(w, New) /\ UNCHANGED <<priority, blocked, refused, dropped>>

-----------------------------------------------------------------------------
(* enqueue of each class.                                                   *)

Unbounded == kind \in {"unbounded", "stash"} /\ IF shutMail THEN Refuse ELSE Accept(Shared)

(* Faulty variant: one message too early.                                   *)
DropNewEarly ==
  kind = "drop_new" /\ IF shutMail \/ Len(mail[Shared]) + 1 >= MailRoom THEN Refuse ELSE Accept(Shared)
DropNew == kind = "drop_new" /\ IF shutMail \/ Full THEN Refuse ELSE Accept(Shared)

DropOld ==
  /\ kind = "drop_old"
  /\ IF shutMail THEN Refuse
     ELSE IF Full
     THEN /\ mail' = [mail EXCEPT ![Shared] = Append(Tail(@), New)]
          /\ dropped' = dropped \cup {Head(mail[Shared])}
          /\ UNCHANGED <<priority, blocked, refused>>
     ELSE Accept(Shared)

Block ==
  /\ kind = "block"
  /\ IF shutMail THEN Refuse
     ELSE IF Full THEN blocked' = blocked \cup {New} /\ UNCHANGED <<mail, priority, refused, dropped>>
     ELSE Accept(Shared)

(* A put that waited goes on when there is room, closed or not; a later one *)
(* may have come before it.                                                 *)
Unblock(m) ==
  /\ m \in blocked /\ ~ Full
  /\ Put(Shared, m) /\ blocked' = blocked \ {m}
  /\ UNCHANGED <<kind, priority, shutMail, receiving, stash, sent, refused, dropped, taken, held, unstashed>>

(* The heap as the sequence of what it will give out: by priority, and then *)
(* by time.time(), which may stand still or be set back, so that a newcomer *)
(* may come anywhere among its equals.                                      *)
PushHeap(m, p, q) ==
  {InsertAt(q, k + 1, m) : k \in {n \in 0 .. Len(q) :
     /\ \A i \in 1 .. n : priority[q[i]] <= p
     /\ \A i \in n + 1 .. Len(q) : p <= priority[q[i]]}}

Prioritized(p) ==
  /\ kind = "priority"
  /\ IF shutMail \/ Full THEN Refuse
     ELSE /\ priority' = [priority EXCEPT ![New] = p]
          /\ \E q \in PushHeap(New, p, mail[Shared]) : mail' = [mail EXCEPT ![Shared] = q]
          /\ UNCHANGED <<blocked, refused, dropped>>

(* _round_robin_index counts the calls that were not refused.               *)
Balanced ==
  /\ kind = "balancing"
  /\ IF shutMail THEN Refuse
     ELSE Accept(Workers[((sent - Cardinality(refused)) % Len(Workers)) + 1])

Enqueue ==
  /\ Call
  /\ Unbounded \/ DropNew \/ DropOld \/ Block \/ Balanced \/ \E p \in 0 .. 1 : Prioritized(p)
  /\ UNCHANGED <<kind, shutMail, receiving, stash, taken, held, unstashed>>

-----------------------------------------------------------------------------
(* dequeue: the two that keep a list return at once, the others wait for a  *)
(* tenth of a second unless the mailbox is closed and empty.                *)

TakeFirst(w) ==
  /\ mail[w] # <<>>
  /\ mail' = [mail EXCEPT ![w] = Tail(@)]
  /\ taken' = Append(taken, Head(mail[w])) /\ held' = held \cup {Head(mail[w])}
  /\ UNCHANGED <<kind, priority, shutMail, blocked, stash, sent, refused, dropped, unstashed>>

Dequeue(w) == w \notin receiving /\ TakeFirst(Box(w)) /\ UNCHANGED receiving

Await(w) ==
  /\ w \notin receiving /\ kind \notin {"drop_new", "drop_old"}
  /\ mail[Box(w)] = <<>> /\ ~ shutMail
  /\ receiving' = receiving \cup {w}
  /\ UNCHANGED <<kind, mail, priority, shutMail, blocked, stash, sent, refused, dropped, taken, held, unstashed>>

Receive(w) == w \in receiving /\ TakeFirst(Box(w)) /\ receiving' = receiving \ {w}

(* None, also when a message has come in the same moment.                   *)
GiveUp(w) ==
  /\ w \in receiving /\ receiving' = receiving \ {w}
  /\ UNCHANGED <<kind, mail, priority, shutMail, blocked, stash, sent, refused, dropped, taken, held, unstashed>>

(* dequeue_any: the first queue in the order of the workers that has one.   *)
DequeueAny ==
  /\ kind = "balancing"
  /\ \E i \in DOMAIN Workers :
       (\A j \in 1 .. i - 1 : mail[Workers[j]] = <<>>) /\ TakeFirst(Workers[i])
  /\ UNCHANGED receiving

CloseMail ==
  /\ ~ shutMail /\ shutMail' = TRUE
  /\ UNCHANGED <<kind, mail, priority, blocked, receiving, stash, sent, refused, dropped, taken, held, unstashed>>

-----------------------------------------------------------------------------
(* StashMailbox: an actor handles what it has taken, or stashes it.         *)

Handle(m) ==
  /\ m \in held /\ held' = held \ {m}
  /\ UNCHANGED <<kind, mail, priority, shutMail, blocked, receiving, stash, sent, refused, dropped, taken, unstashed>>

Stash(m) ==
  /\ kind = "stash" /\ m \in held /\ held' = held \ {m}
  /\ stash' = Append(stash, m)
  /\ taken' = RemoveAt(taken, CHOOSE i \in DOMAIN taken : taken[i] = m)
  /\ UNCHANGED <<kind, mail, priority, shutMail, blocked, receiving, sent, refused, dropped, unstashed>>

(* Back into the base mailbox, whose answer is not looked at: a closed one  *)
(* takes nothing.  What is put back comes behind all that has arrived since,*)
(* and unstash_all puts it back in reverse.                                 *)
Unstash(ms) ==
  IF shutMail THEN dropped' = dropped \cup ToSet(ms) /\ UNCHANGED <<mail, unstashed>>
  ELSE /\ mail' = [mail EXCEPT ![Shared] = @ \o ms] /\ UNCHANGED dropped
       /\ unstashed' = unstashed \cup ToSet(ms)

(* Faulty variant: the stash is not cleared.                                *)
UnstashAllAgain ==
  /\ kind = "stash" /\ stash # <<>>
  /\ Unstash(Reverse(stash)) /\ UNCHANGED stash
  /\ UNCHANGED <<kind, priority, shutMail, blocked, receiving, sent, refused, taken, held>>
UnstashAll ==
  /\ kind = "stash" /\ stash # <<>>
  /\ Unstash(Reverse(stash)) /\ stash' = <<>>
  /\ UNCHANGED <<kind, priority, shutMail, blocked, receiving, sent, refused, taken, held>>

UnstashOne ==
  /\ kind = "stash" /\ stash # <<>>
  /\ Unstash(<<Head(stash)>>) /\ stash' = Tail(stash)
  /\ UNCHANGED <<kind, priority, shutMail, blocked, receiving, sent, refused, taken, held>>

MailNext ==
  \/ Enqueue \/ DequeueAny \/ CloseMail \/ UnstashAll \/ UnstashOne
  \/ \E w \in Receivers : Dequeue(w) \/ Await(w) \/ Receive(w) \/ GiveUp(w)
  \/ \E m \in blocked : Unblock(m)
  \/ \E m \in held : Handle(m) \/ Stash(m)

-----------------------------------------------------------------------------
(* Properties *)

InBoxes == [w \in Receivers |-> ToSet(mail[w])]

(* Every message is in one place: refused, dropped, waiting for room, in a  *)
(* queue, in the stash or taken.                                            *)
MailKept ==
  LET places == <<refused, dropped, blocked, ToSet(stash), ToSet(taken)>>
                \o [i \in DOMAIN Workers |-> InBoxes[Workers[i]]]
  IN /\ UNION ToSet(places) = 1 .. sent
     /\ \A i, j \in DOMAIN places : i # j => places[i] \cap places[j] = {}
     /\ IsInjective(taken) /\ \A w \in Receivers : IsInjective(mail[w])

(* First in, first out: messages are taken as they came, per worker of the  *)
(* balancing one, and over a stash all but what was put back.  By priority, *)
(* the next one is never less urgent than another that waits.  drop_old     *)
(* drops only what is older than all that stays, and the limit holds.       *)
InOrderOf(q) == \A i, j \in DOMAIN q : i < j => q[i] < q[j]
InOrderBut(q, s) == \A i, j \in DOMAIN q : i < j => q[i] < q[j] \/ q[i] \in s \/ q[j] \in s
ByPriority(q) == \A i, j \in DOMAIN q : i < j => priority[q[i]] <= priority[q[j]]
MailInOrder ==
  /\ kind \in {"drop_new", "drop_old", "unbounded"} => InOrderOf(taken \o mail[Shared])
  /\ kind = "stash" => InOrderBut(taken \o mail[Shared], unstashed)
  /\ kind = "balancing" => \A w \in Receivers : InOrderOf(mail[w])
  /\ kind = "priority" => ByPriority(mail[Shared])
  /\ kind = "drop_old" => \A m \in dropped : \A x \in ToSet(mail[Shared]) : m < x
  /\ kind \in Bounded \cup {"priority"} => Len(mail[Shared]) <= MailRoom

(* The balancing mailbox shares its messages out evenly.                    *)
SharedEvenly ==
  kind = "balancing" /\ taken = <<>> =>
    \A v, w \in Receivers : Len(mail[v]) - Len(mail[w]) \in -1 .. 1

(* An open mailbox refuses a message only where its class has a limit and   *)
(* is at it, and loses one that it has accepted only as the oldest of a     *)
(* full drop_old mailbox, or from the stash of a closed one.                *)
LosesByPolicy ==
  /\ refused' # refused =>
       refused' = refused \cup {New} /\ (shutMail \/ (kind \in {"drop_new", "priority"} /\ Full))
  /\ \A m \in dropped' \ dropped :
       \/ kind = "drop_old" /\ Full /\ m = Head(mail[Shared])
       \/ kind = "stash" /\ shutMail /\ m \in ToSet(stash)

=============================================================================
