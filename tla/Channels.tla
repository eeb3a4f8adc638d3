------------------------------- MODULE Channels -------------------------------
(***************************************************************************)
(* The channels of csp_patterns/channels.py: buffered and unbounded ones,  *)
(* over asyncio.Queue, the synchronous and the broadcast channel.          *)
(***************************************************************************)
EXTENDS BoundedQueues

CONSTANT Dedicated   (* the consumers with a BroadcastReceiver               *)

ASSUME ReceiversAssumption == 0 \notin Consumers   \* Dead is no consumer

VARIABLES lost,    (* history: values whose receiver timed out after all, a  *)
                   (* count                                                  *)
          regs,    (* _receivers                                             *)
          refs,    (* _receiver_refs                                         *)
          box,     (* the queue of a consumer                                *)
          due      (* history: messages sent since a consumer registered     *)

-----------------------------------------------------------------------------
(* BufferedChannel and UnboundedChannel.  A send on a closed channel raises *)
(* and changes nothing; the counts of sends and receives are those of the   *)
(* histories.                                                               *)

Room(bounded) == bounded => Len(buffer) < Capacity

Send(t, x, room) == CallsPut(t) /\ ~ closed /\ PutOrWait(t, x, room)

SendNowait(t, x, room) == CallsPut(t) /\ ~ closed /\ room /\ PutOrWait(t, x, TRUE)

Receive(t) == CallsGet(t) /\ ~ (closed /\ buffer = <<>>) /\ GetOrWait(t)

ReceiveNowait(t) == CallsGet(t) /\ buffer # <<>> /\ GetOrWait(t)

ChannelNext(bounded) ==
  \/ \E t \in Producers, x \in Items :
       Send(t, x, Room(bounded)) \/ SendNowait(t, x, Room(bounded))
  \/ \E t \in Consumers : Receive(t) \/ ReceiveNowait(t)
  \/ \E t \in Tasks : Resume(t, Room(bounded)) \/ TimeOut(t, Room(bounded))
  \/ Close

-----------------------------------------------------------------------------
(* SynchronousChannel.  putters and getters are _pending_sends and          *)
(* _pending_receives, by their callers; a caller whose future is in neither *)
(* has got its partner.  expired: the future was cancelled, by the timeout  *)
(* or by close.  A value is accepted when a partner is found, and gone when *)
(* receive returns it.                                                      *)

SyncInit == QueueInit /\ lost = 0

Wait(t, where, x) ==
  /\ pc' = [pc EXCEPT ![t] = where]
  /\ arg' = [arg EXCEPT ![t] = x]

(* send: the first pending receiver gets the value.  If its future is       *)
(* cancelled it is dropped from the list, and the others are not looked at. *)
(* Faulty variant: the future is not asked whether it was cancelled. *)
SyncSendBlindly(t, x) ==
  /\ CallsPut(t) /\ ~ closed
  /\ \/ /\ getters # <<>>
        /\ getters' = Tail(getters)
        /\ arg' = [arg EXCEPT ![Head(getters)] = x]
        /\ accepted' = Append(accepted, x)
        /\ UNCHANGED <<putters, pc>>
     \/ /\ getters = <<>>
        /\ putters' = Append(putters, t)
        /\ Wait(t, "put", x)
        /\ UNCHANGED <<getters, accepted>>
  /\ UNCHANGED <<buffer, closed, expired, gone, lost>>
SyncSend(t, x) ==
  /\ CallsPut(t) /\ ~ closed
  /\ getters' = Next1(getters)
  /\ \/ /\ getters # <<>> /\ Head(getters) \notin expired
        /\ arg' = [arg EXCEPT ![Head(getters)] = x]
        /\ accepted' = Append(accepted, x)
        /\ UNCHANGED <<putters, pc>>
     \/ /\ getters # <<>> => Head(getters) \in expired
        /\ putters' = Append(putters, t)
        /\ Wait(t, "put", x)
        /\ UNCHANGED accepted
  /\ UNCHANGED <<buffer, closed, expired, gone, lost>>

SyncReceive(t) ==
  /\ CallsGet(t) /\ ~ (closed /\ putters = <<>>)
  /\ putters' = Next1(putters)
  /\ \/ /\ putters # <<>> /\ Head(putters) \notin expired
        /\ accepted' = Append(accepted, arg[Head(putters)])
        /\ gone' = Append(gone, arg[Head(putters)])
        /\ UNCHANGED <<getters, pc, arg>>
     \/ /\ putters # <<>> => Head(putters) \in expired
        /\ getters' = Append(getters, t)
        /\ Wait(t, "get", NoItem)
        /\ UNCHANGED <<accepted, gone>>
  /\ UNCHANGED <<buffer, closed, expired, lost>>

(* A caller whose future has its result returns.                            *)
Return(t) ==
  /\ Woken(t) /\ t \notin expired
  /\ gone' = IF pc[t] = "get" THEN Append(gone, arg[t]) ELSE gone
  /\ Idle(t)
  /\ UNCHANGED <<buffer, closed, putters, getters, expired, accepted, lost>>

(* The time of a call is over: its future is cancelled; if it has a result  *)
(* already, Python 3.12 ends the call nonetheless and the value is lost.    *)
CancelFuture(t) ==
  /\ t \in Timed /\ pc[t] # "idle" /\ t \notin expired
  /\ expired' = expired \cup {t}
  /\ lost' = IF Woken(t) /\ pc[t] = "get" THEN lost + 1 ELSE lost
  /\ UNCHANGED <<buffer, closed, putters, getters, pc, arg, accepted, gone>>

(* _cleanup_sender or _cleanup_receiver, and the end of the call: send      *)
(* returns False, receive None.                                             *)
EndCancelled(t) ==
  /\ t \in expired
  /\ expired' = expired \ {t}
  /\ putters' = Without(putters, t) /\ getters' = Without(getters, t)
  /\ Idle(t)
  /\ UNCHANGED <<buffer, closed, accepted, gone, lost>>

(* close cancels every pending future; the callers get a CancelledError.    *)
CloseSync ==
  /\ closed' = TRUE
  /\ expired' = expired \cup Waiting(putters) \cup Waiting(getters)
  /\ putters' = <<>> /\ getters' = <<>>
  /\ UNCHANGED <<buffer, pc, arg, accepted, gone, lost>>

SyncNext ==
  \/ \E t \in Producers, x \in Items : SyncSend(t, x)
  \/ \E t \in Consumers : SyncReceive(t)
  \/ \E t \in Tasks : Return(t) \/ CancelFuture(t) \/ EndCancelled(t)
  \/ CloseSync

-----------------------------------------------------------------------------
(* BroadcastChannel and BroadcastReceiver.  A consumer is a                 *)
(* BroadcastReceiver or calls receive of the channel, which registers a     *)
(* queue for this call alone.  A consumer stands for its queue in regs and  *)
(* refs; Dead is a reference whose queue was collected.                     *)

Dead == 0
unused == <<buffer, putters, getters, arg, expired>>

BroadcastInit ==
  /\ QueueInit
  /\ regs = <<>> /\ refs = <<>>
  /\ box = [c \in Consumers |-> <<>>]
  /\ due = [c \in Consumers |-> 0]

(* Register, by receive of the channel or at the first receive of a         *)
(* receiver.  Bound: MaxAccepted references.                                *)
Register(c) ==
  /\ CallsGet(c) /\ ~ closed /\ Len(refs) < MaxAccepted
  /\ regs' = Append(regs, c) /\ refs' = Append(refs, c)
  /\ box' = [box EXCEPT ![c] = IF c \in Dedicated THEN box[c] ELSE <<>>]
  /\ due' = [due EXCEPT ![c] = Len(box'[c])]
  /\ pc' = [pc EXCEPT ![c] = "get"]
  /\ UNCHANGED <<unused, closed, accepted, gone>>

(* _cleanup_receivers pairs the two lists by position, as far as both go,   *)
(* and keeps the pairs whose reference is alive.                            *)
Alive(i) == i \in DOMAIN refs /\ refs[i] # Dead
CleanUp ==
  LET living == {i \in DOMAIN regs : Alive(i)}
  IN \E place \in Bijection(1 .. Cardinality(living), living) :
       /\ \A i, j \in DOMAIN place : i < j => place[i] < place[j]
       /\ regs' = [i \in DOMAIN place |-> regs[place[i]]]
       /\ refs' = [i \in DOMAIN place |-> refs[place[i]]]

(* Faulty variant: only the first receiver is sent to. *)
BroadcastToFirst(t, x) ==
  /\ CallsPut(t) /\ ~ closed
  /\ CleanUp
  /\ box' = [c \in Consumers |-> IF regs' # <<>> /\ c = regs'[1] THEN Append(box[c], x) ELSE box[c]]
  /\ due' = [c \in Consumers |-> IF pc[c] = "get" THEN due[c] + 1 ELSE due[c]]
  /\ accepted' = Append(accepted, x)
  /\ UNCHANGED <<unused, closed, pc, gone>>
(* send puts into every queue that is left; they are unbounded.             *)
Broadcast(t, x) ==
  /\ CallsPut(t) /\ ~ closed
  /\ CleanUp
  /\ box' = [c \in Consumers |-> IF c \in Waiting(regs') THEN Append(box[c], x) ELSE box[c]]
  /\ due' = [c \in Consumers |-> IF pc[c] = "get" THEN due[c] + 1 ELSE due[c]]
  /\ accepted' = Append(accepted, x)
  /\ UNCHANGED <<unused, closed, pc, gone>>

(* receive of the channel ends with a message, or in vain; its queue leaves *)
(* the one list and is collected, its reference stays in the other.         *)
(* Faulty variant: the first queue of the list leaves. *)
EndReceiveOfFirst(c) ==
  /\ c \notin Dedicated /\ pc[c] = "get"
  /\ box[c] # <<>> \/ c \in Timed
  /\ regs' = Next1(regs)
  /\ refs' = [i \in DOMAIN refs |-> IF refs[i] = c THEN Dead ELSE refs[i]]
  /\ box' = [box EXCEPT ![c] = <<>>]
  /\ due' = [due EXCEPT ![c] = 0]
  /\ pc' = [pc EXCEPT ![c] = "idle"]
  /\ UNCHANGED <<unused, closed, accepted, gone>>
EndReceive(c) ==
  /\ c \notin Dedicated /\ pc[c] = "get"
  /\ box[c] # <<>> \/ c \in Timed
  /\ regs' = Without(regs, c)
  /\ refs' = [i \in DOMAIN refs |-> IF refs[i] = c THEN Dead ELSE refs[i]]
  /\ box' = [box EXCEPT ![c] = <<>>]
  /\ due' = [due EXCEPT ![c] = 0]
  /\ pc' = [pc EXCEPT ![c] = "idle"]
  /\ UNCHANGED <<unused, closed, accepted, gone>>

(* receive of a receiver, and its close; receive again would register anew. *)
TakeMessage(c) ==
  /\ c \in Dedicated /\ pc[c] = "get" /\ box[c] # <<>>
  /\ box' = [box EXCEPT ![c] = Tail(box[c])]
  /\ due' = [due EXCEPT ![c] = due[c] - 1]
  /\ UNCHANGED <<unused, regs, refs, closed, pc, accepted, gone>>

CloseReceiver(c) ==
  /\ c \in Dedicated /\ pc[c] = "get"
  /\ regs' = Without(regs, c)
  /\ pc' = [pc EXCEPT ![c] = "idle"]
  /\ UNCHANGED <<unused, refs, box, due, closed, accepted, gone>>

(* close puts None into the queues of the receivers it still knows.         *)
CloseBroadcast ==
  /\ ~ closed
  /\ closed' = TRUE
  /\ box' = [c \in Consumers |-> IF c \in Waiting(regs) THEN Append(box[c], NoItem) ELSE box[c]]
  /\ due' = [c \in Consumers |-> IF pc[c] = "get" THEN due[c] + 1 ELSE due[c]]
  /\ UNCHANGED <<unused, regs, refs, pc, accepted, gone>>

BroadcastNext ==
  \/ \E t \in Producers, x \in Items : Broadcast(t, x)
  \/ \E c \in Consumers : \/ Register(c) \/ EndReceive(c)
                          \/ TakeMessage(c) \/ CloseReceiver(c)
  \/ CloseBroadcast

-----------------------------------------------------------------------------
(* Properties *)

(* A value that found its receiver is received once, on its way to it, or   *)
(* was lost to a timeout.                                                   *)
HandedOver ==
  Len(accepted) = Len(gone) + lost
                  + Cardinality({t \in Consumers : Woken(t) /\ t \notin expired})

(* A sender and a receiver come to wait at the same time in one way only:   *)
(* a caller drops the first partner of the list, whose time had run out,    *)
(* and does not look at the next.                                           *)
PairWaits == Waiting(putters) \ expired # {} /\ Waiting(getters) \ expired # {}
DropsFirst(line, rest) == line # <<>> /\ Head(line) \in expired /\ rest = Tail(line)
PairStep ==
  PairWaits' => PairWaits \/ DropsFirst(putters, putters') \/ DropsFirst(getters, getters')

(* "Each message is delivered to all active receivers", to those in the     *)
(* list: what a receiver was sent since it registered is in its queue.      *)
AllAreSentTo == \A c \in Waiting(regs) : Len(box[c]) = due[c]

(* A receiver that has not left is dropped from the list in one way only:   *)
(* beside it in the other list stands the dead reference of another one     *)
(* that has left.                                                           *)
DropStep ==
  \A c \in Waiting(regs) \ Waiting(regs') :
    pc'[c] = "get" => \E i \in DOMAIN regs : regs[i] = c /\ refs[i] = Dead
=============================================================================
