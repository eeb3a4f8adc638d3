---------------------------- MODULE LockFreeEnds -----------------------------
(***************************************************************************)
(* LockFreeStack and LockFreeQueue of synchronization/lock_free.py: linked *)
(* nodes with an end, or two, that threads swap.  A node stands for its    *)
(* item.                                                                   *)
(* The queue is that of Michael and Scott, but for _compare_and_swap_next, *)
(* which tests and writes in two steps: two producers may both pass the    *)
(* test.  With a single producer (and any number of consumers) it is a     *)
(* queue.  The equality of two nodes is that of dataclasses; as the chains *)
(* behind two nodes differ in length it is the same as identity.  The head *)
(* of a queue is a dummy.                                                  *)
(***************************************************************************)
EXTENDS LockFreeNodes

CONSTANTS Producers, Consumers   (* which threads may enqueue, and dequeue *)

VARIABLES content,   (* history: what was pushed and not popped              *)
          taken,     (* history: what pop or dequeue took, in order          *)
          tail,      (* self._tail                                           *)
          tl,        (* the local tail of a dequeue                          *)
          sent,      (* history: the items linked                            *)
          sawEmpty   (* history: the queue was empty during the call         *)

stackVars == <<nodeVars, content, taken>>
queueVars == <<nodeVars, tail, tl, sent, taken, sawEmpty>>
queueOnly == <<tail, tl, sent, taken, sawEmpty>>

-----------------------------------------------------------------------------
(* The stack *)

StackInit == NodesInit /\ head = Nil /\ content = <<>> /\ taken = <<>>

(* push: read the head, link the new node to it, ... *)
PushRead(t, n) ==
  /\ HasNode(t, n, "push")
  /\ KeepNode(t, n)
  /\ cur' = [cur EXCEPT ![t] = head]
  /\ next' = [next EXCEPT ![n] = head]
  /\ Goto(t, "pushSwap")
  /\ UNCHANGED <<head, size, nxt, content, taken>>

(* Faulty variant: the head is set and not compared. *)
PushSet(t) ==
  /\ pc[t] = "pushSwap"
  /\ head' = node[t] /\ content' = <<node[t]>> \o content
  /\ Goto(t, "pushed")
  /\ UNCHANGED <<next, made, size, node, cur, nxt, taken>>
(* ... and swap. *)
PushSwap(t) ==
  /\ pc[t] = "pushSwap"
  /\ IF head = cur[t]
       THEN /\ head' = node[t]
            /\ content' = <<node[t]>> \o content
            /\ Goto(t, "pushed")
       ELSE Goto(t, "push") /\ UNCHANGED <<head, content>>
  /\ UNCHANGED <<next, made, size, node, cur, nxt, taken>>

PopRead(t) ==
  /\ pc[t] \in {"idle", "pop"}
  /\ cur' = [cur EXCEPT ![t] = head]
  /\ Goto(t, IF head = Nil THEN "idle" ELSE "popNext")
  /\ UNCHANGED <<head, next, made, size, node, nxt, content, taken>>

PopNext(t) ==
  /\ pc[t] = "popNext"
  /\ nxt' = [nxt EXCEPT ![t] = next[cur[t]]]
  /\ Goto(t, "popSwap")
  /\ UNCHANGED <<head, next, made, size, node, cur, content, taken>>

(* Faulty variant: a failed swap is not noticed. *)
PopSwapUnchecked(t) ==
  /\ pc[t] = "popSwap"
  /\ taken' = Append(taken, cur[t])
  /\ IF head = cur[t] THEN head' = nxt[t] /\ content' = Tail(content)
                      ELSE UNCHANGED <<head, content>>
  /\ Goto(t, "popped")
  /\ UNCHANGED <<next, made, size, node, cur, nxt>>
PopSwap(t) ==
  /\ pc[t] = "popSwap"
  /\ IF head = cur[t]
       THEN /\ head' = nxt[t]
            /\ content' = Tail(content)
            /\ taken' = Append(taken, cur[t])
            /\ Goto(t, "popped")
       ELSE Goto(t, "pop") /\ UNCHANGED <<head, content, taken>>
  /\ UNCHANGED <<next, made, size, node, cur, nxt>>

PushCount(t) == CountBy(t, "pushed", 1) /\ UNCHANGED <<content, taken>>
PopCount(t) == CountBy(t, "popped", -1) /\ UNCHANGED <<content, taken>>

StackNext ==
  \E t \in Threads :
    \/ \E n \in Nodes : PushRead(t, n)
    \/ PushSwap(t) \/ PopRead(t) \/ PopNext(t) \/ PopSwap(t)
    \/ PushCount(t) \/ PopCount(t)

StackSpec == StackInit /\ [][StackNext]_stackVars

-----------------------------------------------------------------------------
(* The linked nodes are the items that were pushed and not popped.          *)
StackIsList == Spells(head, content)

(* push and pop take effect one at a time, and pop takes what was pushed    *)
(* last.                                                                    *)
LastInFirstOut ==
  \/ content' # <<>> /\ Tail(content') = content /\ taken' = taken
  \/ content # <<>> /\ content' = Tail(content) /\ taken' = Append(taken, Head(content))

(* The size lags behind by exactly the calls that have swapped and not      *)
(* counted: it may be negative, and is right when nobody is in between.     *)
StackSizeLags == size = Len(content) - At({"pushed"}) + At({"popped"})

-----------------------------------------------------------------------------
(* The queue *)

QueueInit ==
  /\ NodesInit
  /\ head = Dummy /\ tail = Dummy
  /\ tl = [t \in Threads |-> Nil]
  /\ sent = <<>> /\ taken = <<>>
  /\ sawEmpty = {}

-----------------------------------------------------------------------------
(* enqueue *)

ReadTail(t, n) ==
  /\ t \in Producers
  /\ HasNode(t, n, "enqueue")
  /\ KeepNode(t, n)
  /\ cur' = [cur EXCEPT ![t] = tail]
  /\ Goto(t, "tailNext")
  /\ UNCHANGED <<head, next, size, nxt, queueOnly>>

ReadTailNext(t) ==
  /\ pc[t] = "tailNext"
  /\ nxt' = [nxt EXCEPT ![t] = next[cur[t]]]
  /\ Goto(t, "checkTail")
  /\ UNCHANGED <<head, next, made, size, node, cur, queueOnly>>

CheckTail(t) ==
  /\ pc[t] = "checkTail"
  /\ Goto(t, IF cur[t] # tail THEN "enqueue"
             ELSE IF nxt[t] = Nil THEN "linkTest" ELSE "helpEnqueue")
  /\ UNCHANGED <<head, next, made, size, node, cur, nxt, queueOnly>>

(* _compare_and_swap_next: the test ... *)
LinkTest(t) ==
  /\ pc[t] = "linkTest"
  /\ Goto(t, IF next[cur[t]] = Nil THEN "link" ELSE "enqueue")
  /\ UNCHANGED <<head, next, made, size, node, cur, nxt, queueOnly>>

(* ... and the assignment. *)
Link(t) ==
  /\ pc[t] = "link"
  /\ next' = [next EXCEPT ![cur[t]] = node[t]]
  /\ sent' = Append(sent, node[t])
  /\ Goto(t, "swing")
  /\ UNCHANGED <<head, made, size, node, cur, nxt, tail, tl, taken, sawEmpty>>

(* A swap of the tail from the one read to the node after it.               *)
MoveTail(t, place, from, to, then) ==
  /\ pc[t] = place
  /\ tail' = IF tail = from THEN to ELSE tail
  /\ Goto(t, then)
  /\ UNCHANGED <<head, next, made, size, node, cur, nxt, tl, sent, taken, sawEmpty>>

HelpEnqueue(t) == MoveTail(t, "helpEnqueue", cur[t], nxt[t], "enqueue")
Swing(t) == MoveTail(t, "swing", cur[t], node[t], "linked")

EnqueueCount(t) == CountBy(t, "linked", 1) /\ UNCHANGED queueOnly

-----------------------------------------------------------------------------
(* dequeue *)

ReadHead(t) ==
  /\ t \in Consumers
  /\ pc[t] \in {"idle", "dequeue"}
  /\ cur' = [cur EXCEPT ![t] = head]
  /\ sawEmpty' = IF sent = taken THEN sawEmpty \cup {t}
                 ELSE IF pc[t] = "idle" THEN sawEmpty \ {t} ELSE sawEmpty
  /\ Goto(t, "readTail")
  /\ UNCHANGED <<head, next, made, size, node, nxt, tail, tl, sent, taken>>

ReadOtherEnd(t) ==
  /\ pc[t] = "readTail"
  /\ tl' = [tl EXCEPT ![t] = tail]
  /\ Goto(t, "headNext")
  /\ UNCHANGED <<head, next, made, size, node, cur, nxt, tail, sent, taken, sawEmpty>>

ReadHeadNext(t) ==
  /\ pc[t] = "headNext"
  /\ nxt' = [nxt EXCEPT ![t] = next[cur[t]]]
  /\ Goto(t, "checkHead")
  /\ UNCHANGED <<head, next, made, size, node, cur, queueOnly>>

CheckHead(t) ==
  /\ pc[t] = "checkHead"
  /\ Goto(t, IF cur[t] # head THEN "dequeue"
             ELSE IF cur[t] = tl[t]
               THEN IF nxt[t] = Nil THEN "idle" ELSE "helpDequeue"
               ELSE IF nxt[t] = Nil THEN "dequeue" ELSE "takeHead")
  /\ UNCHANGED <<head, next, made, size, node, cur, nxt, queueOnly>>

HelpDequeue(t) == MoveTail(t, "helpDequeue", tl[t], nxt[t], "dequeue")

TakeHead(t) ==
  /\ pc[t] = "takeHead"
  /\ IF head = cur[t]
       THEN /\ head' = nxt[t]
            /\ taken' = Append(taken, nxt[t])
            /\ sawEmpty' = IF sent = taken'
                             THEN sawEmpty \cup {s \in Consumers : pc[s] # "idle"}
                             ELSE sawEmpty
            /\ Goto(t, "dequeued")
       ELSE Goto(t, "dequeue") /\ UNCHANGED <<head, taken, sawEmpty>>
  /\ UNCHANGED <<next, made, size, node, cur, nxt, tail, tl, sent>>

DequeueCount(t) == CountBy(t, "dequeued", -1) /\ UNCHANGED queueOnly

Enqueue(t) == \/ \E n \in Nodes : ReadTail(t, n)
              \/ ReadTailNext(t) \/ CheckTail(t) \/ LinkTest(t) \/ Link(t)
              \/ HelpEnqueue(t) \/ Swing(t) \/ EnqueueCount(t)
Dequeue(t) == \/ ReadHead(t) \/ ReadOtherEnd(t) \/ ReadHeadNext(t)
              \/ CheckHead(t) \/ HelpDequeue(t) \/ TakeHead(t)
              \/ DequeueCount(t)

QueueNext == \E t \in Threads : Enqueue(t) \/ Dequeue(t)

QueueSpec == QueueInit /\ [][QueueNext]_queueVars

-----------------------------------------------------------------------------
(* The linked nodes behind the head are what was sent and not taken, and    *)
(* the tail is one of them or the head.                                     *)
QueueIsList ==
  /\ Spells(next[head], SubSeq(sent, Len(taken) + 1, Len(sent)))
  /\ tail \in {head} \cup {sent[i] : i \in Len(taken) + 1 .. Len(sent)}

(* The size lags behind by the calls that have not counted yet.             *)
QueueSizeLags ==
  size = Len(sent) - Len(taken) - At({"swing", "linked"}) + At({"dequeued"})

(* dequeue returns None only if the queue was empty during the call.        *)
EmptyIsReal ==
  \A t \in Consumers :
    pc[t] = "checkHead" /\ cur[t] = head /\ cur[t] = tl[t] /\ nxt[t] = Nil
      => t \in sawEmpty
=============================================================================
