--------------------------- MODULE LockFreeEntries ---------------------------
(***************************************************************************)
(* LockFreeHashMap and LockFreeLinkedList of synchronization/lock_free.py. *)
(* Both keep nodes with a key, which a removal marks before it unlinks     *)
(* them, and their threads walk along the nodes; the history tells which   *)
(* keys a lookup must find.  Values are left out, and so is the size, a    *)
(* count that is nowhere read.                                             *)
(***************************************************************************)
EXTENDS LockFreeNodes

CONSTANTS Keys,
          Updaters   (* bound: they put and remove, the others get *)

VARIABLES key,     (* the key of a node: data[0] in the map, data in the list *)
          marked,  (* the nodes that are marked                               *)
          prev,    (* the local prev of a thread                              *)
          op,      (* the call a thread is in                                 *)
          want,    (* and its key                                             *)
          sure,    (* history: the keys that were put undisturbed and that no *)
                   (* call has begun to remove since                          *)
          quiet    (* history: the calls that nothing has disturbed so far    *)

entryVars == <<nodeVars, key, marked, prev, op, want, sure, quiet>>
call == <<op, want, sure, quiet>>

SomeKey == CHOOSE k \in Keys : TRUE

Forget(t) ==
  /\ node' = [node EXCEPT ![t] = Nil]
  /\ cur' = [cur EXCEPT ![t] = Nil]
  /\ nxt' = [nxt EXCEPT ![t] = Nil]
  /\ prev' = [prev EXCEPT ![t] = Nil]
  /\ op' = [op EXCEPT ![t] = "put"]
  /\ want' = [want EXCEPT ![t] = SomeKey]
  /\ quiet' = quiet \ {t}

EntriesInit ==
  /\ NodesInit /\ head = Nil
  /\ key = [m \in Nodes |-> SomeKey]
  /\ marked = {}
  /\ prev = [t \in Threads |-> Nil]
  /\ op = [t \in Threads |-> "put"]
  /\ want = [t \in Threads |-> SomeKey]
  /\ sure = {} /\ quiet = {}

Calls(t) == IF t \in Updaters THEN {"put", "remove", "get"} ELSE {}

Busy(o) == {t \in Threads : pc[t] # "idle" /\ op[t] = o}
BusyWith(o, k) == {t \in Busy(o) : want[t] = k}

(* Call o of t for k begins while rivals are under way: calls each of which *)
(* makes the other's answer uncertain.                                      *)
Begin(t, o, k, rivals) ==
  /\ pc[t] = "idle"
  /\ op' = [op EXCEPT ![t] = o]
  /\ want' = [want EXCEPT ![t] = k]
  /\ sure' = IF o = "remove" THEN sure \ {k} ELSE sure
  /\ quiet' = (quiet \ (rivals \cup {t})) \cup
              (IF rivals = {} /\ (o = "get" => k \in sure) THEN {t} ELSE {})

(* Nothing that disturbs t is seen any more once it has put its key.        *)
Put(t) == sure' = (IF t \in quiet THEN sure \cup {want[t]} ELSE sure)

(* A step that only goes on, or ends the call and its local variables.      *)
GoOn(t, from, to) ==
  /\ pc[t] = from
  /\ Goto(t, to)
  /\ IF to = "idle" THEN Forget(t)
                    ELSE UNCHANGED <<node, cur, nxt, prev, op, want, quiet>>
  /\ UNCHANGED <<head, next, made, size, key, marked, sure>>

(* The field that leads on from a node, and from before the first one.      *)
After(m) == IF m = Nil THEN head ELSE next[m]
SetAfter(m, n) == IF m = Nil THEN head' = n /\ UNCHANGED next
                  ELSE next' = [next EXCEPT ![m] = n] /\ UNCHANGED head

(* A walk goes on to the next node.                                         *)
Advance(t) ==
  /\ prev' = [prev EXCEPT ![t] = cur[t]]
  /\ cur' = [cur EXCEPT ![t] = next[cur[t]]]
  /\ Goto(t, "look")
  /\ UNCHANGED <<head, next, made, size, node, nxt, key, marked, call>>

(* The nodes that count.                                                    *)
Entries == Reachable(head) \ marked

-----------------------------------------------------------------------------
(* One bucket of LockFreeHashMap: the others are reached by other keys      *)
(* only.                                                                    *)
(* Every call reads the bucket and walks: put from node[t], the new node,   *)
(* again and again until it is in.                                          *)

MapStart(t, o, k) ==
  /\ Begin(t, o, k, IF o = "remove" THEN BusyWith("put", k) \cup BusyWith("get", k)
                                    ELSE BusyWith("remove", k))
  /\ cur' = [cur EXCEPT ![t] = head]
  /\ nxt' = [nxt EXCEPT ![t] = head]
  /\ prev' = [prev EXCEPT ![t] = Nil]
  /\ Goto(t, "look")
  /\ UNCHANGED <<head, next, made, size, node, key, marked>>

MapAgain(t) ==
  /\ pc[t] = "again"
  /\ cur' = [cur EXCEPT ![t] = head]
  /\ nxt' = [nxt EXCEPT ![t] = head]
  /\ Goto(t, "look")
  /\ UNCHANGED <<head, next, made, size, node, prev, key, marked, call>>

(* A node with the key that is not marked ends the walk, and so does the    *)
(* end: put makes its node, get and remove return None.                     *)
End(t) ==
  cur[t] = Nil /\ GoOn(t, "look", IF op[t] = "put" THEN "insert" ELSE "idle")
OtherKey(t) ==
  pc[t] = "look" /\ cur[t] # Nil /\ key[cur[t]] # want[t] /\ Advance(t)
Match(t) ==
  /\ cur[t] # Nil /\ key[cur[t]] = want[t]
  /\ GoOn(t, "look", IF cur[t] \in marked THEN "pass"
                     ELSE [put |-> "update", get |-> "idle", remove |-> "mark"][op[t]])
Pass(t) == pc[t] = "pass" /\ Advance(t)

(* put looks at the mark again; it writes the value, or gives the node up   *)
(* and puts another one at the front.                                       *)
Update(t) ==
  /\ pc[t] = "update"
  /\ \/ cur[t] \in marked /\ GoOn(t, "update", "insert")
     \/ /\ cur[t] \notin marked
        /\ Goto(t, "idle") /\ Put(t) /\ Forget(t)
        /\ UNCHANGED <<head, next, made, size, key, marked>>

(* new_node with its next, the bucket as it was read before the walk.       *)
MakeNode(t, n) ==
  /\ pc[t] = "insert" /\ n = made + 1 /\ made < MaxNodes
  /\ made' = n
  /\ node' = [node EXCEPT ![t] = n]
  /\ key' = [key EXCEPT ![n] = want[t]]
  /\ next' = [next EXCEPT ![n] = nxt[t]]
  /\ Goto(t, "insertSwap")
  /\ UNCHANGED <<head, size, cur, nxt, prev, marked, call>>

InsertSwap(t) ==
  \/ /\ pc[t] = "insertSwap" /\ head = nxt[t]
     /\ head' = node[t] /\ Put(t) /\ Goto(t, "idle") /\ Forget(t)
     /\ UNCHANGED <<next, made, size, key, marked>>
  \/ head # nxt[t] /\ GoOn(t, "insertSwap", "again")

(* remove: the mark, ... *)
MapMark(t) ==
  /\ pc[t] = "mark"
  /\ marked' = marked \cup {cur[t]}
  /\ Goto(t, "readNext")
  /\ UNCHANGED <<head, next, made, size, node, cur, nxt, prev, key, call>>

(* ... the node after it (nxt is the bucket as read until here), ...        *)
MapReadNext(t) ==
  /\ pc[t] = "readNext"
  /\ nxt' = [nxt EXCEPT ![t] = next[cur[t]]]
  /\ Goto(t, "unlink")
  /\ UNCHANGED <<head, next, made, size, node, cur, prev, key, marked, call>>

(* Faulty variant: the bucket is set to the rest without comparing. *)
UnlinkSet(t) ==
  /\ pc[t] = "unlink"
  /\ SetAfter(prev[t], nxt[t])
  /\ Goto(t, "idle") /\ Forget(t)
  /\ UNCHANGED <<made, size, key, marked, sure>>
(* ... and the unlinking, by a swap only at the front.                      *)
Unlink(t) ==
  /\ pc[t] = "unlink"
  /\ IF prev[t] = Nil /\ head # cur[t] THEN UNCHANGED <<head, next>>
                                        ELSE SetAfter(prev[t], nxt[t])
  /\ Goto(t, "idle") /\ Forget(t)
  /\ UNCHANGED <<made, size, key, marked, sure>>

MapNext ==
  \E t \in Threads :
    \/ \E o \in Calls(t), k \in Keys : MapStart(t, o, k)
    \/ \E n \in Nodes : MakeNode(t, n)
    \/ MapAgain(t) \/ End(t) \/ OtherKey(t) \/ Match(t) \/ Pass(t)
    \/ Update(t) \/ InsertSwap(t)
    \/ MapMark(t) \/ MapReadNext(t) \/ Unlink(t)

-----------------------------------------------------------------------------
(* LockFreeLinkedList, a sorted list.  The sentinels are left out: head is  *)
(* the next of the first one, and Nil is the last one, or as a prev the     *)
(* first.  _compare_and_swap_next tests and writes in two steps.  The call  *)
(* "get" is contains, "put" is add.                                         *)
(* Every call begins at the first node, and add and remove may do so again. *)

Rewind(t) ==
  /\ prev' = [prev EXCEPT ![t] = Nil]
  /\ cur' = [cur EXCEPT ![t] = head]
  /\ Goto(t, "look")
  /\ UNCHANGED <<head, next, made, size, node, nxt, key, marked>>

ListStart(t, o, k) ==
  /\ Begin(t, o, k,
       CASE o = "put" -> Busy("put") \cup Busy("remove")
         [] o = "remove" -> Busy("put") \cup BusyWith("get", k)
         [] o = "get" -> BusyWith("remove", k))
  /\ Rewind(t)

ListAgain(t) == pc[t] = "again" /\ Rewind(t) /\ UNCHANGED call

(* _find_position goes on until the place of the key, and unlinks marked    *)
(* nodes on the way; contains goes on until it meets the key.               *)
Contains(t) ==
  /\ op[t] = "get"
  /\ GoOn(t, "look", IF cur[t] = Nil THEN "idle"
                     ELSE IF key[cur[t]] = want[t] /\ cur[t] \notin marked THEN "idle"
                     ELSE "pass")
Look(t) ==
  /\ op[t] # "get"
  /\ GoOn(t, "look", IF cur[t] = Nil THEN "found"
                     ELSE IF cur[t] \in marked THEN "skipNext"
                     ELSE IF key[cur[t]] >= want[t] THEN "found" ELSE "pass")

ReadNext(t, from, to) ==
  /\ pc[t] = from
  /\ nxt' = [nxt EXCEPT ![t] = next[cur[t]]]
  /\ Goto(t, to)
  /\ UNCHANGED <<head, next, made, size, node, cur, prev, key, marked, call>>

(* _compare_and_swap_next of prev and current: the test, ... *)
Test(t, from, to, otherwise) ==
  GoOn(t, from, IF After(prev[t]) = cur[t] THEN to ELSE otherwise)

(* ... and, of _find_position, the write.  A failed test ends the walk with *)
(* the marked node.                                                         *)
SkipRead(t) == ReadNext(t, "skipNext", "skipTest")
SkipTest(t) == Test(t, "skipTest", "skip", "found")
Skip(t) ==
  /\ pc[t] = "skip"
  /\ SetAfter(prev[t], nxt[t])
  /\ cur' = [cur EXCEPT ![t] = nxt[t]]
  /\ Goto(t, "look")
  /\ UNCHANGED <<made, size, node, nxt, prev, key, marked, call>>

Here(t) == cur[t] # Nil /\ key[cur[t]] = want[t]

(* add: the key is there, or new_node is to be linked before current.       *)
AddFound(t) ==
  Here(t) /\ cur[t] \notin marked /\ op[t] = "put" /\ GoOn(t, "found", "idle")
AddMake(t, n) ==
  /\ pc[t] = "found" /\ op[t] = "put"
  /\ Here(t) => cur[t] \in marked
  /\ IF node[t] = Nil THEN made < MaxNodes /\ n = made + 1 ELSE n = node[t]
  /\ KeepNode(t, n)
  /\ key' = [key EXCEPT ![n] = want[t]]
  /\ next' = [next EXCEPT ![n] = cur[t]]
  /\ Goto(t, "test")
  /\ UNCHANGED <<head, size, cur, nxt, prev, marked, call>>

(* remove: the key is not there, or current is to be marked, by a test of   *)
(* the mark and a write; a node that is marked already is looked for again. *)
RemoveFound(t) ==
  op[t] = "remove" /\ GoOn(t, "found", IF Here(t) THEN "readNext" ELSE "idle")
RemoveRead(t) == ReadNext(t, "readNext", "markTest")
MarkTest(t) == GoOn(t, "markTest", IF cur[t] \in marked THEN "again" ELSE "mark")
ListMark(t) ==
  /\ pc[t] = "mark"
  /\ marked' = marked \cup {cur[t]}
  /\ Goto(t, "test")
  /\ UNCHANGED <<head, next, made, size, node, cur, nxt, prev, key, call>>

(* The swap of prev.next, by add and by remove.                             *)
LinkTest(t) == Test(t, "test", "link", "again")
Link(t) ==
  /\ pc[t] = "link"
  /\ IF op[t] = "put" THEN SetAfter(prev[t], node[t]) /\ Put(t)
                       ELSE SetAfter(prev[t], nxt[t]) /\ UNCHANGED sure
  /\ Goto(t, "idle") /\ Forget(t)
  /\ UNCHANGED <<made, size, key, marked>>

ListNext ==
  \E t \in Threads :
    \/ \E o \in Calls(t), k \in Keys : ListStart(t, o, k)
    \/ \E n \in Nodes : AddMake(t, n)
    \/ ListAgain(t) \/ Contains(t) \/ Look(t) \/ Pass(t) \/ SkipRead(t) \/ SkipTest(t) \/ Skip(t)
    \/ AddFound(t) \/ RemoveFound(t) \/ RemoveRead(t) \/ MarkTest(t) \/ ListMark(t)
    \/ LinkTest(t) \/ Link(t)

-----------------------------------------------------------------------------
(* Properties *)

(* The keys that were put undisturbed and not removed are among them.       *)
SureStay == \A k \in sure : \E m \in Entries : key[m] = k

(* A get that nothing disturbs does not come to the end of its walk.        *)
GetsFind == \A t \in Busy("get") : pc[t] = "look" /\ cur[t] = Nil => t \notin quiet

(* No key has two entries.                                                  *)
UniqueKeys ==
  \A m, n \in Entries : key[m] = key[n] => m = n

(* Along the list the keys increase; of several nodes with the same key     *)
(* only the first may be unmarked.                                          *)
Sorted ==
  \A m \in Reachable(head) :
    LET n == next[m]
    IN n # Nil => key[m] < key[n] \/ (key[m] = key[n] /\ n \in marked)

(* A key that was put, or an item that was added while no other thread      *)
(* changed the list, stays until a call removes it, and lookups find it.    *)
NothingMissed == SureStay /\ GetsFind
=============================================================================
