---------------------------- MODULE LockFreeNodes ----------------------------
(***************************************************************************)
(* What the structures of synchronization/lock_free.py share: linked nodes *)
(* and threads that read, compare and swap.  Every access to a shared      *)
(* field is a step of its own; compare_and_swap of AtomicReference and the *)
(* operations of AtomicInteger take a lock and are one step.  References   *)
(* are compared by identity, and a node that a thread knows is not         *)
(* collected: a node is never used twice.                                  *)
(***************************************************************************)
EXTENDS Integers, Sequences, FiniteSets

CONSTANTS Threads,
          MaxNodes   (* bound: nodes that are created *)

ASSUME NodesAssumption == IsFiniteSet(Threads) /\ MaxNodes \in Nat \ {0}

Nil == 0
Nodes == 1 .. MaxNodes
Dummy == MaxNodes + 1   \* the first node of a queue

VARIABLES head,   (* self._head, or the bucket of the map               *)
          next,   (* the field next of a node                           *)
          made,   (* the nodes created so far are 1 .. made             *)
          size,   (* self._size                                         *)
          pc,     (* what a thread does next                            *)
          node,   (* its new_node                                       *)
          cur,    (* its current_head, head, tail or current            *)
          nxt     (* its next_node                                      *)

nodeVars == <<head, next, made, size, pc, node, cur, nxt>>

NodesInit ==
  /\ next = [m \in Nodes \cup {Dummy} |-> Nil]
  /\ made = 0
  /\ size = 0
  /\ pc = [t \in Threads |-> "idle"]
  /\ node = [t \in Threads |-> Nil]
  /\ cur = [t \in Threads |-> Nil]
  /\ nxt = [t \in Threads |-> Nil]

Goto(t, where) == pc' = [pc EXCEPT ![t] = where]

(* A call that needs a node gets n; a retry, which begins at place, has it. *)
HasNode(t, n, place) ==
  \/ pc[t] = "idle" /\ made < MaxNodes /\ n = made + 1
  \/ pc[t] = place /\ n = node[t]
KeepNode(t, n) ==
  /\ node' = [node EXCEPT ![t] = n]
  /\ made' = IF n > made THEN n ELSE made

(* increment_and_get or decrement_and_get of the size ends the call, and    *)
(* its local variables.                                                     *)
CountBy(t, place, d) ==
  /\ pc[t] = place
  /\ size' = size + d
  /\ Goto(t, "idle")
  /\ node' = [node EXCEPT ![t] = Nil]
  /\ cur' = [cur EXCEPT ![t] = Nil]
  /\ nxt' = [nxt EXCEPT ![t] = Nil]
  /\ UNCHANGED <<head, next, made>>

At(places) == Cardinality({t \in Threads : pc[t] \in places})

(* The nodes from n on are those of the sequence s.                         *)
Spells(n, s) ==
  /\ n = IF s = <<>> THEN Nil ELSE s[1]
  /\ \A i \in DOMAIN s : next[s[i]] = IF i = Len(s) THEN Nil ELSE s[i + 1]

(* The nodes reachable from n.                                              *)
Reachable(n) ==
  LET from[k \in 0 .. MaxNodes + 1] ==
        IF k = 0 THEN {n} ELSE from[k - 1] \cup {next[m] : m \in from[k - 1] \ {Nil}}
  IN from[MaxNodes + 1] \ {Nil}
=============================================================================
