---------------------------- MODULE LockFreeProofs ---------------------------
(***************************************************************************)
(* Proofs about the stack and the queue of MCLockFree, for any number of   *)
(* threads and of nodes: the stack for any threads that push and pop, the  *)
(* queue for one producer and any consumers.                               *)
(***************************************************************************)
EXTENDS MCLockFree, SequenceTheorems, FiniteSetTheorems, TLAPS

-----------------------------------------------------------------------------
(* Counting threads *)

LEMMA EndsCardinality == \A S : E!Cardinality(S) = Cardinality(S)
BY Zenon DEF E!Cardinality, Cardinality

(* One thread moves from a to b. *)
LEMMA OneMoves ==
  ASSUME NEW t \in Threads, NEW places, DOMAIN pc = Threads, NEW b,
         pc' = [pc EXCEPT ![t] = b]
  PROVE  /\ At(places) \in Int /\ At(places)' \in Int
         /\ At(places)' = At(places) - (IF pc[t] \in places THEN 1 ELSE 0)
                                     + (IF b \in places THEN 1 ELSE 0)
<1> DEFINE S == {s \in Threads : pc[s] \in places}
           T == {s \in Threads : pc'[s] \in places}
           R == S \ {t}
<1>1. At(places) = Cardinality(S) /\ At(places)' = Cardinality(T)
  BY DEF At
<1>2. IsFiniteSet(S) /\ IsFiniteSet(R)
  BY NodesAssumption, FS_Subset
<1>3. pc'[t] = b /\ \A s \in Threads \ {t} : pc'[s] = pc[s]
  OBVIOUS
<1>4. Cardinality(R) \in Int /\ Cardinality(S) \in Int
  BY <1>2, FS_CardinalityType
<1>5. Cardinality(R) = Cardinality(S) - (IF pc[t] \in places THEN 1 ELSE 0)
  <2>1. t \in S <=> pc[t] \in places
    OBVIOUS
  <2>2. Cardinality(R) = IF t \in S THEN Cardinality(S) - 1 ELSE Cardinality(S)
    BY <1>2, FS_RemoveElement
  <2>3. QED
    BY <1>4, <2>1, <2>2
<1>6. Cardinality(T) = Cardinality(R) + (IF b \in places THEN 1 ELSE 0)
  <2>1. CASE b \in places
    <3>1. T = R \cup {t} /\ t \notin R
      BY <1>3, <2>1
    <3>2. Cardinality(R \cup {t}) = Cardinality(R) + 1
      BY <1>2, <3>1, FS_AddElement
    <3>3. Cardinality(T) = Cardinality(R \cup {t})
      BY <3>1, Zenon
    <3>4. QED
      BY <2>1, <3>2, <3>3
  <2>2. CASE b \notin places
    <3>1. T = R
      BY <1>3, <2>2
    <3>2. Cardinality(T) = Cardinality(R)
      BY <3>1, Zenon
    <3>3. QED
      BY <1>4, <2>2, <3>2
  <2>3. QED
    BY <2>1, <2>2
<1>7. QED
  BY <1>1, <1>4, <1>5, <1>6

LEMMA AtIsCommon == \A places : E!At(places) = At(places)
BY Zenon, EndsCardinality DEF E!At, At

-----------------------------------------------------------------------------
(* Linked nodes *)

LEMMA SpellsMore ==
  ASSUME NEW m \in Nodes, NEW s \in Seq(Nodes), NEW n, Spells(n, s), next[m] = n
  PROVE  /\ <<m>> \o s \in Seq(Nodes) /\ Len(<<m>> \o s) = Len(s) + 1
         /\ Head(<<m>> \o s) = m /\ Tail(<<m>> \o s) = s
         /\ \A i \in DOMAIN (<<m>> \o s) : (<<m>> \o s)[i] \in {m} \cup {s[j] : j \in DOMAIN s}
         /\ Spells(m, <<m>> \o s)
<1> DEFINE p == <<m>> \o s
<1>1. /\ p \in Seq(Nodes) /\ Len(p) = Len(s) + 1 /\ Len(s) \in Nat
      /\ DOMAIN s = 1 .. Len(s) /\ DOMAIN p = 1 .. Len(s) + 1
      /\ \A i \in 1 .. Len(p) : p[i] = IF i <= 1 THEN <<m>>[i] ELSE s[i - 1]
  BY ConcatProperties, LenProperties
<1> HIDE DEF p
<1>2. p[1] = m /\ \A i \in 2 .. Len(s) + 1 : p[i] = s[i - 1]
  <2>1. <<m>>[1] = m
    OBVIOUS
  <2>2. QED
    BY <1>1, <2>1
<1>3. p # <<>> /\ Head(p) = m
  BY <1>1, <1>2, EmptySeq, HeadTailProperties
<1>4. Tail(p) = s
  <2>1. /\ Tail(p) \in Seq(Nodes) /\ Len(Tail(p)) = Len(s)
        /\ \A i \in 1 .. Len(s) : Tail(p)[i] = p[i + 1]
    BY <1>1, <1>3, HeadTailProperties
  <2>2. \A i \in 1 .. Len(s) : Tail(p)[i] = s[i]
    BY <1>1, <1>2, <2>1
  <2>3. QED
    BY <1>1, <2>1, <2>2, SeqEqual
<1>5. \A i \in DOMAIN p : p[i] \in {m} \cup {s[j] : j \in DOMAIN s}
  <2>1. \A i \in DOMAIN p : i = 1 \/ (i - 1 \in DOMAIN s /\ p[i] = s[i - 1])
    BY <1>1, <1>2
  <2>2. QED
    BY <1>2, <2>1
<1>6. Spells(m, p)
  <2>1. m = p[1]
    BY <1>2
  <2>2. ASSUME NEW i \in DOMAIN p
        PROVE  next[p[i]] = IF i = Len(p) THEN Nil ELSE p[i + 1]
    <3>1. CASE i = 1
      <4>1. CASE Len(s) = 0
        <5>1. s = <<>> /\ i = Len(p)
          BY <1>1, <3>1, <4>1, EmptySeq
        <5>2. QED
          BY <1>2, <3>1, <5>1 DEF Spells
      <4>2. CASE Len(s) # 0
        <5>1. s # <<>> /\ i # Len(p) /\ p[i + 1] = s[1]
          BY <1>1, <1>2, <3>1, <4>2, EmptySeq
        <5>2. QED
          BY <1>2, <3>1, <5>1 DEF Spells
      <4>3. QED
        BY <4>1, <4>2
    <3>2. CASE i # 1
      <4>1. /\ i - 1 \in DOMAIN s /\ p[i] = s[i - 1]
            /\ i = Len(p) <=> i - 1 = Len(s)
            /\ i # Len(p) => p[i + 1] = s[(i - 1) + 1]
        BY <1>1, <1>2, <3>2
      <4>2. next[s[i - 1]] = IF i - 1 = Len(s) THEN Nil ELSE s[(i - 1) + 1]
        BY <4>1 DEF Spells
      <4>3. QED
        BY <4>1, <4>2
    <3>3. QED
      BY <3>1, <3>2
  <2>3. QED
    BY <1>3, <2>1, <2>2 DEF Spells
<1>7. QED
  BY <1>1, <1>3, <1>4, <1>5, <1>6 DEF p

LEMMA SpellsLess ==
  ASSUME NEW s \in Seq(Nodes), NEW n, Spells(n, s), n # Nil
  PROVE  /\ s # <<>> /\ Head(s) = n /\ n = s[1] /\ 1 \in DOMAIN s
         /\ Tail(s) \in Seq(Nodes) /\ Len(Tail(s)) = Len(s) - 1
         /\ \A i \in DOMAIN Tail(s) : Tail(s)[i] \in {s[j] : j \in DOMAIN s}
         /\ Spells(next[n], Tail(s))
<1> DEFINE p == Tail(s)
<1>1. s # <<>> /\ n = s[1]
  BY DEF Spells
<1>2. /\ p \in Seq(Nodes) /\ Len(p) = Len(s) - 1 /\ Len(s) \in Nat \ {0}
      /\ Head(s) = s[1]
      /\ DOMAIN s = 1 .. Len(s) /\ DOMAIN p = 1 .. Len(s) - 1
      /\ \A i \in 1 .. Len(s) - 1 : p[i] = s[i + 1]
  BY <1>1, HeadTailProperties, LenProperties, EmptySeq
<1> HIDE DEF p
<1>3. next[n] = IF p = <<>> THEN Nil ELSE p[1]
  <2>1. next[n] = IF 1 = Len(s) THEN Nil ELSE s[1 + 1]
    BY <1>1, <1>2 DEF Spells
  <2>2. p = <<>> <=> Len(s) = 1
    BY <1>2, EmptySeq
  <2>3. QED
    BY <1>2, <2>1, <2>2
<1>4. ASSUME NEW i \in DOMAIN p
      PROVE  next[p[i]] = IF i = Len(p) THEN Nil ELSE p[i + 1]
  <2>1. i + 1 \in DOMAIN s /\ p[i] = s[i + 1] /\ (i = Len(p) <=> i + 1 = Len(s))
    BY <1>2
  <2>2. next[s[i + 1]] = IF i + 1 = Len(s) THEN Nil ELSE s[(i + 1) + 1]
    BY <2>1 DEF Spells
  <2>3. i # Len(p) => p[i + 1] = s[(i + 1) + 1]
    BY <1>2
  <2>4. QED
    BY <2>1, <2>2, <2>3
<1>5. Spells(next[n], p)
  BY <1>3, <1>4 DEF Spells
<1>6. \A i \in DOMAIN p : p[i] \in {s[j] : j \in DOMAIN s}
  BY <1>2
<1>7. 1 \in DOMAIN s
  BY <1>2
<1>8. QED
  BY <1>1, <1>2, <1>5, <1>6, <1>7 DEF p

(* A node that is not in it may change. *)
LEMMA SpellsStill ==
  ASSUME NEW s \in Seq(Nodes), NEW n, Spells(n, s),
         NEW m, NEW x, next' = [next EXCEPT ![m] = x],
         \A i \in DOMAIN s : s[i] # m
  PROVE  n = (IF s = <<>> THEN Nil ELSE s[1])
         /\ \A i \in DOMAIN s : next'[s[i]] = IF i = Len(s) THEN Nil ELSE s[i + 1]
<1>1. \A i \in DOMAIN s : next'[s[i]] = next[s[i]]
  OBVIOUS
<1>2. QED
  BY <1>1 DEF Spells

-----------------------------------------------------------------------------
(* The stack.  A node is a thread's own until it is swapped in; a thread    *)
(* that pops knows the node after the one it saw on top, for a node that    *)
(* was swapped in keeps its link.                                           *)

Own(t) == pc[t] \in {"push", "pushSwap"}

StackTypes ==
  /\ made \in 0 .. MaxNodes /\ head \in 0 .. made
  /\ next \in [Nodes \cup {Dummy} -> 0 .. MaxNodes]
  /\ pc \in [Threads -> {"idle", "push", "pushSwap", "pushed",
                         "pop", "popNext", "popSwap", "popped"}]
  /\ node \in [Threads -> 0 .. made]
  /\ cur \in [Threads -> 0 .. made]
  /\ nxt \in [Threads -> 0 .. MaxNodes]
  /\ size \in Int
  /\ content \in Seq(Nodes) /\ \A i \in DOMAIN content : content[i] <= made

OwnNodes ==
  \A t \in Threads : Own(t) =>
    /\ node[t] # Nil
    /\ \A s \in Threads : Own(s) /\ s # t => node[s] # node[t]
    /\ \A s \in Threads : cur[s] # node[t]
    /\ \A i \in DOMAIN content : content[i] # node[t]

Seen ==
  \A t \in Threads :
    /\ pc[t] = "pushSwap" => next[node[t]] = cur[t]
    /\ pc[t] \in {"popNext", "popSwap"} => cur[t] # Nil
    /\ pc[t] = "popSwap" => nxt[t] = next[cur[t]]

Counted == size = Len(content) - At({"pushed"}) + At({"popped"})

StackInv == StackTypes /\ OwnNodes /\ Seen /\ Spells(head, content) /\ Counted

LEMMA StackStart == ASSUME E!StackInit PROVE StackInv
<1>1. At({"pushed"}) = 0 /\ At({"popped"}) = 0
  <2>1. \A x \in {"pushed", "popped"} : {t \in Threads : pc[t] \in {x}} = {}
    BY DEF E!StackInit, E!NodesInit
  <2>2. Cardinality({}) = 0
    BY FS_EmptySet
  <2>3. \A x \in {"pushed", "popped"} : Cardinality({t \in Threads : pc[t] \in {x}}) = 0
    BY <2>1, <2>2, Zenon
  <2>4. QED
    BY <2>3 DEF At
<1>2. content = <<>> /\ content \in Seq(Nodes) /\ Len(content) = 0 /\ DOMAIN content = {}
  BY EmptySeq, LenProperties DEF E!StackInit
<1>3. StackTypes
  BY <1>2, NodesAssumption
  DEF E!StackInit, E!NodesInit, E!Nodes, E!Dummy, E!Nil, Nil, Nodes, Dummy, StackTypes
<1>4. OwnNodes /\ Seen
  BY DEF E!StackInit, E!NodesInit, OwnNodes, Seen, Own
<1>5. Spells(head, content)
  BY <1>2 DEF E!StackInit, E!Nil, Spells, Nil
<1>6. Counted
  BY <1>1, <1>2 DEF Counted, E!StackInit, E!NodesInit
<1>7. QED
  BY <1>3, <1>4, <1>5, <1>6 DEF StackInv

(* What the actions do to the types. *)
LEMMA StackTypesStep ==
  ASSUME StackInv, NEW t \in Threads,
         \/ \E n \in Nodes : E!PushRead(t, n)
         \/ E!PushSwap(t) \/ E!PopRead(t) \/ E!PopNext(t) \/ E!PopSwap(t)
         \/ E!PushCount(t) \/ E!PopCount(t)
  PROVE  StackTypes'
<1>1. StackTypes /\ Spells(head, content) /\ MaxNodes \in Nat
  BY NodesAssumption DEF StackInv
<1>2. ASSUME NEW n \in Nodes, E!PushRead(t, n) PROVE StackTypes'
  <2>1. n <= made' /\ made <= made' /\ made' \in 0 .. MaxNodes
    BY <1>1, <1>2 DEF StackTypes, E!PushRead, E!KeepNode, Nodes
  <2>2. /\ next' \in [Nodes \cup {Dummy} -> 0 .. MaxNodes]
        /\ pc' \in [Threads -> {"idle", "push", "pushSwap", "pushed",
                                "pop", "popNext", "popSwap", "popped"}]
    BY <1>1, <1>2 DEF StackTypes, E!PushRead, E!Goto
  <2>3. node' \in [Threads -> 0 .. made'] /\ cur' \in [Threads -> 0 .. made']
    BY <1>1, <1>2, <2>1 DEF StackTypes, E!PushRead, E!KeepNode, Nodes
  <2>4. /\ UNCHANGED <<head, nxt, size, content>>
        /\ \A i \in DOMAIN content : content[i] <= made'
    <3>1. \A i \in DOMAIN content : content[i] \in Nodes
      BY <1>1, ElementOfSeq, LenProperties DEF StackTypes
    <3>2. QED
      BY <1>1, <1>2, <2>1, <3>1 DEF StackTypes, E!PushRead, Nodes
  <2>5. QED
    BY <1>1, <2>1, <2>2, <2>3, <2>4 DEF StackTypes
<1>3. CASE E!PushSwap(t)
  <2>1. CASE head = cur[t]
    <3>1. Own(t) /\ node[t] \in Nodes /\ next[node[t]] = head /\ node[t] <= made
      BY <1>1, <1>3, <2>1 DEF E!PushSwap, StackInv, Own, OwnNodes, Seen, StackTypes, Nil, Nodes
    <3>2. content' = <<node[t]>> \o content /\ head' = node[t]
      BY <1>3, <2>1 DEF E!PushSwap
    <3>3. content' \in Seq(Nodes)
          /\ \A i \in DOMAIN content' : content'[i] \in {node[t]} \cup {content[j] : j \in DOMAIN content}
      BY <1>1, <3>1, <3>2, SpellsMore DEF StackTypes
    <3>4. \A i \in DOMAIN content' : content'[i] <= made
      BY <1>1, <3>1, <3>3 DEF StackTypes
    <3>5. QED
      BY <1>1, <1>3, <2>1, <3>1, <3>2, <3>3, <3>4 DEF E!PushSwap, E!Goto, StackTypes
  <2>2. CASE head # cur[t]
    BY <1>1, <1>3, <2>2 DEF E!PushSwap, E!Goto, StackTypes
  <2>3. QED
    BY <2>1, <2>2
<1>4. CASE E!PopRead(t)
  BY <1>1, <1>4 DEF E!PopRead, E!Goto, StackTypes
<1>5. CASE E!PopNext(t)
  <2>1. next[cur[t]] \in 0 .. MaxNodes
    BY <1>1, <1>5 DEF E!PopNext, StackTypes, StackInv, Seen, Nodes, Nil
  <2>2. QED
    BY <1>1, <1>5, <2>1 DEF E!PopNext, E!Goto, StackTypes
<1>6. CASE E!PopSwap(t)
  <2>1. CASE head = cur[t]
    <3>1. head # Nil /\ nxt[t] = next[head]
      BY <1>6, <2>1 DEF E!PopSwap, StackInv, Seen
    <3>2. /\ Tail(content) \in Seq(Nodes)
          /\ \A i \in DOMAIN Tail(content) : Tail(content)[i] \in {content[j] : j \in DOMAIN content}
          /\ Spells(next[head], Tail(content))
      BY <1>1, <3>1, SpellsLess DEF StackTypes
    <3>3. head' = next[head] /\ content' = Tail(content)
      BY <1>6, <2>1, <3>1 DEF E!PopSwap
    <3>4. \A i \in DOMAIN content' : content'[i] <= made
      BY <1>1, <3>2, <3>3 DEF StackTypes
    <3>5. head' \in 0 .. made
      <4>1. head' = Nil \/ \E j \in DOMAIN content : head' = content[j]
        <5>1. Tail(content) # <<>> => 1 \in DOMAIN Tail(content)
          BY <3>2, LenProperties, EmptySeq
        <5>2. QED
          BY <3>2, <3>3, <5>1 DEF Spells
      <4>2. \A i \in DOMAIN content : content[i] \in 0 .. made
        BY <1>1, ElementOfSeq, LenProperties DEF StackTypes, Nodes
      <4>3. QED
        BY <1>1, <4>1, <4>2 DEF StackTypes, Nil
    <3>6. QED
      BY <1>1, <1>6, <2>1, <3>2, <3>3, <3>4, <3>5 DEF E!PopSwap, E!Goto, StackTypes
  <2>2. CASE head # cur[t]
    BY <1>1, <1>6, <2>2 DEF E!PopSwap, E!Goto, StackTypes
  <2>3. QED
    BY <2>1, <2>2
<1>7. CASE E!PushCount(t) \/ E!PopCount(t)
  <2>1. /\ UNCHANGED <<head, next, made, content>>
        /\ size' = size + 1 \/ size' = size + (-1)
        /\ pc' = [pc EXCEPT ![t] = "idle"]
        /\ node' = [node EXCEPT ![t] = 0] /\ cur' = [cur EXCEPT ![t] = 0]
        /\ nxt' = [nxt EXCEPT ![t] = 0]
    BY <1>7 DEF E!PushCount, E!PopCount, E!CountBy, E!Goto, E!Nil
  <2>2. 0 \in 0 .. made /\ 0 \in 0 .. MaxNodes
    BY <1>1 DEF StackTypes
  <2>3. node' \in [Threads -> 0 .. made] /\ cur' \in [Threads -> 0 .. made]
        /\ nxt' \in [Threads -> 0 .. MaxNodes]
    BY <1>1, <2>1, <2>2 DEF StackTypes
  <2>4. QED
    BY <1>1, <2>1, <2>3 DEF StackTypes
<1>8. QED
  BY <1>2, <1>3, <1>4, <1>5, <1>6, <1>7

LEMMA StackStep ==
  ASSUME StackInv, NEW t \in Threads,
         \/ \E n \in Nodes : E!PushRead(t, n)
         \/ E!PushSwap(t) \/ E!PopRead(t) \/ E!PopNext(t) \/ E!PopSwap(t)
         \/ E!PushCount(t) \/ E!PopCount(t)
  PROVE  StackInv' /\ [E!LastInFirstOut]_<<content, taken>>
<1>1. StackTypes'
  BY StackTypesStep
<1>2. /\ StackTypes /\ OwnNodes /\ Seen /\ Spells(head, content) /\ Counted
      /\ DOMAIN pc = Threads /\ Len(content) \in Nat /\ MaxNodes \in Nat
  BY NodesAssumption, LenProperties DEF StackInv, StackTypes
<1>3. ASSUME \A s \in Threads \ {t} : pc'[s] = pc[s]
      PROVE  /\ At({"pushed"}) \in Int /\ At({"popped"}) \in Int
             /\ At({"pushed"})' = At({"pushed"}) - (IF pc[t] = "pushed" THEN 1 ELSE 0)
                                                 + (IF pc'[t] = "pushed" THEN 1 ELSE 0)
             /\ At({"popped"})' = At({"popped"}) - (IF pc[t] = "popped" THEN 1 ELSE 0)
                                                 + (IF pc'[t] = "popped" THEN 1 ELSE 0)
  <2>1. pc' = [pc EXCEPT ![t] = pc'[t]]
    BY <1>1, <1>2, <1>3 DEF StackTypes
  <2>2. /\ At({"pushed"}) \in Int
        /\ At({"pushed"})' = At({"pushed"}) - (IF pc[t] \in {"pushed"} THEN 1 ELSE 0)
                                            + (IF pc'[t] \in {"pushed"} THEN 1 ELSE 0)
    BY <1>2, <2>1, OneMoves
  <2>3. /\ At({"popped"}) \in Int
        /\ At({"popped"})' = At({"popped"}) - (IF pc[t] \in {"popped"} THEN 1 ELSE 0)
                                            + (IF pc'[t] \in {"popped"} THEN 1 ELSE 0)
    BY <1>2, <2>1, OneMoves
  <2>4. QED
    BY <2>2, <2>3
<1>4. ASSUME NEW n \in Nodes, E!PushRead(t, n)
      PROVE  StackInv' /\ UNCHANGED <<content, taken>>
  <2>1. /\ pc[t] \in {"idle", "push"} /\ pc' = [pc EXCEPT ![t] = "pushSwap"]
        /\ node' = [node EXCEPT ![t] = n] /\ cur' = [cur EXCEPT ![t] = head]
        /\ next' = [next EXCEPT ![n] = head]
        /\ UNCHANGED <<head, size, nxt, content, taken>>
        /\ (pc[t] = "idle" /\ n = made + 1) \/ (pc[t] = "push" /\ n = node[t])
    BY <1>4 DEF E!PushRead, E!HasNode, E!KeepNode, E!Goto
  (* The node is nobody else's. *)
  <2>2. /\ n # Nil /\ n # head
        /\ \A s \in Threads : Own(s) /\ s # t => node[s] # n
        /\ \A s \in Threads : cur[s] # n
        /\ \A i \in DOMAIN content : content[i] # n
    <3>1. CASE n = made + 1
      BY <1>2, <3>1 DEF StackTypes, Nodes, Nil
    <3>2. CASE pc[t] = "push" /\ n = node[t]
      <4>1. /\ n # Nil
            /\ \A s \in Threads : Own(s) /\ s # t => node[s] # n
            /\ \A s \in Threads : cur[s] # n
            /\ \A i \in DOMAIN content : content[i] # n
        BY <1>2, <3>2 DEF OwnNodes, Own
      <4>2. head = Nil \/ \E i \in DOMAIN content : head = content[i]
        <5>1. content # <<>> => 1 \in DOMAIN content
          BY <1>2, LenProperties, EmptySeq DEF StackTypes
        <5>2. QED
          BY <1>2, <5>1 DEF Spells
      <4>3. QED
        BY <4>1, <4>2
    <3>3. QED
      BY <2>1, <3>1, <3>2
  <2>3. /\ pc'[t] = "pushSwap" /\ node'[t] = n /\ cur'[t] = head /\ next'[n] = head
        /\ \A s \in Threads \ {t} : pc'[s] = pc[s] /\ node'[s] = node[s] /\ cur'[s] = cur[s]
        /\ \A m \in Nodes \cup {Dummy} : m # n => next'[m] = next[m]
        /\ nxt' = nxt
    BY <1>2, <2>1 DEF StackTypes
  <2>4. OwnNodes'
    <3>1. \A s \in Threads : Own(s)' <=> (Own(s) \/ s = t)
      BY <2>1, <2>3 DEF Own
    <3>2. \A s \in Threads : Own(s) => node[s] # head
      <4>1. head = Nil \/ \E i \in DOMAIN content : head = content[i]
        <5>1. content # <<>> => 1 \in DOMAIN content
          BY <1>2, LenProperties, EmptySeq DEF StackTypes
        <5>2. QED
          BY <1>2, <5>1 DEF Spells
      <4>2. QED
        BY <1>2, <4>1 DEF OwnNodes
    <3>3. ASSUME NEW r \in Threads, Own(r)', r # t
          PROVE  /\ node'[r] # Nil
                 /\ \A s \in Threads : Own(s)' /\ s # r => node'[s] # node'[r]
                 /\ \A s \in Threads : cur'[s] # node'[r]
                 /\ \A i \in DOMAIN content' : content'[i] # node'[r]
      <4>1. Own(r) /\ node'[r] = node[r] /\ node[r] # n
        BY <2>2, <2>3, <3>1, <3>3
      <4>2. \A s \in Threads : Own(s)' /\ s # r => node'[s] # node[r]
        BY <1>2, <2>3, <3>1, <3>3, <4>1 DEF OwnNodes
      <4>3. \A s \in Threads : cur'[s] # node[r]
        BY <1>2, <2>3, <3>2, <4>1 DEF OwnNodes
      <4>4. QED
        BY <1>2, <2>1, <4>1, <4>2, <4>3 DEF OwnNodes
    <3>4. /\ n # Nil
          /\ \A s \in Threads : Own(s)' /\ s # t => node'[s] # n
          /\ \A s \in Threads : cur'[s] # n
          /\ \A i \in DOMAIN content' : content'[i] # n
      BY <2>1, <2>2, <2>3, <3>1
    <3>5. QED
      BY <2>3, <3>3, <3>4 DEF OwnNodes
  <2>5. Seen'
    <3>1. \A s \in Threads \ {t} : pc[s] = "pushSwap" => node[s] # n /\ node[s] \in Nodes
      BY <1>2, <2>2 DEF Own, OwnNodes, StackTypes, Nodes, Nil
    <3>2. \A s \in Threads \ {t} : pc[s] \in {"popNext", "popSwap"} =>
                                     cur[s] # n /\ cur[s] \in Nodes
      BY <1>2, <2>2 DEF Seen, StackTypes, Nodes, Nil
    <3>3. ASSUME NEW s \in Threads, s # t
          PROVE  /\ pc'[s] = "pushSwap" => next'[node'[s]] = cur'[s]
                 /\ pc'[s] \in {"popNext", "popSwap"} => cur'[s] # Nil
                 /\ pc'[s] = "popSwap" => nxt'[s] = next'[cur'[s]]
      BY <1>2, <2>3, <3>1, <3>2, <3>3 DEF Seen
    <3>4. QED
      BY <2>3, <3>3 DEF Seen
  <2>6. Spells(head, content)'
    <3>1. content \in Seq(Nodes)
      BY <1>2 DEF StackTypes
    <3>2. /\ head = (IF content = <<>> THEN Nil ELSE content[1])
          /\ \A i \in DOMAIN content :
               next'[content[i]] = IF i = Len(content) THEN Nil ELSE content[i + 1]
      BY <1>2, <2>1, <2>2, <3>1, SpellsStill
    <3>3. QED
      BY <2>1, <3>2 DEF Spells
  <2>7. Counted'
    BY <1>2, <1>3, <2>1, <2>3 DEF Counted
  <2>8. QED
    BY <1>1, <2>1, <2>4, <2>5, <2>6, <2>7 DEF StackInv
<1>5. CASE E!PushSwap(t) /\ head = cur[t]
  <2>1. /\ pc[t] = "pushSwap" /\ pc' = [pc EXCEPT ![t] = "pushed"]
        /\ head' = node[t] /\ content' = <<node[t]>> \o content
        /\ UNCHANGED <<next, made, size, node, cur, nxt, taken>>
    BY <1>5 DEF E!PushSwap, E!Goto
  <2>2. node[t] \in Nodes /\ next[node[t]] = head
    BY <1>2, <1>5, <2>1 DEF Own, OwnNodes, Seen, StackTypes, Nodes, Nil
  <2>3. /\ content' \in Seq(Nodes) /\ Len(content') = Len(content) + 1
        /\ Tail(content') = content
        /\ \A i \in DOMAIN content' : content'[i] \in {node[t]} \cup {content[j] : j \in DOMAIN content}
        /\ Spells(node[t], content')
    BY <1>2, <2>1, <2>2, SpellsMore DEF StackTypes
  <2>4. /\ pc'[t] = "pushed" /\ \A s \in Threads \ {t} : pc'[s] = pc[s]
    BY <1>2, <2>1
  <2>5. OwnNodes'
    <3>1. \A s \in Threads : Own(s)' => Own(s) /\ s # t
      BY <2>4 DEF Own
    <3>2. \A s \in Threads : Own(s) /\ s # t => node[s] # node[t]
      BY <1>2, <2>1 DEF Own, OwnNodes
    <3>3. QED
      BY <1>2, <2>1, <2>3, <3>1, <3>2 DEF OwnNodes
  <2>6. Seen'
    BY <1>2, <2>1, <2>4 DEF Seen
  <2>7. Spells(head, content)'
    BY <2>1, <2>3 DEF Spells
  <2>8. Counted'
    <3>1. /\ At({"pushed"})' = At({"pushed"}) + 1 /\ At({"popped"})' = At({"popped"})
          /\ At({"pushed"}) \in Int /\ At({"popped"}) \in Int
      BY <1>3, <2>1, <2>4
    <3>2. QED
      BY <1>2, <2>1, <2>3, <3>1 DEF Counted, StackTypes
  <2>9. E!LastInFirstOut
    <3>1. content' # <<>>
      BY <1>2, <2>3, EmptySeq
    <3>2. QED
      BY <2>1, <2>3, <3>1 DEF E!LastInFirstOut
  <2>10. QED
    BY <1>1, <2>5, <2>6, <2>7, <2>8, <2>9 DEF StackInv
<1>6. CASE E!PopSwap(t) /\ head = cur[t]
  <2>1. /\ pc[t] = "popSwap" /\ pc' = [pc EXCEPT ![t] = "popped"]
        /\ head' = nxt[t] /\ content' = Tail(content) /\ taken' = Append(taken, head)
        /\ UNCHANGED <<next, made, size, node, cur, nxt>>
    BY <1>6 DEF E!PopSwap, E!Goto
  <2>2. head # Nil /\ nxt[t] = next[head]
    BY <1>2, <1>6, <2>1 DEF Seen
  <2>3. /\ content # <<>> /\ Head(content) = head
        /\ content' \in Seq(Nodes) /\ Len(content') = Len(content) - 1
        /\ \A i \in DOMAIN content' : content'[i] \in {content[j] : j \in DOMAIN content}
        /\ Spells(next[head], content')
    BY <1>2, <2>1, <2>2, SpellsLess DEF StackTypes
  <2>4. /\ pc'[t] = "popped" /\ \A s \in Threads \ {t} : pc'[s] = pc[s]
    BY <1>2, <2>1
  <2>5. OwnNodes'
    <3>1. \A s \in Threads : Own(s)' => Own(s)
      BY <2>4 DEF Own
    <3>2. QED
      BY <1>2, <2>1, <2>3, <3>1 DEF OwnNodes
  <2>6. Seen'
    BY <1>2, <2>1, <2>4 DEF Seen
  <2>7. Spells(head, content)'
    BY <2>1, <2>2, <2>3 DEF Spells
  <2>8. Counted'
    <3>1. /\ At({"popped"})' = At({"popped"}) + 1 /\ At({"pushed"})' = At({"pushed"})
          /\ At({"pushed"}) \in Int /\ At({"popped"}) \in Int
      BY <1>3, <2>1, <2>4
    <3>2. QED
      BY <1>2, <2>1, <2>3, <3>1 DEF Counted, StackTypes
  <2>9. E!LastInFirstOut
    BY <2>1, <2>3 DEF E!LastInFirstOut
  <2>10. QED
    BY <1>1, <2>5, <2>6, <2>7, <2>8, <2>9 DEF StackInv
(* The other steps change nothing that is linked. *)
<1>7. ASSUME UNCHANGED <<head, next, content, taken>>, Own(t)' => Own(t),
             \A s \in Threads \ {t} : pc'[s] = pc[s] /\ cur'[s] = cur[s] /\ nxt'[s] = nxt[s]
                                      /\ node'[s] = node[s],
             cur'[t] \in {cur[t], head, Nil}, Own(t)' => node'[t] = node[t],
             Seen', Counted'
      PROVE  StackInv' /\ UNCHANGED <<content, taken>>
  <2>1. \A s \in Threads : Own(s)' => Own(s) /\ node'[s] = node[s]
    BY <1>7 DEF Own
  <2>2. head = Nil \/ \E i \in DOMAIN content : head = content[i]
    <3>1. content # <<>> => 1 \in DOMAIN content
      BY <1>2, LenProperties, EmptySeq DEF StackTypes
    <3>2. QED
      BY <1>2, <3>1 DEF Spells
  <2>3. OwnNodes'
    <3>1. \A r, s \in Threads : Own(r) => cur'[s] # node[r]
      BY <1>2, <1>7, <2>2 DEF OwnNodes
    <3>2. QED
      BY <1>2, <1>7, <2>1, <3>1 DEF OwnNodes
  <2>4. Spells(head, content)'
    BY <1>2, <1>7 DEF Spells
  <2>5. QED
    BY <1>1, <1>7, <2>3, <2>4 DEF StackInv
<1>8. CASE E!PopRead(t) \/ E!PopNext(t) \/ ((E!PushSwap(t) \/ E!PopSwap(t)) /\ head # cur[t])
  <2>1. PICK b : pc' = [pc EXCEPT ![t] = b] /\ b \in {"idle", "popNext", "popSwap", "push", "pop"}
    BY <1>8 DEF E!PopRead, E!PopNext, E!PushSwap, E!PopSwap, E!Goto
  <2>2. /\ UNCHANGED <<head, next, made, size, node, content, taken>>
        /\ cur' = cur \/ cur' = [cur EXCEPT ![t] = head]
        /\ nxt' = nxt \/ nxt' = [nxt EXCEPT ![t] = next[cur[t]]]
        /\ b = "push" => pc[t] = "pushSwap"
        /\ pc[t] \notin {"pushed", "popped"}
    BY <1>8, <2>1, <1>2 DEF E!PopRead, E!PopNext, E!PushSwap, E!PopSwap, E!Goto
  <2>3. /\ pc'[t] = b
        /\ \A s \in Threads \ {t} : pc'[s] = pc[s] /\ cur'[s] = cur[s] /\ nxt'[s] = nxt[s]
        /\ cur'[t] \in {cur[t], head}
    BY <1>2, <2>1, <2>2 DEF StackTypes
  <2>4. /\ b = "popNext" => cur'[t] # Nil
        /\ b = "popSwap" => cur'[t] # Nil /\ nxt'[t] = next[cur'[t]]
    BY <1>2, <1>8, <2>1, <2>3 DEF E!PopRead, E!PopNext, E!PushSwap, E!PopSwap, E!Goto, E!Nil, Nil,
         Seen, StackTypes
  <2>5. Seen'
    BY <1>2, <2>1, <2>2, <2>3, <2>4 DEF Seen
  <2>6. Counted'
    <3>1. /\ At({"popped"})' = At({"popped"}) /\ At({"pushed"})' = At({"pushed"})
      BY <1>3, <2>1, <2>2, <2>3
    <3>2. QED
      BY <1>2, <2>2, <3>1 DEF Counted
  <2>7. Own(t)' => Own(t)
    BY <2>1, <2>2, <2>3 DEF Own
  <2>8. QED
    BY <1>7, <2>2, <2>3, <2>5, <2>6, <2>7
<1>9. CASE E!PushCount(t) \/ E!PopCount(t)
  <2>1. PICK place \in {"pushed", "popped"} :
          pc[t] = place /\ size' = size + (IF place = "pushed" THEN 1 ELSE -1)
    BY <1>9 DEF E!PushCount, E!PopCount, E!CountBy
  <2>2. /\ pc' = [pc EXCEPT ![t] = "idle"] /\ cur' = [cur EXCEPT ![t] = Nil]
        /\ node' = [node EXCEPT ![t] = Nil] /\ nxt' = [nxt EXCEPT ![t] = Nil]
        /\ UNCHANGED <<head, next, made, content, taken>>
    BY <1>9 DEF E!PushCount, E!PopCount, E!CountBy, E!Goto, E!Nil, Nil
  <2>3. /\ pc'[t] = "idle" /\ cur'[t] = Nil
        /\ \A s \in Threads \ {t} : pc'[s] = pc[s] /\ cur'[s] = cur[s] /\ nxt'[s] = nxt[s]
                                    /\ node'[s] = node[s]
    BY <1>2, <2>2 DEF StackTypes
  <2>4. Seen'
    BY <1>2, <2>2, <2>3 DEF Seen
  <2>5. Counted'
    <3>1. /\ At({"pushed"})' = At({"pushed"}) - (IF place = "pushed" THEN 1 ELSE 0)
          /\ At({"popped"})' = At({"popped"}) - (IF place = "popped" THEN 1 ELSE 0)
          /\ At({"pushed"}) \in Int /\ At({"popped"}) \in Int
      BY <1>3, <2>1, <2>2, <2>3
    <3>2. size = Len(content) - At({"pushed"}) + At({"popped"}) /\ Len(content) \in Int
      BY <1>2 DEF Counted, StackTypes
    <3>3. size' = Len(content') - At({"pushed"})' + At({"popped"})'
      BY <2>1, <2>2, <3>1, <3>2
    <3>4. QED
      BY <3>3 DEF Counted
  <2>6. ~Own(t)'
    BY <2>3 DEF Own
  <2>7. QED
    BY <1>7, <2>2, <2>3, <2>4, <2>5, <2>6
<1>10. CASE \E n \in Nodes : E!PushRead(t, n)
  BY <1>4, <1>10
<1>11. CASE E!PushSwap(t)
  BY <1>5, <1>8, <1>11
<1>12. CASE E!PopSwap(t)
  BY <1>6, <1>8, <1>12
<1>13. CASE E!PopRead(t) \/ E!PopNext(t)
  BY <1>8, <1>13
<1>14. QED
  BY <1>9, <1>10, <1>11, <1>12, <1>13

-----------------------------------------------------------------------------
(* The queue.  One producer makes the nodes and links them in the order of  *)
(* their numbers, so that a node tells its position in the list.            *)

OneProducer == \A s, t \in Producers : s = t

Places == Nodes \cup {Dummy}
Pos(x) == IF x = Dummy THEN 0 ELSE x

Making == {"enqueue", "tailNext", "checkTail", "linkTest", "link", "helpEnqueue"}
Taking == {"dequeue", "readTail", "headNext", "checkHead", "helpDequeue", "takeHead"}

QueueTypes ==
  /\ made \in 0 .. MaxNodes
  /\ next \in [Places -> 0 .. MaxNodes]
  /\ pc \in [Threads -> Making \cup Taking \cup {"idle", "swing", "linked", "dequeued"}]
  /\ node \in [Threads -> 0 .. Dummy]
  /\ cur \in [Threads -> 0 .. Dummy]
  /\ nxt \in [Threads -> 0 .. Dummy]
  /\ tl \in [Threads -> 0 .. Dummy]
  /\ size \in Int
  /\ sent \in Seq(Nodes) /\ taken \in Seq(Nodes)

(* The list, and the two ends. *)
Line ==
  /\ \A i \in DOMAIN sent : sent[i] = i
  /\ \A i \in DOMAIN taken : taken[i] = i
  /\ Len(taken) <= Len(sent) /\ Len(sent) <= made
  /\ \A x \in Places : next[x] = IF Pos(x) < Len(sent) THEN Pos(x) + 1 ELSE Nil
  /\ head \in Places /\ Pos(head) = Len(taken)
  /\ tail \in Places /\ Len(taken) <= Pos(tail) /\ Pos(tail) <= Len(sent)
  /\ (\A t \in Threads : pc[t] \notin Making) => made = Len(sent)

(* What the producer and a consumer know in the places of the code.         *)
Produces(t) ==
  /\ pc[t] \in Making \cup {"swing", "linked"} => t \in Producers
  /\ pc[t] \in Making => node[t] = Len(sent) + 1 /\ made = Len(sent) + 1
  /\ pc[t] \in {"tailNext", "checkTail", "linkTest", "link", "helpEnqueue", "swing"} =>
       cur[t] \in Places /\ Pos(cur[t]) <= Pos(tail)
  /\ pc[t] \in {"checkTail", "helpEnqueue"} => nxt[t] = next[cur[t]]
  /\ pc[t] = "helpEnqueue" => nxt[t] # Nil
  /\ pc[t] = "link" => Pos(cur[t]) = Len(sent)
  /\ pc[t] = "swing" => node[t] = Pos(cur[t]) + 1 /\ Pos(cur[t]) < Len(sent)

Consumes(t) ==
  /\ pc[t] \in Taking => t \in Consumers /\ (sent = taken => t \in sawEmpty)
  /\ pc[t] \in Taking \ {"dequeue"} => cur[t] \in Places /\ Pos(cur[t]) <= Len(taken)
  /\ pc[t] \in Taking \ {"dequeue", "readTail"} =>
       tl[t] \in Places /\ Pos(cur[t]) <= Pos(tl[t]) /\ Pos(tl[t]) <= Pos(tail)
  /\ pc[t] = "checkHead" /\ nxt[t] = Nil => t \in sawEmpty
  /\ pc[t] \in {"helpDequeue", "takeHead"} => nxt[t] # Nil
  /\ pc[t] \in {"checkHead", "helpDequeue", "takeHead"} /\ nxt[t] # Nil =>
       nxt[t] = Pos(cur[t]) + 1 /\ nxt[t] <= Len(sent)
  /\ pc[t] = "helpDequeue" => cur[t] = tl[t]
  /\ pc[t] = "takeHead" => cur[t] # tl[t]

Sized == size = Len(sent) - Len(taken) - At({"swing", "linked"}) + At({"dequeued"})

QueueInv ==
  /\ QueueTypes /\ Line /\ Sized
  /\ \A t \in Threads : Produces(t) /\ Consumes(t)

LEMMA Positions ==
  /\ MaxNodes \in Nat /\ Dummy = MaxNodes + 1 /\ Nil = 0
  /\ \A x \in Places : Pos(x) \in 0 .. MaxNodes /\ x # Nil /\ x \in 0 .. Dummy
  /\ \A x, y \in Places : Pos(x) = Pos(y) => x = y
  /\ \A x \in Nodes : Pos(x) = x /\ x \in Places
BY NodesAssumption DEF Places, Pos, Nodes, Dummy, Nil

LEMMA SameNames == E!Nil = Nil /\ E!Dummy = Dummy /\ E!Nodes = Nodes
BY DEF E!Nil, Nil, E!Dummy, Dummy, E!Nodes, Nodes

LEMMA Lengths ==
  ASSUME QueueTypes
  PROVE  /\ Len(sent) \in Nat /\ Len(taken) \in Nat
         /\ DOMAIN sent = 1 .. Len(sent) /\ DOMAIN taken = 1 .. Len(taken)
BY LenProperties DEF QueueTypes

(* All that is sent is taken when as much is. *)
LEMMA AllTaken ==
  ASSUME QueueTypes, Line
  PROVE  sent = taken <=> Len(sent) = Len(taken)
<1>1. ASSUME Len(sent) = Len(taken) PROVE sent = taken
  <2>1. \A i \in 1 .. Len(sent) : sent[i] = taken[i]
    BY <1>1, Lengths DEF Line
  <2>2. sent \in Seq(Nodes) /\ taken \in Seq(Nodes)
    BY DEF QueueTypes
  <2>3. QED
    BY <1>1, <2>1, <2>2, SeqEqual
<1>2. QED
  BY <1>1

LEMMA QueueStart == ASSUME E!QueueInit PROVE QueueInv
<1>1. /\ At({"swing", "linked"}) = 0 /\ At({"dequeued"}) = 0
  <2>1. /\ {t \in Threads : pc[t] \in {"swing", "linked"}} = {}
        /\ {t \in Threads : pc[t] \in {"dequeued"}} = {}
    BY DEF E!QueueInit, E!NodesInit
  <2>2. Cardinality({}) = 0
    BY FS_EmptySet
  <2>3. QED
    BY <2>1, <2>2, Zenon DEF At
<1>2. /\ sent = <<>> /\ taken = <<>> /\ <<>> \in Seq(Nodes) /\ Len(<<>>) = 0
      /\ DOMAIN sent = {} /\ DOMAIN taken = {}
  BY EmptySeq, LenProperties DEF E!QueueInit
<1>3. QueueTypes
  <2>1. 0 \in 0 .. Dummy /\ 0 \in 0 .. MaxNodes
    BY Positions
  <2>2. QED
    BY <1>2, <2>1, SameNames, Positions
    DEF E!QueueInit, E!NodesInit, QueueTypes, Places
<1>4. Line
  <2>1. head = Dummy /\ tail = Dummy /\ made = 0 /\ \A x \in Places : next[x] = Nil
    BY SameNames DEF E!QueueInit, E!NodesInit, Places
  <2>2. Dummy \in Places /\ Pos(Dummy) = 0
    BY DEF Places, Pos
  <2>3. \A x \in Places : ~(Pos(x) < 0)
    BY Positions
  <2>4. QED
    BY <1>2, <2>1, <2>2, <2>3 DEF Line
<1>5. \A t \in Threads : Produces(t) /\ Consumes(t)
  BY DEF E!QueueInit, E!NodesInit, Produces, Consumes, Making, Taking
<1>6. Sized
  BY <1>1, <1>2 DEF Sized, E!QueueInit, E!NodesInit
<1>7. QED
  BY <1>3, <1>4, <1>5, <1>6 DEF QueueInv

(* What a step of one thread leaves to the others.                          *)
LEMMA OthersKeep ==
  ASSUME OneProducer, QueueInv, QueueTypes', Line',
         NEW t \in Threads, NEW s \in Threads, s # t,
         /\ pc'[s] = pc[s] /\ node'[s] = node[s] /\ cur'[s] = cur[s]
         /\ nxt'[s] = nxt[s] /\ tl'[s] = tl[s],
         Pos(tail) <= Pos(tail'), Len(taken) <= Len(taken'), Len(sent) <= Len(sent'),
         s \in sawEmpty => s \in sawEmpty',
         sent' = taken' /\ s \in Consumers /\ pc[s] # "idle" => sent = taken \/ s \in sawEmpty',
         t \in Producers \/ UNCHANGED <<sent, made, next>>
  PROVE  Produces(s)' /\ Consumes(s)'
<1>1. Produces(s) /\ Consumes(s)
  BY DEF QueueInv
<1>2. /\ Len(sent) \in Nat /\ Len(taken) \in Nat
      /\ Len(sent') \in Nat /\ Len(taken') \in Nat
      /\ tail \in Places /\ tail' \in Places
      /\ \A x \in Places : Pos(x) \in Nat
  BY Lengths, LenProperties, Positions DEF QueueInv, QueueTypes, Line
<1>3. Produces(s)'
  <2>1. CASE UNCHANGED <<sent, made, next>>
    <3>1. pc[s] \in {"tailNext", "checkTail", "linkTest", "link", "helpEnqueue", "swing"}
            => cur[s] \in Places /\ Pos(cur[s]) <= Pos(tail')
      BY <1>1, <1>2 DEF Produces
    <3>2. QED
      BY <1>1, <2>1, <3>1 DEF Produces, Pos
  <2>2. CASE t \in Producers
    <3>1. pc[s] \notin Making \cup {"swing", "linked"}
      BY <1>1, <2>2 DEF Produces, OneProducer
    <3>2. QED
      BY <3>1 DEF Produces, Making
  <2>3. QED
    BY <2>1, <2>2
<1>4. Consumes(s)'
  <2>1. pc[s] \in Taking => s \in Consumers /\ (sent' = taken' => s \in sawEmpty')
    BY <1>1 DEF Consumes, Taking
  <2>2. pc[s] \in Taking \ {"dequeue"} => cur[s] \in Places /\ Pos(cur[s]) <= Len(taken')
    BY <1>1, <1>2 DEF Consumes
  <2>3. pc[s] \in Taking \ {"dequeue", "readTail"} =>
          tl[s] \in Places /\ Pos(cur[s]) <= Pos(tl[s]) /\ Pos(tl[s]) <= Pos(tail')
    BY <1>1, <1>2 DEF Consumes
  <2>4. pc[s] \in {"checkHead", "helpDequeue", "takeHead"} /\ nxt[s] # Nil =>
          nxt[s] = Pos(cur[s]) + 1 /\ nxt[s] <= Len(sent')
    <3>1. nxt[s] \in 0 .. Dummy /\ Dummy \in Nat
      BY Positions DEF QueueInv, QueueTypes
    <3>2. QED
      BY <1>1, <1>2, <3>1 DEF Consumes
  <2>5. QED
    BY <1>1, <2>1, <2>2, <2>3, <2>4 DEF Consumes, Pos
<1>5. QED
  BY <1>3, <1>4

(* Who still has to count, after a step of t.                               *)
LEMMA QueueCounts ==
  ASSUME QueueTypes, QueueTypes', NEW t \in Threads,
         \A s \in Threads \ {t} : pc'[s] = pc[s]
  PROVE  /\ At({"swing", "linked"}) \in Int /\ At({"dequeued"}) \in Int
         /\ At({"swing", "linked"})' = At({"swing", "linked"})
              - (IF pc[t] \in {"swing", "linked"} THEN 1 ELSE 0)
              + (IF pc'[t] \in {"swing", "linked"} THEN 1 ELSE 0)
         /\ At({"dequeued"})' = At({"dequeued"})
              - (IF pc[t] = "dequeued" THEN 1 ELSE 0)
              + (IF pc'[t] = "dequeued" THEN 1 ELSE 0)
<1>1. DOMAIN pc = Threads /\ pc' = [pc EXCEPT ![t] = pc'[t]]
  BY DEF QueueTypes
<1>2. /\ At({"swing", "linked"}) \in Int
      /\ At({"swing", "linked"})' = At({"swing", "linked"})
           - (IF pc[t] \in {"swing", "linked"} THEN 1 ELSE 0)
           + (IF pc'[t] \in {"swing", "linked"} THEN 1 ELSE 0)
  BY <1>1, OneMoves
<1>3. /\ At({"dequeued"}) \in Int
      /\ At({"dequeued"})' = At({"dequeued"})
           - (IF pc[t] \in {"dequeued"} THEN 1 ELSE 0)
           + (IF pc'[t] \in {"dequeued"} THEN 1 ELSE 0)
  BY <1>1, OneMoves
<1>4. QED
  BY <1>2, <1>3

(* A step on the thread's own variables.                                    *)
LEMMA OwnStep ==
  ASSUME OneProducer, QueueInv, QueueTypes', NEW t \in Threads, NEW b,
         UNCHANGED <<head, next, made, size, tail, sent, taken>>,
         pc' = [pc EXCEPT ![t] = b],
         pc[t] \notin {"swing", "linked", "dequeued"},
         b \notin {"swing", "linked", "dequeued"},
         pc[t] \in Making => b \in Making,
         \A s \in Threads \ {t} : /\ node'[s] = node[s] /\ cur'[s] = cur[s]
                                  /\ nxt'[s] = nxt[s] /\ tl'[s] = tl[s]
                                  /\ s \in sawEmpty => s \in sawEmpty',
         Produces(t)', Consumes(t)'
  PROVE  QueueInv'
<1>1. QueueTypes /\ Line /\ Sized
  BY DEF QueueInv
<1>2. pc'[t] = b /\ \A s \in Threads \ {t} : pc'[s] = pc[s]
  BY <1>1 DEF QueueTypes
<1>3. Line'
  BY <1>1, <1>2 DEF Line, Pos
<1>4. Sized'
  <2>1. /\ At({"swing", "linked"})' = At({"swing", "linked"})
        /\ At({"dequeued"})' = At({"dequeued"})
    BY <1>1, <1>2, QueueCounts
  <2>2. QED
    BY <1>1, <2>1 DEF Sized
<1>5. tail \in Places /\ Pos(tail) <= Pos(tail') /\ Len(taken) <= Len(taken') /\ Len(sent) <= Len(sent')
  BY <1>1, Positions, Lengths DEF Line
<1>6. \A s \in Threads \ {t} : Produces(s)' /\ Consumes(s)'
  BY <1>2, <1>3, <1>5, OthersKeep
<1>7. QED
  BY <1>3, <1>4, <1>6 DEF QueueInv

LEMMA ReadTailNextStep ==
  ASSUME OneProducer, QueueInv, NEW t \in Threads, E!ReadTailNext(t)
  PROVE  QueueInv'
<1>1. /\ pc[t] = "tailNext" /\ pc' = [pc EXCEPT ![t] = "checkTail"]
      /\ nxt' = [nxt EXCEPT ![t] = next[cur[t]]]
      /\ UNCHANGED <<head, next, made, size, node, cur, tail, tl, sent, taken, sawEmpty>>
  BY DEF E!ReadTailNext, E!Goto, E!queueOnly
<1>2. QueueTypes /\ Line /\ Produces(t)
  BY DEF QueueInv
<1>3. cur[t] \in Places /\ next[cur[t]] \in 0 .. Dummy
  BY <1>1, <1>2, Positions DEF Produces, QueueTypes
<1>4. QueueTypes'
  BY <1>1, <1>2, <1>3 DEF QueueTypes, Making
<1>5. /\ pc'[t] = "checkTail" /\ nxt'[t] = next[cur[t]]
      /\ \A s \in Threads \ {t} : nxt'[s] = nxt[s]
  BY <1>1, <1>2 DEF QueueTypes
<1>6. Produces(t)'
  BY <1>1, <1>2, <1>5 DEF Produces, Making, Pos
<1>7. Consumes(t)'
  BY <1>5 DEF Consumes, Taking
<1>8. QED
  BY <1>1, <1>4, <1>5, <1>6, <1>7, OwnStep DEF Making

LEMMA CheckTailStep ==
  ASSUME OneProducer, QueueInv, NEW t \in Threads, E!CheckTail(t)
  PROVE  QueueInv'
<1> DEFINE b == IF cur[t] # tail THEN "enqueue"
                ELSE IF nxt[t] = Nil THEN "linkTest" ELSE "helpEnqueue"
<1>1. /\ pc[t] = "checkTail" /\ pc' = [pc EXCEPT ![t] = b]
      /\ UNCHANGED <<head, next, made, size, node, cur, nxt, tail, tl, sent, taken, sawEmpty>>
  BY SameNames DEF E!CheckTail, E!Goto, E!queueOnly
<1>2. QueueTypes /\ Line /\ Produces(t)
  BY DEF QueueInv
<1>3. b \in Making /\ (b = "helpEnqueue" => nxt[t] # Nil) /\ b \notin {"checkTail", "link"}
  BY DEF Making
<1> HIDE DEF b
<1>4. QueueTypes'
  BY <1>1, <1>2, <1>3 DEF QueueTypes
<1>5. pc'[t] = b
  BY <1>1, <1>2 DEF QueueTypes
<1>6. Produces(t)'
  BY <1>1, <1>2, <1>3, <1>5 DEF Produces, Making, Pos
<1>7. Consumes(t)'
  BY <1>3, <1>5 DEF Consumes, Taking, Making
<1>8. QED
  BY <1>1, <1>3, <1>4, <1>6, <1>7, OwnStep DEF Making

LEMMA LinkTestStep ==
  ASSUME OneProducer, QueueInv, NEW t \in Threads, E!LinkTest(t)
  PROVE  QueueInv'
<1> DEFINE b == IF next[cur[t]] = Nil THEN "link" ELSE "enqueue"
<1>1. /\ pc[t] = "linkTest" /\ pc' = [pc EXCEPT ![t] = b]
      /\ UNCHANGED <<head, next, made, size, node, cur, nxt, tail, tl, sent, taken, sawEmpty>>
  BY SameNames DEF E!LinkTest, E!Goto, E!queueOnly
<1>2. QueueTypes /\ Line /\ Produces(t)
  BY DEF QueueInv
<1>3. b \in {"link", "enqueue"} /\ (b = "link" => next[cur[t]] = Nil)
  OBVIOUS
<1> HIDE DEF b
<1>4. QueueTypes'
  BY <1>1, <1>2, <1>3 DEF QueueTypes, Making
<1>5. pc'[t] = b
  BY <1>1, <1>2 DEF QueueTypes
<1>6. b = "link" => Pos(cur[t]) = Len(sent)
  <2>1. cur[t] \in Places /\ Pos(cur[t]) \in Nat /\ Pos(cur[t]) <= Pos(tail)
    BY <1>1, <1>2, Positions DEF Produces
  <2>2. Pos(tail) \in Nat /\ Pos(tail) <= Len(sent) /\ Len(sent) \in Nat
    BY <1>2, Positions, Lengths DEF Line
  <2>3. next[cur[t]] = Nil => ~(Pos(cur[t]) < Len(sent))
    BY <1>2, <2>1, Positions DEF Line
  <2>4. QED
    BY <1>3, <2>1, <2>2, <2>3
<1>7. Produces(t)'
  BY <1>1, <1>2, <1>3, <1>5, <1>6 DEF Produces, Making, Pos
<1>8. Consumes(t)'
  BY <1>3, <1>5 DEF Consumes, Taking
<1>9. QED
  BY <1>1, <1>3, <1>4, <1>7, <1>8, OwnStep DEF Making

LEMMA ReadHeadStep ==
  ASSUME OneProducer, QueueInv, NEW t \in Threads, E!ReadHead(t)
  PROVE  QueueInv'
<1>1. /\ t \in Consumers /\ pc[t] \in {"idle", "dequeue"}
      /\ pc' = [pc EXCEPT ![t] = "readTail"] /\ cur' = [cur EXCEPT ![t] = head]
      /\ UNCHANGED <<head, next, made, size, node, nxt, tail, tl, sent, taken>>
      /\ sent = taken => t \in sawEmpty'
      /\ \A s \in Threads \ {t} : s \in sawEmpty => s \in sawEmpty'
  BY DEF E!ReadHead, E!Goto
<1>2. QueueTypes /\ Line
  BY DEF QueueInv
<1>3. head \in Places /\ head \in 0 .. Dummy /\ Pos(head) = Len(taken) /\ Len(taken) \in Nat
  BY <1>2, Positions, Lengths DEF Line
<1>4. QueueTypes'
  BY <1>1, <1>2, <1>3 DEF QueueTypes, Taking
<1>5. /\ pc'[t] = "readTail" /\ cur'[t] = head
      /\ \A s \in Threads \ {t} : cur'[s] = cur[s]
  BY <1>1, <1>2 DEF QueueTypes
<1>6. Produces(t)'
  BY <1>5 DEF Produces, Making
<1>7. Consumes(t)'
  BY <1>1, <1>3, <1>5 DEF Consumes, Taking, Pos
<1>8. QED
  BY <1>1, <1>4, <1>5, <1>6, <1>7, OwnStep DEF Making

LEMMA ReadOtherEndStep ==
  ASSUME OneProducer, QueueInv, NEW t \in Threads, E!ReadOtherEnd(t)
  PROVE  QueueInv'
<1>1. /\ pc[t] = "readTail" /\ pc' = [pc EXCEPT ![t] = "headNext"]
      /\ tl' = [tl EXCEPT ![t] = tail]
      /\ UNCHANGED <<head, next, made, size, node, cur, nxt, tail, sent, taken, sawEmpty>>
  BY DEF E!ReadOtherEnd, E!Goto
<1>2. QueueTypes /\ Line /\ Consumes(t)
  BY DEF QueueInv
<1>3. tail \in Places /\ tail \in 0 .. Dummy /\ Pos(tail) \in Nat
  BY <1>2, Positions DEF Line
<1>4. QueueTypes'
  BY <1>1, <1>2, <1>3 DEF QueueTypes, Taking
<1>5. /\ pc'[t] = "headNext" /\ tl'[t] = tail
      /\ \A s \in Threads \ {t} : tl'[s] = tl[s]
  BY <1>1, <1>2 DEF QueueTypes
<1>6. Produces(t)'
  BY <1>5 DEF Produces, Making
<1>7. Consumes(t)'
  <2>1. cur[t] \in Places /\ Pos(cur[t]) <= Len(taken) /\ Len(taken) <= Pos(tail)
    BY <1>1, <1>2 DEF Consumes, Taking, Line
  <2>2. Pos(cur[t]) \in Nat /\ Len(taken) \in Nat
    BY <1>2, <2>1, Positions, Lengths
  <2>3. Pos(cur[t]) <= Pos(tail)
    BY <1>3, <2>1, <2>2
  <2>4. t \in Consumers /\ (sent = taken => t \in sawEmpty)
    BY <1>1, <1>2 DEF Consumes, Taking
  <2>5. QED
    BY <1>1, <1>3, <1>5, <2>1, <2>3, <2>4 DEF Consumes, Taking, Pos
<1>8. QED
  BY <1>1, <1>4, <1>5, <1>6, <1>7, OwnStep DEF Making

LEMMA ReadHeadNextStep ==
  ASSUME OneProducer, QueueInv, NEW t \in Threads, E!ReadHeadNext(t)
  PROVE  QueueInv'
<1>1. /\ pc[t] = "headNext" /\ pc' = [pc EXCEPT ![t] = "checkHead"]
      /\ nxt' = [nxt EXCEPT ![t] = next[cur[t]]]
      /\ UNCHANGED <<head, next, made, size, node, cur, tail, tl, sent, taken, sawEmpty>>
  BY DEF E!ReadHeadNext, E!Goto, E!queueOnly
<1>2. QueueTypes /\ Line /\ Consumes(t)
  BY DEF QueueInv
<1>3. /\ cur[t] \in Places /\ next[cur[t]] \in 0 .. Dummy /\ Pos(cur[t]) \in Nat
      /\ Pos(cur[t]) <= Len(taken) /\ Len(taken) \in Nat /\ Len(sent) \in Nat
      /\ Len(taken) <= Len(sent)
      /\ t \in Consumers /\ (sent = taken => t \in sawEmpty)
  <2>1. /\ cur[t] \in Places /\ Pos(cur[t]) <= Len(taken)
        /\ t \in Consumers /\ (sent = taken => t \in sawEmpty)
    BY <1>1, <1>2 DEF Consumes, Taking
  <2>2. next[cur[t]] \in 0 .. Dummy
    BY <1>2, <2>1, Positions DEF QueueTypes
  <2>3. QED
    BY <1>2, <2>1, <2>2, Positions, Lengths DEF Line
<1>4. QueueTypes'
  BY <1>1, <1>2, <1>3 DEF QueueTypes, Taking
<1>5. /\ pc'[t] = "checkHead" /\ nxt'[t] = next[cur[t]]
      /\ \A s \in Threads \ {t} : nxt'[s] = nxt[s]
  BY <1>1, <1>2 DEF QueueTypes
<1>6. Produces(t)'
  BY <1>5 DEF Produces, Making
<1>7. next[cur[t]] = IF Pos(cur[t]) < Len(sent) THEN Pos(cur[t]) + 1 ELSE Nil
  BY <1>2, <1>3 DEF Line
<1>8. /\ next[cur[t]] = Nil => t \in sawEmpty
      /\ next[cur[t]] # Nil => next[cur[t]] = Pos(cur[t]) + 1 /\ next[cur[t]] <= Len(sent)
  <2>1. CASE Pos(cur[t]) < Len(sent)
    BY <1>3, <1>7, <2>1, Positions
  <2>2. CASE ~(Pos(cur[t]) < Len(sent))
    <3>1. Len(sent) = Len(taken)
      BY <1>3, <2>2
    <3>2. QED
      BY <1>2, <1>3, <1>7, <2>2, <3>1, AllTaken
  <2>3. QED
    BY <2>1, <2>2
<1>9. Consumes(t)'
  <2>1. tl[t] \in Places /\ Pos(cur[t]) <= Pos(tl[t]) /\ Pos(tl[t]) <= Pos(tail)
    BY <1>1, <1>2 DEF Consumes, Taking
  <2>2. QED
    BY <1>1, <1>3, <1>5, <1>8, <2>1 DEF Consumes, Taking, Pos
<1>10. QED
  BY <1>1, <1>4, <1>5, <1>6, <1>9, OwnStep DEF Making

LEMMA CheckHeadStep ==
  ASSUME OneProducer, QueueInv, NEW t \in Threads, E!CheckHead(t)
  PROVE  QueueInv'
<1> DEFINE b == IF cur[t] # head THEN "dequeue"
                ELSE IF cur[t] = tl[t]
                  THEN IF nxt[t] = Nil THEN "idle" ELSE "helpDequeue"
                  ELSE IF nxt[t] = Nil THEN "dequeue" ELSE "takeHead"
<1>1. /\ pc[t] = "checkHead" /\ pc' = [pc EXCEPT ![t] = b]
      /\ UNCHANGED <<head, next, made, size, node, cur, nxt, tail, tl, sent, taken, sawEmpty>>
  BY SameNames DEF E!CheckHead, E!Goto, E!queueOnly
<1>2. QueueTypes /\ Line /\ Consumes(t)
  BY DEF QueueInv
<1>3. /\ b \in {"idle", "dequeue", "helpDequeue", "takeHead"}
      /\ b \in {"helpDequeue", "takeHead"} => nxt[t] # Nil
      /\ b = "helpDequeue" => cur[t] = tl[t]
      /\ b = "takeHead" => cur[t] # tl[t]
  OBVIOUS
<1> HIDE DEF b
<1>4. QueueTypes'
  BY <1>1, <1>2, <1>3 DEF QueueTypes, Taking
<1>5. pc'[t] = b
  BY <1>1, <1>2 DEF QueueTypes
<1>6. Produces(t)'
  BY <1>3, <1>5 DEF Produces, Making
<1>7. Consumes(t)'
  BY <1>1, <1>2, <1>3, <1>5 DEF Consumes, Taking, Pos
<1>8. QED
  BY <1>1, <1>3, <1>4, <1>6, <1>7, OwnStep DEF Making

(* The producer makes a node only when all earlier ones are linked. *)
LEMMA ReadTailStep ==
  ASSUME OneProducer, QueueInv, NEW t \in Threads, NEW n \in Nodes, E!ReadTail(t, n)
  PROVE  QueueInv'
<1>1. /\ t \in Producers /\ pc[t] \in {"idle", "enqueue"}
      /\ pc' = [pc EXCEPT ![t] = "tailNext"] /\ cur' = [cur EXCEPT ![t] = tail]
      /\ node' = [node EXCEPT ![t] = n]
      /\ UNCHANGED <<head, next, size, nxt, tail, tl, sent, taken, sawEmpty>>
      /\ pc[t] = "idle" => n = made + 1
      /\ pc[t] = "enqueue" => n = node[t]
      /\ made' = IF n > made THEN n ELSE made
  BY DEF E!ReadTail, E!HasNode, E!KeepNode, E!Goto, E!queueOnly
<1>2. QueueTypes /\ Line /\ Sized /\ Produces(t)
      /\ \A s \in Threads : Produces(s) /\ Consumes(s)
  BY DEF QueueInv
<1>3. Len(sent) \in Nat /\ Len(taken) \in Nat /\ made \in Nat /\ MaxNodes \in Nat
      /\ n \in 0 .. MaxNodes /\ n \in 0 .. Dummy
  BY <1>2, Lengths, Positions DEF QueueTypes, Nodes
<1>4. n = Len(sent) + 1 /\ made' = Len(sent) + 1
  <2>1. CASE pc[t] = "idle"
    <3>1. \A s \in Threads : pc[s] \notin Making
      BY <1>1, <1>2, <2>1 DEF Produces, OneProducer, Making
    <3>2. made = Len(sent)
      BY <1>2, <3>1 DEF Line
    <3>3. QED
      BY <1>1, <1>3, <2>1, <3>2
  <2>2. CASE pc[t] = "enqueue"
    BY <1>1, <1>2, <1>3, <2>2 DEF Produces, Making
  <2>3. QED
    BY <1>1, <2>1, <2>2
<1>5. /\ pc'[t] = "tailNext" /\ cur'[t] = tail /\ node'[t] = n
      /\ \A s \in Threads \ {t} : pc'[s] = pc[s] /\ cur'[s] = cur[s] /\ node'[s] = node[s]
  BY <1>1, <1>2 DEF QueueTypes
<1>6. tail \in Places /\ tail \in 0 .. Dummy /\ Pos(tail) \in Nat
  BY <1>2, Positions DEF Line
<1>7. QueueTypes'
  <2>1. made' \in 0 .. MaxNodes
    BY <1>3, <1>4
  <2>2. QED
    BY <1>1, <1>2, <1>3, <1>6, <2>1 DEF QueueTypes, Making
<1>8. Line'
  <2>1. Len(sent) <= made'
    BY <1>3, <1>4
  <2>2. pc'[t] \in Making
    BY <1>5 DEF Making
  <2>3. QED
    BY <1>1, <1>2, <2>1, <2>2 DEF Line, Pos
<1>9. Sized'
  <2>1. /\ At({"swing", "linked"})' = At({"swing", "linked"})
        /\ At({"dequeued"})' = At({"dequeued"})
    BY <1>1, <1>2, <1>5, <1>7, QueueCounts
  <2>2. QED
    BY <1>1, <1>2, <2>1 DEF Sized
<1>10. Produces(t)' /\ Consumes(t)'
  BY <1>1, <1>4, <1>5, <1>6 DEF Produces, Consumes, Making, Taking, Pos
<1>11. \A s \in Threads \ {t} : Produces(s)' /\ Consumes(s)'
  BY <1>1, <1>3, <1>5, <1>6, <1>7, <1>8, OthersKeep
<1>12. QED
  BY <1>7, <1>8, <1>9, <1>10, <1>11 DEF QueueInv

(* The assignment of _compare_and_swap_next finds the end of the list. *)
LEMMA LinkStep ==
  ASSUME OneProducer, QueueInv, NEW t \in Threads, E!Link(t)
  PROVE  /\ QueueInv'
         /\ sent' = Append(sent, Len(sent) + 1) /\ Len(sent) + 1 \in Nodes
<1>1. /\ pc[t] = "link" /\ pc' = [pc EXCEPT ![t] = "swing"]
      /\ next' = [next EXCEPT ![cur[t]] = node[t]]
      /\ sent' = Append(sent, node[t])
      /\ UNCHANGED <<head, made, size, node, cur, nxt, tail, tl, taken, sawEmpty>>
  BY DEF E!Link, E!Goto
<1>2. QueueTypes /\ Line /\ Sized /\ Produces(t)
      /\ \A s \in Threads : Produces(s) /\ Consumes(s)
  BY DEF QueueInv
<1>3. /\ Len(sent) \in Nat /\ Len(taken) \in Nat /\ MaxNodes \in Nat
      /\ t \in Producers /\ node[t] = Len(sent) + 1 /\ made = Len(sent) + 1
      /\ cur[t] \in Places /\ Pos(cur[t]) = Len(sent) /\ Pos(cur[t]) <= Pos(tail)
  BY <1>1, <1>2, Lengths, Positions DEF Produces, Making
<1>4. node[t] \in Nodes /\ node[t] \in 0 .. MaxNodes
  BY <1>2, <1>3 DEF QueueTypes, Nodes
<1>5. /\ sent' \in Seq(Nodes) /\ Len(sent') = Len(sent) + 1
      /\ DOMAIN sent' = 1 .. Len(sent) + 1
      /\ \A i \in 1 .. Len(sent) + 1 : sent'[i] = IF i = Len(sent) + 1 THEN node[t] ELSE sent[i]
  <2>1. sent \in Seq(Nodes)
    BY <1>2 DEF QueueTypes
  <2>2. QED
    BY <1>1, <1>3, <1>4, <2>1, AppendProperties, LenProperties
<1>6. /\ pc'[t] = "swing"
      /\ \A s \in Threads \ {t} : pc'[s] = pc[s]
  BY <1>1, <1>2 DEF QueueTypes
<1>7. QueueTypes'
  BY <1>1, <1>2, <1>4, <1>5 DEF QueueTypes
<1>8. Line'
  <2>1. \A i \in DOMAIN sent' : sent'[i] = i
    BY <1>2, <1>3, <1>5, Lengths DEF Line
  <2>2. ASSUME NEW x \in Places
        PROVE  next'[x] = IF Pos(x) < Len(sent) + 1 THEN Pos(x) + 1 ELSE Nil
    <3>1. Pos(x) \in Nat
      BY Positions
    <3>2. CASE x = cur[t]
      <4>1. next'[x] = node[t]
        BY <1>1, <1>2, <3>2 DEF QueueTypes
      <4>2. QED
        BY <1>3, <3>2, <4>1
    <3>3. CASE x # cur[t]
      <4>1. next'[x] = next[x] /\ Pos(x) # Len(sent)
        BY <1>1, <1>2, <1>3, <3>3, Positions DEF QueueTypes
      <4>2. next[x] = IF Pos(x) < Len(sent) THEN Pos(x) + 1 ELSE Nil
        BY <1>2 DEF Line
      <4>3. QED
        BY <1>3, <3>1, <4>1, <4>2
    <3>4. QED
      BY <3>2, <3>3
  <2>3. /\ Len(taken) <= Len(sent') /\ Len(sent') <= made
        /\ Pos(tail) <= Len(sent') /\ made = Len(sent')
    <3>1. Pos(tail) \in Nat
      BY <1>2, Positions DEF Line
    <3>2. QED
      BY <1>2, <1>3, <1>5, <3>1 DEF Line
  <2>4. QED
    BY <1>1, <1>2, <1>5, <2>1, <2>2, <2>3 DEF Line, Pos
<1>9. Sized'
  <2>1. /\ At({"swing", "linked"}) \in Int /\ At({"dequeued"}) \in Int
        /\ At({"swing", "linked"})' = At({"swing", "linked"}) + 1
        /\ At({"dequeued"})' = At({"dequeued"})
    BY <1>1, <1>2, <1>6, <1>7, QueueCounts
  <2>2. QED
    BY <1>1, <1>2, <1>3, <1>5, <2>1 DEF Sized, QueueTypes
<1>10. Produces(t)' /\ Consumes(t)'
  BY <1>1, <1>3, <1>5, <1>6 DEF Produces, Consumes, Making, Taking, Pos
<1>11. \A s \in Threads \ {t} : Produces(s)' /\ Consumes(s)'
  <2>1. sent' # taken
    BY <1>2, <1>3, <1>5 DEF Line
  <2>2. Pos(tail) <= Pos(tail') /\ Len(taken) <= Len(taken') /\ Len(sent) <= Len(sent')
    BY <1>1, <1>2, <1>3, <1>5, Positions DEF Line
  <2>3. QED
    BY <1>1, <1>3, <1>6, <1>7, <1>8, <2>1, <2>2, OthersKeep
<1>12. QED
  BY <1>1, <1>3, <1>4, <1>7, <1>8, <1>9, <1>10, <1>11 DEF QueueInv

(* The tail moves along the list. *)
LEMMA TailMoves ==
  ASSUME OneProducer, QueueInv, NEW t \in Threads,
         NEW place, NEW from, NEW to, NEW then, E!MoveTail(t, place, from, to, then),
         \/ place = "helpEnqueue" /\ then = "enqueue"
         \/ place = "swing" /\ then = "linked"
         \/ place = "helpDequeue" /\ then = "dequeue",
         tail = from => to \in Nodes /\ Pos(tail) <= to /\ to <= Len(sent)
  PROVE  QueueInv'
<1>1. /\ pc[t] = place /\ pc' = [pc EXCEPT ![t] = then]
      /\ tail' = IF tail = from THEN to ELSE tail
      /\ UNCHANGED <<head, next, made, size, node, cur, nxt, tl, sent, taken, sawEmpty>>
  BY DEF E!MoveTail, E!Goto
<1>2. QueueTypes /\ Line /\ Sized /\ Produces(t) /\ Consumes(t)
      /\ \A s \in Threads : Produces(s) /\ Consumes(s)
  BY DEF QueueInv
<1>3. /\ tail \in Places /\ Pos(tail) \in Nat /\ Len(taken) \in Nat /\ Len(sent) \in Nat
      /\ Len(taken) <= Pos(tail) /\ Pos(tail) <= Len(sent)
  BY <1>2, Positions, Lengths DEF Line
<1>4. /\ tail' \in Places /\ Pos(tail) <= Pos(tail')
      /\ Len(taken) <= Pos(tail') /\ Pos(tail') <= Len(sent)
  <2>1. CASE tail = from
    <3>1. tail' = to /\ to \in Nodes /\ Pos(to) = to /\ to \in Places /\ Pos(to) \in Nat
      BY <1>1, <2>1, Positions
    <3>2. QED
      BY <1>3, <2>1, <3>1
  <2>2. CASE tail # from
    BY <1>1, <1>3, <2>2
  <2>3. QED
    BY <2>1, <2>2
<1>5. pc'[t] = then /\ \A s \in Threads \ {t} : pc'[s] = pc[s]
  BY <1>1, <1>2 DEF QueueTypes
<1>6. QueueTypes'
  BY <1>1, <1>2 DEF QueueTypes, Making, Taking
<1>7. Line'
  <2>1. pc'[t] \notin Making => pc[t] \notin Making
    BY <1>1, <1>5 DEF Making
  <2>2. QED
    BY <1>1, <1>2, <1>4, <1>5, <2>1 DEF Line, Pos
<1>8. Sized'
  <2>1. /\ At({"swing", "linked"})' = At({"swing", "linked"})
        /\ At({"dequeued"})' = At({"dequeued"})
    BY <1>1, <1>2, <1>5, <1>6, QueueCounts
  <2>2. QED
    BY <1>1, <1>2, <2>1 DEF Sized
<1>9. Produces(t)'
  BY <1>1, <1>2, <1>5 DEF Produces, Making
<1>10. Consumes(t)'
  BY <1>1, <1>2, <1>5 DEF Consumes, Taking
<1>11. \A s \in Threads \ {t} : Produces(s)' /\ Consumes(s)'
  BY <1>1, <1>3, <1>4, <1>5, <1>6, <1>7, OthersKeep
<1>12. QED
  BY <1>6, <1>7, <1>8, <1>9, <1>10, <1>11 DEF QueueInv

LEMMA HelpEnqueueStep ==
  ASSUME OneProducer, QueueInv, NEW t \in Threads, E!HelpEnqueue(t)
  PROVE  QueueInv'
<1>1. pc[t] = "helpEnqueue" /\ E!MoveTail(t, "helpEnqueue", cur[t], nxt[t], "enqueue")
  BY DEF E!HelpEnqueue, E!MoveTail
<1>2. QueueTypes /\ Line /\ Produces(t)
  BY DEF QueueInv
<1>3. /\ cur[t] \in Places /\ nxt[t] = next[cur[t]] /\ nxt[t] # Nil
      /\ Pos(cur[t]) \in Nat /\ Len(sent) \in Nat /\ made \in 0 .. MaxNodes
      /\ MaxNodes \in Nat /\ Len(sent) <= made
  BY <1>1, <1>2, Positions, Lengths DEF Produces, QueueTypes, Line
<1>4. nxt[t] = Pos(cur[t]) + 1 /\ Pos(cur[t]) < Len(sent)
  BY <1>2, <1>3 DEF Line
<1>5. nxt[t] \in Nodes /\ Pos(cur[t]) <= nxt[t] /\ nxt[t] <= Len(sent)
  BY <1>3, <1>4 DEF Nodes
<1>6. QED
  BY <1>1, <1>5, TailMoves

LEMMA SwingStep ==
  ASSUME OneProducer, QueueInv, NEW t \in Threads, E!Swing(t)
  PROVE  QueueInv'
<1>1. pc[t] = "swing" /\ E!MoveTail(t, "swing", cur[t], node[t], "linked")
  BY DEF E!Swing, E!MoveTail
<1>2. QueueTypes /\ Line /\ Produces(t)
  BY DEF QueueInv
<1>3. /\ cur[t] \in Places /\ node[t] = Pos(cur[t]) + 1 /\ Pos(cur[t]) < Len(sent)
      /\ Pos(cur[t]) \in Nat /\ Len(sent) \in Nat /\ made \in 0 .. MaxNodes
      /\ MaxNodes \in Nat /\ Len(sent) <= made
  BY <1>1, <1>2, Positions, Lengths DEF Produces, QueueTypes, Line
<1>4. node[t] \in Nodes /\ Pos(cur[t]) <= node[t] /\ node[t] <= Len(sent)
  BY <1>3 DEF Nodes
<1>5. QED
  BY <1>1, <1>4, TailMoves

LEMMA HelpDequeueStep ==
  ASSUME OneProducer, QueueInv, NEW t \in Threads, E!HelpDequeue(t)
  PROVE  QueueInv'
<1>1. pc[t] = "helpDequeue" /\ E!MoveTail(t, "helpDequeue", tl[t], nxt[t], "dequeue")
  BY DEF E!HelpDequeue, E!MoveTail
<1>2. QueueTypes /\ Line /\ Consumes(t)
  BY DEF QueueInv
<1>3. /\ cur[t] \in Places /\ tl[t] = cur[t]
      /\ nxt[t] = Pos(cur[t]) + 1 /\ nxt[t] <= Len(sent)
  BY <1>1, <1>2 DEF Consumes, Taking
<1>4. /\ Pos(cur[t]) \in Nat /\ Len(sent) \in Nat /\ made \in 0 .. MaxNodes
      /\ MaxNodes \in Nat /\ Len(sent) <= made
  BY <1>2, <1>3, Positions, Lengths DEF QueueTypes, Line
<1>5. nxt[t] \in Nodes /\ Pos(tl[t]) <= nxt[t] /\ nxt[t] <= Len(sent)
  BY <1>3, <1>4 DEF Nodes
<1>6. QED
  BY <1>1, <1>5, TailMoves

(* The head moves to the node that is taken. *)
LEMMA TakeStep ==
  ASSUME OneProducer, QueueInv, NEW t \in Threads, E!TakeHead(t), head = cur[t]
  PROVE  /\ QueueInv'
         /\ taken' = Append(taken, Len(taken) + 1) /\ Len(taken) < Len(sent)
         /\ Len(taken) + 1 \in Nodes
<1>1. /\ pc[t] = "takeHead" /\ pc' = [pc EXCEPT ![t] = "dequeued"]
      /\ head' = nxt[t] /\ taken' = Append(taken, nxt[t])
      /\ UNCHANGED <<next, made, size, node, cur, nxt, tail, tl, sent>>
      /\ sawEmpty' = IF sent = taken' THEN sawEmpty \cup {s \in Consumers : pc[s] # "idle"}
                     ELSE sawEmpty
  BY DEF E!TakeHead, E!Goto
<1>2. QueueTypes /\ Line /\ Sized /\ Consumes(t)
      /\ \A s \in Threads : Produces(s) /\ Consumes(s)
  BY DEF QueueInv
<1>3. /\ Len(sent) \in Nat /\ Len(taken) \in Nat /\ MaxNodes \in Nat
      /\ made \in 0 .. MaxNodes /\ Len(sent) <= made
      /\ tail \in Places /\ Pos(tail) \in Nat /\ Pos(tail) <= Len(sent)
  BY <1>2, Lengths, Positions DEF QueueTypes, Line
<1>4. /\ cur[t] \in Places /\ Pos(cur[t]) = Len(taken)
      /\ nxt[t] = Len(taken) + 1 /\ nxt[t] <= Len(sent)
      /\ tl[t] \in Places /\ tl[t] # cur[t]
      /\ Pos(cur[t]) <= Pos(tl[t]) /\ Pos(tl[t]) <= Pos(tail)
  <2>1. Pos(cur[t]) = Len(taken) /\ cur[t] \in Places
    BY <1>2 DEF Line
  <2>2. QED
    BY <1>1, <1>2, <2>1 DEF Consumes, Taking
<1>5. Len(taken) + 1 <= Pos(tail)
  <2>1. Pos(tl[t]) \in Nat /\ Pos(tl[t]) # Pos(cur[t])
    BY <1>4, Positions
  <2>2. QED
    BY <1>3, <1>4, <2>1
<1>6. nxt[t] \in Nodes /\ nxt[t] \in Places /\ Pos(nxt[t]) = Len(taken) + 1
  <2>1. nxt[t] \in Nodes
    BY <1>3, <1>4 DEF Nodes
  <2>2. QED
    BY <1>4, <2>1, Positions
<1>7. /\ taken' \in Seq(Nodes) /\ Len(taken') = Len(taken) + 1
      /\ DOMAIN taken' = 1 .. Len(taken) + 1
      /\ \A i \in 1 .. Len(taken) + 1 :
           taken'[i] = IF i = Len(taken) + 1 THEN nxt[t] ELSE taken[i]
  <2>1. taken \in Seq(Nodes)
    BY <1>2 DEF QueueTypes
  <2>2. QED
    BY <1>1, <1>3, <1>6, <2>1, AppendProperties, LenProperties
<1>8. pc'[t] = "dequeued" /\ \A s \in Threads \ {t} : pc'[s] = pc[s]
  BY <1>1, <1>2 DEF QueueTypes
<1>9. QueueTypes'
  BY <1>1, <1>2, <1>7 DEF QueueTypes
<1>10. Line'
  <2>1. \A i \in DOMAIN taken' : taken'[i] = i
    <3>1. \A i \in 1 .. Len(taken) : taken[i] = i
      BY <1>2, Lengths DEF Line
    <3>2. QED
      BY <1>3, <1>4, <1>7, <3>1
  <2>2. Len(taken') <= Len(sent) /\ Pos(head') = Len(taken') /\ head' \in Places
    BY <1>1, <1>4, <1>6, <1>7
  <2>3. Len(taken') <= Pos(tail)
    BY <1>5, <1>7
  <2>4. pc'[t] \notin Making /\ pc[t] \notin Making
    BY <1>1, <1>8 DEF Making
  <2>5. QED
    BY <1>1, <1>2, <1>8, <2>1, <2>2, <2>3, <2>4 DEF Line, Pos
<1>11. Sized'
  <2>1. /\ At({"swing", "linked"}) \in Int /\ At({"dequeued"}) \in Int
        /\ At({"swing", "linked"})' = At({"swing", "linked"})
        /\ At({"dequeued"})' = At({"dequeued"}) + 1
    BY <1>1, <1>2, <1>8, <1>9, QueueCounts
  <2>2. QED
    BY <1>1, <1>2, <1>3, <1>7, <2>1 DEF Sized, QueueTypes
<1>12. Produces(t)' /\ Consumes(t)'
  BY <1>8 DEF Produces, Consumes, Making, Taking
<1>13. \A s \in Threads \ {t} : Produces(s)' /\ Consumes(s)'
  <2>1. Pos(tail) <= Pos(tail') /\ Len(taken) <= Len(taken') /\ Len(sent) <= Len(sent')
    BY <1>1, <1>3, <1>7 DEF Pos
  <2>2. \A s : s \in sawEmpty => s \in sawEmpty'
    BY <1>1
  <2>3. \A s \in Threads : sent' = taken' /\ s \in Consumers /\ pc[s] # "idle" => s \in sawEmpty'
    BY <1>1
  <2>4. QED
    BY <1>1, <1>8, <1>9, <1>10, <2>1, <2>2, <2>3, OthersKeep
<1>14. QED
  BY <1>1, <1>3, <1>4, <1>6, <1>9, <1>10, <1>11, <1>12, <1>13 DEF QueueInv

LEMMA MissStep ==
  ASSUME OneProducer, QueueInv, NEW t \in Threads, E!TakeHead(t), head # cur[t]
  PROVE  QueueInv'
<1>1. /\ pc[t] = "takeHead" /\ pc' = [pc EXCEPT ![t] = "dequeue"]
      /\ UNCHANGED <<head, next, made, size, node, cur, nxt, tail, tl, sent, taken, sawEmpty>>
  BY DEF E!TakeHead, E!Goto
<1>2. QueueTypes /\ Consumes(t)
  BY DEF QueueInv
<1>3. QueueTypes' /\ pc'[t] = "dequeue"
  BY <1>1, <1>2 DEF QueueTypes, Taking
<1>4. Produces(t)' /\ Consumes(t)'
  BY <1>1, <1>2, <1>3 DEF Produces, Consumes, Making, Taking
<1>5. QED
  BY <1>1, <1>3, <1>4, OwnStep DEF Making

(* A call counts its item, and ends. *)
LEMMA CountStep ==
  ASSUME OneProducer, QueueInv, NEW t \in Threads,
         E!EnqueueCount(t) \/ E!DequeueCount(t)
  PROVE  QueueInv'
<1>1. /\ UNCHANGED <<head, next, made, tail, tl, sent, taken, sawEmpty>>
      /\ pc' = [pc EXCEPT ![t] = "idle"]
      /\ node' = [node EXCEPT ![t] = Nil] /\ cur' = [cur EXCEPT ![t] = Nil]
      /\ nxt' = [nxt EXCEPT ![t] = Nil]
      /\ \/ pc[t] = "linked" /\ size' = size + 1
         \/ pc[t] = "dequeued" /\ size' = size - 1
  <2>1. QueueTypes
    BY DEF QueueInv
  <2>2. size + (-1) = size - 1
    BY <2>1 DEF QueueTypes
  <2>3. QED
    BY <2>2, SameNames DEF E!EnqueueCount, E!DequeueCount, E!CountBy, E!Goto, E!queueOnly
<1>2. QueueTypes /\ Line /\ Sized
      /\ \A s \in Threads : Produces(s) /\ Consumes(s)
  BY DEF QueueInv
<1>3. /\ pc'[t] = "idle"
      /\ \A s \in Threads \ {t} : /\ pc'[s] = pc[s] /\ node'[s] = node[s]
                                  /\ cur'[s] = cur[s] /\ nxt'[s] = nxt[s]
  BY <1>1, <1>2 DEF QueueTypes
<1>4. QueueTypes'
  <2>1. Nil \in 0 .. Dummy /\ size' \in Int
    BY <1>1, <1>2, Positions DEF QueueTypes
  <2>2. QED
    BY <1>1, <1>2, <2>1 DEF QueueTypes
<1>5. Line'
  <2>1. pc[t] \notin Making
    BY <1>1 DEF Making
  <2>2. QED
    BY <1>1, <1>2, <1>3, <2>1 DEF Line, Pos
<1>6. Sized'
  <2>1. /\ At({"swing", "linked"}) \in Int /\ At({"dequeued"}) \in Int
        /\ At({"swing", "linked"})' = At({"swing", "linked"})
                                        - (IF pc[t] = "linked" THEN 1 ELSE 0)
        /\ At({"dequeued"})' = At({"dequeued"}) - (IF pc[t] = "dequeued" THEN 1 ELSE 0)
    BY <1>1, <1>2, <1>3, <1>4, QueueCounts
  <2>2. QED
    BY <1>1, <1>2, <2>1, Lengths DEF Sized, QueueTypes
<1>7. Produces(t)' /\ Consumes(t)'
  BY <1>3 DEF Produces, Consumes, Making, Taking
<1>8. \A s \in Threads \ {t} : Produces(s)' /\ Consumes(s)'
  <2>1. Pos(tail) <= Pos(tail') /\ Len(taken) <= Len(taken') /\ Len(sent) <= Len(sent')
    BY <1>1, <1>2, Lengths, Positions DEF Pos, Line
  <2>2. QED
    BY <1>1, <1>3, <1>4, <1>5, <2>1, OthersKeep
<1>9. QED
  BY <1>4, <1>5, <1>6, <1>7, <1>8 DEF QueueInv

(* A step of the queue, and what it is for the channel.                     *)
LEMMA QueueStep ==
  ASSUME OneProducer, QueueInv, NEW t \in Threads, E!Enqueue(t) \/ E!Dequeue(t)
  PROVE  /\ QueueInv'
         /\ \/ UNCHANGED <<sent, taken>>
            \/ /\ Len(sent) + 1 \in Nodes /\ sent' = Append(sent, Len(sent) + 1)
               /\ taken' = taken
            \/ /\ Len(taken) < Len(sent) /\ taken' = Append(taken, sent[Len(taken) + 1])
               /\ sent' = sent
<1>1. CASE E!Link(t)
  <2>1. taken' = taken
    BY <1>1 DEF E!Link
  <2>2. QED
    BY <1>1, <2>1, LinkStep
<1>2. CASE E!TakeHead(t) /\ head = cur[t]
  <2>1. sent' = sent
    BY <1>2 DEF E!TakeHead
  <2>2. /\ QueueInv' /\ taken' = Append(taken, Len(taken) + 1) /\ Len(taken) < Len(sent)
    BY <1>2, TakeStep
  <2>3. sent[Len(taken) + 1] = Len(taken) + 1
    <3>1. Len(taken) + 1 \in DOMAIN sent
      BY <2>2, Lengths DEF QueueInv
    <3>2. QED
      BY <3>1 DEF QueueInv, Line
  <2>4. QED
    BY <2>1, <2>2, <2>3
<1>3. CASE E!TakeHead(t) /\ head # cur[t]
  <2>1. UNCHANGED <<sent, taken>>
    BY <1>3 DEF E!TakeHead
  <2>2. QED
    BY <1>3, <2>1, MissStep
<1>4. CASE \E n \in Nodes : E!ReadTail(t, n)
  <2>1. UNCHANGED <<sent, taken>>
    BY <1>4 DEF E!ReadTail, E!queueOnly
  <2>2. QED
    BY <1>4, <2>1, ReadTailStep
<1>5. CASE E!ReadTailNext(t) \/ E!CheckTail(t) \/ E!LinkTest(t)
  <2>1. UNCHANGED <<sent, taken>>
    BY <1>5 DEF E!ReadTailNext, E!CheckTail, E!LinkTest, E!queueOnly
  <2>2. QED
    BY <1>5, <2>1, ReadTailNextStep, CheckTailStep, LinkTestStep
<1>6. CASE E!HelpEnqueue(t) \/ E!Swing(t) \/ E!HelpDequeue(t)
  <2>1. UNCHANGED <<sent, taken>>
    BY <1>6 DEF E!HelpEnqueue, E!Swing, E!HelpDequeue, E!MoveTail
  <2>2. QED
    BY <1>6, <2>1, HelpEnqueueStep, SwingStep, HelpDequeueStep
<1>7. CASE E!EnqueueCount(t) \/ E!DequeueCount(t)
  <2>1. UNCHANGED <<sent, taken>>
    BY <1>7 DEF E!EnqueueCount, E!DequeueCount, E!queueOnly
  <2>2. QED
    BY <1>7, <2>1, CountStep
<1>8. CASE E!ReadHead(t) \/ E!ReadOtherEnd(t) \/ E!ReadHeadNext(t) \/ E!CheckHead(t)
  <2>1. UNCHANGED <<sent, taken>>
    BY <1>8 DEF E!ReadHead, E!ReadOtherEnd, E!ReadHeadNext, E!CheckHead, E!queueOnly
  <2>2. QED
    BY <1>8, <2>1, ReadHeadStep, ReadOtherEndStep, ReadHeadNextStep, CheckHeadStep
<1>9. QED
  BY <1>1, <1>2, <1>3, <1>4, <1>5, <1>6, <1>7, <1>8, SameNames DEF E!Enqueue, E!Dequeue

(* What the invariant of the queue says of its list.                        *)
LEMMA LineIsList == ASSUME QueueInv PROVE E!QueueIsList
<1> DEFINE rest == SubSeq(sent, Len(taken) + 1, Len(sent))
<1>1. QueueTypes /\ Line /\ sent \in Seq(Nodes)
  BY DEF QueueInv, QueueTypes
<1>2. /\ Len(sent) \in Nat /\ Len(taken) \in Nat /\ Len(taken) <= Len(sent)
      /\ DOMAIN sent = 1 .. Len(sent)
      /\ \A i \in 1 .. Len(sent) : sent[i] = i /\ sent[i] \in Nodes
  BY <1>1, Lengths, ElementOfSeq DEF Line
<1>3. /\ rest \in Seq(Nodes) /\ Len(rest) = Len(sent) - Len(taken)
      /\ DOMAIN rest = 1 .. Len(sent) - Len(taken)
      /\ \A i \in 1 .. Len(sent) - Len(taken) : rest[i] = Len(taken) + i
  <2>1. \A i \in Len(taken) + 1 .. Len(sent) : sent[i] \in Nodes
    BY <1>2
  <2>2. /\ rest \in Seq(Nodes)
        /\ Len(rest) = IF Len(taken) + 1 <= Len(sent)
                         THEN Len(sent) - (Len(taken) + 1) + 1 ELSE 0
        /\ \A i \in 1 .. Len(sent) - (Len(taken) + 1) + 1 :
             rest[i] = sent[(Len(taken) + 1) + i - 1]
    BY <1>1, <1>2, SubSeqProperties
  <2>3. Len(rest) = Len(sent) - Len(taken)
    BY <1>2, <2>2
  <2>4. DOMAIN rest = 1 .. Len(rest)
    BY <2>2, LenProperties
  <2>5. ASSUME NEW i \in 1 .. Len(sent) - Len(taken) PROVE rest[i] = Len(taken) + i
    <3>1. rest[i] = sent[(Len(taken) + 1) + i - 1]
      BY <1>2, <2>2
    <3>2. (Len(taken) + 1) + i - 1 = Len(taken) + i /\ Len(taken) + i \in 1 .. Len(sent)
      BY <1>2
    <3>3. QED
      BY <1>2, <3>1, <3>2
  <2>6. QED
    BY <2>2, <2>3, <2>4, <2>5
<1> HIDE DEF rest
<1>4. next[head] = IF rest = <<>> THEN Nil ELSE rest[1]
  <2>1. next[head] = IF Len(taken) < Len(sent) THEN Len(taken) + 1 ELSE Nil
    BY <1>1 DEF Line
  <2>2. rest = <<>> <=> Len(rest) = 0
    BY <1>3, EmptySeq
  <2>3. QED
    BY <1>2, <1>3, <2>1, <2>2
<1>5. ASSUME NEW i \in DOMAIN rest
      PROVE  next[rest[i]] = IF i = Len(rest) THEN Nil ELSE rest[i + 1]
  <2>1. rest[i] = Len(taken) + i /\ Len(taken) + i \in 1 .. Len(sent)
    BY <1>2, <1>3
  <2>2. Len(taken) + i \in Places /\ Pos(Len(taken) + i) = Len(taken) + i
    BY <1>2, <2>1, Positions
  <2>3. next[rest[i]] = IF Len(taken) + i < Len(sent) THEN Len(taken) + i + 1 ELSE Nil
    BY <1>1, <2>1, <2>2 DEF Line
  <2>4. i # Len(rest) => rest[i + 1] = Len(taken) + (i + 1)
    BY <1>2, <1>3
  <2>5. QED
    BY <1>2, <1>3, <2>3, <2>4
<1>6. E!Spells(next[head], rest)
  BY <1>4, <1>5, SameNames DEF E!Spells
<1>7. tail \in {head} \cup {sent[i] : i \in Len(taken) + 1 .. Len(sent)}
  <2>1. /\ head \in Places /\ Pos(head) = Len(taken)
        /\ tail \in Places /\ Len(taken) <= Pos(tail) /\ Pos(tail) <= Len(sent)
    BY <1>1 DEF Line
  <2>2. CASE Pos(tail) = Len(taken)
    BY <2>1, <2>2, Positions
  <2>3. CASE Pos(tail) # Len(taken)
    <3>1. Pos(tail) \in Nat
      BY <2>1, Positions
    <3>2. Pos(tail) \in Len(taken) + 1 .. Len(sent) /\ Pos(tail) # 0
      BY <1>2, <2>1, <2>3, <3>1
    <3>3. tail = Pos(tail)
      BY <3>2 DEF Pos
    <3>4. sent[Pos(tail)] = Pos(tail)
      BY <1>2, <3>2
    <3>5. QED
      BY <3>2, <3>3, <3>4
  <2>4. QED
    BY <2>2, <2>3
<1>8. QED
  BY <1>6, <1>7 DEF E!QueueIsList, rest

LEMMA InvMeansEnds ==
  /\ StackInv => E!StackIsList /\ E!StackSizeLags
  /\ QueueInv => E!QueueIsList /\ E!QueueSizeLags /\ E!EmptyIsReal
<1>1. ASSUME StackInv PROVE E!StackIsList /\ E!StackSizeLags
  <2>1. E!StackIsList
    BY <1>1, SameNames DEF StackInv, Spells, E!StackIsList, E!Spells
  <2>2. E!StackSizeLags
    BY <1>1, AtIsCommon DEF StackInv, Counted, E!StackSizeLags
  <2>3. QED
    BY <2>1, <2>2
<1>2. ASSUME QueueInv PROVE E!QueueIsList /\ E!QueueSizeLags /\ E!EmptyIsReal
  <2>1. E!QueueSizeLags
    BY <1>2, AtIsCommon DEF QueueInv, Sized, E!QueueSizeLags
  <2>2. E!EmptyIsReal
    <3>1. ASSUME NEW t \in Consumers, pc[t] = "checkHead", nxt[t] = Nil
          PROVE  t \in sawEmpty
      BY <1>2, <3>1, RolesAssumption DEF QueueInv, Consumes
    <3>2. QED
      BY <3>1, SameNames DEF E!EmptyIsReal
  <2>3. QED
    BY <1>2, <2>1, <2>2, LineIsList
<1>3. QED
  BY <1>1, <1>2

-----------------------------------------------------------------------------
(* The theorems.  A behaviour is about one structure; the variables of the  *)
(* queue are empty when it is another.                                      *)

StackPart == subject = "stack" => StackInv
QueuePart == /\ subject = "queue" => QueueInv
             /\ subject # "queue" => sent = <<>>

LEMMA StackInvStutters ==
  ASSUME StackInv, UNCHANGED vars PROVE StackInv' /\ UNCHANGED <<content, taken>>
<1>1. UNCHANGED <<head, next, made, size, pc, node, cur, nxt, content, taken>>
  BY DEF vars, nodeVars
<1>2. At({"pushed"})' = At({"pushed"}) /\ At({"popped"})' = At({"popped"})
  BY <1>1 DEF At
<1>3. /\ StackTypes' /\ OwnNodes' /\ Seen' /\ Spells(head, content)'
  BY <1>1 DEF StackInv, StackTypes, OwnNodes, Own, Seen, Spells
<1>4. Counted'
  BY <1>1, <1>2 DEF StackInv, Counted
<1>5. QED
  BY <1>1, <1>3, <1>4 DEF StackInv

LEMMA QueueInvStutters ==
  ASSUME QueueInv, UNCHANGED vars PROVE QueueInv' /\ UNCHANGED <<sent, taken>>
<1>1. UNCHANGED <<head, next, made, size, pc, node, cur, nxt, taken, tail, tl, sent, sawEmpty>>
  BY DEF vars, nodeVars, ofEnds
<1>2. /\ At({"swing", "linked"})' = At({"swing", "linked"})
      /\ At({"dequeued"})' = At({"dequeued"})
  BY <1>1 DEF At
<1>3. QueueTypes' /\ Line'
  BY <1>1 DEF QueueInv, QueueTypes, Line, Pos
<1>4. \A t \in Threads : Produces(t)' /\ Consumes(t)'
  BY <1>1 DEF QueueInv, Produces, Consumes, Pos
<1>5. Sized'
  BY <1>1, <1>2 DEF QueueInv, Sized
<1>6. QED
  BY <1>1, <1>3, <1>4, <1>5 DEF QueueInv

LEMMA StackPartStep ==
  ASSUME StackPart, [Next]_vars
  PROVE  /\ StackPart'
         /\ [subject = "stack" => E!LastInFirstOut]_<<content, taken>>
<1>1. CASE UNCHANGED vars
  <2>1. subject' = subject /\ UNCHANGED <<content, taken>>
    BY <1>1 DEF vars
  <2>2. QED
    BY <1>1, <2>1, StackInvStutters DEF StackPart
<1>2. CASE Next /\ subject = "stack"
  <2>1. E!StackNext /\ subject' = "stack" /\ StackInv
    BY <1>2 DEF Next, StackPart
  <2>2. StackInv' /\ [E!LastInFirstOut]_<<content, taken>>
    BY <2>1, StackStep, SameNames DEF E!StackNext
  <2>3. QED
    BY <2>1, <2>2 DEF StackPart
<1>3. CASE Next /\ subject # "stack"
  BY <1>3 DEF Next, StackPart
<1>4. QED
  BY <1>1, <1>2, <1>3

LEMMA QueuePartStep ==
  ASSUME OneProducer, QueuePart, [Next]_vars
  PROVE  QueuePart' /\ [Channel!ChanNext]_Channel!chanVars
<1>1. CASE UNCHANGED vars
  <2>1. UNCHANGED <<subject, sent, taken>>
    BY <1>1 DEF vars, ofEnds
  <2>2. UNCHANGED Channel!chanVars
    BY <2>1 DEF Channel!chanVars, Dequeued
  <2>3. QED
    BY <1>1, <2>1, <2>2, QueueInvStutters DEF QueuePart
<1>2. CASE Next /\ subject = "queue"
  <2>1. E!QueueNext /\ subject' = "queue" /\ QueueInv
    BY <1>2 DEF Next, QueuePart
  <2>2. PICK t \in Threads : E!Enqueue(t) \/ E!Dequeue(t)
    BY <2>1 DEF E!QueueNext
  <2>3. /\ QueueInv'
        /\ \/ UNCHANGED <<sent, taken>>
           \/ /\ Len(sent) + 1 \in Nodes /\ sent' = Append(sent, Len(sent) + 1)
              /\ taken' = taken
           \/ /\ Len(taken) < Len(sent) /\ taken' = Append(taken, sent[Len(taken) + 1])
              /\ sent' = sent
    BY <2>1, <2>2, QueueStep
  <2>4. Dequeued = taken /\ Dequeued' = taken'
    BY <1>2, <2>1 DEF Dequeued
  <2>5. ASSUME UNCHANGED <<sent, taken>>
        PROVE  [Channel!ChanNext]_Channel!chanVars
    BY <2>4, <2>5 DEF Channel!chanVars
  <2>6. ASSUME Len(sent) + 1 \in Nodes, sent' = Append(sent, Len(sent) + 1),
               taken' = taken
        PROVE  [Channel!ChanNext]_Channel!chanVars
    <3>1. Len(sent) < Len(taken) + MaxNodes
      BY <2>1, <2>6, Lengths, Positions DEF QueueInv, Nodes
    <3>2. Channel!Send(Len(sent) + 1)
      BY <2>4, <2>6, <3>1 DEF Channel!Send
    <3>3. QED
      BY <2>6, <3>2 DEF Channel!ChanNext
  <2>7. ASSUME Len(taken) < Len(sent), taken' = Append(taken, sent[Len(taken) + 1]),
               sent' = sent
        PROVE  [Channel!ChanNext]_Channel!chanVars
    <3>1. Channel!Receive
      BY <2>4, <2>7 DEF Channel!Receive
    <3>2. QED
      BY <3>1 DEF Channel!ChanNext
  <2>8. [Channel!ChanNext]_Channel!chanVars
    BY <2>3, <2>5, <2>6, <2>7
  <2>9. QED
    BY <2>1, <2>3, <2>8 DEF QueuePart
<1>3. CASE Next /\ subject # "queue"
  <2>1. subject' = subject /\ sent' = sent
    BY <1>3 DEF Next, ofEnds
  <2>2. UNCHANGED Channel!chanVars
    BY <1>3, <2>1 DEF Channel!chanVars, Dequeued
  <2>3. QED
    BY <1>3, <2>1, <2>2 DEF QueuePart
<1>4. QED
  BY <1>1, <1>2, <1>3

LEMMA PartsStart == ASSUME Init PROVE StackPart /\ QueuePart /\ Channel!ChanInit
<1>1. StackPart
  BY StackStart DEF Init, StackPart
<1>2. QueuePart
  BY QueueStart DEF Init, QueuePart, NoEnds
<1>3. sent = <<>> /\ Dequeued = <<>>
  BY DEF Init, NoEnds, E!QueueInit, Dequeued
<1>4. QED
  BY <1>1, <1>2, <1>3 DEF Channel!ChanInit

(* The stack stays the list of what was pushed and not popped, push and pop *)
(* take effect at their swaps, and its size lags behind by the calls that   *)
(* have not counted: for all threads, pushing and popping as they like.     *)
THEOREM StackStays ==
  Spec => /\ [](subject = "stack" => E!StackIsList /\ E!StackSizeLags)
          /\ [][subject = "stack" => E!LastInFirstOut]_<<content, taken>>
<1>1. Init => StackPart
  BY PartsStart
<1>2. StackPart /\ [Next]_vars => StackPart'
  BY StackPartStep
<1>3. StackPart /\ [Next]_vars => [subject = "stack" => E!LastInFirstOut]_<<content, taken>>
  BY StackPartStep
<1>4. StackPart => (subject = "stack" => E!StackIsList /\ E!StackSizeLags)
  BY InvMeansEnds DEF StackPart
<1>5. QED
  BY <1>1, <1>2, <1>3, <1>4, PTL DEF Spec

(* With one producer and any consumers nothing of the queue is lost or      *)
(* overtaken in its list, its size lags, and dequeue says empty only of a   *)
(* queue that was.                                                          *)
THEOREM EndsStay == ASSUME OneProducer PROVE Spec => []EndsKept
<1>1. Init => StackPart /\ QueuePart
  BY PartsStart
<1>2. StackPart /\ QueuePart /\ [Next]_vars => (StackPart /\ QueuePart)'
  BY StackPartStep, QueuePartStep
<1>3. StackPart /\ QueuePart => EndsKept
  BY InvMeansEnds DEF EndsKept, StackPart, QueuePart
<1>4. QED
  BY <1>1, <1>2, <1>3, PTL DEF Spec

(* The stack is a stack, and with one producer what the consumers dequeue   *)
(* is what a first-in first-out channel would give them.                    *)
THEOREM LinearizableEnds == ASSUME OneProducer PROVE Spec => Linearizable
<1>1. Init => StackPart /\ QueuePart /\ Channel!ChanInit
  BY PartsStart
<1>2. StackPart /\ QueuePart /\ [Next]_vars => (StackPart /\ QueuePart)'
  BY StackPartStep, QueuePartStep
<1>3. StackPart /\ QueuePart /\ [Next]_vars =>
        /\ [subject = "stack" => E!LastInFirstOut]_<<content, taken>>
        /\ [Channel!ChanNext]_Channel!chanVars
  BY StackPartStep, QueuePartStep
<1>4. QED
  BY <1>1, <1>2, <1>3, PTL DEF Spec, Linearizable, Channel!ChanSpec

=============================================================================
