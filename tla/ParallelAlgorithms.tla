--------------------------- MODULE ParallelAlgorithms ---------------------------
(***************************************************************************)
(* multiprocessing_patterns/parallel_algorithms.py and map_reduce.py: work *)
(* cut into chunks for a pool of processes whose map() returns the results *)
(* in the order of the chunks, and what is made of the results.            *)
(***************************************************************************)
EXTENDS Integers, Sequences, FiniteSets, SequencesExt

CONSTANTS Small,       (* inputs below this length are not cut: 1000 or 100  *)
          MaxLength, MaxValue, MaxProcesses

VARIABLES data, procs   (* an input and num_processes                         *)

RECURSIVE MergeTwo(_, _), MergeSort(_), MergeMultiple(_), QuickSequential(_), QuickParallel(_, _, _),
          BinarySearch(_, _, _, _), Levels(_, _, _, _), BfsQueue(_, _, _)

SumOf(s) == FoldLeft(LAMBDA a, b : a + b, 0, s)
Flat(ss) == FoldLeft(LAMBDA a, b : a \o b, <<>>, ss)
MapSeq(s, Op(_)) == [i \in DOMAIN s |-> Op(s[i])]
AtLeast1(k) == IF k < 1 THEN 1 ELSE k
EndOf(a, b) == IF a < b THEN a ELSE b

(* Faulty variant: the last chunk is left out when it is short.             *)
WholeChunks(s, size) ==
  [k \in 1..(Len(s) \div size) |-> SubSeq(s, (k - 1) * size + 1, k * size)]

(* data[i:i + size] for i in range(0, len(data), size)                      *)
Chunks(s, size) ==
  [k \in 1..((Len(s) + size - 1) \div size) |-> SubSeq(s, (k - 1) * size + 1, EndOf(k * size, Len(s)))]
Cut(s) == Chunks(s, AtLeast1(Len(s) \div procs))

-----------------------------------------------------------------------------
MergeTwo(l, r) ==
  IF l = <<>> \/ r = <<>> THEN l \o r
  ELSE IF Head(l) <= Head(r) THEN <<Head(l)>> \o MergeTwo(Tail(l), r)
                             ELSE <<Head(r)>> \o MergeTwo(l, Tail(r))

MergeSort(s) ==
  IF Len(s) <= 1 THEN s
  ELSE LET mid == Len(s) \div 2
       IN MergeTwo(MergeSort(SubSeq(s, 1, mid)), MergeSort(SubSeq(s, mid + 1, Len(s))))

(* Neighbours are merged until one list is left.                            *)
MergeMultiple(ls) ==
  IF Len(ls) <= 1 THEN Flat(ls)
  ELSE MergeMultiple([k \in 1..((Len(ls) + 1) \div 2) |->
         IF 2 * k <= Len(ls) THEN MergeTwo(ls[2 * k - 1], ls[2 * k]) ELSE ls[2 * k - 1]])

Raised == -99

(* chunk_size is not kept above zero here: fewer items than processes make  *)
(* range() raise.                                                           *)
MergeSortParallel(s) ==
  IF Len(s) < Small \/ procs <= 1 THEN MergeSort(s)
  ELSE IF Len(s) < procs THEN <<Raised>>
  ELSE MergeMultiple(MapSeq(Chunks(s, Len(s) \div procs), MergeSort))

Less(s, p) == SelectSeq(s, LAMBDA x : x < p)
Equal(s, p) == SelectSeq(s, LAMBDA x : x = p)
Greater(s, p) == SelectSeq(s, LAMBDA x : x > p)

QuickSequential(s) ==
  IF Len(s) <= 1 THEN s
  ELSE LET p == s[Len(s) \div 2 + 1]
       IN QuickSequential(Less(s, p)) \o Equal(s, p) \o QuickSequential(Greater(s, p))

(* A part that is still long is sorted by a call inside a worker of the     *)
(* pool, a daemon, which may not open a pool of its own.                    *)
QuickParallel(s, workers, daemon) ==
  IF Len(s) <= Small \/ workers <= 1 THEN QuickSequential(s)
  ELSE IF daemon THEN <<Raised>>
  ELSE LET p == s[Len(s) \div 2 + 1]
           part(t) == IF Len(t) > Small THEN QuickParallel(t, workers \div 2, TRUE) ELSE QuickSequential(t)
           less == part(Less(s, p))
           greater == part(Greater(s, p))
       IN IF <<Raised>> \in {less, greater} THEN <<Raised>> ELSE less \o Equal(s, p) \o greater

-----------------------------------------------------------------------------
(* Positions count from 0; -1 says that there is none.                      *)
FirstFound(results) ==
  LET found == SelectSeq(results, LAMBDA r : r # -1) IN IF found = <<>> THEN -1 ELSE Head(found)

SearchChunk(c, x) ==
  LET hits == {i \in DOMAIN c : c[i] = x}
  IN IF hits = {} THEN -1 ELSE (CHOOSE i \in hits : \A j \in hits : i <= j) - 1

(* An index in the k-th chunk, counted from the beginning.                  *)
FromStart(s, k, index) == IF index = -1 THEN -1 ELSE (k - 1) * AtLeast1(Len(s) \div procs) + index

LinearSearch(s, x) ==
  IF s = <<>> THEN -1
  ELSE FirstFound([k \in DOMAIN Cut(s) |-> FromStart(s, k, SearchChunk(Cut(s)[k], x))])

BinarySearch(s, x, left, right) ==
  IF left > right THEN -1
  ELSE LET mid == (left + right) \div 2
       IN IF s[mid + 1] = x THEN mid
          ELSE IF s[mid + 1] < x THEN BinarySearch(s, x, mid + 1, right) ELSE BinarySearch(s, x, left, mid - 1)
WholeSearch(s, x) == BinarySearch(s, x, 0, Len(s) - 1)

BinaryParallel(s, x) ==
  IF s = <<>> THEN -1
  ELSE IF Len(s) < Small \/ procs <= 1 THEN WholeSearch(s, x)
  ELSE FirstFound([k \in DOMAIN Cut(s) |-> FromStart(s, k, WholeSearch(Cut(s)[k], x))])

-----------------------------------------------------------------------------
(* parallel_reduce gives the pool a local function and parallel_bfs a       *)
(* lambda, which cannot be pickled: above the small sizes both raise.       *)
Reduce(s, op, unit) == FoldLeft(LAMBDA a, x : op[<<a, x>>], unit, s)
(* A row of a matrix product depends on one row of the first matrix.        *)
ParallelSum(s) ==
  IF Len(s) < Small \/ procs <= 1 THEN SumOf(s) ELSE SumOf(MapSeq(Cut(s), SumOf))
ParallelReduce(s, op, unit) ==
  IF s = <<>> THEN unit ELSE IF Len(s) = 1 THEN s[1]
  ELSE IF Len(s) < Small \/ procs <= 1 THEN Reduce(s, op, unit) ELSE Raised
MatrixMultiply(rows, times) ==
  LET Multiply(c) == MapSeq(c, LAMBDA row : times[row])
  IN IF Len(rows) < Small \/ procs <= 1 THEN Multiply(rows) ELSE Flat(MapSeq(Cut(rows), Multiply))

(* The samples that the chunks of monte_carlo_pi take: the remainder of the *)
(* division is not taken, but counted in the estimate.                      *)
SamplesTaken(n) == SumOf([p \in 1..procs |-> n \div procs])

-----------------------------------------------------------------------------
(* Breadth-first search.  A graph maps a node to the sequence of its        *)
(* neighbours; a node without an entry has none; distances is a function.   *)
Neighbours(g, v) == IF v \in DOMAIN g THEN Range(g[v]) ELSE {}
Extended(d, ns, value) == [v \in DOMAIN d \cup ns |-> IF v \in DOMAIN d THEN d[v] ELSE value]

(* One level at a time; a level of more nodes than processes goes to the    *)
(* pool.                                                                    *)
NoDistances == <<>>
Levels(g, d, level, depth) ==
  LET next == UNION {Neighbours(g, v) : v \in level} \ DOMAIN d
  IN IF level = {} THEN d
     ELSE IF Cardinality(level) > procs THEN NoDistances
     ELSE Levels(g, Extended(d, next, depth + 1), next, depth + 1)

BfsQueue(g, d, queue) ==
  IF queue = <<>> THEN d
  ELSE LET v == Head(queue)
           new == Neighbours(g, v) \ DOMAIN d
       IN BfsQueue(g, Extended(d, new, d[v] + 1), Tail(queue) \o SetToSeq(new))

ParallelBfs(g, start) ==
  IF Cardinality(DOMAIN g) < Small \/ procs <= 1 THEN BfsQueue(g, [v \in {start} |-> 0], <<start>>)
  ELSE Levels(g, [v \in {start} |-> 0], {start}, 0)

-----------------------------------------------------------------------------
(* A MapReduce job: each mapper writes one file per partition; a reducer    *)
(* gets the values of its keys in the order of the files.                   *)
Partition(key, ranges, parts) ==      \* RangePartitioner, or hash(key) % parts
  IF ranges = <<>> THEN key % parts
  ELSE LET in == {i \in DOMAIN ranges : ranges[i][1] <= key /\ key < ranges[i][2]}
       IN IF in = {} THEN parts - 1 ELSE (CHOOSE i \in in : \A j \in in : i <= j) - 1

MapTask(chunk, mapper, ranges, parts) ==
  LET pairs == Flat(MapSeq(chunk, LAMBDA x : mapper[x]))
  IN [q \in 0..(parts - 1) |-> SelectSeq(pairs, LAMBDA kv : Partition(kv[1], ranges, parts) = q)]
MapPhase(s, mapper, ranges, parts) ==
  MapSeq(Cut(s), LAMBDA c : MapTask(c, mapper, ranges, parts))

Shuffle(files, parts) ==
  [q \in 0..(parts - 1) |->
     LET pairs == Flat(MapSeq(files, LAMBDA f : f[q]))
         keys == {pairs[i][1] : i \in DOMAIN pairs}
     IN [k \in keys |-> MapSeq(SelectSeq(pairs, LAMBDA kv : kv[1] = k), LAMBDA kv : kv[2])]]

(* What the reducers are given, for all partitions in one dictionary: a     *)
(* later one of the same key would replace an earlier one.                  *)
ReducePhase(groups, parts) ==
  LET keys == UNION {DOMAIN groups[q] : q \in 0..(parts - 1)}
      last(k) == CHOOSE q \in 0..(parts - 1) :
                   k \in DOMAIN groups[q] /\ \A r \in 0..(parts - 1) : k \in DOMAIN groups[r] => r <= q
  IN [k \in keys |-> groups[last(k)][k]]

RunJob(s, mapper, ranges, parts) ==
  ReducePhase(Shuffle(MapPhase(s, mapper, ranges, parts), parts), parts)

(* StreamingMapReduce: the map phase for each batch, then one shuffle, by   *)
(* the framework of the last batch: without a batch there is none.          *)
NoFramework == [k \in {Raised} |-> <<>>]
ProcessStream(s, mapper, batch, parts) ==
  IF s = <<>> THEN NoFramework ELSE
  ReducePhase(Shuffle(Flat(MapSeq(Chunks(s, batch), LAMBDA b : MapPhase(b, mapper, <<>>, parts))), parts),
              parts)

-----------------------------------------------------------------------------
(* Inputs: all sequences up to MaxLength.                                   *)
AlgoInit == data = <<>> /\ procs \in 1..MaxProcesses
AlgoNext == /\ Len(data) < MaxLength
            /\ \E x \in 1..MaxValue : data' = Append(data, x)
            /\ UNCHANGED procs

Occurrences(s, x) == Cardinality({i \in DOMAIN s : s[i] = x})
Sorts(s, t) == /\ \A i \in 1..(Len(t) - 1) : t[i] <= t[i + 1]
               /\ Len(s) = Len(t) /\ \A x \in 1..MaxValue : Occurrences(s, x) = Occurrences(t, x)
AsGraph == [i \in DOMAIN data |-> <<data[i], data[(i % Len(data)) + 1]>>]
Ball(g, k) == LET ball[j \in 0..k] == IF j = 0 THEN {1} ELSE ball[j - 1] \cup UNION {Neighbours(g, v) : v \in ball[j - 1]}
              IN ball[k]
WordMapper == [x \in 1..MaxValue |-> <<<<x, 1>>, <<(x % 2) + 10, x>>>>]
Grouped(k) == MapSeq(SelectSeq(Flat(MapSeq(data, LAMBDA x : WordMapper[x])), LAMBDA kv : kv[1] = k), LAMBDA kv : kv[2])
Wanted == [k \in Range(data) \cup {(x % 2) + 10 : x \in Range(data)} |-> Grouped(k)]
Plus == [p \in (0..(MaxLength * MaxValue)) \X (1..MaxValue) |-> p[1] + p[2]]
Doubled == [row \in 1..MaxValue |-> 2 * row]

(* The calls that raise: a merge sort of fewer items than processes; a      *)
(* quick sort by four processes or more one of whose parts is long; a       *)
(* reduction or a level of a search that goes to the pool; an empty stream. *)
(* Every other call gives a result.                                         *)
LongPart(s) == LET p == s[Len(s) \div 2 + 1] IN Len(Less(s, p)) > Small \/ Len(Greater(s, p)) > Small
OnlyTheseRaise ==
  /\ MergeSortParallel(data) = <<Raised>> => Len(data) < procs
  /\ QuickParallel(data, procs, FALSE) = <<Raised>> => procs >= 4 /\ LongPart(data)
  /\ ParallelReduce(data, Plus, 0) = Raised => procs > 1 /\ Len(data) > 1 /\ Len(data) >= Small
  /\ data # <<>> => /\ ParallelBfs(AsGraph, 1) = NoDistances =>
                         \E k \in 0..MaxValue : procs < Cardinality(Ball(AsGraph, k))
                    /\ \A batch \in 1..2 : ProcessStream(data, WordMapper, batch, 2) # NoFramework

(* Where they do not raise, sorting, searching and reducing in parallel     *)
(* give what one process would; each job of a MapReduce gives every reducer *)
(* all values of its key in the order of the input, whatever the            *)
(* partitioner and the batches.                                             *)
ResultsAsSequential ==
  /\ LET sorted == MergeSortParallel(data) IN sorted # <<Raised>> => Sorts(data, sorted)
  /\ LET sorted == QuickParallel(data, procs, FALSE) IN sorted # <<Raised>> => Sorts(data, sorted)
  /\ \A x \in 1..MaxValue :
       /\ LinearSearch(data, x) = SearchChunk(data, x)
       /\ LET sorted == QuickSequential(data) found == BinaryParallel(sorted, x)
          IN IF x \in Range(data) THEN sorted[found + 1] = x ELSE found = -1
  /\ ParallelSum(data) = SumOf(data)
  /\ ParallelReduce(data, Plus, 0) \in {SumOf(data), Raised}
  /\ MatrixMultiply(data, Doubled) = [i \in DOMAIN data |-> 2 * data[i]]
  /\ SamplesTaken(Len(data)) <= Len(data) /\ Len(data) - SamplesTaken(Len(data)) < procs
  /\ data # <<>> =>
       LET d == ParallelBfs(AsGraph, 1)
       IN d # NoDistances =>
          /\ DOMAIN d = Ball(AsGraph, MaxValue)
          /\ \A v \in DOMAIN d : v \in Ball(AsGraph, d[v]) /\ (d[v] > 0 => v \notin Ball(AsGraph, d[v] - 1))
  /\ \A ranges \in {<<>>, <<<<1, 3>>, <<3, 10>>>>} : RunJob(data, WordMapper, ranges, 3) = Wanted
  /\ data # <<>> => \A batch \in 1..2 : ProcessStream(data, WordMapper, batch, 2) = Wanted
=============================================================================
