---------------------------- MODULE AsyncIterators ----------------------------
(***************************************************************************)
(* asyncio_patterns/async_iterators.py.  Those that only pull are operators*)
(* from the source's items to what they yield.  AsyncBatchIterator, whose  *)
(* timeout cancels a pull, and AsyncBufferedIterator, whose producer is a  *)
(* task of its own, are actions; so is the AsyncBatchProcessor of          *)
(* async_producer_consumer.py.                                             *)
(***************************************************************************)
EXTENDS Integers, Sequences, FiniteSets, SequencesExt

CONSTANTS BatchSize, BufferSize,
          MaxItems                \* bound: items 1, 2 ... of the source

VARIABLES source,     (* what the source has yet to yield                    *)
          broken,     (* a cancelled pull, or an error, has ended it         *)
          batch,      (* the batch that is being filled                      *)
          buffer,     (* the buffered iterator's queue                       *)
          finished,
          yielded,    (* history: the items of the batches, or the items     *)
          elapsed,    (* the time of the batch is over                       *)
          calls       (* "pulling", or how the iteration has ended           *)

iterVars == <<source, broken, batch, buffer, finished, yielded, elapsed, calls>>

Stop == 0                                       \* StopAsyncIteration as an item
IterInit ==
  /\ source = [i \in 1..MaxItems |-> i] /\ broken = FALSE
  /\ batch = <<>> /\ buffer = <<>> /\ finished = FALSE
  /\ yielded = <<>> /\ elapsed = FALSE /\ calls = "pulling"

-----------------------------------------------------------------------------
Least(a, b) == IF a < b THEN a ELSE b
ChainIterator(ss) == FoldLeft(LAMBDA a, b : a \o b, <<>>, ss)
FilterIterator(s, passing) == SelectSeq(s, LAMBDA x : x \in passing)
MapIterator(s, f) == [i \in DOMAIN s |-> f[s[i]]]
TakeIterator(s, n) == SubSeq(s, 1, Least(n, Len(s)))
SkipIterator(s, n) == SubSeq(s, n + 1, Len(s))
ZipIterator(s, t) == [i \in 1..Least(Len(s), Len(t)) |-> <<s[i], t[i]>>]
RangeIterator(start, stop, step) ==
  [i \in 1..(IF start < stop THEN (stop - start + step - 1) \div step ELSE 0) |-> start + (i - 1) * step]

(* The buffer of the sliding window: after a window step items leave it, at *)
(* most all of them, and as many are pulled.                                *)
RECURSIVE Windows(_, _, _, _)
Windows(held, s, size, step) ==
  LET filled == held \o TakeIterator(s, size - Len(held))
      rest == SkipIterator(s, size - Len(held))
      need == Least(step, size)
  IN IF Len(filled) < size THEN <<>>
     ELSE <<filled>> \o Windows(SkipIterator(filled, Least(step, Len(filled))) \o TakeIterator(rest, need),
                                SkipIterator(rest, need), size, step)
WindowIterator(s, size, step) == Windows(<<>>, s, size, step)

-----------------------------------------------------------------------------
(* AsyncBatchIterator: fills a batch.  A timeout cancels the pull, which    *)
(* ends the generator that is pulled; an empty batch ends the iteration.    *)
(* When the time is over between two pulls, the batch is cut short and the  *)
(* source goes on (the clock gives time for one pull at least).             *)
YieldBatch(end) ==
  /\ yielded' = yielded \o batch /\ batch' = <<>>
  /\ calls' = IF batch = <<>> THEN end ELSE calls
BatchItem ==
  /\ calls = "pulling" /\ source # <<>> /\ ~ broken /\ Len(batch) < BatchSize
  /\ batch' = Append(batch, Head(source)) /\ source' = Tail(source)
  /\ UNCHANGED <<broken, buffer, finished, yielded, elapsed, calls>>
BatchFull ==
  /\ calls = "pulling" /\ Len(batch) = BatchSize
  /\ YieldBatch("stopped") /\ UNCHANGED <<source, broken, buffer, finished, elapsed>>
BatchEnd ==
  /\ calls = "pulling" /\ (source = <<>> \/ broken) /\ Len(batch) < BatchSize
  /\ YieldBatch("stopped") /\ UNCHANGED <<source, broken, buffer, finished, elapsed>>
BatchTimeout ==
  /\ calls = "pulling" /\ source # <<>> /\ ~ broken /\ Len(batch) < BatchSize
  /\ YieldBatch("timed out") /\ broken' = TRUE
  /\ UNCHANGED <<source, buffer, finished, elapsed>>
BatchBreak ==
  /\ calls = "pulling" /\ 0 < Len(batch) /\ Len(batch) < BatchSize
  /\ YieldBatch("stopped") /\ UNCHANGED <<source, broken, buffer, finished, elapsed>>

BatchNext == BatchItem \/ BatchFull \/ BatchEnd \/ BatchTimeout \/ BatchBreak

-----------------------------------------------------------------------------
(* AsyncBufferedIterator: the producer puts the items, waiting while the    *)
(* queue is full, and then the end, also after an error of the source.      *)
Produce ==
  /\ source # <<>> /\ ~ broken /\ Len(buffer) < BufferSize
  /\ buffer' = Append(buffer, Head(source)) /\ source' = Tail(source)
  /\ UNCHANGED <<broken, batch, finished, yielded, elapsed, calls>>
SourceFails ==
  /\ source # <<>> /\ broken' = TRUE
  /\ UNCHANGED <<source, batch, buffer, finished, yielded, elapsed, calls>>
ProduceEnd ==
  /\ source = <<>> \/ broken
  /\ ~ finished /\ Len(buffer) < BufferSize
  /\ buffer' = Append(buffer, Stop) /\ finished' = TRUE
  /\ UNCHANGED <<source, broken, batch, yielded, elapsed, calls>>
Consume ==
  /\ calls = "pulling" /\ buffer # <<>>
  /\ buffer' = Tail(buffer)
  /\ IF Head(buffer) = Stop THEN calls' = "stopped" /\ UNCHANGED yielded
                            ELSE yielded' = Append(yielded, Head(buffer)) /\ UNCHANGED calls
  /\ UNCHANGED <<source, broken, batch, finished, elapsed>>
(* Nothing came for a second: the caller gets a TimeoutError and may go on. *)
ConsumeTimeout ==
  /\ calls = "pulling" /\ buffer = <<>> /\ calls' = "timed out"
  /\ UNCHANGED <<source, broken, batch, buffer, finished, yielded, elapsed>>
PullAgain ==
  /\ calls = "timed out" /\ calls' = "pulling"
  /\ UNCHANGED <<source, broken, batch, buffer, finished, yielded, elapsed>>

BufferedNext == Produce \/ SourceFails \/ ProduceEnd \/ Consume \/ ConsumeTimeout \/ PullAgain

-----------------------------------------------------------------------------
(* AsyncBatchProcessor: the time of a batch counts from the last batch that *)
(* was processed, also while there was nothing to do.  A batch whose        *)
(* processing raises is kept and processed again, which changes nothing.    *)
AddItem ==
  /\ source # <<>>
  /\ buffer' = Append(buffer, Head(source)) /\ source' = Tail(source)
  /\ UNCHANGED <<broken, batch, finished, yielded, elapsed, calls>>
Elapse ==
  /\ ~ elapsed /\ elapsed' = TRUE
  /\ UNCHANGED <<source, broken, batch, buffer, finished, yielded, calls>>
FillBatch ==
  /\ calls = "pulling" /\ ~ elapsed /\ Len(batch) < BatchSize /\ buffer # <<>>
  /\ batch' = Append(batch, Head(buffer)) /\ buffer' = Tail(buffer)
  /\ UNCHANGED <<source, broken, finished, yielded, elapsed, calls>>
ProcessBatch ==
  /\ calls = "pulling" /\ (elapsed \/ Len(batch) = BatchSize) /\ batch # <<>>
  /\ yielded' = yielded \o batch /\ batch' = <<>> /\ elapsed' = FALSE
  /\ UNCHANGED <<source, broken, buffer, finished, calls>>
StopProcessing ==            \* seen when the batch has been processed
  /\ calls = "pulling" /\ batch = <<>> /\ calls' = "ended"
  /\ UNCHANGED <<source, broken, batch, buffer, finished, yielded, elapsed>>

ProcessorNext == AddItem \/ Elapse \/ FillBatch \/ ProcessBatch \/ StopProcessing

-----------------------------------------------------------------------------
(* Items come out once and in order; an iteration that says it is at its    *)
(* end without a timeout or an error has yielded all of them.               *)
IteratesInOrder ==
  /\ yielded \o batch \o SelectSeq(buffer, LAMBDA x : x # Stop) \o source = [i \in 1..MaxItems |-> i]
  /\ (calls = "stopped" /\ ~ broken) => Len(yielded) = MaxItems

(* The operators against their references, on all short inputs.             *)
IteratorsRight(s) ==
  /\ \A n \in 0..4 : TakeIterator(s, n) \o SkipIterator(s, n) = s
  /\ \A size, step \in 1..3 :
       LET by == Least(step, size)
           starts == {i \in 1..Len(s) : i % by = 1 % by /\ i + size - 1 <= Len(s)}
           windows == WindowIterator(s, size, step)
       IN /\ Len(windows) = Cardinality(starts)
          /\ \A k \in DOMAIN windows : windows[k] = SubSeq(s, (k - 1) * by + 1, (k - 1) * by + size)
  /\ ChainIterator(<<s, s>>) = s \o s
  /\ \A n \in Range(s) :
       LET low == FilterIterator(s, 0..n) high == FilterIterator(s, Range(s) \ 0..n)
       IN /\ Len(low) + Len(high) = Len(s)
          /\ \A x \in {e[1] : e \in Range(ZipIterator(low, high))} : x <= n
  /\ LET parity == [x \in Range(s) |-> x % 2]
     IN \A n \in 0..4 : TakeIterator(MapIterator(s, parity), n) = MapIterator(TakeIterator(s, n), parity)
  /\ \A n \in 0..5, step \in 1..3 : LET r == RangeIterator(1, n, step)
                                    IN Range(r) = {k \in 1..(n - 1) : (k - 1) % step = 0}
=============================================================================
