------------------------------ MODULE Partition ------------------------------
(***************************************************************************)
(* How TaskManager::thread_range (c/composer/src/runtime/tasks.rs) divides *)
(* the items 0 .. n-1 of one execution among `threads' workers, and how    *)
(* the driver loop of a worker cuts its range into batches, and where the  *)
(* splitters shipped with the runtime have no more of them.                *)
(*                                                                         *)
(* Integers are unbounded here.  The code computes in i64: the largest     *)
(* product, elements * threads, is below n + threads, so it wraps only     *)
(* for item counts within `threads' of 2^63.  n is never negative, so the  *)
(* truncating division of Rust and \div agree.                             *)
(***************************************************************************)
EXTENDS Integers

Lesser(a, b) == IF a <= b THEN a ELSE b

\* Mistaken: the quotient is not rounded up, and the last items are nobody's.
ThreadElementsRoundedDown(n, threads) ==
  IF n \div threads = 0 THEN n ELSE n \div threads

\* The number of items per thread: all of them when there are fewer items
\* than threads, the quotient rounded up otherwise.
ThreadElements(n, threads) ==
  LET quotient == n \div threads
      roundUp  == IF n % threads # 0 THEN 1 ELSE 0
  IN  IF quotient = 0 THEN n ELSE quotient + roundUp

\* thread_range returns Some(range) rather than None: with fewer items than
\* threads, only the thread whose id is 0 gets a range.
HasRange(n, threads, tid) == n \div threads # 0 \/ tid = 0

\* Mistaken: a range includes the first item of the next.
ThreadRangeInclusive(n, threads, tid) ==
  LET elements == ThreadElements(n, threads)
  IN  [start |-> elements * tid,
       end   |-> Lesser(n, elements * (tid + 1) + 1)]

\* The range start..end inside that Some: end is clamped to n, start is not,
\* so the range of a high thread id may be empty or inverted.
ThreadRange(n, threads, tid) ==
  LET elements == ThreadElements(n, threads)
  IN  [start |-> elements * tid,
       end   |-> Lesser(n, elements * (tid + 1))]

\* Item i is one of those the thread called tid has to process.
InRange(n, threads, tid, i) ==
  /\ HasRange(n, threads, tid)
  /\ ThreadRange(n, threads, tid).start <= i
  /\ i < ThreadRange(n, threads, tid).end

\* The size of the batches a worker cuts its range into (negative for an
\* inverted range, as in the code), its first batch, and the batch after cur.
BatchSize(range, taskSize) == Lesser(range.end - range.start, taskSize)

FirstBatch(range, taskSize) ==
  [start |-> range.start,
   end   |-> range.start + BatchSize(range, taskSize)]

NextBatch(range, taskSize, cur) ==
  LET start == cur.start + BatchSize(range, taskSize)
  IN  [start |-> start,
       end   |-> Lesser(range.end, start + BatchSize(range, taskSize))]

\* RegularSplit_next of Intel MKL has an empty piece of n items at their end,
\* WandSplit_next of ImageMagick has none.
RegularSplitFinished(n, start) == n < start
WandSplitFinished(n, start)    == n <= start

\* A splitter answers SplitterFinished for a batch that begins at start.
Finished(splitter, n, start) ==
  IF splitter = "WandSplit" THEN WandSplitFinished(n, start) ELSE RegularSplitFinished(n, start)

=============================================================================
