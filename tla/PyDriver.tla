------------------------------ MODULE PyDriver ------------------------------
(***************************************************************************)
(* Driver.run and _run_program (python/pycomposer/pycomposer/vm/driver.py):*)
(* one program, the instructions of a pipeline, run by a pool of worker    *)
(* processes.  Driver.get_partitions divides the elements as the C runtime *)
(* does, so the ranges are those of Partition.                             *)
(*                                                                         *)
(* Worker 0 .. workers-1 stands for the call of _worker with that id,      *)
(* whichever process of the pool takes it; a single worker, or the one     *)
(* that gets all the elements when there are fewer of them than workers,   *)
(* runs in the driver's own process.  A piece stands for what the splits   *)
(* make of it and the calls make of that; arrays that calls update in      *)
(* place are in memory the processes share.                                *)
(*                                                                         *)
(* The values of a program are alike: they have one kind, which is what    *)
(* the split types of NumPy and pandas (python/lib) tell apart, and, as    *)
(* Program.elements asserts, one shape.  The items are their rows.         *)
(***************************************************************************)
EXTENDS Partition, Sequences

CONSTANTS
  MaxElements,    \* bounds the rows and the columns of the values
  MaxWorkers,     \* bounds evaluate's workers
  MaxBatchSize,   \* bounds evaluate's batch_size
  MaxTasks        \* bounds the calls of the program

ASSUME BoundsAssumption ==
  /\ MaxElements \in Nat
  /\ MaxWorkers \in Nat \ {0}
  /\ MaxBatchSize \in Nat \ {0}
  /\ MaxTasks \in Nat \ {0}

\* The values: arrays of one dimension, data frames, arrays of two dimensions,
\* those of one column, and constants.
Values == [kind : {"array", "frame", "column"}, rows : 0 .. MaxElements, columns : {1}]
     \cup [kind : {"matrix"}, rows : 0 .. MaxElements, columns : 2 .. MaxElements]
     \cup [kind : {"constant"}, rows : {0}, columns : {0}]

\* What one run finds fixed.  sends: the result is merged and sent back.
Jobs == [value     : Values,
         tasks     : 1 .. MaxTasks,
         workers   : 1 .. MaxWorkers,
         batchSize : 1 .. MaxBatchSize,
         sends     : BOOLEAN]

VARIABLES
  job,        \* the run; never changes
  pc,         \* where each worker is in _run_program
  piece,      \* piece_start and piece_end of each worker
  task,       \* the next call of each worker on its current piece
  context,    \* the pieces each worker has a result of
  calls,      \* how often each call was made on each element (history)
  main,       \* where Driver.run is
  result      \* the partial results it got so far, then their merge

vars == <<job, pc, piece, task, context, calls, main, result>>

kind == job.value.kind

\* elements of the split types: of an array of two dimensions its columns.
Elements == IF kind = "matrix" THEN job.value.columns ELSE job.value.rows

\* get_partitions has no range for most workers of a short value, and raises
\* for the None of a program of constants.
Workers == IF kind = "constant" THEN {}
           ELSE IF HasRange(Elements, job.workers, 1) THEN 0 .. job.workers - 1
           ELSE {0}
Tasks   == 1 .. job.tasks
Items   == 0 .. job.value.rows - 1

RangeOf(w) == ThreadRange(Elements, job.workers, w)

\* split of the split types: rows of the piece, all of an array of one column.
PieceOf(w) == {i \in Items : kind = "column" \/ (piece[w].start <= i /\ i < piece[w].end)}

\* A split beyond the elements answers STOP_ITERATION, as of an array of one
\* dimension, rather than an empty piece.
Stops(w) == kind = "array" /\ piece[w].start >= Elements

Goto(w, place) == pc' = [pc EXCEPT ![w] = place]

Init ==
  /\ job \in Jobs
  /\ pc = [w \in Workers |-> "queued"]
  /\ piece = [w \in Workers |-> [start |-> 0, end |-> 0]]
  /\ task = [w \in Workers |-> 1]
  /\ context = [w \in Workers |-> <<>>]
  /\ calls = [t \in Tasks |-> [i \in Items |-> 0]]
  /\ main = "waiting"
  /\ result = <<>>

-----------------------------------------------------------------------------
(***************************************************************************)
(* _run_program.                                                           *)
(***************************************************************************)

\* A process takes the call of _worker; the first piece is not clamped.
Begin(w) ==
  /\ pc[w] = "queued"
  /\ LET start == RangeOf(w).start
     IN  piece' = [piece EXCEPT ![w] = [start |-> start, end |-> start + job.batchSize]]
  /\ Goto(w, "split")
  /\ UNCHANGED <<job, task, context, calls, main, result>>

\* Mistaken: the calls are counted from 0.
SplitFromZero(w) ==
  /\ pc[w] = "split"
  /\ ~ Stops(w)
  /\ task' = [task EXCEPT ![w] = 0]
  /\ Goto(w, "call")
  /\ UNCHANGED <<job, piece, context, calls, main, result>>

\* The Split instructions of Program.step.
Split(w) ==
  /\ pc[w] = "split"
  /\ ~ Stops(w)
  /\ task' = [task EXCEPT ![w] = 1]
  /\ Goto(w, "call")
  /\ UNCHANGED <<job, piece, context, calls, main, result>>

\* A split answers STOP_ITERATION, and step returns False.
Stop(w) ==
  /\ pc[w] = "split"
  /\ Stops(w)
  /\ Goto(w, "merge")
  /\ UNCHANGED <<job, piece, task, context, calls, main, result>>

\* The next Call instruction of Program.step.
Call(w) ==
  /\ pc[w] = "call" /\ task[w] <= job.tasks
  /\ calls' = [calls EXCEPT ![task[w]] =
       [i \in Items |-> IF i \in PieceOf(w) THEN @[i] + 1 ELSE @[i]]]
  /\ task' = [task EXCEPT ![w] = @ + 1]
  /\ UNCHANGED <<job, pc, piece, context, main, result>>

\* Mistaken: the end of a piece is not clamped.
NextPieceUnclamped(w) ==
  LET start == piece[w].start + job.batchSize
  IN  /\ piece' = [piece EXCEPT ![w] =
           [start |-> start, end |-> @.end + job.batchSize]]
      /\ Goto(w, IF start >= RangeOf(w).end THEN "merge" ELSE "split")

\* The piece after the current one, clamped to the range, if there is one.
NextPiece(w) ==
  LET start == piece[w].start + job.batchSize
      end   == piece[w].end + job.batchSize
  IN  /\ piece' = [piece EXCEPT ![w] =
           [start |-> start, end |-> Lesser(end, RangeOf(w).end)]]
      /\ Goto(w, IF start >= RangeOf(w).end THEN "merge" ELSE "split")

\* Mistaken: the result of the piece is lost.
AdvanceWithoutResult(w) ==
  /\ pc[w] = "call" /\ task[w] > job.tasks
  /\ NextPiece(w)
  /\ UNCHANGED <<job, task, context, calls, main, result>>

\* step returns True: the calls were made, the worker goes on.
Advance(w) ==
  /\ pc[w] = "call" /\ task[w] > job.tasks
  /\ context' = [context EXCEPT ![w] = Append(@, piece[w])]
  /\ NextPiece(w)
  /\ UNCHANGED <<job, task, calls, main, result>>

\* _merge combines the pieces of the result; it sends None for other values.
Merge(w) ==
  /\ pc[w] = "merge"
  /\ job.sends => context[w] # <<>>
  /\ Goto(w, "done")
  /\ UNCHANGED <<job, piece, task, context, calls, main, result>>

\* combine of no pieces raises.
MergeRaises(w) ==
  /\ pc[w] = "merge"
  /\ job.sends /\ context[w] = <<>>
  /\ Goto(w, "raised")
  /\ UNCHANGED <<job, piece, task, context, calls, main, result>>

Worker(w) ==
  \/ Begin(w) \/ Split(w) \/ Stop(w) \/ Call(w) \/ Advance(w)
  \/ Merge(w) \/ MergeRaises(w)

-----------------------------------------------------------------------------
(***************************************************************************)
(* Driver.run.                                                             *)
(***************************************************************************)

\* The worker whose AsyncResult.get() is waited for.
Getting == Len(result)

\* Mistaken: the results are got in the order in which the workers end.
GetAny ==
  /\ main = "waiting"
  /\ Getting \in Workers
  /\ \E w \in Workers :
       pc[w] = "done" /\ result' = Append(result, context[w])
  /\ UNCHANGED <<job, pc, piece, task, context, calls, main>>

Get ==
  /\ main = "waiting"
  /\ Getting \in Workers /\ pc[Getting] = "done"
  /\ result' = Append(result, context[Getting])
  /\ UNCHANGED <<job, pc, piece, task, context, calls, main>>

\* Mistaken: get() raises only if no worker has a result.
GetRaisesForAll ==
  /\ main = "waiting"
  /\ \A w \in Workers : pc[w] = "raised"
  /\ main' = "raised"
  /\ UNCHANGED <<job, pc, piece, task, context, calls, result>>

\* get() raises what the worker raised; nobody stops the other workers.
GetRaises ==
  /\ main = "waiting"
  /\ Getting \in Workers /\ pc[Getting] = "raised"
  /\ main' = "raised"
  /\ UNCHANGED <<job, pc, piece, task, context, calls, result>>

\* Nothing says how many elements there are: get_partitions raises.
Uncountable ==
  /\ main = "waiting" /\ kind = "constant"
  /\ main' = "raised"
  /\ UNCHANGED <<job, pc, piece, task, context, calls, result>>

\* The partial results are merged and the pool is terminated.
Return ==
  /\ main = "waiting" /\ kind # "constant"
  /\ Getting \notin Workers
  /\ main' = "returned"
  /\ UNCHANGED <<job, pc, piece, task, context, calls, result>>

Main == Get \/ GetRaises \/ Uncountable \/ Return

Terminated ==
  /\ main \in {"returned", "raised"}
  /\ \A w \in Workers : pc[w] \in {"done", "raised"}
  /\ UNCHANGED vars

Next == (\E w \in Workers : Worker(w)) \/ Main \/ Terminated

\* Every process of the pool and the driver get to run.
Fairness ==
  /\ \A w \in 0 .. MaxWorkers - 1 : WF_vars(w \in Workers /\ Worker(w))
  /\ WF_vars(Main)

Spec     == Init /\ [][Next]_vars
FairSpec == Spec /\ Fairness

-----------------------------------------------------------------------------
(***************************************************************************)
(* Properties.                                                             *)
(***************************************************************************)

Piece == [start : Nat, end : Nat]

\* The types of the variables.
TypeOK ==
  /\ job \in Jobs
  /\ pc \in [Workers -> {"queued", "split", "call", "merge", "done", "raised"}]
  /\ piece \in [Workers -> Piece]
  /\ task \in [Workers -> Nat \ {0}]
  /\ context \in [Workers -> Seq(Piece)]
  /\ calls \in [Tasks -> [Items -> Nat]]
  /\ main \in {"waiting", "returned", "raised"}
  /\ result \in Seq(Seq(Piece))

\* The pieces are no larger than the ranges.
Fits == job.batchSize <= ThreadElements(Elements, job.workers)

\* The elements count the rows: not of an array with more rows than columns.
Counted == kind = "matrix" => job.value.rows <= job.value.columns

\* No two processes are at work on a row at the same time, if the pieces are no
\* larger than the ranges and the value has more than one column to be split.
NoSharedItem ==
  Fits /\ kind # "column" => \A v, w \in Workers :
    v # w /\ pc[v] = "call" /\ pc[w] = "call" => PieceOf(v) \cap PieceOf(w) = {}

\* What the code says of itself: "Clamp to the range assigned to this thread."
\* No call is made twice on a row.
AtMostOnce ==
  kind # "column" => \A t \in Tasks, i \in Items : calls[t][i] <= 1

\* When Driver.run returns, every call was made on every row, if they count.
Complete ==
  main = "returned" /\ Counted => \A t \in Tasks, i \in Items : calls[t][i] >= 1

\* Driver.run raises only if nothing is to be split, or for a result that is to
\* be merged if some worker was given a range that begins where an array ends.
RaisesOnlyWithoutItems ==
  main = "raised" /\ kind # "constant" =>
    /\ job.sends /\ kind = "array"
    /\ \E w \in Workers : RangeOf(w).start >= job.value.rows

Has(p, i) == p.start <= i /\ i < p.end

\* Element i is in the result, and at a place before one of element j.
Sent(i) ==
  \E k \in DOMAIN result : \E p \in DOMAIN result[k] : Has(result[k][p], i)

Before(i, j) ==
  \E k, l \in DOMAIN result :
    \E p \in DOMAIN result[k], q \in DOMAIN result[l] :
      /\ Has(result[k][p], i) /\ Has(result[l][q], j)
      /\ \/ k < l
         \/ k = l /\ p < q
         \/ k = l /\ p = q /\ i < j

\* The rows a run promises something of: all, if the pieces fit.
PromisedRows == IF Fits /\ Counted /\ kind # "column" THEN job.value.rows ELSE 0
Promised     == 0 .. PromisedRows - 1

\* How often each call was made on them, how the run ended, and what it sends.
\* An exception counts when the processes it does not stop have ended.
PromisedCalls == [t \in Tasks |-> [i \in Promised |-> calls[t][i]]]

Status == IF main = "returned" THEN "done"
          ELSE IF main = "raised" /\ \A w \in Workers : pc[w] \in {"done", "raised"}
          THEN "panicked" ELSE "running"

Output == IF main = "returned" /\ job.sends
          THEN [holds  |-> {i \in Promised : Sent(i)},
                before |-> {pair \in Promised \X Promised : Before(pair[1], pair[2])}]
          ELSE [holds |-> {}, before |-> {}]

\* What a run promises: see ParallelFor.
Promise == INSTANCE ParallelFor WITH
  items  <- PromisedRows,
  tasks  <- job.tasks,
  emits  <- job.sends,
  calls  <- PromisedCalls,
  status <- Status,
  output <- Output

\* The pool of workers does to the elements what one worker would do.
Implements == Promise!Spec

\* Driver.run returns or raises.
Terminates == <>(main # "waiting")

=============================================================================
