--------------------------- MODULE PyDriverProofs ---------------------------
(***************************************************************************)
(* Theorems about PyDriver, for every value, number of workers, batch size *)
(* and number of calls: what a worker has done follows from its piece.     *)
(***************************************************************************)
EXTENDS PyDriver, PartitionProofs, SequenceTheorems, TLAPS

-----------------------------------------------------------------------------
(***************************************************************************)
(* The run and its ranges.                                                 *)
(***************************************************************************)

LEMMA JobFacts ==
  ASSUME job \in Jobs
  PROVE  /\ Elements \in Nat /\ job.value.rows \in Nat /\ job.value.columns \in Nat
         /\ job.tasks \in Nat \ {0} /\ job.workers \in Nat \ {0} /\ job.batchSize \in Nat \ {0}
         /\ job.sends \in BOOLEAN
         /\ kind # "matrix" => Elements = job.value.rows
         /\ Counted => job.value.rows <= Elements
<1>1. /\ job.value \in Values /\ job.tasks \in 1 .. MaxTasks /\ job.workers \in 1 .. MaxWorkers
      /\ job.batchSize \in 1 .. MaxBatchSize /\ job.sends \in BOOLEAN
  BY DEF Jobs
<1>2. job.value.rows \in Nat /\ job.value.columns \in Nat
  BY <1>1, BoundsAssumption DEF Values
<1>3. Elements \in Nat
  BY <1>2 DEF Elements
<1> QED BY <1>1, <1>2, <1>3, BoundsAssumption DEF Elements, Counted

\* The elements of a range, and how many a worker has at most.
PerWorker == ThreadElements(Elements, job.workers)

LEMMA RangeFacts ==
  ASSUME job \in Jobs, NEW w \in Workers
  PROVE  /\ w \in Nat /\ w < job.workers /\ PerWorker \in Nat /\ kind # "constant"
         /\ RangeOf(w).start \in Nat /\ RangeOf(w).end \in Nat
         /\ RangeOf(w).start = PerWorker * w
         /\ RangeOf(w).end = Lesser(Elements, PerWorker * (w + 1))
         /\ PerWorker * (w + 1) = RangeOf(w).start + PerWorker
         /\ RangeOf(w).end <= Elements /\ RangeOf(w).end <= RangeOf(w).start + PerWorker
<1>1. Elements \in Nat /\ job.workers \in Nat \ {0}
  BY JobFacts
<1>2. w \in Nat /\ w < job.workers /\ kind # "constant"
  BY <1>1 DEF Workers
<1>3. PerWorker \in Nat
  BY <1>1, ThreadElementsEnough DEF PerWorker
<1>4. /\ RangeOf(w).start = PerWorker * w
      /\ RangeOf(w).end = Lesser(Elements, PerWorker * (w + 1))
  BY DEF RangeOf, ThreadRange, PerWorker
<1>5. RangeOf(w) \in [start : Nat, end : Nat] /\ RangeOf(w).end <= Elements
  BY <1>1, <1>2, ThreadRangeType DEF RangeOf
<1>6. PerWorker * (w + 1) = PerWorker * w + PerWorker /\ PerWorker * w \in Nat
  BY <1>2, <1>3
<1> QED BY <1>1, <1>2, <1>3, <1>4, <1>5, <1>6 DEF Lesser

\* The ranges of workers, as if they were not clamped, are one after another.
LEMMA RangesApart ==
  ASSUME job \in Jobs, NEW v \in Workers, NEW w \in Workers, v < w
  PROVE  RangeOf(v).start + PerWorker <= RangeOf(w).start
<1>1. v \in Nat /\ w \in Nat /\ PerWorker \in Nat /\ v + 1 <= w /\ v + 1 \in Nat
  BY RangeFacts
<1>2. PerWorker * (v + 1) <= PerWorker * w
  BY <1>1, ProductMonotone
<1> QED BY <1>2, RangeFacts

\* A number that follows those of some workers is of a worker or follows all.
LEMMA WorkersAre ==
  ASSUME job \in Jobs, NEW n \in Nat, n \notin Workers, kind # "constant"
  PROVE  \A w \in Workers : w < n
<1>1. job.workers \in Nat \ {0}
  BY JobFacts
<1>2. Workers = 0 .. job.workers - 1 \/ Workers = {0}
  BY DEF Workers
<1> QED BY <1>1, <1>2

\* Every row that counts is in the range of a worker.
LEMMA RowOwned ==
  ASSUME job \in Jobs, Counted, kind # "constant", NEW i \in Items
  PROVE  \E w \in Workers : RangeOf(w).start <= i /\ i < RangeOf(w).end
<1>1. Elements \in Nat /\ job.workers \in Nat \ {0} /\ i \in 0 .. Elements - 1
  BY JobFacts DEF Items
<1>2. PICK w \in 0 .. job.workers - 1 : InRange(Elements, job.workers, w, i)
  BY <1>1, RangesCover
<1>3. w \in Workers
  BY <1>1, <1>2 DEF InRange, HasRange, Workers
<1> QED BY <1>2, <1>3 DEF InRange, RangeOf

\* The run never changes, nor what is defined by it.
LEMMA JobStays ==
  ASSUME job' = job
  PROVE  /\ Workers' = Workers /\ Items' = Items /\ Tasks' = Tasks /\ kind' = kind
         /\ Elements' = Elements /\ PerWorker' = PerWorker /\ Fits' = Fits /\ Counted' = Counted
         /\ \A w : RangeOf(w)' = RangeOf(w)
  BY DEF Workers, Items, Tasks, kind, Elements, PerWorker, Fits, Counted, RangeOf

-----------------------------------------------------------------------------
(***************************************************************************)
(* Types.                                                                  *)
(***************************************************************************)

LEMMA NextPieceFacts ==
  ASSUME TypeOK, NEW w \in Workers, NextPiece(w)
  PROVE  LET start == piece[w].start + job.batchSize
             end   == Lesser(piece[w].end + job.batchSize, RangeOf(w).end)
         IN  /\ start \in Nat /\ end \in Nat
             /\ piece' = [piece EXCEPT ![w] = [start |-> start, end |-> end]]
             /\ piece' \in [Workers -> Piece]
             /\ pc' = [pc EXCEPT ![w] = IF start >= RangeOf(w).end THEN "merge" ELSE "split"]
<1>1. /\ piece \in [Workers -> Piece] /\ job.batchSize \in Nat /\ RangeOf(w).end \in Nat
  BY JobFacts, RangeFacts DEF TypeOK
<1>2. piece[w].start \in Nat /\ piece[w].end \in Nat
  BY <1>1 DEF Piece
<1> DEFINE start == piece[w].start + job.batchSize
           end   == Lesser(piece[w].end + job.batchSize, RangeOf(w).end)
<1>3. start \in Nat /\ end \in Nat
  BY <1>1, <1>2 DEF Lesser
<1>4. [start |-> start, end |-> end] \in Piece
  BY <1>3 DEF Piece
<1>5. /\ piece' = [piece EXCEPT ![w] = [start |-> start, end |-> end]]
      /\ pc' = [pc EXCEPT ![w] = IF start >= RangeOf(w).end THEN "merge" ELSE "split"]
  BY DEF NextPiece, Goto
<1> HIDE DEF start, end
<1>6. piece' \in [Workers -> Piece]
  BY <1>1, <1>4, <1>5
<1> QED BY <1>3, <1>5, <1>6 DEF start, end

LEMMA CallFacts ==
  ASSUME TypeOK, NEW w \in Workers, Call(w)
  PROVE  /\ calls' \in [Tasks -> [Items -> Nat]]
         /\ \A t \in Tasks, i \in Items :
              calls'[t][i] = IF t = task[w] /\ i \in PieceOf(w) THEN calls[t][i] + 1
                             ELSE calls[t][i]
<1>1. task[w] \in Tasks
  BY JobFacts DEF Call, TypeOK, Tasks
<1>2. calls \in [Tasks -> [Items -> Nat]]
  BY DEF TypeOK
<1> DEFINE row == [i \in Items |-> IF i \in PieceOf(w) THEN calls[task[w]][i] + 1
                                  ELSE calls[task[w]][i]]
<1>3. row \in [Items -> Nat]
  BY <1>1, <1>2
<1>4. calls' = [calls EXCEPT ![task[w]] = row]
  BY DEF Call
<1>5. \A i \in Items : row[i] = IF i \in PieceOf(w) THEN calls[task[w]][i] + 1
                                ELSE calls[task[w]][i]
  OBVIOUS
<1> HIDE DEF row
<1> QED BY <1>1, <1>2, <1>3, <1>4, <1>5

\* A step keeps the types if it keeps the run and what it assigns has its type.
LEMMA TypeStays ==
  ASSUME TypeOK, job' = job,
         pc' \in [Workers -> {"queued", "split", "call", "merge", "done", "raised"}],
         piece' \in [Workers -> Piece],
         task' \in [Workers -> Nat \ {0}],
         context' \in [Workers -> Seq(Piece)],
         calls' \in [Tasks -> [Items -> Nat]],
         main' \in {"waiting", "returned", "raised"},
         result' \in Seq(Seq(Piece))
  PROVE  TypeOK'
BY JobStays DEF TypeOK

\* The variables keep their types.
THEOREM TypeCorrect == Spec => []TypeOK
<1>1. Init => TypeOK
  BY JobFacts DEF Init, TypeOK, Piece, Tasks
<1>2. TypeOK /\ [Next]_vars => TypeOK'
  <2> SUFFICES ASSUME TypeOK, [Next]_vars PROVE TypeOK'
    OBVIOUS
  <2>0. /\ pc \in [Workers -> {"queued", "split", "call", "merge", "done", "raised"}]
        /\ piece \in [Workers -> Piece] /\ task \in [Workers -> Nat \ {0}]
        /\ context \in [Workers -> Seq(Piece)] /\ calls \in [Tasks -> [Items -> Nat]]
        /\ main \in {"waiting", "returned", "raised"} /\ result \in Seq(Seq(Piece))
    BY DEF TypeOK
  <2>1. ASSUME NEW w \in Workers, Begin(w) PROVE TypeOK'
    <3>1. RangeOf(w).start \in Nat /\ job.batchSize \in Nat
      BY RangeFacts, JobFacts DEF TypeOK
    <3>2. [start |-> RangeOf(w).start, end |-> RangeOf(w).start + job.batchSize] \in Piece
      BY <3>1 DEF Piece
    <3>3. piece' \in [Workers -> Piece]
      BY <2>0, <2>1, <3>2 DEF Begin
    <3> QED BY <2>0, <2>1, <3>3, TypeStays DEF Begin, Goto
  <2>2. ASSUME NEW w \in Workers, Split(w) \/ Stop(w) \/ Merge(w) \/ MergeRaises(w) PROVE TypeOK'
    <3>1. pc' \in [Workers -> {"queued", "split", "call", "merge", "done", "raised"}]
      BY <2>0, <2>2 DEF Split, Stop, Merge, MergeRaises, Goto
    <3>3. task' \in [Workers -> Nat \ {0}]
      <4>1. task' = [task EXCEPT ![w] = 1] \/ task' = task
        BY <2>2 DEF Split, Stop, Merge, MergeRaises
      <4> QED BY <2>0, <4>1
    <3>2. UNCHANGED <<job, piece, context, calls, main, result>>
      BY <2>2 DEF Split, Stop, Merge, MergeRaises
    <3> QED BY <2>0, <3>1, <3>2, <3>3, TypeStays
  <2>3. ASSUME NEW w \in Workers, Call(w) PROVE TypeOK'
    <3>1. calls' \in [Tasks -> [Items -> Nat]]
      BY <2>3, CallFacts
    <3>2. task' \in [Workers -> Nat \ {0}]
      BY <2>0, <2>3 DEF Call
    <3> QED BY <2>0, <2>3, <3>1, <3>2, TypeStays DEF Call
  <2>4. ASSUME NEW w \in Workers, Advance(w) PROVE TypeOK'
    <3>1. Append(context[w], piece[w]) \in Seq(Piece)
      BY <2>0
    <3>2. context' \in [Workers -> Seq(Piece)]
      BY <2>0, <2>4, <3>1 DEF Advance
    <3>3. piece' \in [Workers -> Piece]
      BY <2>4, NextPieceFacts DEF Advance
    <3>4. pc' \in [Workers -> {"queued", "split", "call", "merge", "done", "raised"}]
      BY <2>0, <2>4 DEF Advance, NextPiece, Goto
    <3> QED BY <2>0, <2>4, <3>2, <3>3, <3>4, TypeStays DEF Advance
  <2>5. CASE Get
    <3>1. result' \in Seq(Seq(Piece))
      BY <2>0, <2>5 DEF Get
    <3> QED BY <2>0, <2>5, <3>1, TypeStays DEF Get
  <2>6. CASE GetRaises \/ Uncountable \/ Return \/ UNCHANGED vars
    BY <2>0, <2>6, TypeStays DEF GetRaises, Uncountable, Return, vars
  <2> QED BY <2>1, <2>2, <2>3, <2>4, <2>5, <2>6 DEF Next, Worker, Main, Terminated
<1> QED BY <1>1, <1>2, PTL DEF Spec

-----------------------------------------------------------------------------
(***************************************************************************)
(* What a step of a worker does, and to whom.                              *)
(***************************************************************************)

Starts(w) == /\ pc[w] = "queued" /\ pc'[w] = "split"
             /\ piece'[w].start = RangeOf(w).start
             /\ piece'[w].end = RangeOf(w).start + job.batchSize
             /\ context'[w] = context[w] /\ calls' = calls

Splits(w) == /\ pc[w] = "split" /\ pc'[w] = "call" /\ task'[w] = 1
             /\ piece' = piece /\ context' = context /\ calls' = calls

Applies(w) == /\ pc[w] = "call" /\ pc' = pc /\ task'[w] = task[w] + 1
              /\ task[w] <= job.tasks /\ piece' = piece /\ context' = context
              /\ \A t \in Tasks, i \in Items :
                   calls'[t][i] = IF t = task[w] /\ i \in PieceOf(w) THEN calls[t][i] + 1
                                  ELSE calls[t][i]

Advances(w) ==
  /\ pc[w] = "call" /\ task[w] > job.tasks
  /\ pc'[w] = IF piece[w].start + job.batchSize >= RangeOf(w).end THEN "merge" ELSE "split"
  /\ piece'[w].start = piece[w].start + job.batchSize
  /\ piece'[w].end = Lesser(piece[w].end + job.batchSize, RangeOf(w).end)
  /\ context'[w] = Append(context[w], piece[w]) /\ context'[w] # <<>> /\ calls' = calls

Ends(w) == /\ \/ pc[w] = "split" /\ Stops(w) /\ pc'[w] = "merge"
              \/ pc[w] = "merge" /\ pc'[w] = "done"
              \/ pc[w] = "merge" /\ pc'[w] = "raised" /\ job.sends /\ context[w] = <<>>
           /\ piece' = piece /\ context' = context /\ calls' = calls

LEMMA WorkerStep ==
  ASSUME TypeOK, NEW w \in Workers, Worker(w)
  PROVE  /\ job' = job /\ main' = main /\ result' = result
         /\ Starts(w) \/ Splits(w) \/ Applies(w) \/ Advances(w) \/ Ends(w)
         /\ \A v \in Workers \ {w} : /\ pc'[v] = pc[v] /\ piece'[v] = piece[v]
                                     /\ task'[v] = task[v] /\ context'[v] = context[v]
<1>0. /\ pc \in [Workers -> {"queued", "split", "call", "merge", "done", "raised"}]
      /\ piece \in [Workers -> Piece] /\ task \in [Workers -> Nat \ {0}]
      /\ context \in [Workers -> Seq(Piece)]
  BY DEF TypeOK
<1>1. CASE Begin(w)
  <2>1. /\ piece' = [piece EXCEPT ![w] = [start |-> RangeOf(w).start,
                                          end |-> RangeOf(w).start + job.batchSize]]
        /\ pc' = [pc EXCEPT ![w] = "split"] /\ pc[w] = "queued"
    BY <1>1 DEF Begin, Goto
  <2>2. UNCHANGED <<job, task, context, calls, main, result>>
    BY <1>1 DEF Begin
  <2> QED BY <1>0, <2>1, <2>2 DEF Starts
<1>2. CASE Split(w)
  BY <1>0, <1>2 DEF Split, Goto, Splits
<1>3. CASE Call(w)
  <2>1. /\ task' = [task EXCEPT ![w] = task[w] + 1] /\ task[w] <= job.tasks /\ pc[w] = "call"
        /\ UNCHANGED <<job, pc, piece, context, main, result>>
    BY <1>3 DEF Call
  <2>2. \A t \in Tasks, i \in Items :
          calls'[t][i] = IF t = task[w] /\ i \in PieceOf(w) THEN calls[t][i] + 1
                         ELSE calls[t][i]
    BY <1>3, CallFacts
  <2> QED BY <1>0, <2>1, <2>2 DEF Applies
<1>4. CASE Advance(w)
  <2> DEFINE start == piece[w].start + job.batchSize
             end   == Lesser(piece[w].end + job.batchSize, RangeOf(w).end)
  <2>1. /\ piece' = [piece EXCEPT ![w] = [start |-> start, end |-> end]]
        /\ pc' = [pc EXCEPT ![w] = IF start >= RangeOf(w).end THEN "merge" ELSE "split"]
    BY <1>4, NextPieceFacts DEF Advance
  <2>2. /\ context' = [context EXCEPT ![w] = Append(context[w], piece[w])]
        /\ pc[w] = "call" /\ task[w] > job.tasks
        /\ UNCHANGED <<job, task, calls, main, result>>
    BY <1>4 DEF Advance
  <2>3. Append(context[w], piece[w]) # <<>>
    <3>1. context[w] \in Seq(Piece) /\ piece[w] \in Piece
      BY <1>0
    <3> QED BY <3>1, AppendProperties
  <2> HIDE DEF start, end
  <2>4. /\ piece'[w].start = start /\ piece'[w].end = end
        /\ pc'[w] = IF start >= RangeOf(w).end THEN "merge" ELSE "split"
        /\ context'[w] = Append(context[w], piece[w]) /\ context'[w] # <<>>
        /\ \A v \in Workers \ {w} : /\ pc'[v] = pc[v] /\ piece'[v] = piece[v]
                                    /\ context'[v] = context[v]
    BY <1>0, <2>1, <2>2, <2>3
  <2> QED BY <2>2, <2>4 DEF Advances, start, end
<1>5. CASE Stop(w)
  BY <1>0, <1>5 DEF Stop, Goto, Ends
<1>6. CASE Merge(w)
  BY <1>0, <1>6 DEF Merge, Goto, Ends
<1>7. CASE MergeRaises(w)
  <2>1. /\ pc' = [pc EXCEPT ![w] = "raised"] /\ pc[w] = "merge" /\ job.sends /\ context[w] = <<>>
        /\ UNCHANGED <<job, piece, task, context, calls, main, result>>
    BY <1>7 DEF MergeRaises, Goto
  <2>2. pc'[w] = "raised" /\ \A v \in Workers \ {w} : pc'[v] = pc[v]
    BY <1>0, <2>1
  <2> QED BY <2>1, <2>2 DEF Ends
<1> QED BY <1>1, <1>2, <1>3, <1>4, <1>5, <1>6, <1>7 DEF Worker

-----------------------------------------------------------------------------
(***************************************************************************)
(* The pieces of a worker are in its range, or in what its range would be  *)
(* were it not clamped; a worker ends behind its range.                    *)
(***************************************************************************)

\* A piece begins in the range, or where an empty range does, and has the size
\* of a batch or ends with the range.
PieceAt(w) ==
  pc[w] \in {"split", "call"} =>
    LET size == piece[w].end - piece[w].start
    IN  /\ RangeOf(w).start <= piece[w].start
        /\ size = job.batchSize \/ (piece[w].end = RangeOf(w).end /\ size < job.batchSize)
        /\ piece[w].end <= RangeOf(w).start + job.batchSize \/ piece[w].end <= RangeOf(w).end

\* A worker that has ended has passed its range.
Passed(w) ==
  pc[w] \in {"merge", "done", "raised"} => piece[w].start >= RangeOf(w).end

\* A worker without a result is at its first piece; it has ended only if that
\* was beyond an array.
FirstPiece(w) ==
  /\ context[w] = <<>> /\ pc[w] # "queued" => piece[w].start = RangeOf(w).start
  /\ context[w] = <<>> /\ pc[w] \in {"merge", "done", "raised"} =>
       kind = "array" /\ piece[w].start >= Elements
  /\ pc[w] = "raised" => job.sends /\ context[w] = <<>>

\* Driver.run has got the results of the first workers, returns after it has got
\* all of them, and raises what a worker raised.
Joined ==
  /\ \A w \in Workers : w < Len(result) => pc[w] = "done"
  /\ main = "returned" =>
       kind # "constant" /\ \A w \in Workers : w < Len(result) /\ pc[w] = "done"
  /\ main = "raised" /\ kind # "constant" => \E w \in Workers : pc[w] = "raised"

WorkerInv(w) == PieceAt(w) /\ Passed(w) /\ FirstPiece(w)

PlaceInv == TypeOK /\ (\A w \in Workers : WorkerInv(w)) /\ Joined

LEMMA OwnWorkerInv ==
  ASSUME TypeOK, NEW w \in Workers, WorkerInv(w), Worker(w)
  PROVE  WorkerInv(w)'
<1>1. job' = job /\ (Starts(w) \/ Splits(w) \/ Applies(w) \/ Advances(w) \/ Ends(w))
  BY WorkerStep
<1>2. /\ RangeOf(w)' = RangeOf(w) /\ kind' = kind /\ Elements' = Elements
      /\ job'.batchSize = job.batchSize /\ job'.sends = job.sends
  BY <1>1, JobStays
<1>3. /\ RangeOf(w).start \in Nat /\ RangeOf(w).end \in Nat /\ RangeOf(w).end <= Elements
      /\ job.batchSize \in Nat \ {0} /\ Elements \in Nat
  BY RangeFacts, JobFacts DEF TypeOK
<1>4. /\ piece[w].start \in Nat /\ piece[w].end \in Nat
      /\ pc[w] \in {"queued", "split", "call", "merge", "done", "raised"}
  BY DEF TypeOK, Piece
<1>5. CASE Starts(w)
  <2>1. context[w] = <<>> => context'[w] = <<>>
    BY <1>5 DEF Starts
  <2>2. pc'[w] = "split" /\ piece'[w].start = RangeOf(w).start
        /\ piece'[w].end = RangeOf(w).start + job.batchSize
    BY <1>5 DEF Starts
  <2> QED BY <1>2, <1>3, <2>2 DEF WorkerInv, PieceAt, Passed, FirstPiece
<1>6. CASE Splits(w)
  BY <1>2, <1>3, <1>4, <1>6 DEF Splits, WorkerInv, PieceAt, Passed, FirstPiece
<1>7. CASE Applies(w)
  BY <1>2, <1>3, <1>4, <1>7 DEF Applies, WorkerInv, PieceAt, Passed, FirstPiece
<1>8. CASE Advances(w)
  <2>1. /\ piece'[w].start = piece[w].start + job.batchSize
        /\ piece'[w].end = Lesser(piece[w].end + job.batchSize, RangeOf(w).end)
        /\ pc'[w] = IF piece'[w].start >= RangeOf(w).end THEN "merge" ELSE "split"
        /\ context'[w] # <<>> /\ pc[w] = "call"
    BY <1>8 DEF Advances
  <2>2. Passed(w)' /\ FirstPiece(w)'
    BY <1>2, <1>3, <2>1 DEF Passed, FirstPiece
  <2>3. PieceAt(w)
    BY DEF WorkerInv
  <2>4. PieceAt(w)'
    <3> SUFFICES ASSUME piece'[w].start < RangeOf(w).end PROVE PieceAt(w)'
      BY <1>2, <1>3, <1>4, <2>1 DEF PieceAt
    <3>1. /\ RangeOf(w).start <= piece[w].start
          /\ piece[w].end = piece[w].start + job.batchSize
      BY <1>3, <1>4, <2>1, <2>3 DEF PieceAt
    <3>2. /\ piece'[w].start \in Nat /\ piece'[w].end \in Nat
          /\ RangeOf(w).start <= piece'[w].start
          /\ \/ piece'[w].end = piece'[w].start + job.batchSize
                /\ piece'[w].end <= RangeOf(w).end
             \/ piece'[w].end = RangeOf(w).end
                /\ piece'[w].end < piece'[w].start + job.batchSize
      BY <1>3, <1>4, <2>1, <3>1 DEF Lesser
    <3> QED BY <1>2, <1>3, <3>2 DEF PieceAt
  <2> QED BY <2>2, <2>4 DEF WorkerInv
<1>9. CASE Ends(w)
  <2>1. PieceAt(w)'
    BY <1>9 DEF Ends, PieceAt
  <2>2. Passed(w)'
    BY <1>2, <1>3, <1>4, <1>9 DEF Ends, WorkerInv, Passed, Stops
  <2>3. FirstPiece(w)'
    BY <1>2, <1>3, <1>4, <1>9 DEF Ends, WorkerInv, FirstPiece, Stops
  <2> QED BY <2>1, <2>2, <2>3 DEF WorkerInv
<1> QED BY <1>1, <1>5, <1>6, <1>7, <1>8, <1>9

LEMMA OtherWorkerInv ==
  ASSUME TypeOK, NEW w \in Workers, WorkerInv(w), job' = job,
         pc'[w] = pc[w], piece'[w] = piece[w], context'[w] = context[w]
  PROVE  WorkerInv(w)'
<1>1. RangeOf(w)' = RangeOf(w) /\ kind' = kind /\ Elements' = Elements
  BY JobStays
<1> QED BY <1>1 DEF WorkerInv, PieceAt, Passed, FirstPiece

\* No worker leaves the place where Driver.run gets its result or exception.
LEMMA JoinedStays ==
  ASSUME TypeOK, Joined, NEW w \in Workers, Worker(w)
  PROVE  Joined'
<1>1. /\ job' = job /\ main' = main /\ result' = result
      /\ Starts(w) \/ Splits(w) \/ Applies(w) \/ Advances(w) \/ Ends(w)
      /\ \A v \in Workers \ {w} : pc'[v] = pc[v]
  BY WorkerStep
<1>2. pc[w] \notin {"done", "raised"}
  BY <1>1 DEF Starts, Splits, Applies, Advances, Ends
<1>3. \A v \in Workers : pc[v] \in {"done", "raised"} => pc'[v] = pc[v]
  BY <1>1, <1>2
<1>4. Workers' = Workers /\ kind' = kind
  BY <1>1, JobStays
<1> QED BY <1>1, <1>3, <1>4 DEF Joined

\* The invariant holds of every reachable state.
LEMMA PlaceInvariant == Spec => []PlaceInv
<1>1. Init => PlaceInv
  <2> SUFFICES ASSUME Init PROVE PlaceInv
    OBVIOUS
  <2>1. TypeOK
    BY JobFacts DEF Init, TypeOK, Piece, Tasks
  <2>2. Joined
    <3>1. Len(result) = 0 /\ main = "waiting"
      BY DEF Init
    <3>2. \A w \in Workers : w >= 0
      BY <2>1, RangeFacts DEF TypeOK
    <3> QED BY <3>1, <3>2, <2>1, RangeFacts DEF Joined, TypeOK
  <2>3. ASSUME NEW w \in Workers PROVE WorkerInv(w)
    BY DEF Init, WorkerInv, PieceAt, Passed, FirstPiece
  <2> QED BY <2>1, <2>2, <2>3 DEF PlaceInv
<1>2. PlaceInv /\ TypeOK' /\ [Next]_vars => PlaceInv'
  <2> SUFFICES ASSUME PlaceInv, TypeOK', [Next]_vars PROVE PlaceInv'
    OBVIOUS
  <2>0. TypeOK /\ Joined /\ \A w \in Workers : WorkerInv(w)
    BY DEF PlaceInv
  <2>1. ASSUME NEW w \in Workers, Worker(w) PROVE PlaceInv'
    <3>1. job' = job /\ \A v \in Workers \ {w} : /\ pc'[v] = pc[v] /\ piece'[v] = piece[v]
                                                 /\ context'[v] = context[v]
      BY <2>0, <2>1, WorkerStep
    <3>2. \A v \in Workers : WorkerInv(v)'
      <4> SUFFICES ASSUME NEW v \in Workers PROVE WorkerInv(v)'
        OBVIOUS
      <4>1. CASE v = w
        BY <2>0, <2>1, <4>1, OwnWorkerInv
      <4>2. CASE v # w
        BY <2>0, <3>1, <4>2, OtherWorkerInv
      <4> QED BY <4>1, <4>2
    <3>3. Workers' = Workers
      BY <3>1, JobStays
    <3>4. Joined'
      BY <2>0, <2>1, JoinedStays
    <3> QED BY <3>2, <3>3, <3>4 DEF PlaceInv
  <2>2. ASSUME UNCHANGED <<job, pc, piece, context>> PROVE \A w \in Workers' : WorkerInv(w)'
    <3>1. Workers' = Workers
      BY <2>2, JobStays
    <3> SUFFICES ASSUME NEW w \in Workers PROVE WorkerInv(w)'
      BY <3>1
    <3> QED BY <2>0, <2>2, OtherWorkerInv
  <2>3. ASSUME UNCHANGED <<job, pc>> PROVE Workers' = Workers /\ kind' = kind
    BY <2>3, JobStays
  <2>4. CASE Get
    <3>1. Len(result') = Len(result) + 1 /\ Len(result) \in Nat /\ pc[Len(result)] = "done"
      BY <2>0, <2>4 DEF Get, TypeOK, Getting
    <3>2. \A w \in Workers : w \in Nat
      BY <2>0, RangeFacts DEF TypeOK
    <3>3. \A w \in Workers : w < Len(result') => w < Len(result) \/ w = Len(result)
      BY <3>1, <3>2
    <3>4. UNCHANGED <<job, pc, piece, context, main>> /\ main = "waiting"
      BY <2>4 DEF Get
    <3>5. Joined'
      BY <2>0, <2>3, <3>1, <3>3, <3>4 DEF Joined
    <3> QED BY <2>2, <3>4, <3>5 DEF PlaceInv
  <2>5. CASE GetRaises
    <3>1. UNCHANGED <<job, pc, piece, context, result>> /\ main' = "raised"
          /\ Getting \in Workers /\ pc[Getting] = "raised"
      BY <2>5 DEF GetRaises
    <3>2. Joined'
      BY <2>0, <2>3, <3>1 DEF Joined
    <3> QED BY <2>2, <3>1, <3>2 DEF PlaceInv
  <2>6. CASE Uncountable
    <3>1. UNCHANGED <<job, pc, piece, context, result>> /\ main' = "raised" /\ kind = "constant"
      BY <2>6 DEF Uncountable
    <3>2. Joined'
      BY <2>0, <2>3, <3>1 DEF Joined
    <3> QED BY <2>2, <3>1, <3>2 DEF PlaceInv
  <2>7. CASE Return
    <3>1. UNCHANGED <<job, pc, piece, context, result>> /\ main' = "returned"
          /\ kind # "constant" /\ Len(result) \notin Workers
      BY <2>7 DEF Return, Getting
    <3>2. \A w \in Workers : w < Len(result)
      BY <2>0, <3>1, WorkersAre DEF TypeOK
    <3>3. Joined'
      BY <2>0, <2>3, <3>1, <3>2 DEF Joined
    <3> QED BY <2>2, <3>1, <3>3 DEF PlaceInv
  <2>8. CASE UNCHANGED vars
    <3>1. UNCHANGED <<job, pc, piece, context, main, result>>
      BY <2>8 DEF vars
    <3>2. Joined'
      BY <2>0, <2>3, <3>1 DEF Joined
    <3> QED BY <2>2, <3>1, <3>2 DEF PlaceInv
  <2> QED BY <2>1, <2>4, <2>5, <2>6, <2>7, <2>8 DEF Next, Main, Terminated
<1> QED BY <1>1, <1>2, TypeCorrect, PTL DEF Spec

-----------------------------------------------------------------------------
(***************************************************************************)
(* What follows of the places alone.                                       *)
(***************************************************************************)

\* Pieces no larger than the ranges stay in what the range would be.
LEMMA PieceInZone ==
  ASSUME TypeOK, NEW w \in Workers, PieceAt(w), pc[w] \in {"split", "call"}
  PROVE  /\ RangeOf(w).start <= piece[w].start
         /\ Fits => piece[w].end <= RangeOf(w).start + PerWorker
<1>1. /\ RangeOf(w).start \in Nat /\ RangeOf(w).end \in Nat /\ PerWorker \in Nat
      /\ RangeOf(w).end <= RangeOf(w).start + PerWorker
      /\ job.batchSize \in Nat /\ piece[w].start \in Nat /\ piece[w].end \in Nat
  BY RangeFacts, JobFacts DEF TypeOK, Piece
<1> QED BY <1>1 DEF PieceAt, Fits, PerWorker

LEMMA SharedOnlyBy ==
  ASSUME PlaceInv, Fits, kind # "column",
         NEW v \in Workers, NEW w \in Workers, v < w, pc[v] = "call", pc[w] = "call"
  PROVE  PieceOf(v) \cap PieceOf(w) = {}
<1>1. TypeOK /\ PieceAt(v) /\ PieceAt(w)
  BY DEF PlaceInv, WorkerInv
<1>2. RangeOf(v).start + PerWorker <= RangeOf(w).start
  BY <1>1, RangesApart DEF TypeOK
<1>3. piece[v].end <= RangeOf(v).start + PerWorker /\ RangeOf(w).start <= piece[w].start
  BY <1>1, PieceInZone
<1>4. /\ RangeOf(v).start \in Nat /\ RangeOf(w).start \in Nat /\ PerWorker \in Nat
      /\ piece[v].end \in Nat /\ piece[w].start \in Nat
  BY <1>1, RangeFacts DEF TypeOK, Piece
<1>5. piece[v].end <= piece[w].start
  BY <1>2, <1>3, <1>4
<1> QED BY <1>4, <1>5 DEF PieceOf, Items

\* No two processes are at work on a row at the same time, if the pieces fit.
THEOREM SharesNoItem == Spec => []NoSharedItem
<1>1. PlaceInv => NoSharedItem
  <2> SUFFICES ASSUME PlaceInv, Fits, kind # "column", NEW v \in Workers, NEW w \in Workers,
                      v # w, pc[v] = "call", pc[w] = "call"
               PROVE  PieceOf(v) \cap PieceOf(w) = {}
    BY DEF NoSharedItem
  <2>1. v \in Nat /\ w \in Nat
    BY RangeFacts DEF PlaceInv, TypeOK
  <2>2. CASE v < w
    BY <2>2, SharedOnlyBy
  <2>3. CASE w < v
    BY <2>3, SharedOnlyBy
  <2> QED BY <2>1, <2>2, <2>3
<1> QED BY <1>1, PlaceInvariant, PTL

\* Driver.run raises only where nothing is to be split.
THEOREM RaisesWithoutItems == Spec => []RaisesOnlyWithoutItems
<1>1. PlaceInv => RaisesOnlyWithoutItems
  <2> SUFFICES ASSUME PlaceInv, main = "raised", kind # "constant"
               PROVE  /\ job.sends /\ kind = "array"
                      /\ \E w \in Workers : RangeOf(w).start >= job.value.rows
    BY DEF RaisesOnlyWithoutItems
  <2>1. PICK w \in Workers : pc[w] = "raised"
    BY DEF PlaceInv, Joined
  <2>2. FirstPiece(w)
    BY DEF PlaceInv, WorkerInv
  <2>3. /\ job.sends /\ kind = "array" /\ RangeOf(w).start >= Elements
    BY <2>1, <2>2 DEF FirstPiece
  <2>4. Elements = job.value.rows
    BY <2>3, JobFacts DEF PlaceInv, TypeOK
  <2> QED BY <2>3, <2>4
<1> QED BY <1>1, PlaceInvariant, PTL

\* With more elements than the square of the number of workers but one, it does
\* not raise at all, unless nothing says how many elements there are.
THEOREM ReturnsWithEnoughItems ==
  Spec => [](kind # "constant" /\ (job.workers - 1) * (job.workers - 1) < Elements
               => main # "raised")
<1>1. ASSUME TypeOK, RaisesOnlyWithoutItems, main = "raised", kind # "constant",
             (job.workers - 1) * (job.workers - 1) < Elements
      PROVE  FALSE
  <2>1. PICK w \in Workers : RangeOf(w).start >= job.value.rows
    BY <1>1 DEF RaisesOnlyWithoutItems
  <2>2. Elements \in Nat /\ job.workers \in Nat \ {0} /\ Elements = job.value.rows
    BY <1>1, JobFacts DEF TypeOK, RaisesOnlyWithoutItems
  <2>3. w \in 0 .. job.workers - 1 /\ HasRange(Elements, job.workers, w)
    <3>1. w \in Nat /\ w < job.workers
      BY <1>1, RangeFacts DEF TypeOK
    <3> QED BY <1>1, <2>2, <3>1 DEF Workers, HasRange
  <2>4. RangeOf(w).start < Elements
    BY <1>1, <2>2, <2>3, EveryRangeHasItems DEF RangeOf
  <2>5. RangeOf(w).start \in Nat
    BY <1>1, RangeFacts DEF TypeOK
  <2> QED BY <2>1, <2>2, <2>4, <2>5
<1>2. TypeOK /\ RaisesOnlyWithoutItems =>
        (kind # "constant" /\ (job.workers - 1) * (job.workers - 1) < Elements
           => main # "raised")
  BY <1>1
<1> QED BY <1>2, TypeCorrect, RaisesWithoutItems, PTL

-----------------------------------------------------------------------------
(***************************************************************************)
(* Progress: every step leaves less to do.                                 *)
(***************************************************************************)

\* The steps of one piece: it is split, the calls are made, and it is done.
Pass == job.tasks + 2

\* The pieces that may begin at or behind the one worker w is at, of one element
\* each; a worker takes its first piece even if it begins behind the range.
PiecesLeft(w) ==
  IF piece[w].start < RangeOf(w).end THEN RangeOf(w).end - piece[w].start ELSE 1

TasksLeft(w) == IF task[w] <= job.tasks THEN job.tasks + 1 - task[w] ELSE 0

\* At most so many steps are left to worker w.
StepsLeft(w) ==
  CASE pc[w] = "queued" -> (Elements + 1) * Pass + 3
    [] pc[w] = "split"  -> PiecesLeft(w) * Pass + 2
    [] pc[w] = "call"   -> (PiecesLeft(w) - 1) * Pass + TasksLeft(w) + 3
    [] pc[w] = "merge"  -> 1
    [] OTHER            -> 0

HowManyWorkers == IF kind = "constant" THEN 0
                  ELSE IF HasRange(Elements, job.workers, 1) THEN job.workers
                  ELSE 1

ResultsLeft == IF Len(result) <= HowManyWorkers THEN HowManyWorkers - Len(result) ELSE 0

\* And to Driver.run.
StepsOfMain == IF main = "waiting" THEN ResultsLeft + 1 ELSE 0

LEMMA LeftFacts ==
  ASSUME TypeOK, NEW w \in Workers
  PROVE  /\ Pass \in Nat /\ Pass = job.tasks + 2 /\ job.tasks \in Nat /\ Elements \in Nat
         /\ piece[w].start \in Nat /\ task[w] \in Nat /\ RangeOf(w).end \in Nat
         /\ PiecesLeft(w) \in 1 .. Elements + 1 /\ TasksLeft(w) \in 0 .. job.tasks
         /\ PiecesLeft(w) * Pass \in Nat /\ (Elements + 1) * Pass \in Nat
         /\ PiecesLeft(w) * Pass <= (Elements + 1) * Pass
         /\ (PiecesLeft(w) - 1) * Pass \in Nat
         /\ (PiecesLeft(w) - 1) * Pass = PiecesLeft(w) * Pass - Pass
<1>1. job.tasks \in Nat /\ Elements \in Nat /\ Pass \in Nat
  BY JobFacts DEF TypeOK, Pass
<1>2. /\ piece[w].start \in Nat /\ task[w] \in Nat \ {0}
      /\ RangeOf(w).end \in Nat /\ RangeOf(w).end <= Elements
  BY RangeFacts DEF TypeOK, Piece
<1>3. PiecesLeft(w) \in 1 .. Elements + 1 /\ TasksLeft(w) \in 0 .. job.tasks
  BY <1>1, <1>2 DEF PiecesLeft, TasksLeft
<1>4. Pass * PiecesLeft(w) <= Pass * (Elements + 1)
  BY <1>1, <1>3, ProductMonotone
<1>5. /\ PiecesLeft(w) * Pass \in Nat /\ (Elements + 1) * Pass \in Nat
      /\ PiecesLeft(w) * Pass <= (Elements + 1) * Pass
  BY <1>1, <1>3, <1>4
<1>6. /\ (PiecesLeft(w) - 1) * Pass \in Nat
      /\ (PiecesLeft(w) - 1) * Pass = PiecesLeft(w) * Pass - Pass
  BY <1>1, <1>3
<1> QED BY <1>1, <1>2, <1>3, <1>5, <1>6 DEF Pass

\* A step of a worker leaves fewer to it.
LEMMA WorkerCounts ==
  ASSUME TypeOK, TypeOK', NEW w \in Workers, Worker(w)
  PROVE  StepsLeft(w)' < StepsLeft(w)
<1>0. job' = job /\ (Starts(w) \/ Splits(w) \/ Applies(w) \/ Advances(w) \/ Ends(w))
  BY WorkerStep
<1>1. /\ Pass' = Pass /\ Elements' = Elements /\ RangeOf(w)' = RangeOf(w)
      /\ w \in Workers' /\ job'.tasks = job.tasks
  BY <1>0, JobStays DEF Pass
<1>2. /\ Pass \in Nat /\ Pass = job.tasks + 2 /\ job.tasks \in Nat /\ Elements \in Nat
      /\ piece[w].start \in Nat /\ task[w] \in Nat /\ RangeOf(w).end \in Nat
      /\ PiecesLeft(w) \in 1 .. Elements + 1 /\ TasksLeft(w) \in 0 .. job.tasks
      /\ PiecesLeft(w) * Pass \in Nat /\ (Elements + 1) * Pass \in Nat
      /\ (PiecesLeft(w) - 1) * Pass = PiecesLeft(w) * Pass - Pass
      /\ (PiecesLeft(w) - 1) * Pass \in Nat
  BY LeftFacts
<1>3. /\ PiecesLeft(w)' \in 1 .. Elements + 1
      /\ PiecesLeft(w)' * Pass \in Nat
      /\ PiecesLeft(w)' * Pass <= (Elements + 1) * Pass
  <2>1. piece'[w].start \in Nat /\ RangeOf(w).end <= Elements
    BY <1>1, RangeFacts DEF TypeOK, Piece
  <2>2. PiecesLeft(w)' \in 1 .. Elements + 1
    BY <1>1, <1>2, <2>1 DEF PiecesLeft
  <2>3. Pass * PiecesLeft(w)' <= Pass * (Elements + 1)
    BY <1>2, <2>2, ProductMonotone
  <2> QED BY <1>2, <2>2, <2>3
<1>4. CASE Starts(w)
  BY <1>1, <1>2, <1>3, <1>4 DEF Starts, StepsLeft
<1>5. CASE Splits(w)
  <2>1. PiecesLeft(w)' = PiecesLeft(w) /\ TasksLeft(w)' = job.tasks
    BY <1>1, <1>2, <1>5 DEF Splits, PiecesLeft, TasksLeft
  <2> QED BY <1>1, <1>2, <1>5, <2>1 DEF Splits, StepsLeft
<1>6. CASE Applies(w)
  <2>1. PiecesLeft(w)' = PiecesLeft(w) /\ TasksLeft(w)' = TasksLeft(w) - 1
    BY <1>1, <1>2, <1>6 DEF Applies, PiecesLeft, TasksLeft
  <2> QED BY <1>1, <1>2, <1>6, <2>1 DEF Applies, StepsLeft
<1>7. CASE Advances(w)
  <2>1. StepsLeft(w) >= (PiecesLeft(w) - 1) * Pass + 3 /\ StepsLeft(w) \in Nat
    <3>1. StepsLeft(w) = (PiecesLeft(w) - 1) * Pass + TasksLeft(w) + 3
      BY <1>7 DEF Advances, StepsLeft
    <3> QED BY <1>2, <3>1
  <2>2. CASE pc'[w] = "merge"
    BY <1>2, <2>1, <2>2 DEF StepsLeft
  <2>3. CASE pc'[w] # "merge"
    <3>1. /\ pc'[w] = "split" /\ piece'[w].start = piece[w].start + job.batchSize
          /\ piece'[w].start < RangeOf(w).end /\ job.batchSize \in Nat \ {0}
      <4>1. /\ piece'[w].start = piece[w].start + job.batchSize
            /\ pc'[w] = IF piece'[w].start >= RangeOf(w).end THEN "merge" ELSE "split"
        BY <1>7 DEF Advances
      <4>2. job.batchSize \in Nat \ {0}
        BY JobFacts DEF TypeOK
      <4> QED BY <1>2, <2>3, <4>1, <4>2
    <3>2. PiecesLeft(w)' <= PiecesLeft(w) - 1 /\ PiecesLeft(w)' \in Nat
      <4>1. piece'[w].start > piece[w].start /\ piece'[w].start \in Nat
        BY <1>2, <3>1
      <4>2. PiecesLeft(w)' = RangeOf(w).end - piece'[w].start
        BY <1>1, <3>1 DEF PiecesLeft
      <4>3. PiecesLeft(w) = RangeOf(w).end - piece[w].start
        BY <1>2, <3>1, <4>1 DEF PiecesLeft
      <4> HIDE DEF PiecesLeft
      <4> QED BY <1>2, <3>1, <4>1, <4>2, <4>3
    <3>3. Pass * PiecesLeft(w)' <= Pass * (PiecesLeft(w) - 1)
      BY <1>2, <3>2, ProductMonotone
    <3>4. PiecesLeft(w)' * Pass <= (PiecesLeft(w) - 1) * Pass
      BY <1>2, <3>2, <3>3
    <3>5. StepsLeft(w)' = PiecesLeft(w)' * Pass + 2
      BY <1>1, <3>1 DEF StepsLeft
    <3> QED BY <1>2, <1>3, <2>1, <3>4, <3>5
  <2> QED BY <2>2, <2>3
<1>8. CASE Ends(w)
  <2>1. CASE pc[w] = "split" /\ pc'[w] = "merge"
    BY <1>2, <2>1 DEF StepsLeft
  <2>2. CASE pc[w] = "merge" /\ pc'[w] \in {"done", "raised"}
    BY <2>2 DEF StepsLeft
  <2> QED BY <1>8, <2>1, <2>2 DEF Ends
<1> QED BY <1>0, <1>4, <1>5, <1>6, <1>7, <1>8

LEMMA CountsOfOthers ==
  ASSUME TypeOK, NEW v \in Workers, job' = job,
         UNCHANGED <<pc[v], piece[v], task[v]>>
  PROVE  StepsLeft(v)' = StepsLeft(v)
<1>1. Pass' = Pass /\ Elements' = Elements /\ RangeOf(v)' = RangeOf(v)
  BY JobStays DEF Pass
<1>2. PiecesLeft(v)' = PiecesLeft(v) /\ TasksLeft(v)' = TasksLeft(v)
  BY <1>1 DEF PiecesLeft, TasksLeft
<1> QED BY <1>1, <1>2 DEF StepsLeft

LEMMA MainCounts ==
  ASSUME TypeOK, Main
  PROVE  StepsOfMain' < StepsOfMain
<1>1. Len(result) \in Nat /\ HowManyWorkers \in Nat
  BY JobFacts DEF TypeOK, HowManyWorkers
<1>2. ResultsLeft \in Nat
  BY <1>1 DEF ResultsLeft
<1>3. CASE Get
  <2>1. /\ main = "waiting" /\ main' = "waiting" /\ job' = job
        /\ Len(result') = Len(result) + 1 /\ Len(result) \in Workers
    BY <1>3 DEF Get, Getting, TypeOK
  <2>2. Len(result) < HowManyWorkers
    BY <1>1, <2>1 DEF Workers, HowManyWorkers
  <2>3. HowManyWorkers' = HowManyWorkers
    BY <2>1, JobStays DEF HowManyWorkers
  <2> QED BY <1>1, <2>1, <2>2, <2>3 DEF StepsOfMain, ResultsLeft
<1>4. CASE GetRaises \/ Uncountable \/ Return
  <2>1. main = "waiting" /\ main' # "waiting"
    BY <1>4 DEF GetRaises, Uncountable, Return
  <2> QED BY <1>2, <2>1 DEF StepsOfMain
<1> QED BY <1>3, <1>4 DEF Main

\* A step is of one process, which it brings nearer to its end; it takes none of
\* the others back.
OneStepLess ==
  [][\/ /\ StepsOfMain' < StepsOfMain
        /\ \A w \in Workers : StepsLeft(w)' = StepsLeft(w)
     \/ /\ StepsOfMain' = StepsOfMain
        /\ \E w \in Workers :
             /\ StepsLeft(w)' < StepsLeft(w)
             /\ \A v \in Workers \ {w} : StepsLeft(v)' = StepsLeft(v)]_vars

\* No process runs forever, with pieces of any size, not even one whose range
\* begins behind the elements: each has at most so many steps.
THEOREM EveryStepCounts ==
  Spec => /\ OneStepLess
          /\ [](/\ StepsOfMain \in 0 .. job.workers + 1
                /\ \A w \in Workers :
                     StepsLeft(w) \in 0 .. (Elements + 1) * (job.tasks + 2) + 3)
<1> DEFINE Less == \/ /\ StepsOfMain' < StepsOfMain
                      /\ \A w \in Workers : StepsLeft(w)' = StepsLeft(w)
                   \/ /\ StepsOfMain' = StepsOfMain
                      /\ \E w \in Workers :
                           /\ StepsLeft(w)' < StepsLeft(w)
                           /\ \A v \in Workers \ {w} : StepsLeft(v)' = StepsLeft(v)
           Bounded == /\ StepsOfMain \in 0 .. job.workers + 1
                      /\ \A w \in Workers :
                           StepsLeft(w) \in 0 .. (Elements + 1) * (job.tasks + 2) + 3
<1>1. ASSUME TypeOK, TypeOK', [Next]_vars PROVE [Less]_vars
  <2>1. ASSUME NEW w \in Workers, Worker(w) PROVE Less
    <3>1. job' = job /\ StepsOfMain' = StepsOfMain
      <4>1. job' = job /\ main' = main /\ result' = result
        BY <1>1, <2>1, WorkerStep
      <4> QED BY <4>1, JobStays DEF StepsOfMain, ResultsLeft, HowManyWorkers
    <3>2. \A v \in Workers \ {w} : StepsLeft(v)' = StepsLeft(v)
      BY <1>1, <2>1, <3>1, WorkerStep, CountsOfOthers
    <3> QED BY <1>1, <2>1, <3>1, <3>2, WorkerCounts
  <2>2. CASE Main
    <3>1. UNCHANGED <<job, pc, piece, task>>
      BY <2>2 DEF Main, Get, GetRaises, Uncountable, Return
    <3>2. \A w \in Workers : StepsLeft(w)' = StepsLeft(w)
      BY <1>1, <3>1, CountsOfOthers
    <3> QED BY <1>1, <2>2, <3>2, MainCounts
  <2>3. CASE Terminated \/ UNCHANGED vars
    BY <2>3 DEF Terminated
  <2> QED BY <1>1, <2>1, <2>2, <2>3 DEF Next
<1>2. TypeOK => Bounded
  <2> SUFFICES ASSUME TypeOK PROVE Bounded
    OBVIOUS
  <2>1. StepsOfMain \in 0 .. job.workers + 1
    <3>1. /\ Len(result) \in Nat /\ HowManyWorkers \in 0 .. job.workers
          /\ job.workers \in Nat
      BY JobFacts DEF TypeOK, HowManyWorkers
    <3> QED BY <3>1 DEF StepsOfMain, ResultsLeft
  <2>2. ASSUME NEW w \in Workers
        PROVE  StepsLeft(w) \in 0 .. (Elements + 1) * (job.tasks + 2) + 3
    <3>1. pc[w] \in {"queued", "split", "call", "merge", "done", "raised"}
      BY DEF TypeOK
    <3>2. StepsLeft(w) \in 0 .. (Elements + 1) * Pass + 3
      BY <3>1, LeftFacts DEF StepsLeft
    <3> QED BY <3>2 DEF Pass
  <2> QED BY <2>1, <2>2
<1> QED BY <1>1, <1>2, TypeCorrect, PTL DEF Spec, OneStepLess

-----------------------------------------------------------------------------
(***************************************************************************)
(* The rows a worker has passed, and the rows it has yet to reach.         *)
(***************************************************************************)

\* Calls up to t were made on row i of the range: of an earlier piece, or of the
\* current one.
Covered(w, t, i) ==
  /\ pc[w] # "queued" /\ i < RangeOf(w).end
  /\ i < piece[w].start \/ (pc[w] = "call" /\ t < task[w] /\ i < piece[w].end)

\* Row i would be in the range were it not clamped, and call t is yet to be made
\* on it.
Ahead(w, t, i) ==
  /\ RangeOf(w).start <= i /\ i < RangeOf(w).start + PerWorker
  /\ \/ pc[w] = "queued"
     \/ pc[w] \in {"split", "call"} /\ piece[w].start <= i
        /\ ~ (pc[w] = "call" /\ t < task[w] /\ i < piece[w].end)

\* The calls a worker has made, and those it has not.
Made(w) == \A t \in Tasks, i \in Items :
  RangeOf(w).start <= i /\ Covered(w, t, i) => calls[t][i] >= 1

NotMade(w) == \A t \in Tasks, i \in Items :
  Fits /\ kind # "column" /\ Ahead(w, t, i) => calls[t][i] = 0

Once == Fits => AtMostOnce

CallInv == PlaceInv /\ (\A w \in Workers : Made(w) /\ NotMade(w)) /\ Once

\* A call is not made on rows of other workers, nor a second time.
LEMMA AppliesAhead ==
  ASSUME PlaceInv, Fits, kind # "column", NEW w \in Workers, Applies(w),
         NEW i \in PieceOf(w)
  PROVE  /\ Ahead(w, task[w], i)
         /\ \A v \in Workers \ {w} : \A t : ~ Ahead(v, t, i)
<1>1. TypeOK /\ PieceAt(w) /\ pc[w] = "call"
  BY DEF PlaceInv, WorkerInv, Applies
<1>2. /\ RangeOf(w).start <= piece[w].start /\ piece[w].end <= RangeOf(w).start + PerWorker
  BY <1>1, PieceInZone
<1>3. /\ i \in Nat /\ piece[w].start <= i /\ i < piece[w].end
      /\ piece[w].start \in Nat /\ piece[w].end \in Nat /\ task[w] \in Nat
  BY <1>1 DEF PieceOf, Items, TypeOK, Piece
<1>4. RangeOf(w).start \in Nat /\ PerWorker \in Nat /\ w \in Nat
  BY <1>1, RangeFacts DEF TypeOK
<1>5. RangeOf(w).start <= i /\ i < RangeOf(w).start + PerWorker
  BY <1>2, <1>3, <1>4
<1>6. Ahead(w, task[w], i)
  BY <1>1, <1>3, <1>5 DEF Ahead
<1>7. ASSUME NEW v \in Workers \ {w}, NEW t PROVE ~ Ahead(v, t, i)
  <2>1. v \in Nat /\ RangeOf(v).start \in Nat
    BY <1>1, RangeFacts DEF TypeOK
  <2>2. \/ RangeOf(v).start + PerWorker <= RangeOf(w).start
        \/ RangeOf(w).start + PerWorker <= RangeOf(v).start
    BY <1>1, <1>4, <2>1, RangesApart DEF TypeOK
  <2> QED BY <1>3, <1>4, <1>5, <2>1, <2>2 DEF Ahead
<1> QED BY <1>6, <1>7

\* What a worker does to its own counts.
LEMMA OwnCalls ==
  ASSUME PlaceInv, NEW w \in Workers, Worker(w), Made(w), NotMade(w)
  PROVE  Made(w)' /\ NotMade(w)'
<1>1. job' = job /\ (Starts(w) \/ Splits(w) \/ Applies(w) \/ Advances(w) \/ Ends(w))
  BY WorkerStep DEF PlaceInv
<1>2. /\ RangeOf(w)' = RangeOf(w) /\ Tasks' = Tasks /\ Items' = Items /\ kind' = kind
      /\ Fits' = Fits /\ PerWorker' = PerWorker
  BY <1>1, JobStays
<1>3. /\ RangeOf(w).start \in Nat /\ RangeOf(w).end \in Nat /\ PerWorker \in Nat
      /\ job.batchSize \in Nat \ {0} /\ job.tasks \in Nat
      /\ piece[w].start \in Nat /\ piece[w].end \in Nat /\ task[w] \in Nat \ {0}
      /\ RangeOf(w).end <= RangeOf(w).start + PerWorker
  BY RangeFacts, JobFacts DEF PlaceInv, TypeOK, Piece
<1>4. PieceAt(w)
  BY DEF PlaceInv, WorkerInv
<1>5. calls \in [Tasks -> [Items -> Nat]]
  BY DEF PlaceInv, TypeOK
<1>6. \A t \in Tasks, i \in Items : /\ t \in Nat /\ 1 <= t /\ t <= job.tasks
                                    /\ i \in Nat /\ calls[t][i] \in Nat
  <2>1. \A t \in Tasks : t \in Nat /\ 1 <= t /\ t <= job.tasks
    BY <1>3 DEF Tasks
  <2>2. \A i \in Items : i \in Nat
    BY DEF Items
  <2> QED BY <1>5, <2>1, <2>2
<1>7. CASE Starts(w) \/ Splits(w) \/ Advances(w) \/ Ends(w)
  <2>0. calls' = calls
    BY <1>7 DEF Starts, Splits, Advances, Ends
  <2>1. SUFFICES ASSUME NEW t \in Tasks, NEW i \in Items
                 PROVE  /\ RangeOf(w).start <= i /\ Covered(w, t, i)' => Covered(w, t, i)
                        /\ Fits /\ Ahead(w, t, i)' => Ahead(w, t, i)
    BY <1>2, <2>0 DEF Made, NotMade
  <2>2. t \in Nat /\ 1 <= t /\ t <= job.tasks /\ i \in Nat
    BY <1>6
  <2>3. CASE Starts(w)
    BY <1>2, <1>3, <2>2, <2>3 DEF Starts, Covered, Ahead
  <2>4. CASE Splits(w)
    BY <1>2, <1>3, <2>2, <2>4 DEF Splits, Covered, Ahead
  <2>6. CASE Advances(w)
    <3>1. /\ pc[w] = "call" /\ t < task[w]
          /\ piece'[w].start = piece[w].start + job.batchSize
          /\ pc'[w] \in {"merge", "split"}
      BY <1>3, <2>2, <2>6 DEF Advances
    <3>2. i < piece'[w].start /\ i < RangeOf(w).end => i < piece[w].end
      BY <1>3, <1>4, <2>2, <3>1 DEF PieceAt
    <3>3. piece'[w].start <= i => piece[w].end <= i
      BY <1>3, <1>4, <2>2, <3>1 DEF PieceAt
    <3> QED BY <1>2, <1>3, <2>2, <3>1, <3>2, <3>3 DEF Covered, Ahead
  <2>7. CASE Ends(w)
    BY <1>2, <1>3, <2>2, <2>7 DEF Ends, Covered, Ahead
  <2> QED BY <1>7, <2>3, <2>4, <2>6, <2>7
<1>8. CASE Applies(w)
  <2>1. /\ pc[w] = "call" /\ pc' = pc /\ task'[w] = task[w] + 1 /\ piece' = piece
        /\ \A t \in Tasks, i \in Items :
             calls'[t][i] = IF t = task[w] /\ i \in PieceOf(w) THEN calls[t][i] + 1
                            ELSE calls[t][i]
    BY <1>8 DEF Applies
  <2>2. Made(w)'
    <3> SUFFICES ASSUME NEW t \in Tasks, NEW i \in Items,
                        RangeOf(w).start <= i, Covered(w, t, i)'
                 PROVE  calls'[t][i] >= 1
      BY <1>2 DEF Made
    <3>1. t \in Nat /\ i \in Nat /\ calls[t][i] \in Nat
      BY <1>6
    <3>2. i < RangeOf(w).end
          /\ (i < piece[w].start \/ (t < task[w] + 1 /\ i < piece[w].end))
      BY <1>2, <2>1 DEF Covered
    <3>3. CASE Covered(w, t, i)
      <4>1. calls[t][i] >= 1
        BY <3>3 DEF Made
      <4> QED BY <2>1, <3>1, <4>1
    <3>4. CASE ~ Covered(w, t, i)
      <4>1. t = task[w] /\ piece[w].start <= i /\ i < piece[w].end
        BY <1>3, <2>1, <3>1, <3>2, <3>4 DEF Covered
      <4>2. i \in PieceOf(w)
        BY <4>1 DEF PieceOf
      <4> QED BY <2>1, <3>1, <4>1, <4>2
    <3> QED BY <3>3, <3>4
  <2>3. NotMade(w)'
    <3> SUFFICES ASSUME NEW t \in Tasks, NEW i \in Items,
                        Fits, kind # "column", Ahead(w, t, i)'
                 PROVE  calls'[t][i] = 0
      BY <1>2 DEF NotMade
    <3>1. t \in Nat /\ i \in Nat
      BY <1>6
    <3>2. RangeOf(w).start <= i /\ i < RangeOf(w).start + PerWorker /\ piece[w].start <= i
          /\ ~ (t < task[w] + 1 /\ i < piece[w].end)
      BY <1>2, <2>1 DEF Ahead
    <3>3. Ahead(w, t, i)
      BY <1>3, <2>1, <3>1, <3>2 DEF Ahead
    <3>4. ~ (t = task[w] /\ i \in PieceOf(w))
      BY <1>3, <3>1, <3>2 DEF PieceOf
    <3> QED BY <2>1, <3>3, <3>4 DEF NotMade
  <2> QED BY <2>2, <2>3
<1> QED BY <1>1, <1>7, <1>8

\* What a worker does to the counts of another.
LEMMA OtherCalls ==
  ASSUME PlaceInv, NEW w \in Workers, Worker(w), NEW v \in Workers \ {w}, Made(v), NotMade(v)
  PROVE  Made(v)' /\ NotMade(v)'
<1>1. /\ job' = job /\ (Starts(w) \/ Splits(w) \/ Applies(w) \/ Advances(w) \/ Ends(w))
      /\ pc'[v] = pc[v] /\ piece'[v] = piece[v] /\ task'[v] = task[v]
  BY WorkerStep DEF PlaceInv
<1>2. /\ RangeOf(v)' = RangeOf(v) /\ Tasks' = Tasks /\ Items' = Items /\ kind' = kind
      /\ Fits' = Fits /\ PerWorker' = PerWorker
  BY <1>1, JobStays
<1>3. \A t, i : Covered(v, t, i)' = Covered(v, t, i) /\ Ahead(v, t, i)' = Ahead(v, t, i)
  BY <1>1, <1>2 DEF Covered, Ahead
<1>4. calls \in [Tasks -> [Items -> Nat]]
  BY DEF PlaceInv, TypeOK
<1>5. CASE calls' = calls
  BY <1>2, <1>3, <1>5 DEF Made, NotMade
<1>6. CASE Applies(w)
  <2>1. \A t \in Tasks, i \in Items :
          calls'[t][i] = IF t = task[w] /\ i \in PieceOf(w) THEN calls[t][i] + 1
                         ELSE calls[t][i]
    BY <1>6 DEF Applies
  <2>2. \A t \in Tasks, i \in Items : calls[t][i] \in Nat /\ calls'[t][i] >= calls[t][i]
    BY <1>4, <2>1
  <2>3. Made(v)'
    <3> SUFFICES ASSUME NEW t \in Tasks, NEW i \in Items,
                        RangeOf(v).start <= i, Covered(v, t, i)
                 PROVE  calls'[t][i] >= 1
      BY <1>2, <1>3 DEF Made
    <3>1. calls[t][i] >= 1
      BY DEF Made
    <3> HIDE DEF Covered
    <3> QED BY <1>4, <2>1, <2>2, <3>1
  <2>4. NotMade(v)'
    <3> SUFFICES ASSUME NEW t \in Tasks, NEW i \in Items,
                        Fits, kind # "column", Ahead(v, t, i)
                 PROVE  calls'[t][i] = 0
      BY <1>2, <1>3 DEF NotMade
    <3>1. calls[t][i] = 0
      BY DEF NotMade
    <3>2. i \notin PieceOf(w)
      BY <1>6, AppliesAhead
    <3> QED BY <2>1, <3>1, <3>2
  <2> QED BY <2>3, <2>4
<1> QED BY <1>1, <1>5, <1>6 DEF Starts, Splits, Advances, Ends

LEMMA OnceStays ==
  ASSUME PlaceInv, NEW w \in Workers, Worker(w), NotMade(w), Once
  PROVE  Once'
<1>1. job' = job /\ (Starts(w) \/ Splits(w) \/ Applies(w) \/ Advances(w) \/ Ends(w))
  BY WorkerStep DEF PlaceInv
<1>2. Tasks' = Tasks /\ Items' = Items /\ kind' = kind /\ Fits' = Fits
  BY <1>1, JobStays
<1>3. CASE calls' = calls
  BY <1>2, <1>3 DEF Once, AtMostOnce
<1>4. CASE Applies(w)
  <2> SUFFICES ASSUME Fits, kind # "column", NEW t \in Tasks, NEW i \in Items
               PROVE  calls'[t][i] <= 1
    BY <1>2 DEF Once, AtMostOnce
  <2>1. calls'[t][i] = IF t = task[w] /\ i \in PieceOf(w) THEN calls[t][i] + 1 ELSE calls[t][i]
    BY <1>4 DEF Applies
  <2>2. calls[t][i] <= 1
    BY DEF Once, AtMostOnce
  <2>3. t = task[w] /\ i \in PieceOf(w) => calls[t][i] = 0
    BY <1>4, AppliesAhead DEF NotMade
  <2> QED BY <2>1, <2>2, <2>3
<1> QED BY <1>1, <1>3, <1>4 DEF Starts, Splits, Advances, Ends

LEMMA CallInvariant == Spec => []CallInv
<1>1. Init => (\A w \in Workers : Made(w) /\ NotMade(w)) /\ Once
  <2> SUFFICES ASSUME Init PROVE (\A w \in Workers : Made(w) /\ NotMade(w)) /\ Once
    OBVIOUS
  <2>1. \A t \in Tasks, i \in Items : calls[t][i] = 0
    BY DEF Init
  <2>2. \A w \in Workers : pc[w] = "queued"
    BY DEF Init
  <2> QED BY <2>1, <2>2 DEF Made, NotMade, Covered, Once, AtMostOnce
<1>2. CallInv /\ PlaceInv' /\ [Next]_vars => CallInv'
  <2> SUFFICES ASSUME CallInv, PlaceInv', [Next]_vars PROVE CallInv'
    OBVIOUS
  <2>0. PlaceInv /\ Once /\ \A w \in Workers : Made(w) /\ NotMade(w)
    BY DEF CallInv
  <2>1. ASSUME NEW w \in Workers, Worker(w) PROVE CallInv'
    <3>1. Workers' = Workers
      BY <2>0, <2>1, WorkerStep, JobStays DEF PlaceInv
    <3>2. ASSUME NEW v \in Workers PROVE Made(v)' /\ NotMade(v)'
      <4>1. CASE v = w
        BY <2>0, <2>1, <4>1, OwnCalls
      <4>2. CASE v # w
        BY <2>0, <2>1, <4>2, OtherCalls
      <4> QED BY <4>1, <4>2
    <3>3. Once'
      BY <2>0, <2>1, OnceStays
    <3> QED BY <3>1, <3>2, <3>3 DEF CallInv
  <2>2. ASSUME UNCHANGED <<job, pc, piece, task, calls>> PROVE CallInv'
    <3>1. /\ Workers' = Workers /\ Tasks' = Tasks /\ Items' = Items /\ kind' = kind
          /\ Fits' = Fits /\ PerWorker' = PerWorker /\ \A w : RangeOf(w)' = RangeOf(w)
      BY <2>2, JobStays
    <3>2. \A w \in Workers : \A t, i : /\ Covered(w, t, i)' = Covered(w, t, i)
                                   /\ Ahead(w, t, i)' = Ahead(w, t, i)
      BY <2>2, <3>1 DEF Covered, Ahead
    <3>3. \A w \in Workers : Made(w)' /\ NotMade(w)'
      BY <2>0, <2>2, <3>1, <3>2 DEF Made, NotMade
    <3>4. Once'
      BY <2>0, <2>2, <3>1 DEF Once, AtMostOnce
    <3> QED BY <3>1, <3>3, <3>4 DEF CallInv
  <2>3. CASE Main \/ UNCHANGED vars
    BY <2>2, <2>3 DEF Main, Get, GetRaises, Uncountable, Return, vars
  <2> QED BY <2>1, <2>3 DEF Next, Terminated
<1> QED BY <1>1, <1>2, PlaceInvariant, PTL DEF CallInv, Spec

LEMMA ReturnedComplete == CallInv => Complete
<1> SUFFICES ASSUME CallInv, main = "returned", Counted, NEW t \in Tasks, NEW i \in Items
             PROVE  calls[t][i] >= 1
  BY DEF Complete
<1>0. TypeOK /\ Joined /\ \A w \in Workers : Passed(w) /\ Made(w)
  BY DEF CallInv, PlaceInv, WorkerInv
<1>1. kind # "constant" /\ \A w \in Workers : pc[w] = "done"
  BY <1>0 DEF Joined
<1>2. PICK w \in Workers : RangeOf(w).start <= i /\ i < RangeOf(w).end
  BY <1>0, <1>1, RowOwned DEF TypeOK
<1>3. piece[w].start >= RangeOf(w).end
  BY <1>0, <1>1 DEF Passed
<1>4. i \in Nat /\ piece[w].start \in Nat /\ RangeOf(w).end \in Nat
  BY <1>0, RangeFacts DEF TypeOK, Piece, Items
<1>5. Covered(w, t, i)
  BY <1>1, <1>2, <1>3, <1>4 DEF Covered
<1> QED BY <1>0, <1>2, <1>5 DEF Made

\* When Driver.run returns, every call was made on every row that counts.
THEOREM NoRowLeftOut == Spec => []Complete
BY ReturnedComplete, CallInvariant, PTL

\* Where pieces are no larger than the ranges, no call is made twice on a row.
THEOREM OnceIfFits == Spec => [](Fits => AtMostOnce)
<1>1. CallInv => (Fits => AtMostOnce)
  BY DEF CallInv, Once
<1> QED BY <1>1, CallInvariant, PTL


-----------------------------------------------------------------------------
(***************************************************************************)
(* The pieces a worker keeps are in order, and those of its range; the     *)
(* results are those of the first workers.                                 *)
(***************************************************************************)

Ordered(w) ==
  /\ pc[w] = "queued" => context[w] = <<>>
  /\ \A p \in DOMAIN context[w] :
       /\ RangeOf(w).start <= context[w][p].start
       /\ context[w][p].end <= piece[w].start
       /\ Fits => context[w][p].end <= RangeOf(w).start + PerWorker
  /\ \A p, q \in DOMAIN context[w] : p < q => context[w][p].end <= context[w][q].start

Keeps(w) == \A i \in Nat :
  pc[w] # "queued" /\ RangeOf(w).start <= i /\ i < RangeOf(w).end /\ i < piece[w].start =>
    \E p \in DOMAIN context[w] : Has(context[w][p], i)

Collected == \A k \in DOMAIN result :
  k - 1 \in Workers /\ pc[k - 1] = "done" /\ result[k] = context[k - 1]

ResultInv == CallInv /\ (\A w \in Workers : Ordered(w) /\ Keeps(w)) /\ Collected

LEMMA OwnPieces ==
  ASSUME PlaceInv, NEW w \in Workers, Worker(w), Ordered(w), Keeps(w)
  PROVE  Ordered(w)' /\ Keeps(w)'
<1>1. job' = job /\ (Starts(w) \/ Splits(w) \/ Applies(w) \/ Advances(w) \/ Ends(w))
  BY WorkerStep DEF PlaceInv
<1>2. RangeOf(w)' = RangeOf(w) /\ Fits' = Fits /\ PerWorker' = PerWorker
  BY <1>1, JobStays
<1>3. /\ RangeOf(w).start \in Nat /\ RangeOf(w).end \in Nat /\ PerWorker \in Nat
      /\ job.batchSize \in Nat \ {0}
      /\ piece[w].start \in Nat /\ piece[w].end \in Nat
      /\ context[w] \in Seq(Piece) /\ piece[w] \in Piece
  BY RangeFacts, JobFacts DEF PlaceInv, TypeOK, Piece
<1>4. PieceAt(w) /\ TypeOK
  BY DEF PlaceInv, WorkerInv
<1>5. CASE Starts(w)
  <2>1. context'[w] = <<>> /\ piece'[w].start = RangeOf(w).start /\ pc'[w] # "queued"
    BY <1>5 DEF Starts, Ordered
  <2>2. Ordered(w)'
    BY <2>1 DEF Ordered
  <2>3. Keeps(w)'
    BY <1>2, <1>3, <2>1 DEF Keeps
  <2> QED BY <2>2, <2>3
<1>6. CASE Splits(w) \/ Applies(w) \/ Ends(w)
  <2>1. piece' = piece /\ context' = context /\ pc[w] # "queued" /\ pc'[w] # "queued"
    BY <1>6 DEF Splits, Applies, Ends
  <2> QED BY <1>2, <2>1 DEF Ordered, Keeps, Has
<1>7. CASE Advances(w)
  <2> DEFINE old == context[w]
             new == context'[w]
             n   == Len(old)
  <2>1. /\ new = Append(old, piece[w]) /\ pc[w] = "call" /\ pc'[w] # "queued"
        /\ piece'[w].start = piece[w].start + job.batchSize
    BY <1>7 DEF Advances
  <2>2. /\ n \in Nat /\ DOMAIN old = 1 .. n /\ DOMAIN new = 1 .. n + 1
        /\ \A p \in 1 .. n : new[p] = old[p]
        /\ new[n + 1] = piece[w]
        /\ \A p \in 1 .. n : old[p].start \in Nat /\ old[p].end \in Nat
    <3>1. /\ n \in Nat /\ DOMAIN old = 1 .. n /\ DOMAIN new = 1 .. n + 1
          /\ \A p \in 1 .. n : new[p] = old[p]
          /\ new[n + 1] = piece[w]
      BY <1>3, <2>1
    <3>2. \A p \in 1 .. n : old[p] \in Piece
      BY <1>3
    <3> QED BY <3>1, <3>2 DEF Piece
  <2>3. /\ \A p \in DOMAIN old : /\ RangeOf(w).start <= old[p].start
                                 /\ old[p].end <= piece[w].start
                                 /\ Fits => old[p].end <= RangeOf(w).start + PerWorker
        /\ \A p, q \in DOMAIN old : p < q => old[p].end <= old[q].start
    BY DEF Ordered
  <2>4. /\ RangeOf(w).start <= piece[w].start
        /\ piece[w].end <= piece'[w].start
        /\ Fits => piece[w].end <= RangeOf(w).start + PerWorker
    <3>1. /\ RangeOf(w).start <= piece[w].start
          /\ Fits => piece[w].end <= RangeOf(w).start + PerWorker
      BY <1>4, <2>1, PieceInZone
    <3>2. piece[w].end <= piece'[w].start
      BY <1>3, <1>4, <2>1 DEF PieceAt
    <3> QED BY <3>1, <3>2
  <2>5. piece[w].start <= piece'[w].start
    BY <1>3, <2>1
  <2>6. piece'[w].start <= piece[w].end \/ RangeOf(w).end <= piece[w].end
    BY <1>3, <1>4, <2>1 DEF PieceAt
  <2>7. piece'[w].start \in Nat
    BY <1>3, <2>1
  <2> HIDE DEF old, new, n
  <2>8. \A p \in 1 .. n + 1 : p \in 1 .. n \/ p = n + 1
    BY <2>2
  <2>9. \A p \in DOMAIN new : /\ RangeOf(w).start <= new[p].start
                              /\ new[p].end <= piece'[w].start
                              /\ Fits => new[p].end <= RangeOf(w).start + PerWorker
    <3> SUFFICES ASSUME NEW p \in 1 .. n + 1
                 PROVE  /\ RangeOf(w).start <= new[p].start
                        /\ new[p].end <= piece'[w].start
                        /\ Fits => new[p].end <= RangeOf(w).start + PerWorker
      BY <2>2
    <3>1. CASE p \in 1 .. n
      <4>1. new[p] = old[p] /\ old[p].end \in Nat /\ p \in DOMAIN old
        BY <2>2, <3>1
      <4>2. old[p].end <= piece[w].start
        BY <2>3, <4>1
      <4>3. old[p].end <= piece'[w].start
        BY <1>3, <2>5, <2>7, <4>1, <4>2
      <4> QED BY <2>3, <4>1, <4>3
    <3>2. CASE p = n + 1
      BY <2>2, <2>4, <3>2
    <3> QED BY <2>8, <3>1, <3>2
  <2>10. \A p, q \in DOMAIN new : p < q => new[p].end <= new[q].start
    <3> SUFFICES ASSUME NEW p \in 1 .. n + 1, NEW q \in 1 .. n + 1, p < q
                 PROVE  new[p].end <= new[q].start
      BY <2>2
    <3>1. p \in 1 .. n
      BY <2>2
    <3>2. CASE q \in 1 .. n
      BY <2>2, <2>3, <3>1, <3>2
    <3>3. CASE q = n + 1
      BY <2>2, <2>3, <3>1, <3>3
    <3> QED BY <2>8, <3>2, <3>3
  <2>11. Ordered(w)'
    BY <1>2, <2>1, <2>9, <2>10 DEF Ordered, new
  <2>12. Keeps(w)'
    <3> SUFFICES ASSUME NEW i \in Nat, RangeOf(w).start <= i, i < RangeOf(w).end,
                        i < piece'[w].start
                 PROVE  \E p \in DOMAIN new : Has(new[p], i)
      BY <1>2 DEF Keeps, new
    <3>1. CASE i < piece[w].start
      <4>1. PICK p \in DOMAIN old : Has(old[p], i)
        BY <2>1, <3>1 DEF Keeps, old
      <4>2. p \in DOMAIN new /\ new[p] = old[p]
        BY <2>2, <4>1
      <4> QED BY <4>1, <4>2
    <3>2. CASE piece[w].start <= i
      <4>1. i < piece[w].end
        BY <1>3, <2>6, <2>7, <3>2
      <4>2. n + 1 \in DOMAIN new /\ Has(new[n + 1], i)
        BY <2>2, <3>2, <4>1 DEF Has
      <4> QED BY <4>2
    <3> QED BY <1>3, <3>1, <3>2
  <2> QED BY <2>11, <2>12
<1> QED BY <1>1, <1>5, <1>6, <1>7

LEMMA ResultInvariant == Spec => []ResultInv
<1>1. Init => (\A w \in Workers : Ordered(w) /\ Keeps(w)) /\ Collected
  <2> SUFFICES ASSUME Init
               PROVE  (\A w \in Workers : Ordered(w) /\ Keeps(w)) /\ Collected
    OBVIOUS
  <2>1. ASSUME NEW w \in Workers PROVE context[w] = <<>> /\ pc[w] = "queued"
    BY DEF Init
  <2>2. DOMAIN result = {}
    BY DEF Init
  <2> QED BY <2>1, <2>2 DEF Ordered, Keeps, Collected
<1>2. ResultInv /\ CallInv' /\ [Next]_vars => ResultInv'
  <2> SUFFICES ASSUME ResultInv, CallInv', [Next]_vars PROVE ResultInv'
    OBVIOUS
  <2>0. CallInv /\ PlaceInv /\ TypeOK /\ Collected /\ \A w \in Workers : Ordered(w) /\ Keeps(w)
    BY DEF ResultInv, CallInv, PlaceInv
  <2>1. ASSUME NEW w \in Workers, Worker(w) PROVE ResultInv'
    <3>1. /\ job' = job /\ result' = result
          /\ Starts(w) \/ Splits(w) \/ Applies(w) \/ Advances(w) \/ Ends(w)
          /\ \A v \in Workers \ {w} : /\ pc'[v] = pc[v] /\ piece'[v] = piece[v]
                                      /\ context'[v] = context[v]
      BY <2>0, <2>1, WorkerStep
    <3>2. /\ Workers' = Workers /\ Fits' = Fits /\ PerWorker' = PerWorker
          /\ \A v : RangeOf(v)' = RangeOf(v)
      BY <3>1, JobStays
    <3>3. ASSUME NEW v \in Workers PROVE Ordered(v)' /\ Keeps(v)'
      <4>1. CASE v = w
        BY <2>0, <2>1, <4>1, OwnPieces
      <4>2. CASE v # w
        BY <2>0, <3>1, <3>2, <4>2 DEF Ordered, Keeps, Has
      <4> QED BY <4>1, <4>2
    <3>4. pc[w] # "done"
      BY <3>1 DEF Starts, Splits, Applies, Advances, Ends
    <3>5. Collected'
      BY <2>0, <3>1, <3>2, <3>4 DEF Collected
    <3> QED BY <3>2, <3>3, <3>5 DEF ResultInv
  <2>2. ASSUME UNCHANGED <<job, pc, piece, context>>
        PROVE  Workers' = Workers /\ \A w \in Workers : Ordered(w)' /\ Keeps(w)'
    <3>1. /\ Workers' = Workers /\ Fits' = Fits /\ PerWorker' = PerWorker
          /\ \A v : RangeOf(v)' = RangeOf(v)
      BY <2>2, JobStays
    <3> QED BY <2>0, <2>2, <3>1 DEF Ordered, Keeps, Has
  <2>3. CASE Get
    <3>1. /\ UNCHANGED <<job, pc, piece, context>>
          /\ Getting \in Workers /\ pc[Getting] = "done"
          /\ result' = Append(result, context[Getting])
      BY <2>3 DEF Get
    <3>2. result \in Seq(Seq(Piece)) /\ context[Getting] \in Seq(Piece)
      BY <2>0, <3>1 DEF TypeOK
    <3> DEFINE n == Len(result)
    <3>3. /\ n \in Nat /\ DOMAIN result = 1 .. n /\ DOMAIN result' = 1 .. n + 1
          /\ \A k \in 1 .. n : result'[k] = result[k]
          /\ result'[n + 1] = context[n] /\ n \in Workers /\ pc[n] = "done"
      BY <3>1, <3>2 DEF Getting
    <3> HIDE DEF n
    <3>4. \A k \in 1 .. n + 1 : k \in 1 .. n \/ k = n + 1
      BY <3>3
    <3>5. Collected'
      <4> SUFFICES ASSUME NEW k \in 1 .. n + 1
                   PROVE  k - 1 \in Workers /\ pc[k - 1] = "done" /\ result'[k] = context[k - 1]
        BY <2>2, <3>1, <3>3 DEF Collected
      <4>1. CASE k \in 1 .. n
        BY <2>0, <3>3, <4>1 DEF Collected
      <4>2. CASE k = n + 1
        <5>1. k - 1 = n
          BY <3>3, <4>2
        <5> QED BY <3>3, <4>2, <5>1
      <4> QED BY <3>4, <4>1, <4>2
    <3> QED BY <2>2, <3>1, <3>5 DEF ResultInv
  <2>4. CASE GetRaises \/ Uncountable \/ Return \/ UNCHANGED vars
    <3>1. UNCHANGED <<job, pc, piece, context, result>>
      BY <2>4 DEF GetRaises, Uncountable, Return, vars
    <3> QED BY <2>0, <2>2, <3>1 DEF ResultInv, Collected
  <2> QED BY <2>1, <2>3, <2>4 DEF Next, Main, Terminated
<1> QED BY <1>1, <1>2, CallInvariant, PTL DEF ResultInv, Spec

-----------------------------------------------------------------------------
(***************************************************************************)
(* PyDriver implements ParallelFor.                                        *)
(***************************************************************************)

LEMMA PromisedFacts ==
  ASSUME TypeOK
  PROVE  /\ PromisedRows \in Nat
         /\ Promised # {} => /\ Fits /\ Counted /\ kind \notin {"column", "constant"}
                             /\ Promised = Items
         /\ \A i \in Promised : i \in Items /\ i \in Nat /\ i < Elements
<1>1. job.value \in Values /\ job.value.rows \in Nat /\ Elements \in Nat
      /\ (Counted => job.value.rows <= Elements)
  BY JobFacts DEF TypeOK, Jobs
<1>2. PromisedRows \in Nat
  BY <1>1 DEF PromisedRows
<1>3. kind = "constant" => job.value.rows = 0
  BY <1>1 DEF Values, kind
<1>4. Promised # {} => PromisedRows # 0
  BY DEF Promised
<1>5. Promised # {} => /\ Fits /\ Counted /\ kind \notin {"column", "constant"}
                       /\ PromisedRows = job.value.rows
  BY <1>3, <1>4 DEF PromisedRows
<1>6. Promised # {} => Promised = Items
  BY <1>5 DEF Promised, Items
<1>7. ASSUME NEW i \in Promised PROVE i \in Items /\ i \in Nat /\ i < Elements
  <2>1. i \in 0 .. job.value.rows - 1 /\ job.value.rows <= Elements
    BY <1>1, <1>5, <1>6 DEF Items
  <2> QED BY <1>1, <2>1 DEF Items
<1> QED BY <1>2, <1>5, <1>6, <1>7

\* The items of the result are in the order of its places.
LEMMA PlacesAscend ==
  ASSUME ResultInv, NEW i \in Promised, NEW j \in Promised,
         NEW k \in DOMAIN result, NEW l \in DOMAIN result,
         NEW p \in DOMAIN result[k], NEW q \in DOMAIN result[l],
         Has(result[k][p], i), Has(result[l][q], j),
         k < l \/ (k = l /\ p < q)
  PROVE  i < j
<1>1. TypeOK /\ result \in Seq(Seq(Piece))
  BY DEF ResultInv, CallInv, PlaceInv, TypeOK
<1>2. /\ k \in Nat /\ l \in Nat /\ k - 1 \in Workers /\ l - 1 \in Workers
      /\ result[k] = context[k - 1] /\ result[l] = context[l - 1]
  BY <1>1 DEF ResultInv, Collected
<1> DEFINE v == k - 1
           w == l - 1
<1>3. v \in Workers /\ w \in Workers /\ v \in Nat /\ w \in Nat
      /\ (v < w \/ (v = w /\ p < q))
  <2>1. job \in Jobs
    BY <1>1 DEF TypeOK
  <2>2. v \in Nat /\ w \in Nat
    BY <1>2, <2>1, RangeFacts
  <2> QED BY <1>2, <2>2
<1>4. /\ result[k] = context[v] /\ result[l] = context[w]
      /\ p \in DOMAIN context[v] /\ q \in DOMAIN context[w]
      /\ Ordered(v) /\ Ordered(w)
  BY <1>2 DEF ResultInv
<1> HIDE DEF v, w
<1>5. Fits
  BY <1>1, PromisedFacts
<1>6. /\ context[v][p].end \in Nat /\ context[w][q].start \in Nat
      /\ RangeOf(v).start \in Nat /\ RangeOf(w).start \in Nat /\ PerWorker \in Nat
  <2>1. context[v] \in Seq(Piece) /\ context[w] \in Seq(Piece)
    BY <1>1, <1>3 DEF TypeOK
  <2>2. context[v][p] \in Piece /\ context[w][q] \in Piece
    BY <1>4, <2>1
  <2> QED BY <1>1, <1>3, <2>2, RangeFacts DEF Piece, TypeOK
<1>7. context[v][p].end <= context[w][q].start
  <2>1. CASE v < w
    <3>1. RangeOf(v).start + PerWorker <= RangeOf(w).start
      BY <1>1, <1>3, <2>1, RangesApart DEF TypeOK
    <3>2. context[v][p].end <= RangeOf(v).start + PerWorker
      BY <1>4, <1>5 DEF Ordered
    <3>3. RangeOf(w).start <= context[w][q].start
      BY <1>4 DEF Ordered
    <3> QED BY <1>6, <3>1, <3>2, <3>3
  <2>2. CASE v = w /\ p < q
    BY <1>4, <2>2 DEF Ordered
  <2> QED BY <1>3, <2>1, <2>2
<1>8. i < context[v][p].end /\ context[w][q].start <= j
  BY <1>4 DEF Has
<1>9. i \in Nat /\ j \in Nat
  BY <1>1, PromisedFacts
<1> QED BY <1>6, <1>7, <1>8, <1>9

\* When Driver.run has returned, the result has all that was promised.
LEMMA AllSent ==
  ASSUME ResultInv, main = "returned", NEW i \in Promised
  PROVE  Sent(i)
<1>1. TypeOK /\ Joined /\ result \in Seq(Seq(Piece))
  BY DEF ResultInv, CallInv, PlaceInv, TypeOK
<1>2. Counted /\ kind # "constant" /\ i \in Items /\ i \in Nat
  BY <1>1, PromisedFacts
<1>3. PICK w \in Workers : RangeOf(w).start <= i /\ i < RangeOf(w).end
  BY <1>1, <1>2, RowOwned DEF TypeOK
<1>4. w < Len(result) /\ pc[w] = "done"
  BY <1>1 DEF Joined
<1>5. Keeps(w) /\ Passed(w)
  BY DEF ResultInv, CallInv, PlaceInv, WorkerInv
<1>6. w \in Nat /\ RangeOf(w).end \in Nat /\ piece[w].start \in Nat
  BY <1>1, RangeFacts DEF TypeOK, Piece
<1>7. i < piece[w].start
  BY <1>2, <1>3, <1>4, <1>5, <1>6 DEF Passed
<1>8. PICK p \in DOMAIN context[w] : Has(context[w][p], i)
  BY <1>2, <1>3, <1>4, <1>5, <1>7 DEF Keeps
<1>9. w + 1 \in DOMAIN result /\ (w + 1) - 1 = w
  BY <1>1, <1>4, <1>6
<1>10. result[w + 1] = context[w]
  BY <1>9 DEF ResultInv, Collected
<1> QED BY <1>8, <1>9, <1>10 DEF Sent

LEMMA OutputMapped ==
  ASSUME ResultInv
  PROVE  Output = IF main = "returned" /\ job.sends
                  THEN Promise!AllInOrder ELSE Promise!Nothing
<1>1. CASE main = "returned" /\ job.sends
  <2>1. {i \in Promised : Sent(i)} = Promised
    BY <1>1, AllSent
  <2>2. ASSUME NEW i \in Promised, NEW j \in Promised PROVE Before(i, j) <=> i < j
    <3>0. i \in Nat /\ j \in Nat /\ result \in Seq(Seq(Piece))
      BY PromisedFacts DEF ResultInv, CallInv, PlaceInv, TypeOK
    <3>1. ASSUME Before(i, j) PROVE i < j
      <4>1. PICK k \in DOMAIN result : \E l \in DOMAIN result :
              \E p \in DOMAIN result[k] : \E q \in DOMAIN result[l] :
                /\ Has(result[k][p], i) /\ Has(result[l][q], j)
                /\ k < l \/ (k = l /\ p < q) \/ (k = l /\ p = q /\ i < j)
        BY <3>1 DEF Before
      <4>2. PICK l \in DOMAIN result :
              \E p \in DOMAIN result[k] : \E q \in DOMAIN result[l] :
                /\ Has(result[k][p], i) /\ Has(result[l][q], j)
                /\ k < l \/ (k = l /\ p < q) \/ (k = l /\ p = q /\ i < j)
        BY <4>1
      <4>3. PICK p \in DOMAIN result[k] : \E q \in DOMAIN result[l] :
                /\ Has(result[k][p], i) /\ Has(result[l][q], j)
                /\ k < l \/ (k = l /\ p < q) \/ (k = l /\ p = q /\ i < j)
        BY <4>2
      <4>4. PICK q \in DOMAIN result[l] :
                /\ Has(result[k][p], i) /\ Has(result[l][q], j)
                /\ k < l \/ (k = l /\ p < q) \/ (k = l /\ p = q /\ i < j)
        BY <4>3
      <4> QED BY <4>4, PlacesAscend
    <3>2. ASSUME i < j PROVE Before(i, j)
      <4>1. PICK k \in DOMAIN result : \E p \in DOMAIN result[k] : Has(result[k][p], i)
        BY <1>1, AllSent DEF Sent
      <4>2. PICK p \in DOMAIN result[k] : Has(result[k][p], i)
        BY <4>1
      <4>3. PICK l \in DOMAIN result : \E q \in DOMAIN result[l] : Has(result[l][q], j)
        BY <1>1, AllSent DEF Sent
      <4>4. PICK q \in DOMAIN result[l] : Has(result[l][q], j)
        BY <4>3
      <4>5. k \in Nat /\ l \in Nat
        BY <3>0
      <4>6. result[k] \in Seq(Piece) /\ result[l] \in Seq(Piece)
        BY <3>0
      <4>7. p \in Nat /\ q \in Nat
        BY <4>6
      <4>8. ~ (l < k \/ (l = k /\ q < p))
        <5> SUFFICES ASSUME l < k \/ (l = k /\ q < p) PROVE FALSE
          OBVIOUS
        <5>1. j < i
          BY <4>2, <4>4, PlacesAscend
        <5> QED BY <3>0, <3>2, <5>1
      <4>9. k < l \/ (k = l /\ p < q) \/ (k = l /\ p = q /\ i < j)
        BY <3>2, <4>5, <4>7, <4>8
      <4> QED BY <4>2, <4>4, <4>9 DEF Before
    <3> QED BY <3>1, <3>2
  <2>3. {pair \in Promised \X Promised : Before(pair[1], pair[2])}
          = {pair \in Promised \X Promised : pair[1] < pair[2]}
    BY <2>2
  <2> QED BY <1>1, <2>1, <2>3 DEF Output, Promise!AllInOrder, Promise!Items, Promised
<1>2. CASE ~ (main = "returned" /\ job.sends)
  BY <1>2 DEF Output, Promise!Nothing
<1> QED BY <1>1, <1>2

LEMMA PromiseInit == Init => Promise!Init
<1> SUFFICES ASSUME Init PROVE Promise!Init
  OBVIOUS
<1>1. TypeOK
  BY JobFacts DEF Init, TypeOK, Piece, Tasks
<1>2. PromisedRows \in Nat /\ (\A i \in Promised : i \in Items)
      /\ job.tasks \in Nat \ {0} /\ job.sends \in BOOLEAN
  BY <1>1, PromisedFacts, JobFacts DEF TypeOK
<1>3. calls = [t \in Tasks |-> [i \in Items |-> 0]] /\ main = "waiting"
  BY DEF Init
<1>4. PromisedCalls = [t \in Tasks |-> [i \in Promised |-> 0]]
  BY <1>2, <1>3 DEF PromisedCalls
<1>5. Status = "running" /\ Output = Promise!Nothing
  BY <1>3 DEF Status, Output, Promise!Nothing
<1> QED BY <1>2, <1>4, <1>5 DEF Promise!Init, Promise!Items, Promise!Tasks, Tasks, Promised

\* A call is a step of ParallelFor, or none if nothing is promised of its piece.
LEMMA PromiseCall ==
  ASSUME ResultInv, ResultInv', NEW w \in Workers, Call(w)
  PROVE  [Promise!Next]_Promise!vars
<1>0. TypeOK /\ PlaceInv /\ Once /\ Made(w) /\ NotMade(w) /\ Joined
  BY DEF ResultInv, CallInv, PlaceInv
<1>1. /\ pc[w] = "call" /\ task[w] <= job.tasks /\ UNCHANGED <<job, pc, main, result>>
      /\ task[w] \in Tasks /\ task[w] \in Nat \ {0} /\ job.tasks \in Nat
  BY <1>0, JobFacts DEF Call, TypeOK, Tasks
<1>2. /\ calls \in [Tasks -> [Items -> Nat]] /\ calls' \in [Tasks -> [Items -> Nat]]
      /\ \A t \in Tasks, i \in Items :
           calls'[t][i] = IF t = task[w] /\ i \in PieceOf(w) THEN calls[t][i] + 1
                          ELSE calls[t][i]
  BY <1>0, CallFacts DEF TypeOK
<1>3. /\ Tasks' = Tasks /\ Promised' = Promised /\ PromisedRows' = PromisedRows
      /\ Output' = Output /\ Status' = Status /\ Promised \subseteq Items
  <2>1. /\ Tasks' = Tasks /\ kind' = kind /\ Fits' = Fits /\ Counted' = Counted
        /\ Workers' = Workers
    BY <1>1, JobStays
  <2>2. PromisedRows' = PromisedRows
    BY <1>1, <2>1 DEF PromisedRows
  <2> QED BY <1>0, <1>1, <2>1, <2>2, PromisedFacts DEF Promised, Output, Status, Sent, Before, Has
<1>4. Status = "running"
  <2>1. main # "returned"
    BY <1>0, <1>1 DEF Joined
  <2> QED BY <1>1, <2>1 DEF Status
<1>5. CASE PieceOf(w) \cap Promised = {}
  <2>1. PromisedCalls' = PromisedCalls
    BY <1>2, <1>3, <1>5 DEF PromisedCalls
  <2> QED BY <1>1, <1>3, <2>1 DEF Promise!vars
<1>6. CASE PieceOf(w) \cap Promised # {}
  <2>1. /\ Fits /\ Counted /\ kind \notin {"column", "constant"} /\ Promised = Items
        /\ PieceOf(w) \subseteq Promised
    BY <1>0, <1>6, PromisedFacts DEF PieceOf
  <2>2. Applies(w)
    <3>1. UNCHANGED <<pc, piece, context>> /\ task' = [task EXCEPT ![w] = task[w] + 1]
      BY DEF Call
    <3>2. task'[w] = task[w] + 1
      BY <1>0, <3>1 DEF TypeOK
    <3> QED BY <1>1, <1>2, <3>1, <3>2 DEF Applies
  <2>3. ASSUME NEW i \in PieceOf(w)
        PROVE  /\ calls[task[w]][i] = 0
               /\ \A u \in 1 .. task[w] - 1 : calls[u][i] = 1
    <3>1. i \in Items /\ i \in Nat /\ i < Elements
      BY <1>0, <2>1, PromisedFacts
    <3>2. calls[task[w]][i] = 0
      BY <1>0, <1>1, <2>1, <2>2, <3>1, AppliesAhead DEF NotMade
    <3>3. piece[w].start <= i /\ i < piece[w].end
      BY <2>1 DEF PieceOf
    <3>4. RangeOf(w).start <= i /\ i < RangeOf(w).end
      <4>1. RangeOf(w).start <= piece[w].start /\ piece[w].end <= RangeOf(w).start + PerWorker
        BY <1>0, <1>1, <2>1, PieceInZone DEF PlaceInv, WorkerInv
      <4>2. /\ RangeOf(w).start \in Nat /\ PerWorker \in Nat /\ Elements \in Nat
            /\ RangeOf(w).end = Lesser(Elements, PerWorker * (w + 1))
            /\ PerWorker * (w + 1) = RangeOf(w).start + PerWorker
            /\ piece[w].start \in Nat /\ piece[w].end \in Nat
        BY <1>0, RangeFacts, JobFacts DEF TypeOK, Piece
      <4>3. i < RangeOf(w).start + PerWorker /\ RangeOf(w).start <= i
        BY <3>1, <3>3, <4>1, <4>2
      <4> QED BY <3>1, <4>2, <4>3 DEF Lesser
    <3>5. ASSUME NEW u \in 1 .. task[w] - 1 PROVE calls[u][i] = 1
      <4>1. u \in Tasks /\ u < task[w]
        BY <1>1 DEF Tasks
      <4>2. calls[u][i] >= 1
        BY <1>0, <1>1, <3>1, <3>3, <3>4, <4>1 DEF Made, Covered
      <4>3. calls[u][i] <= 1
        BY <1>0, <2>1, <3>1, <4>1 DEF Once, AtMostOnce
      <4>4. calls[u][i] \in Nat
        BY <1>2, <3>1, <4>1
      <4> QED BY <4>2, <4>3, <4>4
    <3> QED BY <3>2, <3>5
  <2>4. PromisedCalls = calls /\ PromisedCalls' = calls'
    BY <1>2, <1>3, <2>1 DEF PromisedCalls
  <2> DEFINE row == [i \in Items |-> IF i \in PieceOf(w) THEN 1 ELSE calls[task[w]][i]]
  <2>5. calls' = [calls EXCEPT ![task[w]] = row]
    <3>1. row = [i \in Items |-> IF i \in PieceOf(w) THEN calls[task[w]][i] + 1
                                 ELSE calls[task[w]][i]]
      BY <2>3
    <3> QED BY <3>1 DEF Call
  <2>6. Promise!Items = Items /\ Promise!Tasks = Tasks
    BY <2>1 DEF Promise!Items, Promise!Tasks, Promised, Tasks
  <2>7. PieceOf(w) # {} /\ \A i \in PieceOf(w) : Promise!Ready(task[w], i)
    BY <1>6, <2>3, <2>4 DEF Promise!Ready
  <2>8. PromisedCalls' = [PromisedCalls EXCEPT ![task[w]] =
          [i \in Items |-> IF i \in PieceOf(w) THEN 1 ELSE PromisedCalls[task[w]][i]]]
    BY <2>4, <2>5
  <2>9. Promise!Apply(task[w], PieceOf(w))
    BY <1>1, <1>3, <1>4, <2>6, <2>7, <2>8 DEF Promise!Apply
  <2>10. task[w] \in Promise!Tasks /\ PieceOf(w) \in SUBSET Promise!Items
    BY <1>1, <2>1, <2>6
  <2> QED BY <2>9, <2>10 DEF Promise!Next
<1> QED BY <1>5, <1>6

\* A run that is over for the caller or goes on, without a call, is no step of
\* ParallelFor or its panic.
LEMMA PromiseQuiet ==
  ASSUME ResultInv, ResultInv', job' = job, calls' = calls,
         Status = "running", Status' \in {"running", "panicked"}
  PROVE  [Promise!Next]_Promise!vars
<1>1. Tasks' = Tasks /\ Promised' = Promised /\ PromisedRows' = PromisedRows
  <2>1. /\ Tasks' = Tasks /\ kind' = kind /\ Fits' = Fits /\ Counted' = Counted
    BY JobStays
  <2> QED BY <2>1 DEF PromisedRows, Promised
<1>2. PromisedCalls' = PromisedCalls
  BY <1>1 DEF PromisedCalls
<1>3. main # "returned" /\ main' # "returned"
  BY DEF Status
<1>4. Output' = Output
  BY <1>3 DEF Output
<1>5. CASE Status' = "running"
  BY <1>1, <1>2, <1>4, <1>5 DEF Promise!vars
<1>6. CASE Status' = "panicked"
  BY <1>1, <1>2, <1>4, <1>6 DEF Promise!Next, Promise!Abort
<1> QED BY <1>5, <1>6

LEMMA PromiseStep ==
  ASSUME ResultInv, ResultInv', [Next]_vars
  PROVE  [Promise!Next]_Promise!vars
<1>0. TypeOK /\ TypeOK' /\ Joined /\ CallInv /\ PlaceInv
  BY DEF ResultInv, CallInv, PlaceInv
<1>1. ASSUME NEW w \in Workers, Worker(w) PROVE [Promise!Next]_Promise!vars
  <2>1. CASE Call(w)
    BY <2>1, PromiseCall
  <2>2. CASE ~ Call(w)
    <3>1. UNCHANGED <<job, calls, main>>
      BY <1>1, <2>2 DEF Worker, Begin, Split, Stop, Advance, Merge, MergeRaises
    <3>2. Starts(w) \/ Splits(w) \/ Applies(w) \/ Advances(w) \/ Ends(w)
      BY <1>0, <1>1, WorkerStep
    <3>3. pc[w] \notin {"done", "raised"}
      BY <3>2 DEF Starts, Splits, Applies, Advances, Ends
    <3>4. main # "returned"
      BY <1>0, <3>3 DEF Joined
    <3>5. Status = "running" /\ Status' \in {"running", "panicked"}
      BY <3>1, <3>3, <3>4 DEF Status
    <3> QED BY <3>1, <3>5, PromiseQuiet
  <2> QED BY <2>1, <2>2
<1>2. CASE Get \/ GetRaises \/ Uncountable
  <2>1. /\ UNCHANGED <<job, calls>> /\ main = "waiting" /\ main' \in {"waiting", "raised"}
    BY <1>2 DEF Get, GetRaises, Uncountable
  <2>2. Status = "running" /\ Status' \in {"running", "panicked"}
    BY <2>1 DEF Status
  <2> QED BY <2>1, <2>2, PromiseQuiet
<1>3. CASE Return
  <2>1. UNCHANGED <<job, calls>> /\ main = "waiting" /\ main' = "returned"
    BY <1>3 DEF Return
  <2>2. Tasks' = Tasks /\ Promised' = Promised /\ PromisedRows' = PromisedRows
    <3>1. /\ Tasks' = Tasks /\ kind' = kind /\ Fits' = Fits /\ Counted' = Counted
      BY <2>1, JobStays
    <3> QED BY <2>1, <3>1 DEF PromisedRows, Promised
  <2>3. PromisedCalls' = PromisedCalls
    BY <2>1, <2>2 DEF PromisedCalls
  <2>4. Status = "running" /\ Status' = "done"
    BY <2>1 DEF Status
  <2>5. ASSUME NEW t \in Tasks, NEW i \in Promised PROVE calls[t][i] = 1
    <3>1. i \in Items /\ Fits /\ Counted /\ kind # "column"
      BY <1>0, PromisedFacts
    <3>2. calls[t][i] <= 1
      BY <1>0, <3>1 DEF CallInv, Once, AtMostOnce
    <3>3. CallInv'
      BY DEF ResultInv
    <3>4. Complete'
      BY <3>3, ReturnedComplete, PTL
    <3>5. calls[t][i] >= 1
      <4>1. Counted' = Counted /\ Tasks' = Tasks /\ Items' = Items
        BY <2>1, JobStays
      <4> QED BY <2>1, <3>1, <3>4, <4>1 DEF Complete
    <3>6. calls[t][i] \in Nat
      BY <1>0, <3>1 DEF TypeOK
    <3> QED BY <3>2, <3>5, <3>6
  <2>6. Output' = IF job.sends THEN Promise!AllInOrder ELSE Promise!Nothing
    <3>1. (Output = IF main = "returned" /\ job.sends
                    THEN Promise!AllInOrder ELSE Promise!Nothing)'
      BY OutputMapped, PTL
    <3> QED BY <2>1, <2>2, <3>1 DEF Promise!AllInOrder, Promise!Nothing, Promise!Items
  <2>7. Promise!Tasks = Tasks /\ Promise!Items = Promised
    BY DEF Promise!Tasks, Promise!Items, Tasks, Promised
  <2>8. \A t \in Tasks, i \in Promised : PromisedCalls[t][i] = 1
    BY <2>5 DEF PromisedCalls
  <2>9. Promise!Publish
    BY <2>1, <2>2, <2>3, <2>4, <2>6, <2>7, <2>8 DEF Promise!Publish
  <2> QED BY <2>9 DEF Promise!Next
<1>4. CASE UNCHANGED vars
  <2>1. UNCHANGED <<job, pc, calls, main, result>>
    BY <1>4 DEF vars
  <2>2. /\ Tasks' = Tasks /\ kind' = kind /\ Fits' = Fits /\ Counted' = Counted
        /\ Workers' = Workers
    BY <2>1, JobStays
  <2>3. PromisedRows' = PromisedRows /\ Promised' = Promised
    BY <2>1, <2>2 DEF PromisedRows, Promised
  <2>4. PromisedCalls' = PromisedCalls /\ Status' = Status /\ Output' = Output
    BY <2>1, <2>2, <2>3 DEF PromisedCalls, Status, Output, Sent, Before, Has
  <2> QED BY <2>1, <2>3, <2>4 DEF Promise!vars
<1> QED BY <1>1, <1>2, <1>3, <1>4 DEF Next, Main, Terminated

\* The pool of workers does to the rows what one worker would do.
THEOREM PyDriverImplementsParallelFor == Spec => Implements
<1>1. ResultInv /\ ResultInv' /\ [Next]_vars => [Promise!Next]_Promise!vars
  BY PromiseStep
<1> QED
  BY <1>1, PromiseInit, ResultInvariant, PTL DEF Spec, Implements, Promise!Spec

=============================================================================
