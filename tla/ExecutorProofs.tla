--------------------------- MODULE ExecutorProofs ---------------------------
(***************************************************************************)
(* Proofs about Executor: for every number of items, tasks, threads and    *)
(* every batch size, in every interleaving of the workers.                 *)
(***************************************************************************)
EXTENDS Executor, PartitionProofs, FiniteSetTheorems, SequenceTheorems, TLAPS

-----------------------------------------------------------------------------
(***************************************************************************)
(* The parameters of an execution and the range of a worker.               *)
(***************************************************************************)

LEMMA JobFacts ==
  ASSUME TypeOK
  PROVE  /\ job.items \in Nat
         /\ job.tasks \in Nat \ {0}
         /\ job.threads \in Nat \ {0}
         /\ job.taskSize \in Nat \ {0}
         /\ job.emits \in BOOLEAN
  BY BoundsAssumption DEF TypeOK, Jobs

LEMMA RangeFacts ==
  ASSUME TypeOK, NEW w \in Workers, tid[w] \in Nat
  PROVE  /\ RangeOf(w).start \in Nat
         /\ RangeOf(w).end \in Nat
         /\ RangeOf(w).end <= job.items
         /\ RangeOf(w).start <= job.items => RangeOf(w).start <= RangeOf(w).end
  BY JobFacts, ThreadRangeType, ThreadRangeNotInverted DEF RangeOf

\* The size of a batch, for a range that is not inverted.
LEMMA BatchSizeFacts ==
  ASSUME TypeOK, NEW range \in [start : Nat, end : Nat]
  PROVE  /\ BatchSize(range, job.taskSize) \in Int
         /\ range.start <= range.end => BatchSize(range, job.taskSize) \in Nat
         /\ range.start < range.end => BatchSize(range, job.taskSize) > 0
         /\ range.start + BatchSize(range, job.taskSize) <= range.end
  BY JobFacts DEF BatchSize, Lesser

-----------------------------------------------------------------------------
(***************************************************************************)
(* Types.                                                                  *)
(***************************************************************************)

LEMMA InitInductive == Init => Inductive
<1> SUFFICES ASSUME Init PROVE Inductive
  OBVIOUS
<1>1. TypeOK
  BY BoundsAssumption DEF Init, TypeOK, Jobs, WorkerStates, Batch, Workers, Tasks,
     Items, NoTid
<1>2. TidsTaken
  BY DEF Init, TidsTaken, Started
<1>3. CurInRange
  BY DEF Init, CurInRange
<1>4. CallsOfOwner
  BY DEF Init, CallsOfOwner, Owns, Started
<1>5. ListsOfOwner
  BY DEF Init, ListsOfOwner, Owns, Started
<1>6. PanicsForLackOfItems
  BY DEF Init, PanicsForLackOfItems
<1>7. JoinedAreDone
  BY <1>1, JobFacts DEF Init, JoinedAreDone
<1>8. OutputIsMerge
  BY DEF Init, OutputIsMerge
<1> QED BY <1>1, <1>2, <1>3, <1>4, <1>5, <1>6, <1>7, <1>8 DEF Inductive

LEMMA TypeStep ==
  ASSUME Inductive, [Next]_vars
  PROVE  TypeOK'
<1> USE DEF Inductive
<1>1. /\ TypeOK
      /\ \A w \in Workers : pc[w] # "spawned" => tid[w] \in Nat
  BY DEF TidsTaken, Started, TypeOK
<1>2. ASSUME NEW w \in Workers, Start(w) PROVE TypeOK'
  <2>1. ThreadRange(job.items, job.threads, nextTid) \in [start : Nat, end : Nat]
    BY <1>1, JobFacts, ThreadRangeType DEF TypeOK
  <2>2. FirstBatch(ThreadRange(job.items, job.threads, nextTid), job.taskSize)
          \in Batch
    BY <1>1, <2>1, BatchSizeFacts DEF FirstBatch, Batch
  <2> QED BY <1>1, <1>2, <2>2
       DEF Start, TakeTid, TypeOK, Workers, Tasks, Items, WorkerStates, mainVars
<1>3. ASSUME NEW w \in Workers, QuitWithoutRange(w) PROVE TypeOK'
  BY <1>1, <1>3
  DEF QuitWithoutRange, TakeTid, TypeOK, Workers, Tasks, Items, WorkerStates, mainVars
<1>4. ASSUME NEW w \in Workers, SplitValues(w) PROVE TypeOK'
  BY <1>1, <1>4 DEF SplitValues, TypeOK, Workers, Tasks, Items, WorkerStates, mainVars
<1>5. ASSUME NEW w \in Workers, FinishDriver(w) PROVE TypeOK'
  BY <1>1, <1>5 DEF FinishDriver, TypeOK, Workers, Tasks, Items, WorkerStates, mainVars
<1>6. ASSUME NEW w \in Workers, CallTask(w) PROVE TypeOK'
  <2>1. task[w] \in Tasks /\ task[w] + 1 \in Nat \ {0}
    BY <1>1, <1>6, JobFacts DEF CallTask, TypeOK, Tasks
  <2>2. [i \in Items |-> IF i \in BatchOf(w) THEN calls[task[w]][i] + 1
                                           ELSE calls[task[w]][i]]
          \in [Items -> Nat]
    BY <1>1, <2>1 DEF TypeOK
  <2>3. calls' \in [Tasks -> [Items -> Nat]]
    BY <1>1, <1>6, <2>1, <2>2 DEF CallTask, TypeOK
  <2>4. task' \in [Workers -> Nat \ {0}]
    BY <1>1, <1>6, <2>1 DEF CallTask, TypeOK
  <2> QED BY <1>1, <1>6, <2>3, <2>4
       DEF CallTask, TypeOK, Workers, Tasks, Items, WorkerStates, mainVars
<1>7. ASSUME NEW w \in Workers, FinishBatch(w) PROVE TypeOK'
  <2>1. RangeOf(w) \in [start : Nat, end : Nat]
    BY <1>1, <1>7, JobFacts, ThreadRangeType DEF RangeOf, FinishBatch, Advance
  <2>2. cur[w] \in Batch
    BY <1>1 DEF TypeOK
  <2>3. NextBatch(RangeOf(w), job.taskSize, cur[w]) \in Batch
    BY <1>1, <2>1, <2>2, BatchSizeFacts DEF NextBatch, Batch, Lesser
  <2>4. Append(lists[w], cur[w]) \in Seq(Batch)
    BY <1>1, <2>2 DEF TypeOK
  <2> QED BY <1>1, <1>7, <2>3, <2>4
       DEF FinishBatch, Advance, TypeOK, Workers, Tasks, Items, WorkerStates, mainVars
<1>8. ASSUME NEW w \in Workers, MergeLocal(w) PROVE TypeOK'
  BY <1>1, <1>8 DEF MergeLocal, TypeOK, Workers, Tasks, Items, WorkerStates, mainVars
<1>9. ASSUME NEW w \in Workers, PanicWithoutOutput(w) PROVE TypeOK'
  BY <1>1, <1>9
  DEF PanicWithoutOutput, TypeOK, Workers, Tasks, Items, WorkerStates, mainVars
<1>10. CASE Join
  <2>1. tid[Joining] \in Nat /\ lists[Joining] \in Seq(Batch)
    BY <1>1, <1>10 DEF Join, TypeOK
  <2>2. pieces' \in Seq([tid : Nat, batches : Seq(Batch)])
    BY <1>1, <1>10, <2>1 DEF Join, TypeOK
  <2> QED BY <1>1, <1>10, <2>2
       DEF Join, TypeOK, Workers, Tasks, Items, WorkerStates, workerVars
<1>11. CASE Unwind
  BY <1>1, <1>11 DEF Unwind, TypeOK, Workers, Tasks, Items, WorkerStates, workerVars
<1>12. CASE LeaveScope
  BY <1>1, <1>12 DEF LeaveScope, TypeOK, Workers, Tasks, Items, WorkerStates, workerVars
<1>13. CASE FinalMerge
  <2>1. PICK order \in Bijection(DOMAIN pieces, DOMAIN pieces) :
          output' = [k \in DOMAIN pieces |-> pieces[order[k]].batches]
    BY <1>13 DEF FinalMerge
  <2>2. order \in [DOMAIN pieces -> DOMAIN pieces]
    BY DEF Bijection, Injection
  <2>3. /\ pieces \in Seq([tid : Nat, batches : Seq(Batch)])
        /\ DOMAIN pieces = 1 .. Len(pieces) /\ Len(pieces) \in Nat
    BY <1>1 DEF TypeOK
  <2>4. ASSUME NEW k \in DOMAIN pieces
        PROVE  pieces[order[k]].batches \in Seq(Batch)
    <3>1. order[k] \in 1 .. Len(pieces)
      BY <2>2, <2>3
    <3>2. pieces[order[k]] \in [tid : Nat, batches : Seq(Batch)]
      BY <3>1, <2>3, ElementOfSeq
    <3> QED BY <3>2
  <2>5. output' \in Seq(Seq(Batch))
    BY <2>1, <2>3, <2>4
  <2> QED BY <1>1, <1>13, <2>5
       DEF FinalMerge, TypeOK, Workers, Tasks, Items, WorkerStates, workerVars
<1>14. CASE UNCHANGED vars
  BY <1>1, <1>14
  DEF vars, workerVars, mainVars, TypeOK, Workers, Tasks, Items, WorkerStates
<1> QED
  BY <1>2, <1>3, <1>4, <1>5, <1>6, <1>7, <1>8, <1>9, <1>10, <1>11, <1>12, <1>13,
     <1>14
  DEF Next, Worker, Main, Terminated

-----------------------------------------------------------------------------
(***************************************************************************)
(* Ids.                                                                    *)
(***************************************************************************)

\* Apart from the steps that take an id, no step changes who has started.
LEMMA OthersKeepTids ==
  ASSUME Inductive, [Next]_vars,
         \A w \in Workers : ~ (Start(w) \/ QuitWithoutRange(w))
  PROVE  /\ UNCHANGED <<nextTid, tid>>
         /\ \A w \in Workers : Started(w)' <=> Started(w)
<1> USE DEF Inductive
<1>1. TypeOK
  OBVIOUS
<1>2. ASSUME NEW w \in Workers, Worker(w)
      PROVE  /\ UNCHANGED <<nextTid, tid>>
             /\ \A v \in Workers : Started(v)' <=> Started(v)
  BY <1>1, <1>2
  DEF Worker, SplitValues, FinishDriver, CallTask, FinishBatch, Advance, MergeLocal,
      PanicWithoutOutput, TypeOK, Started
<1>3. CASE Main
  BY <1>3 DEF Main, Join, Unwind, LeaveScope, FinalMerge, workerVars, Started
<1>4. CASE UNCHANGED vars
  BY <1>4 DEF vars, workerVars, Started
<1> QED BY <1>2, <1>3, <1>4 DEF Next, Terminated

LEMMA JobConstant ==
  ASSUME [Next]_vars
  PROVE  job' = job
  BY DEF Next, Worker, Start, QuitWithoutRange, SplitValues, FinishDriver,
     CallTask, FinishBatch, Advance, MergeLocal, PanicWithoutOutput, Main, Join, Unwind,
     LeaveScope, FinalMerge, Terminated, vars

LEMMA TidsStep ==
  ASSUME Inductive, [Next]_vars
  PROVE  TidsTaken'
<1>1. TypeOK /\ TidsTaken
  BY DEF Inductive
<1>2. Workers' = Workers
  BY JobConstant DEF Workers
<1>3. ASSUME NEW w \in Workers, TakeTid(w),
             pc' = [pc EXCEPT ![w] = "split"] \/ pc' = [pc EXCEPT ![w] = "done"]
      PROVE  TidsTaken'
  <2>1. /\ tid'[w] = nextTid /\ ~ Started(w) /\ Started(w)'
        /\ nextTid' = nextTid + 1 /\ nextTid \in Nat
        /\ \A v \in Workers \ {w} : tid'[v] = tid[v] /\ (Started(v)' <=> Started(v))
    BY <1>1, <1>3 DEF TakeTid, TypeOK, Started
  <2>2. \A v \in Workers : Started(v)' => tid'[v] \in 0 .. nextTid' - 1
    BY <1>1, <2>1 DEF TidsTaken
  <2>3. ASSUME NEW k \in 0 .. nextTid' - 1
        PROVE  \E v \in Workers : Started(v)' /\ tid'[v] = k
    <3>1. CASE k = nextTid
      BY <3>1, <2>1
    <3>2. CASE k # nextTid
      <4>1. k \in 0 .. nextTid - 1
        BY <3>2, <2>1
      <4>2. PICK v \in Workers : Started(v) /\ tid[v] = k
        BY <4>1, <1>1 DEF TidsTaken
      <4> QED BY <4>2, <2>1
    <3> QED BY <3>1, <3>2
  <2>4. \A u, v \in Workers :
          Started(u)' /\ Started(v)' /\ tid'[u] = tid'[v] => u = v
    BY <1>1, <2>1 DEF TidsTaken
  <2> QED BY <1>2, <2>2, <2>3, <2>4 DEF TidsTaken
<1>4. ASSUME NEW w \in Workers, Start(w) \/ QuitWithoutRange(w)
      PROVE  TidsTaken'
  BY <1>3, <1>4 DEF Start, QuitWithoutRange
<1>5. CASE \A w \in Workers : ~ (Start(w) \/ QuitWithoutRange(w))
  BY <1>1, <1>2, <1>5, OthersKeepTids DEF TidsTaken
<1> QED BY <1>4, <1>5

-----------------------------------------------------------------------------
(***************************************************************************)
(* What a step leaves alone.                                               *)
(***************************************************************************)

\* A worker's step does not touch the others.
LEMMA OthersUnchanged ==
  ASSUME Inductive, NEW w \in Workers, Worker(w), NEW v \in Workers, v # w
  PROVE  /\ pc'[v] = pc[v] /\ tid'[v] = tid[v] /\ cur'[v] = cur[v]
         /\ task'[v] = task[v] /\ lists'[v] = lists[v]
  BY DEF Inductive, TypeOK, Worker, Start, QuitWithoutRange, TakeTid, SplitValues,
     FinishDriver, CallTask, FinishBatch, Advance, MergeLocal, PanicWithoutOutput

\* The steps of the main thread touch no worker.
LEMMA MainKeepsWorkers ==
  ASSUME Main \/ UNCHANGED vars
  PROVE  UNCHANGED <<job, nextTid, pc, tid, cur, task, lists, calls>>
  BY DEF Main, Join, Unwind, LeaveScope, FinalMerge, vars, workerVars

\* A worker's step is not one of the main thread.
LEMMA WorkerKeepsMain ==
  ASSUME NEW w, Worker(w)
  PROVE  UNCHANGED <<job, pieces, main, output>>
  BY DEF Worker, Start, QuitWithoutRange, SplitValues, FinishDriver, CallTask,
     FinishBatch, Advance, MergeLocal, PanicWithoutOutput, mainVars

\* A worker in its driver loop has a range that is well formed.
LEMMA LoopFacts ==
  ASSUME Inductive, NEW w \in Workers, Started(w)
  PROVE  /\ tid[w] \in Nat
         /\ RangeOf(w) \in [start : Nat, end : Nat]
         /\ RangeOf(w).end <= job.items
         /\ RangeOf(w).start <= job.items => RangeOf(w).start <= RangeOf(w).end
         /\ cur[w].start \in Int /\ cur[w].end \in Int
<1>1. TypeOK /\ tid[w] \in Nat
  BY DEF Inductive, TidsTaken, TypeOK
<1>2. RangeOf(w) \in [start : Nat, end : Nat]
  BY <1>1, JobFacts, ThreadRangeType DEF RangeOf
<1> QED BY <1>1, <1>2, RangeFacts DEF TypeOK, Batch

-----------------------------------------------------------------------------
(***************************************************************************)
(* Batches.                                                                *)
(***************************************************************************)

LEMMA CurStep ==
  ASSUME Inductive, [Next]_vars
  PROVE  CurInRange'
<1>1. TypeOK /\ CurInRange /\ job' = job /\ Workers' = Workers /\ Items' = Items
  BY JobConstant DEF Inductive, Workers, Items
<1> DEFINE OK(v) ==
      /\ pc[v] \in {"split", "call", "merge"} =>
           /\ HasRange(job.items, job.threads, tid[v])
           /\ RangeOf(v).start <= cur[v].start
      /\ pc[v] \in {"split", "call"} =>
           cur[v].end = Lesser(RangeOf(v).end,
                               cur[v].start + BatchSize(RangeOf(v), job.taskSize))
      /\ pc[v] = "call" => cur[v].start <= job.items
      /\ pc[v] \in {"merge", "done", "panicked"} =>
           \A i \in Items : Owns(v, i) => i < cur[v].start
<1>2. SUFFICES ASSUME NEW v \in Workers PROVE OK(v)'
  BY <1>1 DEF CurInRange
<1>3. OK(v)
  BY <1>1 DEF CurInRange
<1>4. ASSUME NEW w \in Workers, Worker(w), v # w PROVE OK(v)'
  <2>1. pc'[v] = pc[v] /\ tid'[v] = tid[v] /\ cur'[v] = cur[v]
    BY <1>4, OthersUnchanged
  <2> QED BY <1>1, <1>3, <2>1 DEF RangeOf, Owns, Started
<1>5. CASE Main \/ UNCHANGED vars
  <2>1. UNCHANGED <<pc, tid, cur>>
    BY <1>5, MainKeepsWorkers
  <2> QED BY <1>1, <1>3, <2>1 DEF RangeOf, Owns, Started
<1>6. CASE Start(v)
  <2> DEFINE range == ThreadRange(job.items, job.threads, nextTid)
  <2>1. /\ pc'[v] = "split" /\ tid'[v] = nextTid
        /\ cur'[v] = FirstBatch(range, job.taskSize)
        /\ HasRange(job.items, job.threads, nextTid)
    BY <1>1, <1>6 DEF Start, TakeTid, TypeOK
  <2>2. range \in [start : Nat, end : Nat]
    BY <1>1, JobFacts, ThreadRangeType DEF TypeOK
  <2>3. RangeOf(v)' = range
    BY <1>1, <2>1 DEF RangeOf
  <2>4. range.start + BatchSize(range, job.taskSize) <= range.end
        /\ BatchSize(range, job.taskSize) \in Int
    BY <1>1, <2>2, BatchSizeFacts
  <2>5. /\ cur'[v].start = range.start
        /\ cur'[v].end = range.start + BatchSize(range, job.taskSize)
    BY <2>1 DEF FirstBatch
  <2> HIDE DEF range
  <2>6. cur'[v].end = Lesser(range.end, range.start + BatchSize(range, job.taskSize))
    BY <2>2, <2>4, <2>5 DEF Lesser
  <2> QED BY <1>1, <2>1, <2>2, <2>3, <2>5, <2>6
<1>7. CASE QuitWithoutRange(v)
  BY <1>1, <1>7 DEF QuitWithoutRange, TakeTid, TypeOK, Owns, InRange
<1>8. CASE SplitValues(v)
  <2>1. pc'[v] = "call" /\ UNCHANGED <<cur, tid>> /\ pc[v] = "split"
    BY <1>1, <1>8 DEF SplitValues, TypeOK
  <2>2. cur[v].start <= job.items
    <3>1. cur[v].start \in Int /\ job.items \in Nat
      BY <1>1, <2>1, LoopFacts, JobFacts DEF Started
    <3> QED BY <1>8, <3>1 DEF SplitValues, SplitterFinished, Finished, WandSplitFinished, RegularSplitFinished
  <2> QED BY <1>1, <1>3, <2>1, <2>2 DEF RangeOf
<1>9. CASE FinishDriver(v)
  <2>1. pc'[v] = "merge" /\ UNCHANGED <<cur, tid>> /\ pc[v] = "split"
    BY <1>1, <1>9 DEF FinishDriver, TypeOK
  <2>2. job.items <= cur[v].start
    <3>1. cur[v].start \in Int /\ job.items \in Nat
      BY <1>1, <2>1, LoopFacts, JobFacts DEF Started
    <3> QED BY <1>9, <3>1 DEF FinishDriver, SplitterFinished, Finished, WandSplitFinished, RegularSplitFinished
  <2>3. \A i \in Items : i < cur[v].start
    BY <1>1, <2>1, <2>2, LoopFacts, JobFacts DEF Items, Started
  <2> QED BY <1>1, <1>3, <2>1, <2>3 DEF RangeOf
<1>10. CASE CallTask(v)
  BY <1>1, <1>3, <1>10 DEF CallTask, RangeOf, Owns, Started
<1>11. CASE FinishBatch(v)
  <2> DEFINE size == BatchSize(RangeOf(v), job.taskSize)
             next == NextBatch(RangeOf(v), job.taskSize, cur[v])
  <2>1. /\ pc[v] = "call" /\ tid' = tid /\ cur'[v] = next
        /\ pc'[v] = IF next.start >= RangeOf(v).end THEN "merge" ELSE "split"
    BY <1>1, <1>11 DEF FinishBatch, Advance, TypeOK
  <2>2. /\ RangeOf(v).start \in Nat /\ RangeOf(v).end \in Nat
        /\ RangeOf(v).start <= cur[v].start /\ cur[v].start \in Int
        /\ RangeOf(v).start <= RangeOf(v).end
        /\ RangeOf(v) \in [start : Nat, end : Nat]
    BY <1>1, <1>3, <2>1, LoopFacts, JobFacts DEF Started
  <2>3. size \in Nat
    BY <1>1, <2>2, BatchSizeFacts
  <2>4. next.start = cur[v].start + size
        /\ next.end = Lesser(RangeOf(v).end, next.start + size)
    BY DEF NextBatch
  <2>5. RangeOf(v)' = RangeOf(v)
    BY <1>1, <2>1 DEF RangeOf
  <2>6. RangeOf(v).start <= next.start /\ next.start \in Int
    BY <2>2, <2>3, <2>4
  <2>7. ASSUME NEW i \in Items, Owns(v, i)', next.start >= RangeOf(v).end
        PROVE  i < next.start
    <3>1. i < RangeOf(v).end
      BY <1>1, <2>1, <2>7 DEF Owns, InRange, RangeOf
    <3> QED BY <2>2, <2>6, <2>7, <3>1 DEF Items
  <2> HIDE DEF next
  <2> QED BY <1>1, <1>3, <2>1, <2>4, <2>5, <2>6, <2>7
<1>12. CASE MergeLocal(v) \/ PanicWithoutOutput(v)
  <2>1. /\ pc[v] = "merge" /\ pc'[v] \in {"done", "panicked"}
        /\ UNCHANGED <<cur, tid>>
    BY <1>1, <1>12 DEF MergeLocal, PanicWithoutOutput, TypeOK
  <2> QED BY <1>1, <1>3, <2>1 DEF Owns, Started
<1> QED
  BY <1>4, <1>5, <1>6, <1>7, <1>8, <1>9, <1>10, <1>11, <1>12
  DEF Next, Worker, Terminated

-----------------------------------------------------------------------------
(***************************************************************************)
(* Calls.                                                                  *)
(***************************************************************************)

\* An item has one owner at most.
LEMMA OwnerUnique ==
  ASSUME Inductive, NEW v \in Workers, NEW w \in Workers, NEW i \in Items,
         Owns(v, i), Owns(w, i)
  PROVE  v = w
<1>1. tid[v] \in Nat /\ tid[w] \in Nat /\ i \in Int
  BY LoopFacts DEF Owns, Items
<1>2. tid[v] = tid[w]
  BY <1>1, JobFacts, RangesDisjoint DEF Owns, Inductive
<1> QED BY <1>2 DEF Owns, Inductive, TidsTaken

\* The items of the current batch are the worker's own.
LEMMA BatchOwned ==
  ASSUME Inductive, NEW w \in Workers, pc[w] = "call", NEW i \in BatchOf(w)
  PROVE  Owns(w, i)
<1>1. /\ HasRange(job.items, job.threads, tid[w])
      /\ RangeOf(w).start <= cur[w].start
      /\ cur[w].end = Lesser(RangeOf(w).end,
                             cur[w].start + BatchSize(RangeOf(w), job.taskSize))
  BY DEF Inductive, CurInRange
<1>2. /\ RangeOf(w) \in [start : Nat, end : Nat]
      /\ cur[w].start \in Int /\ cur[w].end \in Int
  BY LoopFacts DEF Started
<1>3. BatchSize(RangeOf(w), job.taskSize) \in Int
  BY <1>2, BatchSizeFacts DEF Inductive
<1>4. cur[w].end <= RangeOf(w).end
  BY <1>1, <1>2, <1>3 DEF Lesser
<1>5. i \in Int /\ cur[w].start <= i /\ i < cur[w].end
  BY DEF BatchOf, Items
<1> QED BY <1>1, <1>2, <1>4, <1>5 DEF Owns, Started, InRange, RangeOf

LEMMA CallsStep ==
  ASSUME Inductive, [Next]_vars
  PROVE  CallsOfOwner'
<1>1. /\ TypeOK /\ CallsOfOwner /\ CurInRange /\ job' = job
      /\ Workers' = Workers /\ Items' = Items /\ Tasks' = Tasks
  BY JobConstant DEF Inductive, Workers, Items, Tasks
<1> DEFINE Goal(t, i) ==
      /\ \A w \in Workers :
           Owns(w, i) => calls[t][i] = IF HasCalled(w, t, i) THEN 1 ELSE 0
      /\ (\A w \in Workers : ~ Owns(w, i)) => calls[t][i] = 0
<1>2. SUFFICES ASSUME NEW t \in Tasks, NEW i \in Items PROVE Goal(t, i)'
  BY <1>1 DEF CallsOfOwner
<1>3. Goal(t, i)
  BY <1>1 DEF CallsOfOwner
<1>4. i \in Int /\ t \in Nat \ {0} /\ t <= job.tasks
  BY <1>1, JobFacts DEF Items, Tasks
\* A step that changes neither the calls nor the owners, and not what w has
\* called on its items, preserves the goal.
<1>5. ASSUME NEW w \in Workers, Worker(w), UNCHANGED <<calls, tid>>,
             Started(w) <=> Started(w)',
             Owns(w, i) => (HasCalled(w, t, i)' <=> HasCalled(w, t, i))
      PROVE  Goal(t, i)'
  <2>1. \A v \in Workers \ {w} :
          /\ pc'[v] = pc[v] /\ cur'[v] = cur[v] /\ task'[v] = task[v]
    BY <1>5, OthersUnchanged
  <2>2. \A v \in Workers : Owns(v, i)' <=> Owns(v, i)
    BY <1>1, <1>5, <2>1 DEF Owns, Started
  <2>3. \A v \in Workers : Owns(v, i) => (HasCalled(v, t, i)' <=> HasCalled(v, t, i))
    BY <1>5, <2>1 DEF HasCalled
  <2> QED BY <1>1, <1>3, <1>5, <2>2, <2>3
<1>6. CASE Main \/ UNCHANGED vars
  <2>1. UNCHANGED <<pc, tid, cur, task, calls>>
    BY <1>6, MainKeepsWorkers
  <2> QED BY <1>1, <1>3, <2>1 DEF Owns, Started, HasCalled
<1>7. ASSUME NEW w \in Workers, Start(w) PROVE Goal(t, i)'
  <2> DEFINE range == ThreadRange(job.items, job.threads, nextTid)
  <2>1. /\ tid'[w] = nextTid /\ nextTid \in Nat /\ pc'[w] = "split"
        /\ cur'[w] = FirstBatch(range, job.taskSize) /\ calls' = calls
        /\ ~ Started(w)
    BY <1>1, <1>7 DEF Start, TakeTid, TypeOK, Started
  <2>2. ASSUME NEW v \in Workers \ {w}
        PROVE  /\ Owns(v, i)' <=> Owns(v, i)
               /\ HasCalled(v, t, i)' <=> HasCalled(v, t, i)
    <3>1. pc'[v] = pc[v] /\ tid'[v] = tid[v] /\ cur'[v] = cur[v] /\ task'[v] = task[v]
      BY <1>7, OthersUnchanged DEF Worker
    <3> QED BY <1>1, <3>1 DEF Owns, Started, HasCalled
  <2>3. CASE Owns(w, i)'
    <3>1. InRange(job.items, job.threads, nextTid, i)
      BY <1>1, <2>1, <2>3 DEF Owns
    <3>2. ASSUME NEW v \in Workers, Owns(v, i) PROVE FALSE
      <4>1. tid[v] \in Nat /\ tid[v] < nextTid
        BY <2>1, <3>2 DEF Inductive, TidsTaken, Owns
      <4>2. tid[v] = nextTid
        BY <1>1, <1>4, <2>1, <3>1, <3>2, <4>1, JobFacts, RangesDisjoint DEF Owns
      <4> QED BY <4>1, <4>2, <2>1
    <3>3. calls'[t][i] = 0
      BY <1>3, <2>1, <3>2
    <3>4. ~ HasCalled(w, t, i)'
      <4>1. cur'[w].start <= i
        BY <2>1, <3>1 DEF FirstBatch, InRange
      <4>2. range \in [start : Nat, end : Nat]
        BY <1>1, <2>1, JobFacts, ThreadRangeType
      <4>3. cur'[w].start \in Nat
        BY <2>1, <4>2 DEF FirstBatch
      <4> QED BY <1>4, <2>1, <4>1, <4>3 DEF HasCalled
    <3>5. \A v \in Workers \ {w} : ~ Owns(v, i)'
      BY <2>2, <3>2
    <3> QED BY <1>1, <2>3, <3>3, <3>4, <3>5
  <2>4. CASE ~ Owns(w, i)'
    <3>1. ~ Owns(w, i)
      BY <2>1 DEF Owns
    <3> QED BY <1>1, <1>3, <2>1, <2>2, <2>4, <3>1
  <2> QED BY <2>3, <2>4
<1>8. ASSUME NEW w \in Workers, QuitWithoutRange(w) PROVE Goal(t, i)'
  <2>1. /\ tid'[w] = nextTid /\ calls' = calls /\ ~ Started(w)
        /\ ~ HasRange(job.items, job.threads, nextTid)
    BY <1>1, <1>8 DEF QuitWithoutRange, TakeTid, TypeOK, Started
  <2>2. ASSUME NEW v \in Workers \ {w}
        PROVE  /\ Owns(v, i)' <=> Owns(v, i)
               /\ HasCalled(v, t, i)' <=> HasCalled(v, t, i)
    <3>1. pc'[v] = pc[v] /\ tid'[v] = tid[v] /\ cur'[v] = cur[v] /\ task'[v] = task[v]
      BY <1>8, OthersUnchanged DEF Worker
    <3> QED BY <1>1, <3>1 DEF Owns, Started, HasCalled
  <2>3. ~ Owns(w, i) /\ ~ Owns(w, i)'
    BY <1>1, <2>1 DEF Owns, InRange
  <2> QED BY <1>1, <1>3, <2>1, <2>2, <2>3
<1>9. ASSUME NEW w \in Workers, SplitValues(w) PROVE Goal(t, i)'
  <2>1. /\ pc[w] = "split" /\ pc'[w] = "call" /\ task'[w] = 1
        /\ UNCHANGED <<calls, tid, cur>>
    BY <1>1, <1>9 DEF SplitValues, TypeOK
  <2>2. HasCalled(w, t, i)' <=> HasCalled(w, t, i)
    BY <1>4, <2>1 DEF HasCalled
  <2> QED BY <1>5, <1>9, <2>1, <2>2 DEF Worker, Started
<1>10. ASSUME NEW w \in Workers,
              FinishDriver(w) \/ MergeLocal(w) \/ PanicWithoutOutput(w)
       PROVE  Goal(t, i)'
  <2>1. /\ pc[w] \in {"split", "merge"} /\ pc'[w] \in {"merge", "done", "panicked"}
        /\ UNCHANGED <<calls, tid, cur>>
    BY <1>1, <1>10 DEF FinishDriver, MergeLocal, PanicWithoutOutput, TypeOK
  <2>2. HasCalled(w, t, i)' <=> HasCalled(w, t, i)
    BY <2>1 DEF HasCalled
  <2> QED BY <1>5, <1>10, <2>1, <2>2 DEF Worker, Started
<1>11. ASSUME NEW w \in Workers, CallTask(w) PROVE Goal(t, i)'
  <2>1. /\ pc[w] = "call" /\ UNCHANGED <<pc, tid, cur>>
        /\ task[w] \in Nat \ {0} /\ task[w] \in Tasks /\ task'[w] = task[w] + 1
        /\ cur[w].start \in Int /\ cur[w].end \in Int
    BY <1>1, <1>11, JobFacts DEF CallTask, TypeOK, Tasks, Batch
  <2>2. /\ calls'[t][i] = IF t = task[w] /\ i \in BatchOf(w)
                         THEN calls[t][i] + 1 ELSE calls[t][i]
        /\ calls[t][i] \in Nat
    BY <1>1, <1>11, <2>1 DEF CallTask, TypeOK
  <2>3. \A v \in Workers \ {w} : task'[v] = task[v]
    BY <1>11, OthersUnchanged DEF Worker
  <2>4. \A v \in Workers : Owns(v, i)' <=> Owns(v, i)
    BY <1>1, <2>1 DEF Owns, Started
  <2>5. \A v \in Workers \ {w} : HasCalled(v, t, i)' <=> HasCalled(v, t, i)
    BY <2>1, <2>3 DEF HasCalled
  <2>6. CASE t = task[w] /\ i \in BatchOf(w)
    <3>1. Owns(w, i)
      BY <2>1, <2>6, BatchOwned
    <3>2. ~ HasCalled(w, t, i) /\ HasCalled(w, t, i)'
      BY <1>4, <2>1, <2>6 DEF HasCalled, BatchOf
    <3>3. calls'[t][i] = 1
      BY <1>3, <2>2, <2>6, <3>1, <3>2
    <3>4. \A v \in Workers \ {w} : ~ Owns(v, i)
      BY <3>1, OwnerUnique
    <3> QED BY <1>1, <2>4, <3>1, <3>2, <3>3, <3>4
  <2>7. CASE ~ (t = task[w] /\ i \in BatchOf(w))
    <3>1. calls'[t][i] = calls[t][i]
      BY <2>2, <2>7
    <3>2. HasCalled(w, t, i)' <=> HasCalled(w, t, i)
      BY <1>4, <2>1, <2>7 DEF HasCalled, BatchOf
    <3> QED BY <1>1, <1>3, <2>4, <2>5, <3>1, <3>2
  <2> QED BY <2>6, <2>7
<1>12. ASSUME NEW w \in Workers, FinishBatch(w) PROVE Goal(t, i)'
  <2> DEFINE size == BatchSize(RangeOf(w), job.taskSize)
             next == NextBatch(RangeOf(w), job.taskSize, cur[w])
  <2>1. /\ pc[w] = "call" /\ UNCHANGED <<calls, tid>> /\ cur'[w] = next
        /\ pc'[w] \in {"merge", "split"} /\ task[w] > job.tasks
        /\ task[w] \in Nat
    BY <1>1, <1>12 DEF FinishBatch, Advance, TypeOK
  <2>2. /\ RangeOf(w) \in [start : Nat, end : Nat]
        /\ RangeOf(w).start <= RangeOf(w).end
        /\ cur[w].start \in Int
        /\ cur[w].end = Lesser(RangeOf(w).end, cur[w].start + size)
    BY <1>1, <2>1, LoopFacts, JobFacts DEF Started, CurInRange
  <2>3. size \in Nat
    BY <1>1, <2>2, BatchSizeFacts
  <2>4. next.start = cur[w].start + size
    BY DEF NextBatch
  <2>5. ASSUME Owns(w, i) PROVE HasCalled(w, t, i)' <=> HasCalled(w, t, i)
    <3>1. i < RangeOf(w).end /\ RangeOf(w).end \in Nat
      BY <2>2, <2>5 DEF Owns, InRange, RangeOf
    <3>2. HasCalled(w, t, i) <=> i < cur[w].start \/ i < cur[w].end
      BY <1>1, <1>4, <2>1, JobFacts DEF HasCalled
    <3>3. HasCalled(w, t, i)' <=> i < cur[w].start + size
      BY <2>1, <2>4 DEF HasCalled
    <3> HIDE DEF size
    <3> QED BY <1>4, <2>2, <2>3, <3>1, <3>2, <3>3 DEF Lesser
  <2> QED BY <1>5, <1>12, <2>1, <2>5 DEF Worker, Started
<1> QED
  BY <1>6, <1>7, <1>8, <1>9, <1>10, <1>11, <1>12 DEF Next, Worker, Terminated

-----------------------------------------------------------------------------
(***************************************************************************)
(* Outputs.                                                                *)
(***************************************************************************)

LEMMA ListsStep ==
  ASSUME Inductive, [Next]_vars
  PROVE  ListsOfOwner'
<1>1. /\ TypeOK /\ ListsOfOwner /\ CurInRange /\ job' = job
      /\ Workers' = Workers /\ Items' = Items
  BY JobConstant DEF Inductive, Workers, Items
<1> DEFINE OK(v) ==
      /\ lists[v] # <<>> =>
           job.emits /\ Started(v) /\ HasRange(job.items, job.threads, tid[v])
      /\ \A j \in DOMAIN lists[v] :
           /\ RangeOf(v).start <= lists[v][j].start
           /\ lists[v][j].end <= RangeOf(v).end
           /\ lists[v][j].end <= cur[v].start
      /\ \A j, k \in DOMAIN lists[v] :
           j < k => lists[v][j].end <= lists[v][k].start
      /\ job.emits =>
           \A i \in Items : Owns(v, i) /\ i < cur[v].start =>
             \E j \in DOMAIN lists[v] : Has(lists[v][j], i)
<1>2. SUFFICES ASSUME NEW v \in Workers PROVE OK(v)'
  BY <1>1 DEF ListsOfOwner
<1>3. OK(v)
  BY <1>1 DEF ListsOfOwner
<1>4. ASSUME UNCHANGED <<tid[v], cur[v], lists[v]>>, Started(v)' <=> Started(v)
      PROVE  OK(v)'
  BY <1>1, <1>3, <1>4 DEF RangeOf, Owns, Has
<1>5. ASSUME NEW w \in Workers, Worker(w), v # w PROVE OK(v)'
  BY <1>4, <1>5, OthersUnchanged DEF Started
<1>6. CASE Main \/ UNCHANGED vars
  BY <1>4, <1>6, MainKeepsWorkers DEF Started
<1>7. CASE Start(v) \/ QuitWithoutRange(v)
  <2>1. /\ tid'[v] = nextTid /\ nextTid \in Nat /\ lists' = lists /\ ~ Started(v)
    BY <1>1, <1>7 DEF Start, QuitWithoutRange, TakeTid, TypeOK, Started
  <2>2. lists'[v] = <<>>
    BY <1>3, <2>1
  <2>3. ASSUME NEW i \in Items, Owns(v, i)', i < cur'[v].start PROVE FALSE
    <3> DEFINE range == ThreadRange(job.items, job.threads, nextTid)
    <3>1. InRange(job.items, job.threads, nextTid, i)
      BY <1>1, <2>1, <2>3 DEF Owns
    <3>2. Start(v)
      BY <1>7, <3>1 DEF QuitWithoutRange, InRange
    <3>3. cur'[v].start = range.start
      <4>1. cur'[v] = FirstBatch(range, job.taskSize)
        BY <1>1, <3>2 DEF Start, TypeOK
      <4> QED BY <4>1 DEF FirstBatch
    <3>4. range \in [start : Nat, end : Nat]
      BY <1>1, <2>1, JobFacts, ThreadRangeType
    <3>5. range.start <= i /\ i \in Int
      BY <3>1 DEF InRange, Items
    <3> HIDE DEF range
    <3> QED BY <2>3, <3>3, <3>4, <3>5
  <2> QED BY <1>1, <2>2, <2>3
<1>8. CASE SplitValues(v) \/ FinishDriver(v) \/ CallTask(v) \/ MergeLocal(v)
           \/ PanicWithoutOutput(v)
  <2>1. UNCHANGED <<tid, cur, lists>> /\ Started(v)' /\ Started(v)
    BY <1>1, <1>8
    DEF SplitValues, FinishDriver, CallTask, MergeLocal, PanicWithoutOutput, TypeOK,
        Started
  <2> QED BY <1>4, <2>1
<1>9. CASE FinishBatch(v)
  <2> DEFINE size == BatchSize(RangeOf(v), job.taskSize)
             next == NextBatch(RangeOf(v), job.taskSize, cur[v])
  <2>1. /\ pc[v] = "call" /\ tid' = tid /\ cur'[v] = next /\ Started(v) /\ Started(v)'
        /\ lists'[v] = IF job.emits THEN Append(lists[v], cur[v]) ELSE lists[v]
        /\ lists[v] \in Seq(Batch) /\ cur[v] \in Batch
    BY <1>1, <1>9 DEF FinishBatch, Advance, TypeOK, Started
  <2>2. /\ RangeOf(v) \in [start : Nat, end : Nat]
        /\ RangeOf(v).start <= RangeOf(v).end
        /\ RangeOf(v).start <= cur[v].start
        /\ HasRange(job.items, job.threads, tid[v])
        /\ cur[v].start \in Int /\ cur[v].end \in Int
        /\ cur[v].end = Lesser(RangeOf(v).end, cur[v].start + size)
    BY <1>1, <2>1, LoopFacts, JobFacts DEF CurInRange
  <2>3. size \in Nat
    BY <1>1, <2>2, BatchSizeFacts
  <2>4. next.start = cur[v].start + size
    BY DEF NextBatch
  <2>5. RangeOf(v)' = RangeOf(v) /\ \A i \in Items : Owns(v, i)' <=> Owns(v, i)
    BY <1>1, <2>1 DEF RangeOf, Owns
  <2> HIDE DEF size, next
  <2>6. /\ cur[v].end <= RangeOf(v).end /\ cur[v].end <= next.start
        /\ cur[v].start <= next.start /\ next.start \in Int
    BY <2>2, <2>3, <2>4 DEF Lesser
  <2>7. CASE ~ job.emits
    <3>1. lists[v] = <<>>
      BY <1>3, <2>7
    <3> QED BY <1>1, <2>1, <2>7, <3>1
  <2>8. CASE job.emits
    <3> DEFINE old == lists[v]
               new == lists'[v]
    <3>1. /\ new = Append(old, cur[v]) /\ Len(new) = Len(old) + 1
          /\ Len(old) \in Nat
          /\ DOMAIN old = 1 .. Len(old) /\ DOMAIN new = 1 .. Len(old) + 1
          /\ \A j \in 1 .. Len(old) : new[j] = old[j] /\ new[j] \in Batch
          /\ new[Len(old) + 1] = cur[v]
      BY <2>1, <2>8
    <3> HIDE DEF old, new
    <3>2. \A j \in DOMAIN old :
            /\ RangeOf(v).start <= old[j].start
            /\ old[j].end <= RangeOf(v).end
            /\ old[j].end <= cur[v].start
      BY <1>3 DEF old
    <3>3. ASSUME NEW j \in DOMAIN new
          PROVE  /\ RangeOf(v).start <= new[j].start
                 /\ new[j].end <= RangeOf(v).end
                 /\ new[j].end <= next.start
      <4>1. CASE j \in 1 .. Len(old)
        <5>1. new[j].end \in Int /\ new[j].end <= cur[v].start
          BY <3>1, <3>2, <4>1 DEF Batch
        <5> QED BY <2>2, <2>6, <3>1, <3>2, <4>1, <5>1
      <4>2. CASE j = Len(old) + 1
        BY <2>2, <2>6, <3>1, <4>2
      <4> QED BY <3>1, <4>1, <4>2
    <3>4. ASSUME NEW j \in DOMAIN new, NEW k \in DOMAIN new, j < k
          PROVE  new[j].end <= new[k].start
      <4>1. j \in 1 .. Len(old)
        BY <3>1, <3>4
      <4>2. CASE k = Len(old) + 1
        BY <3>1, <3>2, <4>1, <4>2
      <4>3. CASE k \in 1 .. Len(old)
        <5>1. old[j].end <= old[k].start
          BY <1>3, <3>1, <3>4, <4>1, <4>3 DEF old
        <5> QED BY <3>1, <4>1, <4>3, <5>1
      <4> QED BY <3>1, <4>2, <4>3
    <3>5. ASSUME NEW i \in Items, Owns(v, i), i < next.start
          PROVE  \E j \in DOMAIN new : Has(new[j], i)
      <4>1. i \in Int /\ i < RangeOf(v).end
        BY <3>5 DEF Items, Owns, InRange, RangeOf
      <4>2. CASE i < cur[v].start
        <5>1. PICK j \in DOMAIN old : Has(old[j], i)
          BY <1>3, <2>8, <3>5, <4>2 DEF old
        <5>2. j \in DOMAIN new /\ Has(new[j], i)
          BY <3>1, <5>1
        <5> QED BY <5>2
      <4>3. CASE ~ (i < cur[v].start)
        <5>1. i < cur[v].end
          BY <2>2, <2>3, <2>4, <3>5, <4>1 DEF Lesser
        <5>2. Has(new[Len(old) + 1], i)
          BY <2>2, <3>1, <4>1, <4>3, <5>1 DEF Has
        <5> QED BY <3>1, <5>2
      <4> QED BY <4>2, <4>3
    <3> QED BY <1>1, <2>1, <2>2, <2>5, <2>8, <3>3, <3>4, <3>5 DEF new
  <2> QED BY <2>7, <2>8
<1> QED
  BY <1>5, <1>6, <1>7, <1>8, <1>9 DEF Next, Worker, Terminated

-----------------------------------------------------------------------------
(***************************************************************************)
(* Panics.                                                                 *)
(***************************************************************************)

LEMMA PanicStep ==
  ASSUME Inductive, [Next]_vars
  PROVE  PanicsForLackOfItems'
<1>1. /\ TypeOK /\ PanicsForLackOfItems /\ CurInRange /\ job' = job
      /\ Workers' = Workers
  BY JobConstant DEF Inductive, Workers
<1> DEFINE OK(v) ==
      /\ job.emits /\ lists[v] = <<>> =>
           /\ pc[v] \in {"split", "call", "merge"} =>
                cur[v].start = RangeOf(v).start
           /\ pc[v] = "merge" => SplitterFinished(RangeOf(v).start)
      /\ pc[v] = "panicked" =>
           /\ job.emits
           /\ HasRange(job.items, job.threads, tid[v])
           /\ SplitterFinished(RangeOf(v).start)
<1>2. SUFFICES ASSUME NEW v \in Workers PROVE OK(v)'
  BY <1>1 DEF PanicsForLackOfItems
<1>3. OK(v)
  BY <1>1 DEF PanicsForLackOfItems
<1>4. ASSUME NEW w \in Workers, Worker(w), v # w PROVE OK(v)'
  BY <1>1, <1>3, <1>4, OthersUnchanged DEF RangeOf, SplitterFinished
<1>5. CASE Main \/ UNCHANGED vars
  BY <1>1, <1>3, <1>5, MainKeepsWorkers DEF RangeOf, SplitterFinished
<1>6. CASE Start(v)
  BY <1>1, <1>6 DEF Start, TakeTid, TypeOK, RangeOf, FirstBatch
<1>7. CASE QuitWithoutRange(v)
  BY <1>1, <1>7 DEF QuitWithoutRange, TakeTid, TypeOK
<1>8. CASE SplitValues(v)
  BY <1>1, <1>3, <1>8 DEF SplitValues, TypeOK, RangeOf
<1>9. CASE FinishDriver(v)
  BY <1>1, <1>3, <1>9 DEF FinishDriver, TypeOK, RangeOf, SplitterFinished
<1>10. CASE CallTask(v)
  BY <1>1, <1>3, <1>10 DEF CallTask, RangeOf, SplitterFinished
<1>11. CASE FinishBatch(v)
  <2>1. /\ pc'[v] \in {"merge", "split"}
        /\ lists'[v] = IF job.emits THEN Append(lists[v], cur[v]) ELSE lists[v]
        /\ lists[v] \in Seq(Batch)
    BY <1>1, <1>11 DEF FinishBatch, Advance, TypeOK
  <2>2. job.emits => lists'[v] # <<>>
    BY <2>1
  <2> QED BY <1>1, <2>1, <2>2
<1>12. CASE MergeLocal(v)
  BY <1>1, <1>12 DEF MergeLocal, TypeOK
<1>13. CASE PanicWithoutOutput(v)
  <2>1. /\ pc[v] = "merge" /\ pc'[v] = "panicked" /\ job.emits /\ lists[v] = <<>>
        /\ tid' = tid
    BY <1>1, <1>13 DEF PanicWithoutOutput, TypeOK
  <2> QED BY <1>1, <1>3, <2>1 DEF CurInRange, RangeOf, SplitterFinished
<1> QED
  BY <1>4, <1>5, <1>6, <1>7, <1>8, <1>9, <1>10, <1>11, <1>12, <1>13
  DEF Next, Worker, Terminated

-----------------------------------------------------------------------------
(***************************************************************************)
(* Joins.                                                                  *)
(***************************************************************************)

\* A worker that ended does not act.
LEMMA EndedIsFinal ==
  ASSUME Inductive, [Next]_vars, NEW v \in Workers, pc[v] \in {"done", "panicked"}
  PROVE  UNCHANGED <<pc[v], tid[v], lists[v]>>
<1>1. ASSUME NEW w \in Workers, Worker(w) PROVE UNCHANGED <<pc[v], tid[v], lists[v]>>
  <2>1. v # w
    BY <1>1
    DEF Worker, Start, QuitWithoutRange, TakeTid, SplitValues, FinishDriver, CallTask,
        FinishBatch, Advance, MergeLocal, PanicWithoutOutput
  <2> QED BY <1>1, <2>1, OthersUnchanged
<1>2. CASE Main \/ UNCHANGED vars
  BY <1>2, MainKeepsWorkers
<1> QED BY <1>1, <1>2 DEF Next, Terminated

LEMMA JoinStep ==
  ASSUME Inductive, [Next]_vars
  PROVE  JoinedAreDone'
<1>1. /\ TypeOK /\ JoinedAreDone /\ job' = job /\ Workers' = Workers
      /\ Len(pieces) \in Nat /\ job.threads \in Nat \ {0}
      /\ Workers = 1 .. job.threads
  BY JobConstant, JobFacts DEF Inductive, Workers, TypeOK
<1>2. \A k \in 1 .. Len(pieces) :
        /\ k \in Workers /\ pc[k] = "done" /\ pc'[k] = "done"
        /\ pieces[k] = [tid |-> tid'[k], batches |-> lists'[k]]
  <2>1. SUFFICES ASSUME NEW k \in 1 .. Len(pieces)
                 PROVE  /\ k \in Workers /\ pc[k] = "done" /\ pc'[k] = "done"
                        /\ pieces[k] = [tid |-> tid'[k], batches |-> lists'[k]]
    OBVIOUS
  <2>2. /\ k \in Workers /\ pc[k] = "done"
        /\ pieces[k] = [tid |-> tid[k], batches |-> lists[k]]
    BY <1>1 DEF JoinedAreDone
  <2>3. UNCHANGED <<pc[k], tid[k], lists[k]>>
    BY <2>2, EndedIsFinal
  <2> QED BY <2>2, <2>3
<1>3. ASSUME \E w \in Workers : pc[w] = "panicked"
      PROVE  \E w \in Workers : pc'[w] = "panicked"
  BY <1>3, EndedIsFinal
<1>4. ASSUME UNCHANGED <<pieces, main>> PROVE JoinedAreDone'
  <2>1. main = "panicked" => \A w \in Workers : pc'[w] \in {"done", "panicked"}
    BY <1>1, EndedIsFinal DEF JoinedAreDone
  <2> QED BY <1>1, <1>2, <1>3, <1>4, <2>1 DEF JoinedAreDone
<1>5. ASSUME NEW w \in Workers, Worker(w) PROVE JoinedAreDone'
  BY <1>4, <1>5, WorkerKeepsMain
<1>6. CASE Join
  <2>1. /\ pieces' = Append(pieces, [tid     |-> tid[Len(pieces) + 1],
                                     batches |-> lists[Len(pieces) + 1]])
        /\ main = "joining" /\ main' = "joining"
        /\ Len(pieces) + 1 \in Workers /\ pc[Len(pieces) + 1] = "done"
        /\ UNCHANGED <<pc, tid, lists>>
        /\ pieces \in Seq([tid : Nat, batches : Seq(Batch)])
    BY <1>1, <1>6 DEF Join, Joining, workerVars, TypeOK
  <2>2. /\ Len(pieces') = Len(pieces) + 1
        /\ \A k \in 1 .. Len(pieces) : pieces'[k] = pieces[k]
        /\ pieces'[Len(pieces) + 1] = [tid     |-> tid[Len(pieces) + 1],
                                       batches |-> lists[Len(pieces) + 1]]
    BY <2>1
  <2>3. \A k \in 1 .. Len(pieces') :
          /\ pc'[k] = "done"
          /\ pieces'[k] = [tid |-> tid'[k], batches |-> lists'[k]]
    BY <1>1, <1>2, <2>1, <2>2
  <2> QED BY <1>1, <2>1, <2>2, <2>3 DEF JoinedAreDone
<1>7. CASE Unwind
  <2>1. /\ UNCHANGED <<pieces, pc, tid, lists>> /\ main' = "unwinding"
        /\ Joining \in Workers /\ pc[Joining] = "panicked"
    BY <1>7 DEF Unwind, workerVars
  <2> QED BY <1>1, <1>2, <2>1 DEF JoinedAreDone
<1>8. CASE LeaveScope
  BY <1>1, <1>2, <1>3, <1>8 DEF LeaveScope, workerVars, JoinedAreDone
<1>9. CASE FinalMerge
  <2>1. UNCHANGED <<pieces, pc, tid, lists, job>> /\ main' = "cleared"
        /\ Len(pieces) + 1 \notin Workers
    BY <1>9 DEF FinalMerge, Joining, workerVars
  <2>2. Len(pieces) = job.threads
    BY <1>1, <2>1 DEF JoinedAreDone
  <2> QED BY <1>1, <1>2, <2>1, <2>2 DEF JoinedAreDone
<1>10. CASE UNCHANGED vars
  BY <1>4, <1>10 DEF vars, mainVars
<1> QED
  BY <1>5, <1>6, <1>7, <1>8, <1>9, <1>10 DEF Next, Main, Terminated

LEMMA OutputStep ==
  ASSUME Inductive, [Next]_vars
  PROVE  OutputIsMerge'
<1>1. /\ TypeOK /\ OutputIsMerge /\ JoinedAreDone /\ Workers' = Workers
      /\ Len(pieces) \in Nat /\ DOMAIN pieces = 1 .. Len(pieces)
  BY JobConstant DEF Inductive, Workers, TypeOK
<1>2. main = "cleared" => \A w \in Workers : pc[w] = "done"
  BY <1>1 DEF JoinedAreDone, Workers
<1>3. ASSUME UNCHANGED <<main, output>> PROVE OutputIsMerge'
  <2>1. CASE main # "cleared"
    BY <1>1, <1>3, <2>1 DEF OutputIsMerge
  <2>2. CASE main = "cleared"
    <3>1. \A w \in Workers : UNCHANGED <<tid[w], lists[w]>>
      BY <1>2, <2>2, EndedIsFinal
    <3>2. PICK order \in Bijection(Workers, Workers) :
            /\ \A j, k \in Workers : j < k => tid[order[j]] <= tid[order[k]]
            /\ \A k \in Workers : output[k] = lists[order[k]]
      BY <1>1, <2>2 DEF OutputIsMerge
    <3>3. order \in [Workers -> Workers]
      BY DEF Bijection, Injection
    <3>4. /\ \A j, k \in Workers : j < k => tid'[order[j]] <= tid'[order[k]]
          /\ \A k \in Workers : output'[k] = lists'[order[k]]
      BY <1>3, <3>1, <3>2, <3>3
    <3> QED BY <1>1, <1>3, <2>2, <3>4 DEF OutputIsMerge
  <2> QED BY <2>1, <2>2
<1>4. ASSUME NEW w \in Workers, Worker(w) PROVE OutputIsMerge'
  BY <1>3, <1>4, WorkerKeepsMain
<1>5. CASE Join \/ UNCHANGED vars
  BY <1>3, <1>5 DEF Join, vars, mainVars
<1>6. CASE Unwind \/ LeaveScope
  BY <1>1, <1>6 DEF Unwind, LeaveScope, OutputIsMerge
<1>7. CASE FinalMerge
  <2>1. Len(pieces) = job.threads
    BY <1>1, <1>7, JobFacts DEF FinalMerge, Joining, JoinedAreDone, Workers
  <2>2. DOMAIN pieces = Workers
    BY <1>1, <2>1 DEF Workers
  <2>3. PICK order \in Bijection(DOMAIN pieces, DOMAIN pieces) :
          /\ \A j, k \in DOMAIN pieces :
               j < k => pieces[order[j]].tid <= pieces[order[k]].tid
          /\ output' = [k \in DOMAIN pieces |-> pieces[order[k]].batches]
    BY <1>7 DEF FinalMerge
  <2>4. order \in [Workers -> Workers]
    BY <2>2 DEF Bijection, Injection
  <2>5. \A w \in Workers : pieces[w].tid = tid[w] /\ pieces[w].batches = lists[w]
    BY <1>1, <2>2 DEF JoinedAreDone
  <2>6. /\ \A j, k \in Workers : j < k => tid[order[j]] <= tid[order[k]]
        /\ \A k \in Workers : output'[k] = lists[order[k]]
        /\ DOMAIN output' = Workers
    BY <2>2, <2>3, <2>4, <2>5
  <2>7. UNCHANGED <<tid, lists>> /\ main' = "cleared"
    BY <1>7 DEF FinalMerge, workerVars
  <2>8. \E o \in Bijection(Workers, Workers) :
          /\ \A j, k \in Workers : j < k => tid'[o[j]] <= tid'[o[k]]
          /\ \A k \in Workers : output'[k] = lists'[o[k]]
    BY <2>2, <2>3, <2>6, <2>7
  <2> QED BY <1>1, <2>6, <2>7, <2>8 DEF OutputIsMerge
<1> QED BY <1>4, <1>5, <1>6, <1>7 DEF Next, Main, Terminated

-----------------------------------------------------------------------------
(***************************************************************************)
(* The invariant.                                                          *)
(***************************************************************************)

\* Executor's inductive invariant holds in every state: what each worker has
\* done follows from the id it took and the batch it is at.
THEOREM InductiveInvariant == Spec => []Inductive
<1>1. Inductive /\ [Next]_vars => Inductive'
  <2>1. SUFFICES ASSUME Inductive, [Next]_vars PROVE Inductive'
    OBVIOUS
  <2> QED
    BY <2>1, TypeStep, TidsStep, CurStep, CallsStep, ListsStep, PanicStep, JoinStep,
       OutputStep
    DEF Inductive
<1> QED BY <1>1, InitInductive, PTL DEF Spec

\* The variables have their types, in particular no worker leaves the tasks.
THEOREM TypeCorrect == Spec => []TypeOK
<1>1. Inductive => TypeOK
  BY DEF Inductive
<1> QED BY <1>1, InductiveInvariant, PTL

-----------------------------------------------------------------------------
(***************************************************************************)
(* Items and tasks.                                                        *)
(***************************************************************************)

\* A task is called on an item by its owner or not at all.
LEMMA CallsCases ==
  ASSUME Inductive, NEW t \in Tasks, NEW i \in Items
  PROVE  \/ calls[t][i] = 0 /\ \A w \in Workers : ~ Owns(w, i)
         \/ \E w \in Workers :
              /\ Owns(w, i)
              /\ calls[t][i] = IF HasCalled(w, t, i) THEN 1 ELSE 0
  BY DEF Inductive, CallsOfOwner

\* No task is called twice on an item.
THEOREM NeverTwice == Spec => []AtMostOnce
<1>1. Inductive => AtMostOnce
  BY CallsCases DEF AtMostOnce
<1> QED BY <1>1, InductiveInvariant, PTL

\* An item goes through the tasks in their order.
THEOREM TasksInOrder == Spec => []PipelineOrder
<1>1. ASSUME Inductive PROVE PipelineOrder
  <2>1. SUFFICES ASSUME NEW t \in Tasks, NEW u \in Tasks, NEW i \in Items, u < t
                 PROVE  calls[t][i] <= calls[u][i]
    BY DEF PipelineOrder
  <2>2. CASE \A w \in Workers : ~ Owns(w, i)
    BY <1>1, <2>2, CallsCases
  <2>3. CASE \E w \in Workers : Owns(w, i)
    <3>1. PICK w \in Workers : Owns(w, i)
      BY <2>3
    <3>2. /\ calls[t][i] = IF HasCalled(w, t, i) THEN 1 ELSE 0
          /\ calls[u][i] = IF HasCalled(w, u, i) THEN 1 ELSE 0
      BY <1>1, <3>1 DEF Inductive, CallsOfOwner
    <3>3. HasCalled(w, t, i) => HasCalled(w, u, i)
      BY <1>1, <2>1, JobFacts DEF HasCalled, Inductive, TypeOK, Tasks
    <3> QED BY <3>2, <3>3
  <2> QED BY <2>2, <2>3
<1> QED BY <1>1, InductiveInvariant, PTL

\* The tasks of two workers never run on the same item.
THEOREM NoRace == Spec => []NoSharedItem
<1>1. ASSUME Inductive PROVE NoSharedItem
  <2>1. SUFFICES ASSUME NEW v \in Workers, NEW w \in Workers, v # w,
                        pc[v] = "call", pc[w] = "call",
                        NEW i \in BatchOf(v), i \in BatchOf(w)
                 PROVE  FALSE
    BY DEF NoSharedItem
  <2>2. Owns(v, i) /\ Owns(w, i) /\ i \in Items
    BY <1>1, <2>1, BatchOwned DEF BatchOf
  <2> QED BY <1>1, <2>1, <2>2, OwnerUnique
<1> QED BY <1>1, InductiveInvariant, PTL

-----------------------------------------------------------------------------
(***************************************************************************)
(* Once all have started, every id below the number of threads is taken.   *)
(***************************************************************************)

LEMMA CounterBounds ==
  ASSUME Inductive
  PROVE  /\ nextTid <= job.threads
         /\ (\A w \in Workers : Started(w)) => nextTid = job.threads
<1>1. /\ TidsTaken /\ nextTid \in Nat /\ job.threads \in Nat \ {0}
  BY JobFacts DEF Inductive, TypeOK
<1>2. /\ IsFiniteSet(Workers) /\ Cardinality(Workers) = job.threads
      /\ IsFiniteSet(0 .. nextTid - 1) /\ Cardinality(0 .. nextTid - 1) = nextTid
  <2>1. /\ IsFiniteSet(1 .. job.threads)
        /\ Cardinality(1 .. job.threads)
             = IF 1 > job.threads THEN 0 ELSE job.threads - 1 + 1
    BY <1>1, FS_Interval
  <2>2. /\ IsFiniteSet(0 .. nextTid - 1)
        /\ Cardinality(0 .. nextTid - 1)
             = IF 0 > nextTid - 1 THEN 0 ELSE nextTid - 1 - 0 + 1
    <3>1. 0 \in Int /\ nextTid - 1 \in Int
      BY <1>1
    <3> QED BY <3>1, FS_Interval
  <2> QED BY <1>1, <2>1, <2>2 DEF Workers
<1>3. nextTid <= job.threads
  <2> DEFINE taker == [k \in 0 .. nextTid - 1 |->
                         CHOOSE w \in Workers : Started(w) /\ tid[w] = k]
  <2>1. \A k \in 0 .. nextTid - 1 : taker[k] \in Workers /\ tid[taker[k]] = k
    BY <1>1 DEF TidsTaken
  <2>2. taker \in Injection(0 .. nextTid - 1, Workers)
    <3>1. taker \in [0 .. nextTid - 1 -> Workers]
      BY <2>1
    <3> HIDE DEF taker
    <3>2. IsInjective(taker)
      BY <2>1, <3>1 DEF IsInjective
    <3> QED BY <3>1, <3>2 DEF Injection
  <2> QED BY <1>2, <2>2, FS_Injection
<1>4. ASSUME \A w \in Workers : Started(w) PROVE job.threads <= nextTid
  <2> DEFINE id == [w \in Workers |-> tid[w]]
  <2>1. id \in [Workers -> 0 .. nextTid - 1]
    BY <1>1, <1>4 DEF TidsTaken
  <2>2. IsInjective(id)
    BY <1>1, <1>4 DEF TidsTaken, IsInjective
  <2>3. id \in Injection(Workers, 0 .. nextTid - 1)
    BY <2>1, <2>2 DEF Injection
  <2> QED BY <1>2, <2>3, FS_Injection
<1> QED BY <1>1, <1>3, <1>4

\* Then every item has an owner.
LEMMA EveryItemOwned ==
  ASSUME Inductive, \A w \in Workers : Started(w), NEW i \in Items
  PROVE  \E w \in Workers : Owns(w, i)
<1>1. nextTid = job.threads
  BY CounterBounds
<1>2. PICK k \in 0 .. job.threads - 1 : InRange(job.items, job.threads, k, i)
  BY JobFacts, RangesCover DEF Inductive, Items
<1>3. PICK w \in Workers : Started(w) /\ tid[w] = k
  BY <1>1, <1>2 DEF Inductive, TidsTaken
<1> QED BY <1>2, <1>3 DEF Owns

LEMMA ClearedMeansDone ==
  ASSUME Inductive, main = "cleared"
  PROVE  \A w \in Workers : pc[w] = "done" /\ Started(w)
  BY JobFacts DEF Inductive, JoinedAreDone, Workers, Started

\* Every task is called once on every item before execute clears its tasks.
LEMMA CompleteFromInductive == Inductive => Complete
<1>1. SUFFICES ASSUME Inductive, main = "cleared", NEW t \in Tasks, NEW i \in Items
               PROVE  calls[t][i] = 1
  BY DEF Complete
<1>2. PICK w \in Workers : Owns(w, i)
  BY <1>1, ClearedMeansDone, EveryItemOwned
<1>3. i < cur[w].start
  BY <1>1, <1>2, ClearedMeansDone DEF Inductive, CurInRange
<1> QED BY <1>1, <1>2, <1>3 DEF Inductive, CallsOfOwner, HasCalled

\* execute leaves no item without a task.
THEOREM NothingLeftOut == Spec => []Complete
  BY CompleteFromInductive, InductiveInvariant, PTL

-----------------------------------------------------------------------------
(***************************************************************************)
(* The value written back.                                                 *)
(***************************************************************************)

\* The places of the value: each belongs to a worker, whose list it comes from.
LEMMA OutputFacts ==
  ASSUME Inductive, main = "cleared"
  PROVE  \E order \in Bijection(Workers, Workers) :
           /\ DOMAIN output = Workers
           /\ \A j, k \in Workers : j < k => tid[order[j]] < tid[order[k]]
           /\ \A k \in Workers : order[k] \in Workers /\ output[k] = lists[order[k]]
           /\ \A w \in Workers : \E k \in Workers : order[k] = w
<1>1. PICK order \in Bijection(Workers, Workers) :
        /\ \A j, k \in Workers : j < k => tid[order[j]] <= tid[order[k]]
        /\ \A k \in Workers : output[k] = lists[order[k]]
  BY DEF Inductive, OutputIsMerge
<1>2. /\ order \in [Workers -> Workers] /\ IsInjective(order)
      /\ \A w \in Workers : \E k \in Workers : order[k] = w
  BY DEF Bijection, Injection, Surjection
<1>3. ASSUME NEW j \in Workers, NEW k \in Workers, j < k
      PROVE  tid[order[j]] < tid[order[k]]
  <2>1. order[j] # order[k]
    BY <1>2, <1>3 DEF IsInjective, Workers
  <2>2. /\ Started(order[j]) /\ tid[order[j]] \in Nat
        /\ Started(order[k]) /\ tid[order[k]] \in Nat
    BY <1>2, ClearedMeansDone, LoopFacts
  <2>3. tid[order[j]] # tid[order[k]]
    BY <1>2, <2>1, <2>2 DEF Inductive, TidsTaken
  <2>4. tid[order[j]] <= tid[order[k]]
    BY <1>1, <1>3
  <2> QED BY <2>2, <2>3, <2>4
<1> QED BY <1>1, <1>2, <1>3 DEF Inductive, OutputIsMerge

\* An item in the list of a worker is the worker's own.
LEMMA ListedOwned ==
  ASSUME Inductive, NEW w \in Workers, NEW p \in DOMAIN lists[w], NEW i \in Items,
         Has(lists[w][p], i)
  PROVE  Owns(w, i)
<1>1. lists[w] \in Seq(Batch) /\ i \in Int
  BY DEF Inductive, TypeOK, Items
<1>2. lists[w] # <<>> /\ lists[w][p] \in Batch
  <2>1. p \in 1 .. Len(lists[w])
    BY <1>1
  <2> QED BY <1>1, <2>1
<1>3. /\ Started(w) /\ HasRange(job.items, job.threads, tid[w])
      /\ RangeOf(w).start <= lists[w][p].start /\ lists[w][p].end <= RangeOf(w).end
  BY <1>2 DEF Inductive, ListsOfOwner
<1>4. RangeOf(w) \in [start : Nat, end : Nat]
  BY <1>3, LoopFacts
<1> QED BY <1>1, <1>2, <1>3, <1>4 DEF Owns, InRange, RangeOf, Has, Batch

\* The value is made of every item, once and in its place.
LEMMA OrderFromInductive == Inductive => OutputInOrder
<1>1. SUFFICES ASSUME Inductive, main = "cleared", job.emits,
                      NEW i \in Items, NEW j \in Items
               PROVE  Written(i) /\ (Before(i, j) <=> i < j)
  BY DEF OutputInOrder
<1>2. PICK order \in Bijection(Workers, Workers) :
        /\ DOMAIN output = Workers
        /\ \A a, b \in Workers : a < b => tid[order[a]] < tid[order[b]]
        /\ \A k \in Workers : order[k] \in Workers /\ output[k] = lists[order[k]]
        /\ \A w \in Workers : \E k \in Workers : order[k] = w
  BY <1>1, OutputFacts
<1>3. Workers \subseteq Int /\ Items \subseteq Int
  BY DEF Workers, Items
<1>4. ASSUME NEW h \in Items PROVE Written(h)
  <2>1. PICK w \in Workers : Owns(w, h)
    BY <1>1, ClearedMeansDone, EveryItemOwned
  <2>2. h < cur[w].start
    BY <1>1, <2>1, ClearedMeansDone DEF Inductive, CurInRange
  <2>3. PICK p \in DOMAIN lists[w] : Has(lists[w][p], h)
    BY <1>1, <2>1, <2>2 DEF Inductive, ListsOfOwner
  <2>4. PICK k \in Workers : order[k] = w
    BY <1>2
  <2> QED BY <1>2, <2>3, <2>4 DEF Written
\* What is at an earlier place is smaller.
<1>5. ASSUME NEW g \in Items, NEW h \in Items,
             NEW k \in DOMAIN output, NEW l \in DOMAIN output,
             NEW p \in DOMAIN output[k], NEW q \in DOMAIN output[l],
             Has(output[k][p], g), Has(output[l][q], h),
             k < l \/ (k = l /\ p < q)
      PROVE  g < h
  <2>1. /\ k \in Workers /\ l \in Workers
        /\ order[k] \in Workers /\ output[k] = lists[order[k]]
        /\ order[l] \in Workers /\ output[l] = lists[order[l]]
    BY <1>2
  <2>2. Owns(order[k], g) /\ Owns(order[l], h)
    BY <1>1, <1>5, <2>1, ListedOwned
  <2>3. CASE k < l
    <3>1. tid[order[k]] < tid[order[l]]
      BY <1>2, <2>1, <2>3
    <3>2. tid[order[k]] \in Nat /\ tid[order[l]] \in Nat
      BY <1>1, <2>1, ClearedMeansDone, LoopFacts
    <3>3. /\ InRange(job.items, job.threads, tid[order[k]], g)
          /\ InRange(job.items, job.threads, tid[order[l]], h)
      BY <2>2 DEF Owns
    <3>4. job.items \in Nat /\ job.threads \in Nat \ {0} /\ g \in Int /\ h \in Int
      BY <1>1, <1>3, JobFacts DEF Inductive
    <3> QED BY <3>1, <3>2, <3>3, <3>4, RangesOrdered
  <2>4. CASE k = l /\ p < q
    <3> DEFINE list == lists[order[k]]
    <3>1. list \in Seq(Batch) /\ p \in DOMAIN list /\ q \in DOMAIN list
      BY <1>1, <2>1, <2>4 DEF Inductive, TypeOK
    <3>2. list[p] \in Batch /\ list[q] \in Batch
      BY <3>1, ElementOfSeq
    <3>3. list[p].end <= list[q].start
      BY <1>1, <2>1, <2>4, <3>1 DEF Inductive, ListsOfOwner
    <3>4. g < list[p].end /\ list[q].start <= h
      BY <1>5, <2>1, <2>4 DEF Has
    <3> QED BY <1>3, <3>2, <3>3, <3>4 DEF Batch
  <2> QED BY <1>5, <2>3, <2>4
<1>6. ASSUME Before(i, j) PROVE i < j
  <2>1. PICK k \in DOMAIN output, l \in DOMAIN output :
          \E p \in DOMAIN output[k], q \in DOMAIN output[l] :
            /\ Has(output[k][p], i) /\ Has(output[l][q], j)
            /\ \/ k < l
               \/ k = l /\ p < q
               \/ k = l /\ p = q /\ i < j
    BY <1>6 DEF Before
  <2>2. PICK p \in DOMAIN output[k], q \in DOMAIN output[l] :
            /\ Has(output[k][p], i) /\ Has(output[l][q], j)
            /\ \/ k < l
               \/ k = l /\ p < q
               \/ k = l /\ p = q /\ i < j
    BY <2>1
  <2> QED BY <1>5, <2>2
<1>7. ASSUME i < j PROVE Before(i, j)
  <2>1. PICK k \in DOMAIN output : \E p \in DOMAIN output[k] : Has(output[k][p], i)
    BY <1>4 DEF Written
  <2>2. PICK p \in DOMAIN output[k] : Has(output[k][p], i)
    BY <2>1
  <2>3. PICK l \in DOMAIN output : \E q \in DOMAIN output[l] : Has(output[l][q], j)
    BY <1>4 DEF Written
  <2>4. PICK q \in DOMAIN output[l] : Has(output[l][q], j)
    BY <2>3
  <2>5. k \in Int /\ l \in Int
    BY <1>2, <1>3
  <2>6. p \in Int /\ q \in Int
    <3>1. output[k] \in Seq(Batch) /\ output[l] \in Seq(Batch)
      BY <1>1, <1>2 DEF Inductive, TypeOK
    <3> QED BY <3>1
  <2>7. ~ (l < k) /\ (l = k => ~ (q < p))
    <3>1. SUFFICES ASSUME l < k \/ (l = k /\ q < p) PROVE FALSE
      OBVIOUS
    <3>2. j < i
      BY <1>5, <2>2, <2>4, <3>1
    <3> QED BY <1>3, <1>7, <3>2
  <2>8. k < l \/ (k = l /\ p < q) \/ (k = l /\ p = q)
    <3>1. k < l \/ k = l
      BY <2>5, <2>7
    <3>2. k = l => p < q \/ p = q
      BY <2>6, <2>7
    <3> QED BY <3>1, <3>2
  <2> QED BY <1>7, <2>2, <2>4, <2>8 DEF Before
<1> QED BY <1>4, <1>6, <1>7

\* Whichever ids the threads took and in whichever order they ended, the value
\* written back has all the items in order.
THEOREM OrderRestored == Spec => []OutputInOrder
  BY OrderFromInductive, InductiveInvariant, PTL

-----------------------------------------------------------------------------
(***************************************************************************)
(* Panics.                                                                 *)
(***************************************************************************)

\* execute panics only if a value is to be written back and an id below the
\* number of threads gets a range without items.
THEOREM PanicExplained == Spec => []PanicOnlyWithoutItems
<1>1. ASSUME Inductive, main = "panicked" 
      PROVE  /\ job.emits
             /\ \E k \in 0 .. job.threads - 1 :
                  /\ HasRange(job.items, job.threads, k)
                  /\ SplitterFinished(ThreadRange(job.items, job.threads, k).start)
  <2>1. PICK w \in Workers : pc[w] = "panicked"
    BY <1>1 DEF Inductive, JoinedAreDone
  <2>2. tid[w] \in 0 .. job.threads - 1
    <3>1. tid[w] \in 0 .. nextTid - 1
      BY <1>1, <2>1 DEF Inductive, TidsTaken, Started
    <3>2. nextTid <= job.threads /\ nextTid \in Nat /\ job.threads \in Nat
      BY <1>1, CounterBounds, JobFacts DEF Inductive, TypeOK
    <3> QED BY <3>1, <3>2
  <2>3. /\ job.emits /\ HasRange(job.items, job.threads, tid[w])
        /\ SplitterFinished(RangeOf(w).start)
    BY <1>1, <2>1 DEF Inductive, PanicsForLackOfItems
  <2> QED BY <2>2, <2>3 DEF RangeOf
<1>2. Inductive => PanicOnlyWithoutItems
  BY <1>1 DEF PanicOnlyWithoutItems
<1> QED BY <1>2, InductiveInvariant, PTL

\* A range that an id below the number of threads gets has items: the Wand
\* splitter needs one at its beginning, the other none but a beginning that is
\* not behind the end.
EnoughItems ==
  IF job.split = "WandSplit"
  THEN (job.threads - 1) * (job.threads - 1) < job.items
  ELSE job.threads * (job.threads - 3) + 1 < job.items

\* "The task list is cleared afterwards" holds of every execution with more
\* items than about the square of the number of threads.
THEOREM ClearedWithEnoughItems == Spec => [](EnoughItems => ClearedAfterwards)
<1>1. ASSUME TypeOK, PanicOnlyWithoutItems, EnoughItems, main = "panicked"
      PROVE  FALSE
  <2>1. PICK k \in 0 .. job.threads - 1 :
          /\ HasRange(job.items, job.threads, k)
          /\ SplitterFinished(ThreadRange(job.items, job.threads, k).start)
    BY <1>1 DEF PanicOnlyWithoutItems
  <2>2. /\ job.items \in Nat /\ job.threads \in Nat \ {0}
        /\ ThreadRange(job.items, job.threads, k).start \in Nat
    BY <1>1, <2>1, JobFacts, StartBelowLast
  <2>3. CASE job.split = "WandSplit"
    <3>1. ThreadRange(job.items, job.threads, k).start < job.items
      BY <1>1, <2>1, <2>2, <2>3, EveryRangeHasItems DEF EnoughItems
    <3> QED BY <2>1, <2>2, <2>3, <3>1 DEF SplitterFinished, Finished, WandSplitFinished, RegularSplitFinished
  <2>4. CASE job.split # "WandSplit"
    <3>1. ThreadRange(job.items, job.threads, k).start <= job.items
      BY <1>1, <2>1, <2>2, <2>4, EveryRangeBegins DEF EnoughItems
    <3> QED BY <2>1, <2>2, <2>4, <3>1 DEF SplitterFinished, Finished, WandSplitFinished, RegularSplitFinished
  <2> QED BY <2>3, <2>4
<1>2. TypeOK /\ PanicOnlyWithoutItems => (EnoughItems => ClearedAfterwards)
  BY <1>1 DEF ClearedAfterwards
<1> QED BY <1>2, TypeCorrect, PanicExplained, PTL

-----------------------------------------------------------------------------
(***************************************************************************)
(* Ended workers.                                                          *)
(***************************************************************************)

\* The merge reads what the worker returned: nothing changes it afterwards.
THEOREM EndedStays == Spec => DoneIsFinal
<1>1. ASSUME Inductive, [Next]_vars
      PROVE  [\A w \in Workers : pc[w] = "done" =>
                pc'[w] = "done" /\ tid'[w] = tid[w] /\ lists'[w] = lists[w]]_vars
  BY <1>1, EndedIsFinal
<1> QED BY <1>1, InductiveInvariant, PTL DEF Spec, DoneIsFinal

-----------------------------------------------------------------------------
(***************************************************************************)
(* Progress: every step leaves less to do, and there is a step until       *)
(* execute ends.  The fairness of FairSpec says of each thread that it     *)
(* does what it can; these theorems say what that comes to.                *)
(***************************************************************************)

\* The steps of one batch: it is split, goes through the tasks and is done.
Pass == job.tasks + 2

\* The batches that may begin at or behind the one worker w is at, of one item
\* each: one of them where the items end.
BatchesLeft(w) ==
  IF cur[w].start <= job.items THEN job.items + 1 - cur[w].start ELSE 0

TasksLeft(w) == IF task[w] <= job.tasks THEN job.tasks + 1 - task[w] ELSE 0

\* At most so many steps are left to worker w.
StepsLeft(w) ==
  CASE pc[w] = "spawned" -> (job.items + 1) * Pass + 3
    [] pc[w] = "split"   -> BatchesLeft(w) * Pass + 2
    [] pc[w] = "call"    -> (BatchesLeft(w) - 1) * Pass + TasksLeft(w) + 3
    [] pc[w] = "merge"   -> 1
    [] OTHER             -> 0

\* And to the thread that called execute.
StepsOfMain ==
  CASE main = "joining"   -> job.threads - Len(pieces) + 2
    [] main = "unwinding" -> 1
    [] OTHER              -> 0

LEMMA PassFacts ==
  ASSUME Inductive
  PROVE  /\ Pass \in Nat /\ Pass = job.tasks + 2
         /\ job.tasks \in Nat \ {0} /\ job.items \in Nat
         /\ (job.items + 1) * Pass \in Nat
<1>1. job.tasks \in Nat \ {0} /\ job.items \in Nat
  BY JobFacts DEF Inductive
<1>2. Pass \in Nat /\ job.items + 1 \in Nat
  BY <1>1 DEF Pass
<1> QED BY <1>1, <1>2 DEF Pass

\* What is left of the range of a worker in its driver loop.
LEMMA BatchesLeftFacts ==
  ASSUME Inductive, NEW w \in Workers, pc[w] \in {"split", "call"}
  PROVE  /\ cur[w].start \in Nat
         /\ BatchesLeft(w) \in 0 .. job.items + 1
         /\ pc[w] = "call" => cur[w].start <= job.items
         /\ cur[w].start <= job.items =>
              BatchesLeft(w) = job.items + 1 - cur[w].start /\ BatchesLeft(w) - 1 \in Nat
<1>1. /\ RangeOf(w).start <= cur[w].start /\ RangeOf(w) \in [start : Nat, end : Nat]
      /\ cur[w].start \in Int
      /\ pc[w] = "call" => cur[w].start <= job.items
  BY LoopFacts DEF Inductive, CurInRange, Started
<1>2. cur[w].start \in Nat /\ job.items \in Nat
  BY <1>1, PassFacts
<1> QED BY <1>1, <1>2 DEF BatchesLeft

LEMMA TasksLeftFacts ==
  ASSUME Inductive, NEW w \in Workers
  PROVE  task[w] \in Nat \ {0} /\ TasksLeft(w) \in 0 .. job.tasks
<1>1. task[w] \in Nat \ {0}
  BY DEF Inductive, TypeOK
<1> QED BY <1>1, PassFacts DEF TasksLeft

LEMMA StepsLeftBounded ==
  ASSUME Inductive, NEW w \in Workers
  PROVE  StepsLeft(w) \in 0 .. (job.items + 1) * Pass + 3
<1> DEFINE most == (job.items + 1) * Pass
<1>1. Pass \in Nat /\ job.items + 1 \in Nat /\ most \in Nat /\ Pass = job.tasks + 2
  BY PassFacts
<1>2. CASE pc[w] = "split"
  <2>1. BatchesLeft(w) \in Nat /\ BatchesLeft(w) <= job.items + 1
    BY <1>1, <1>2, BatchesLeftFacts, PassFacts
  <2>2. Pass * BatchesLeft(w) <= Pass * (job.items + 1)
    BY <1>1, <2>1, ProductMonotone
  <2>3. BatchesLeft(w) * Pass \in Nat /\ BatchesLeft(w) * Pass <= most
    BY <1>1, <2>1, <2>2
  <2> QED BY <1>1, <1>2, <2>3 DEF StepsLeft
<1>3. CASE pc[w] = "call"
  <2>1. BatchesLeft(w) - 1 \in Nat /\ BatchesLeft(w) - 1 <= job.items
    BY <1>1, <1>3, BatchesLeftFacts, PassFacts
  <2>2. Pass * (BatchesLeft(w) - 1) <= Pass * job.items
    BY <1>1, <2>1, ProductMonotone, PassFacts
  <2>3. Pass * job.items = most - Pass
    BY <1>1, PassFacts
  <2>4. Pass * (BatchesLeft(w) - 1) = (BatchesLeft(w) - 1) * Pass
    BY <1>1, <2>1
  <2>5. (BatchesLeft(w) - 1) * Pass \in Nat /\ (BatchesLeft(w) - 1) * Pass <= most - Pass
    BY <1>1, <2>1, <2>2, <2>3, <2>4
  <2>6. TasksLeft(w) \in 0 .. job.tasks
    BY TasksLeftFacts
  <2>7. StepsLeft(w) = (BatchesLeft(w) - 1) * Pass + TasksLeft(w) + 3
    BY <1>3 DEF StepsLeft
  <2>8. StepsLeft(w) \in 0 .. most + 3
    <3> HIDE DEF most
    <3> QED BY <1>1, <2>5, <2>6, <2>7, PassFacts
  <2> QED BY <2>8
<1>4. CASE pc[w] \notin {"split", "call"}
  BY <1>1, <1>4 DEF StepsLeft, Inductive, TypeOK, WorkerStates
<1> QED BY <1>2, <1>3, <1>4

\* A step of a worker leaves fewer to it.
LEMMA WorkerCounts ==
  ASSUME Inductive, NEW w \in Workers, Worker(w)
  PROVE  StepsLeft(w)' < StepsLeft(w)
<1>0. /\ Pass \in Nat /\ Pass = job.tasks + 2 /\ job.tasks \in Nat \ {0}
      /\ job.items \in Nat /\ (job.items + 1) * Pass \in Nat
      /\ job' = job /\ Pass' = Pass /\ Workers' = Workers
      /\ TypeOK
  <2>1. job' = job
    BY WorkerKeepsMain
  <2> QED BY <2>1, PassFacts DEF Pass, Workers, Inductive
<1>1. CASE Start(w)
  <2>1. /\ pc[w] = "spawned" /\ pc'[w] = "split"
        /\ cur'[w].start = ThreadRange(job.items, job.threads, nextTid).start
    BY <1>0, <1>1 DEF Start, TakeTid, FirstBatch, TypeOK
  <2>2. cur'[w].start \in Nat
    BY <1>0, <2>1, JobFacts, ThreadRangeType DEF TypeOK
  <2>3. BatchesLeft(w)' \in Nat /\ BatchesLeft(w)' <= job.items + 1
    BY <1>0, <2>2 DEF BatchesLeft
  <2>4. Pass * BatchesLeft(w)' <= Pass * (job.items + 1)
    BY <1>0, <2>3, ProductMonotone
  <2>5. BatchesLeft(w)' * Pass \in Nat /\ BatchesLeft(w)' * Pass <= (job.items + 1) * Pass
    BY <1>0, <2>3, <2>4
  <2> QED BY <1>0, <2>1, <2>5 DEF StepsLeft
<1>2. CASE QuitWithoutRange(w)
  <2>1. pc[w] = "spawned" /\ pc'[w] = "done"
    BY <1>0, <1>2 DEF QuitWithoutRange, TakeTid, TypeOK
  <2> QED BY <1>0, <2>1 DEF StepsLeft
<1>3. CASE SplitValues(w)
  <2>1. /\ pc[w] = "split" /\ pc'[w] = "call" /\ task'[w] = 1 /\ cur' = cur
        /\ ~ SplitterFinished(cur[w].start)
    BY <1>0, <1>3 DEF SplitValues, TypeOK
  <2>2. cur[w].start <= job.items
    BY <1>0, <2>1, BatchesLeftFacts DEF SplitterFinished, Finished, WandSplitFinished, RegularSplitFinished
  <2>3. /\ BatchesLeft(w) \in Nat /\ BatchesLeft(w) - 1 \in Nat
        /\ BatchesLeft(w)' = BatchesLeft(w)
    BY <1>0, <2>1, <2>2, BatchesLeftFacts DEF BatchesLeft
  <2>4. TasksLeft(w)' = job.tasks
    BY <1>0, <2>1 DEF TasksLeft
  <2>5. StepsLeft(w) = BatchesLeft(w) * Pass + 2
    BY <2>1 DEF StepsLeft
  <2>6. StepsLeft(w)' = (BatchesLeft(w) - 1) * Pass + job.tasks + 3
    BY <1>0, <2>1, <2>3, <2>4 DEF StepsLeft
  <2>7. (BatchesLeft(w) - 1) * Pass = BatchesLeft(w) * Pass - Pass /\ BatchesLeft(w) * Pass \in Nat
    BY <1>0, <2>3
  <2> QED BY <1>0, <2>5, <2>6, <2>7
<1>4. CASE FinishDriver(w)
  <2>1. pc[w] = "split" /\ pc'[w] = "merge"
    BY <1>0, <1>4 DEF FinishDriver, TypeOK
  <2>2. BatchesLeft(w) \in Nat
    BY <1>0, <2>1, BatchesLeftFacts
  <2>3. BatchesLeft(w) * Pass \in Nat
    BY <1>0, <2>2
  <2> QED BY <2>1, <2>3 DEF StepsLeft
<1>5. CASE CallTask(w)
  <2>1. /\ pc[w] = "call" /\ pc' = pc /\ cur' = cur /\ task'[w] = task[w] + 1
        /\ task[w] <= job.tasks /\ task[w] \in Nat
    BY <1>0, <1>5 DEF CallTask, TypeOK
  <2>2. BatchesLeft(w) - 1 \in Nat /\ BatchesLeft(w)' = BatchesLeft(w)
    BY <1>0, <2>1, BatchesLeftFacts DEF BatchesLeft
  <2>3. TasksLeft(w)' < TasksLeft(w) /\ TasksLeft(w)' \in Nat /\ TasksLeft(w) \in Nat
    BY <1>0, <2>1 DEF TasksLeft
  <2>4. (BatchesLeft(w) - 1) * Pass \in Nat
    BY <1>0, <2>2
  <2> QED BY <1>0, <2>1, <2>2, <2>3, <2>4 DEF StepsLeft
<1>6. CASE FinishBatch(w)
  <2>1. /\ pc[w] = "call" /\ tid' = tid
        /\ cur'[w] = NextBatch(RangeOf(w), job.taskSize, cur[w])
        /\ pc'[w] = IF cur'[w].start >= RangeOf(w).end THEN "merge" ELSE "split"
    BY <1>0, <1>6 DEF FinishBatch, Advance, TypeOK
  <2>2. /\ BatchesLeft(w) - 1 \in Nat /\ cur[w].start \in Nat /\ cur[w].start <= job.items
        /\ BatchesLeft(w) = job.items + 1 - cur[w].start
    BY <2>1, BatchesLeftFacts
  <2>3. (BatchesLeft(w) - 1) * Pass \in Nat /\ TasksLeft(w) \in Nat
    BY <1>0, <2>2, TasksLeftFacts
  <2>4. StepsLeft(w) = (BatchesLeft(w) - 1) * Pass + TasksLeft(w) + 3
    BY <2>1 DEF StepsLeft
  <2>5. CASE pc'[w] = "merge"
    BY <2>3, <2>4, <2>5 DEF StepsLeft
  <2>6. CASE pc'[w] = "split"
    <3>1. /\ RangeOf(w) \in [start : Nat, end : Nat] /\ RangeOf(w).end <= job.items
          /\ RangeOf(w).start <= cur[w].start
          /\ RangeOf(w).start <= RangeOf(w).end
      <4>1. RangeOf(w).start <= cur[w].start
        BY <2>1 DEF Inductive, CurInRange
      <4> QED BY <1>0, <2>1, <2>2, <4>1, LoopFacts DEF Started
    <3>2. /\ cur'[w].start = cur[w].start + BatchSize(RangeOf(w), job.taskSize)
          /\ BatchSize(RangeOf(w), job.taskSize) \in Nat
      BY <1>0, <2>1, <3>1, BatchSizeFacts DEF NextBatch
    <3>3. cur'[w].start < RangeOf(w).end /\ RangeOf(w).start < RangeOf(w).end
      <4>1. ~ (cur'[w].start >= RangeOf(w).end)
        BY <2>1, <2>6
      <4> QED BY <2>2, <3>1, <3>2, <4>1
    <3>4. BatchSize(RangeOf(w), job.taskSize) > 0
      BY <1>0, <3>1, <3>3, BatchSizeFacts
    <3>5. /\ cur'[w].start \in Nat /\ cur[w].start < cur'[w].start
          /\ cur'[w].start <= job.items
      BY <1>0, <2>2, <3>1, <3>2, <3>3, <3>4
    <3>6. BatchesLeft(w)' \in Nat /\ BatchesLeft(w)' <= BatchesLeft(w) - 1
      BY <1>0, <2>2, <3>5 DEF BatchesLeft
    <3>7. Pass * BatchesLeft(w)' <= Pass * (BatchesLeft(w) - 1)
      BY <1>0, <2>2, <3>6, ProductMonotone
    <3>8. BatchesLeft(w)' * Pass <= (BatchesLeft(w) - 1) * Pass
          /\ BatchesLeft(w)' * Pass \in Nat
      BY <1>0, <2>2, <3>6, <3>7
    <3>9. StepsLeft(w)' = BatchesLeft(w)' * Pass + 2
      BY <1>0, <2>6 DEF StepsLeft
    <3> QED BY <2>3, <2>4, <3>8, <3>9
  <2> QED BY <2>1, <2>5, <2>6
<1>7. CASE MergeLocal(w) \/ PanicWithoutOutput(w)
  <2>1. pc[w] = "merge" /\ pc'[w] \in {"done", "panicked"}
    BY <1>0, <1>7 DEF MergeLocal, PanicWithoutOutput, TypeOK
  <2> QED BY <2>1 DEF StepsLeft
<1> QED BY <1>1, <1>2, <1>3, <1>4, <1>5, <1>6, <1>7 DEF Worker

\* The steps of one thread are not those of another.
LEMMA CountsOfOthers ==
  ASSUME Inductive, NEW v \in Workers, job' = job,
         UNCHANGED <<pc[v], cur[v], task[v]>>
  PROVE  StepsLeft(v)' = StepsLeft(v)
<1>1. Pass' = Pass /\ BatchesLeft(v)' = BatchesLeft(v) /\ TasksLeft(v)' = TasksLeft(v)
  BY DEF Pass, BatchesLeft, TasksLeft
<1> QED BY <1>1 DEF StepsLeft

LEMMA MainCounts ==
  ASSUME Inductive, Main
  PROVE  StepsOfMain' < StepsOfMain
<1>1. /\ Len(pieces) \in Nat /\ Len(pieces) <= job.threads /\ job.threads \in Nat
      /\ pieces \in Seq([tid : Nat, batches : Seq(Batch)])
  BY JobFacts DEF Inductive, TypeOK, JoinedAreDone
<1>2. CASE Join
  <2>1. /\ main = "joining" /\ main' = "joining" /\ job' = job
        /\ Len(pieces') = Len(pieces) + 1
    BY <1>1, <1>2 DEF Join
  <2> QED BY <1>1, <2>1 DEF StepsOfMain
<1>3. CASE Unwind
  BY <1>1, <1>3 DEF Unwind, StepsOfMain
<1>4. CASE LeaveScope
  BY <1>1, <1>4 DEF LeaveScope, StepsOfMain
<1>5. CASE FinalMerge
  BY <1>1, <1>5 DEF FinalMerge, StepsOfMain
<1> QED BY <1>2, <1>3, <1>4, <1>5 DEF Main

\* A step is of one thread, which it brings nearer to its end; it takes none of
\* the others back.
OneStepLess ==
  [][\/ /\ StepsOfMain' < StepsOfMain
        /\ \A w \in Workers : StepsLeft(w)' = StepsLeft(w)
     \/ /\ StepsOfMain' = StepsOfMain
        /\ \E w \in Workers :
             /\ StepsLeft(w)' < StepsLeft(w)
             /\ \A v \in Workers \ {w} : StepsLeft(v)' = StepsLeft(v)]_vars

\* No thread runs forever, with whatever the splitters answer and however the
\* threads are scheduled: each has at most so many steps, which only it uses up.
THEOREM EveryStepCounts ==
  Spec => /\ OneStepLess
          /\ [](/\ StepsOfMain \in 0 .. job.threads + 2
                /\ \A w \in Workers :
                     StepsLeft(w) \in 0 .. (job.items + 1) * (job.tasks + 2) + 3)
<1> DEFINE Less == \/ /\ StepsOfMain' < StepsOfMain
                      /\ \A w \in Workers : StepsLeft(w)' = StepsLeft(w)
                   \/ /\ StepsOfMain' = StepsOfMain
                      /\ \E w \in Workers :
                           /\ StepsLeft(w)' < StepsLeft(w)
                           /\ \A v \in Workers \ {w} : StepsLeft(v)' = StepsLeft(v)
           Bounded == /\ StepsOfMain \in 0 .. job.threads + 2
                      /\ \A w \in Workers :
                           StepsLeft(w) \in 0 .. (job.items + 1) * (job.tasks + 2) + 3
<1>1. ASSUME Inductive, [Next]_vars PROVE [Less]_vars
  <2>1. ASSUME NEW w \in Workers, Worker(w) PROVE Less
    <3>1. StepsOfMain' = StepsOfMain
      BY <2>1, WorkerKeepsMain DEF StepsOfMain
    <3>2. \A v \in Workers \ {w} : StepsLeft(v)' = StepsLeft(v)
      BY <1>1, <2>1, OthersUnchanged, WorkerKeepsMain, CountsOfOthers
    <3> QED BY <1>1, <2>1, <3>1, <3>2, WorkerCounts
  <2>2. CASE Main
    <3>1. \A w \in Workers : StepsLeft(w)' = StepsLeft(w)
      BY <1>1, <2>2, MainKeepsWorkers, CountsOfOthers
    <3> QED BY <1>1, <2>2, <3>1, MainCounts
  <2>3. CASE Terminated \/ UNCHANGED vars
    BY <2>3 DEF Terminated
  <2> QED BY <1>1, <2>1, <2>2, <2>3 DEF Next
<1>2. Inductive => Bounded
  <2>1. Inductive => StepsOfMain \in 0 .. job.threads + 2
    BY JobFacts DEF StepsOfMain, Inductive, TypeOK, JoinedAreDone
  <2> QED BY <2>1, StepsLeftBounded DEF Pass
<1> QED BY <1>1, <1>2, InductiveInvariant, PTL DEF Spec, OneStepLess

Ended(w) == pc[w] \in {"done", "panicked"}

\* The thread that called execute can do something: the worker it is to join has
\* ended, or the scope may be left, or there is all that the last merge unwraps
\* and an order that sorts the pieces.
MainCanStep ==
  \/ main = "joining" /\ Joining \in Workers /\ Ended(Joining)
  \/ main = "unwinding" /\ \A w \in Workers : Ended(w)
  \/ /\ main = "joining" /\ Joining \notin Workers
     /\ job.emits => \E k \in DOMAIN pieces : pieces[k].batches # <<>>
     /\ \E order \in Bijection(DOMAIN pieces, DOMAIN pieces) :
          \A j, k \in DOMAIN pieces :
            j < k => pieces[order[j]].tid <= pieces[order[k]].tid

\* A worker that had a range and is done has an output, if there is one.
DoneHasOutput ==
  \A w \in Workers :
    pc[w] = "done" /\ job.emits /\ HasRange(job.items, job.threads, tid[w]) =>
      lists[w] # <<>>

LEMMA OutputThere == Spec => []DoneHasOutput
<1>1. Init => DoneHasOutput
  BY DEF Init, DoneHasOutput
<1>2. ASSUME Inductive, DoneHasOutput, [Next]_vars PROVE DoneHasOutput'
  <2>1. job' = job /\ Workers' = Workers /\ TypeOK
    BY <1>2, JobConstant DEF Workers, Inductive
  <2>2. SUFFICES ASSUME NEW v \in Workers, pc'[v] = "done", job.emits,
                        HasRange(job.items, job.threads, tid'[v])
                 PROVE  lists'[v] # <<>>
    BY <2>1 DEF DoneHasOutput
  <2>3. CASE pc[v] = "done"
    <3>1. UNCHANGED <<pc[v], tid[v], lists[v]>>
      BY <1>2, <2>3, EndedIsFinal
    <3> QED BY <1>2, <2>2, <2>3, <3>1 DEF DoneHasOutput
  <2>4. CASE pc[v] # "done"
    <3>1. Worker(v)
      BY <1>2, <2>2, <2>4, OthersUnchanged, MainKeepsWorkers DEF Next, Terminated
    <3>2. QuitWithoutRange(v) \/ MergeLocal(v)
      BY <2>1, <2>2, <3>1
      DEF Worker, Start, TakeTid, SplitValues, FinishDriver, CallTask, FinishBatch,
          Advance, PanicWithoutOutput, TypeOK
    <3>3. CASE QuitWithoutRange(v)
      BY <2>1, <2>2, <3>3 DEF QuitWithoutRange, TakeTid, TypeOK
    <3>4. CASE MergeLocal(v)
      BY <2>1, <2>2, <3>4 DEF MergeLocal
    <3> QED BY <3>2, <3>3, <3>4
  <2> QED BY <2>3, <2>4
<1> QED BY <1>1, <1>2, InductiveInvariant, PTL DEF Spec

\* When all workers are done their ids sort them.
LEMMA OrderExists ==
  ASSUME Inductive, \A w \in Workers : Started(w)
  PROVE  \E order \in Bijection(Workers, Workers) :
           \A j, k \in Workers : j < k => tid[order[j]] <= tid[order[k]]
<1>1. /\ nextTid = job.threads /\ job.threads \in Nat \ {0}
      /\ Workers = 1 .. job.threads /\ TidsTaken
  BY CounterBounds, JobFacts DEF Inductive, Workers
<1> DEFINE order == [k \in Workers |-> CHOOSE w \in Workers : tid[w] = k - 1]
<1>2. \A k \in Workers : order[k] \in Workers /\ tid[order[k]] = k - 1
  <2>1. SUFFICES ASSUME NEW k \in Workers PROVE order[k] \in Workers /\ tid[order[k]] = k - 1
    OBVIOUS
  <2>2. k - 1 \in 0 .. nextTid - 1
    BY <1>1
  <2>3. \E w \in Workers : tid[w] = k - 1
    BY <1>1, <2>2 DEF TidsTaken
  <2> QED BY <2>3
<1>3. order \in [Workers -> Workers]
  BY <1>2
<1> HIDE DEF order
<1>4. IsInjective(order)
  <2>1. \A j, k \in Workers : order[j] = order[k] => j = k
    BY <1>1, <1>2
  <2> QED BY <1>3, <2>1 DEF IsInjective
<1>5. \A w \in Workers : \E k \in Workers : order[k] = w
  <2>1. SUFFICES ASSUME NEW w \in Workers PROVE \E k \in Workers : order[k] = w
    OBVIOUS
  <2>2. tid[w] \in 0 .. job.threads - 1
    BY <1>1 DEF TidsTaken
  <2>3. tid[w] + 1 \in Workers
    BY <1>1, <2>2
  <2>4. order[tid[w] + 1] \in Workers /\ tid[order[tid[w] + 1]] = tid[w]
    BY <1>2, <2>2, <2>3
  <2>5. order[tid[w] + 1] = w
    BY <1>1, <2>4 DEF TidsTaken
  <2> QED BY <2>3, <2>5
<1>6. order \in Bijection(Workers, Workers)
  BY <1>3, <1>4, <1>5 DEF Bijection, Injection, Surjection
<1>7. \A j, k \in Workers : j < k => tid[order[j]] <= tid[order[k]]
  BY <1>1, <1>2
<1> QED BY <1>6, <1>7

\* Until execute ends, a worker has not ended, which can always take a step, or
\* the thread that called execute can: no join waits for nothing, no panic leaves
\* it waiting, and the last merge finds an output and an order of the pieces.
THEOREM NeverStuck ==
  Spec => [](main \in {"joining", "unwinding"} =>
               MainCanStep \/ \E w \in Workers : ~ Ended(w))
<1>1. ASSUME Inductive, DoneHasOutput, main \in {"joining", "unwinding"},
             \A w \in Workers : Ended(w)
      PROVE  MainCanStep
  <2>1. CASE main = "unwinding" \/ Joining \in Workers
    BY <1>1, <2>1 DEF MainCanStep
  <2>2. CASE main = "joining" /\ Joining \notin Workers
    <3>1. /\ Len(pieces) = job.threads /\ DOMAIN pieces = Workers
          /\ \A w \in Workers :
               pc[w] = "done" /\ pieces[w].tid = tid[w] /\ pieces[w].batches = lists[w]
      <4>1. Len(pieces) \in Nat /\ job.threads \in Nat /\ Len(pieces) <= job.threads
        BY <1>1, JobFacts DEF Inductive, TypeOK, JoinedAreDone
      <4>2. Len(pieces) = job.threads
        BY <2>2, <4>1 DEF Joining, Workers
      <4>3. DOMAIN pieces = Workers
        BY <1>1, <4>2 DEF Inductive, TypeOK, Workers
      <4>4. \A k \in Workers :
              pc[k] = "done" /\ pieces[k] = [tid |-> tid[k], batches |-> lists[k]]
        BY <1>1, <4>2 DEF Inductive, JoinedAreDone, Workers
      <4> QED BY <4>2, <4>3, <4>4
    <3>2. \A w \in Workers : Started(w)
      BY <3>1 DEF Started
    <3>3. \E order \in Bijection(DOMAIN pieces, DOMAIN pieces) :
            \A j, k \in DOMAIN pieces :
              j < k => pieces[order[j]].tid <= pieces[order[k]].tid
      <4>1. PICK order \in Bijection(Workers, Workers) :
              \A j, k \in Workers : j < k => tid[order[j]] <= tid[order[k]]
        BY <1>1, <3>2, OrderExists
      <4>2. order \in [Workers -> Workers]
        BY DEF Bijection, Injection
      <4>3. \A j, k \in Workers : j < k => pieces[order[j]].tid <= pieces[order[k]].tid
        BY <3>1, <4>1, <4>2
      <4> QED BY <3>1, <4>3
    <3>4. ASSUME job.emits PROVE \E k \in DOMAIN pieces : pieces[k].batches # <<>>
      <4>1. nextTid = job.threads /\ job.threads \in Nat \ {0}
        BY <1>1, <3>2, CounterBounds, JobFacts DEF Inductive
      <4>2. PICK w \in Workers : tid[w] = 0
        BY <1>1, <4>1 DEF Inductive, TidsTaken
      <4>3. lists[w] # <<>>
        BY <1>1, <3>1, <3>4, <4>2 DEF DoneHasOutput, HasRange
      <4> QED BY <3>1, <4>3
    <3> QED BY <2>2, <3>3, <3>4 DEF MainCanStep
  <2> QED BY <1>1, <2>1, <2>2 DEF MainCanStep
<1>2. Inductive /\ DoneHasOutput =>
        (main \in {"joining", "unwinding"} => MainCanStep \/ \E w \in Workers : ~ Ended(w))
  BY <1>1
<1> QED BY <1>2, InductiveInvariant, OutputThere, PTL

-----------------------------------------------------------------------------
(***************************************************************************)
(* Executor implements ParallelFor.                                        *)
(***************************************************************************)

\* Before the end nothing was written back, and what is written back then is
\* what ParallelFor writes.
LEMMA OutputMapped ==
  ASSUME Inductive
  PROVE  [holds  |-> {i \in Items : Written(i)},
          before |-> {pair \in Items \X Items : Before(pair[1], pair[2])}]
           = IF main = "cleared" /\ job.emits
             THEN Abstract!AllInOrder ELSE Abstract!Nothing
<1>1. CASE main = "cleared" /\ job.emits
  <2>1. \A i, j \in Items : Written(i) /\ (Before(i, j) <=> i < j)
    BY <1>1, OrderFromInductive DEF OutputInOrder
  <2>2. {i \in Items : Written(i)} = Items
    BY <2>1
  <2>3. {pair \in Items \X Items : Before(pair[1], pair[2])}
          = {pair \in Items \X Items : pair[1] < pair[2]}
    BY <2>1
  <2> QED BY <1>1, <2>2, <2>3 DEF Abstract!AllInOrder, Abstract!Items, Items
<1>2. CASE ~ (main = "cleared" /\ job.emits)
  <2>1. \A k \in DOMAIN output : DOMAIN output[k] = {}
    <3>1. CASE main # "cleared"
      <4>1. output = <<>>
        BY <3>1 DEF Inductive, OutputIsMerge
      <4> QED BY <4>1
    <3>2. CASE main = "cleared"
      <4>1. ~ job.emits
        BY <1>2, <3>2
      <4>2. \A w \in Workers : lists[w] = <<>>
        BY <4>1 DEF Inductive, ListsOfOwner
      <4>3. \A k \in DOMAIN output : output[k] = <<>>
        BY <3>2, <4>2, OutputFacts
      <4> QED BY <4>3
    <3> QED BY <3>1, <3>2
  <2>2. \A i, j \in Items : ~ Written(i) /\ ~ Before(i, j)
    BY <2>1 DEF Written, Before
  <2>3. {i \in Items : Written(i)} = {}
    BY <2>2
  <2>4. {pair \in Items \X Items : Before(pair[1], pair[2])} = {}
    BY <2>2
  <2> QED BY <1>2, <2>3, <2>4 DEF Abstract!Nothing
<1> QED BY <1>1, <1>2

LEMMA AbstractInit == Init => Abstract!Init
<1> SUFFICES ASSUME Init PROVE Abstract!Init
  OBVIOUS
<1>1. Inductive
  BY InitInductive
<1> QED BY <1>1, JobFacts, OutputMapped
     DEF Init, Inductive, Abstract!Init, Abstract!Items, Abstract!Tasks, Items, Tasks

\* Calling a task on a batch is one step of ParallelFor, or none if the batch
\* is empty.
LEMMA AbstractCall ==
  ASSUME Inductive, Inductive', NEW w \in Workers, CallTask(w)
  PROVE  [Abstract!Next]_Abstract!vars
<1>1. TypeOK /\ pc[w] = "call" /\ job' = job /\ UNCHANGED <<main, output>>
      /\ task[w] \in Tasks /\ task[w] \in Nat \ {0}
  BY JobFacts DEF Inductive, CallTask, mainVars, TypeOK, Tasks
<1>2. BatchOf(w) \subseteq Items
  BY DEF BatchOf
<1>3. ASSUME NEW i \in BatchOf(w)
      PROVE  /\ calls[task[w]][i] = 0
             /\ \A u \in 1 .. task[w] - 1 : calls[u][i] = 1
  <2>1. Owns(w, i) /\ i \in Items
    BY <1>1, <1>2, BatchOwned
  <2>2. \A t \in Tasks : calls[t][i] = IF HasCalled(w, t, i) THEN 1 ELSE 0
    BY <2>1 DEF Inductive, CallsOfOwner
  <2>3. /\ i \in Int /\ cur[w].start <= i /\ i < cur[w].end
        /\ cur[w].start \in Int
    BY <1>1 DEF BatchOf, Items, TypeOK, Batch
  <2>4. ~ HasCalled(w, task[w], i)
    BY <1>1, <2>3 DEF HasCalled
  <2>5. ASSUME NEW u \in 1 .. task[w] - 1 PROVE u \in Tasks /\ HasCalled(w, u, i)
    BY <1>1, <2>3, JobFacts DEF HasCalled, Tasks
  <2> QED BY <1>1, <2>2, <2>4, <2>5
<1>4. calls' = [calls EXCEPT ![task[w]] =
                  [i \in Items |-> IF i \in BatchOf(w) THEN 1 ELSE calls[task[w]][i]]]
  <2>1. [i \in Items |-> IF i \in BatchOf(w) THEN calls[task[w]][i] + 1
                                           ELSE calls[task[w]][i]]
          = [i \in Items |-> IF i \in BatchOf(w) THEN 1 ELSE calls[task[w]][i]]
    BY <1>2, <1>3
  <2> QED BY <2>1 DEF CallTask
<1>5. UNCHANGED <<job.items, job.tasks, job.emits>> /\ Items' = Items
  BY <1>1 DEF Items
<1>6. UNCHANGED [holds  |-> {i \in Items : Written(i)},
                 before |-> {pair \in Items \X Items : Before(pair[1], pair[2])}]
  BY <1>1, <1>5 DEF Written, Before, Has
<1>7. CASE BatchOf(w) # {}
  <2> DEFINE status == IF main = "cleared" THEN "done"
                       ELSE IF main = "panicked" THEN "panicked" ELSE "running"
  <2>0. status = "running" /\ status' = status
    <3>1. main = "joining" \/ main = "unwinding"
      <4>1. main # "cleared"
        BY <1>1, ClearedMeansDone
      <4>2. main # "panicked"
        BY <1>1 DEF Inductive, JoinedAreDone
      <4> QED BY <4>1, <4>2, <1>1 DEF TypeOK
    <3> QED BY <1>1, <3>1
  <2>1. Abstract!Apply(task[w], BatchOf(w))
    BY <1>1, <1>2, <1>3, <1>4, <1>5, <1>6, <1>7, <2>0
    DEF Abstract!Apply, Abstract!Ready, Abstract!Items, Items
  <2> QED BY <1>1, <1>2, <2>1
       DEF Abstract!Next, Abstract!Tasks, Abstract!Items, Tasks, Items
<1>8. CASE BatchOf(w) = {}
  <2>1. calls' = calls
    BY <1>1, <1>4, <1>8 DEF TypeOK
  <2> QED BY <1>1, <1>5, <1>6, <2>1 DEF Abstract!vars
<1> QED BY <1>7, <1>8

LEMMA AbstractStep ==
  ASSUME Inductive, Inductive', [Next]_vars
  PROVE  [Abstract!Next]_Abstract!vars
<1>1. job' = job /\ Items' = Items /\ Tasks' = Tasks
  BY JobConstant DEF Items, Tasks
<1>2. ASSUME UNCHANGED <<calls, output>>,
             (main' = "cleared") <=> (main = "cleared"),
             (main' = "panicked") <=> (main = "panicked")
      PROVE  UNCHANGED Abstract!vars
  BY <1>1, <1>2 DEF Abstract!vars, Written, Before, Has
<1>3. ASSUME NEW w \in Workers, Worker(w) PROVE [Abstract!Next]_Abstract!vars
  <2>1. CASE CallTask(w)
    BY <2>1, AbstractCall
  <2>2. CASE ~ CallTask(w)
    <3>1. UNCHANGED <<calls, output, main>>
      BY <1>3, <2>2
      DEF Worker, Start, QuitWithoutRange, SplitValues, FinishDriver, FinishBatch, Advance,
          MergeLocal, PanicWithoutOutput, mainVars
    <3> QED BY <1>2, <3>1
  <2> QED BY <2>1, <2>2
<1>4. CASE Join \/ Unwind \/ UNCHANGED vars
  BY <1>2, <1>4 DEF Join, Unwind, vars, workerVars, mainVars
<1>5. CASE LeaveScope
  <2>1. /\ main = "unwinding" /\ main' = "panicked" /\ UNCHANGED <<calls, output>>
    BY <1>5 DEF LeaveScope, workerVars
  <2>2. Abstract!Abort
    BY <1>1, <2>1 DEF Abstract!Abort, Written, Before, Has
  <2> QED BY <2>2 DEF Abstract!Next
<1>6. CASE FinalMerge
  <2>1. main = "joining" /\ main' = "cleared" /\ calls' = calls
    BY <1>6 DEF FinalMerge, workerVars
  <2>2. \A t \in Tasks, i \in Items : calls[t][i] = 1
    <3>1. Complete'
      BY CompleteFromInductive, PTL
    <3> QED BY <1>1, <2>1, <3>1 DEF Complete
  <2>3. [holds  |-> {i \in Items : Written(i)},
         before |-> {pair \in Items \X Items : Before(pair[1], pair[2])}]'
          = IF job.emits THEN Abstract!AllInOrder ELSE Abstract!Nothing
    <3>1. ([holds  |-> {i \in Items : Written(i)},
            before |-> {pair \in Items \X Items : Before(pair[1], pair[2])}]
             = IF main = "cleared" /\ job.emits
               THEN Abstract!AllInOrder ELSE Abstract!Nothing)'
      BY OutputMapped, PTL
    <3> QED BY <1>1, <2>1, <3>1 DEF Abstract!AllInOrder, Abstract!Nothing, Abstract!Items
  <2>4. Abstract!Publish
    BY <1>1, <2>1, <2>2, <2>3
    DEF Abstract!Publish, Abstract!Tasks, Abstract!Items, Tasks, Items
  <2> QED BY <2>4 DEF Abstract!Next
<1> QED BY <1>3, <1>4, <1>5, <1>6 DEF Next, Main, Terminated

\* The parallel region of execute does what a parallel loop promises.
THEOREM ExecutorImplementsParallelFor == Spec => Implements
<1>1. Inductive /\ Inductive' /\ [Next]_vars => [Abstract!Next]_Abstract!vars
  BY AbstractStep
<1> QED
  BY <1>1, AbstractInit, InductiveInvariant, PTL DEF Spec, Implements, Abstract!Spec

=============================================================================
