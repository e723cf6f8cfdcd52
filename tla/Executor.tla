------------------------------ MODULE Executor ------------------------------
(***************************************************************************)
(* The parallel region of TaskManager::execute                             *)
(* (c/composer/src/runtime/tasks.rs): the tasks and the splitters are      *)
(* fixed, `threads' workers run thread_func, and the thread that called    *)
(* execute joins them, merges their pieces and writes the result back.     *)
(*                                                                         *)
(* A worker takes its id from a shared atomic counter when it starts, so   *)
(* ids follow the order in which the threads were scheduled, while the     *)
(* joins follow the order in which they were spawned.  From the id follow  *)
(* the worker's range of items and the batches of it that it splits, calls *)
(* every task on, and collects the output of.                              *)
(*                                                                         *)
(* A batch stands for the pieces that the splitters make of it, and for    *)
(* the value the pipeline makes of these pieces; a sequence of values for  *)
(* the value a merge function makes of them.                               *)
(***************************************************************************)
EXTENDS Partition, Sequences, Functions

CONSTANTS
  MaxItems,       \* bounds the items an execution has
  MaxThreads,     \* bounds composer_init's threads
  MaxTaskSize,    \* bounds composer_init's init_task_size
  MaxTasks        \* bounds the registered tasks

ASSUME BoundsAssumption ==
  /\ MaxItems \in Nat
  /\ MaxThreads \in Nat \ {0}
  /\ MaxTaskSize \in Nat \ {0}
  /\ MaxTasks \in Nat \ {0}

\* What one execution finds fixed.  split: how the splitter that ends first
\* tells it has no more items (a pipeline has at least one splitter, the
\* arguments that are broadcast or returned by a task have none).  emits: a
\* value of the pipeline was registered with composer_emit.
Jobs == [items    : 0 .. MaxItems,
         tasks    : 1 .. MaxTasks,
         threads  : 1 .. MaxThreads,
         taskSize : 1 .. MaxTaskSize,
         split    : {"RegularSplit", "WandSplit"},
         emits    : BOOLEAN]

VARIABLES
  job,        \* the execution; never changes
  nextTid,    \* the atomic counter the workers take their ids from
  pc,         \* where each worker is in thread_func
  tid,        \* the id each worker took
  cur,        \* current_range of each worker
  task,       \* the next task each worker calls on its current batch
  lists,      \* output_lists: the batches each worker has an output of
  calls,      \* how often each task was called on each item (history)
  pieces,     \* what was joined so far, in the order of the joins
  main,       \* where the thread that called execute is
  output      \* the value written back

workerVars == <<nextTid, pc, tid, cur, task, lists, calls>>
mainVars   == <<pieces, main, output>>
vars       == <<job, workerVars, mainVars>>

Workers == 1 .. job.threads     \* in the order in which they are spawned
Tasks   == 1 .. job.tasks
Items   == 0 .. job.items - 1

NoTid == -1                     \* of a worker that has not started

RangeOf(w)    == ThreadRange(job.items, job.threads, tid[w])
BatchOf(w)    == {i \in Items : cur[w].start <= i /\ i < cur[w].end}

SplitterFinished(start) == Finished(job.split, job.items, start)

Init ==
  /\ job \in Jobs
  /\ nextTid = 0
  /\ pc = [w \in Workers |-> "spawned"]
  /\ tid = [w \in Workers |-> NoTid]
  /\ cur = [w \in Workers |-> [start |-> 0, end |-> 0]]
  /\ task = [w \in Workers |-> 1]
  /\ lists = [w \in Workers |-> <<>>]
  /\ calls = [t \in Tasks |-> [i \in Items |-> 0]]
  /\ pieces = <<>>
  /\ main = "joining"
  /\ output = <<>>

-----------------------------------------------------------------------------
(***************************************************************************)
(* The steps of a worker.                                                  *)
(***************************************************************************)

\* Mistaken: the counter is read, and its increment is lost.
TakeTidWithoutIncrement(w) ==
  /\ pc[w] = "spawned"
  /\ tid' = [tid EXCEPT ![w] = nextTid]
  /\ UNCHANGED nextTid

\* tid.fetch_add.
TakeTid(w) ==
  /\ pc[w] = "spawned"
  /\ tid' = [tid EXCEPT ![w] = nextTid]
  /\ nextTid' = nextTid + 1

\* The worker got a range and prepares its first batch.
Start(w) ==
  /\ TakeTid(w)
  /\ HasRange(job.items, job.threads, nextTid)
  /\ cur' = [cur EXCEPT ![w] =
       FirstBatch(ThreadRange(job.items, job.threads, nextTid), job.taskSize)]
  /\ pc' = [pc EXCEPT ![w] = "split"]
  /\ UNCHANGED <<job, task, lists, calls, mainVars>>

\* thread_range returned None: the worker returns a piece without values.
QuitWithoutRange(w) ==
  /\ TakeTid(w)
  /\ ~ HasRange(job.items, job.threads, nextTid)
  /\ pc' = [pc EXCEPT ![w] = "done"]
  /\ UNCHANGED <<job, cur, task, lists, calls, mainVars>>

\* Mistaken: the tasks are counted from 0.
SplitValuesFromZero(w) ==
  /\ pc[w] = "split"
  /\ ~ SplitterFinished(cur[w].start)
  /\ pc' = [pc EXCEPT ![w] = "call"]
  /\ task' = [task EXCEPT ![w] = 0]
  /\ UNCHANGED <<job, nextTid, tid, cur, lists, calls, mainVars>>

\* split_values fills the buffers with the pieces of the current batch.
SplitValues(w) ==
  /\ pc[w] = "split"
  /\ ~ SplitterFinished(cur[w].start)
  /\ pc' = [pc EXCEPT ![w] = "call"]
  /\ task' = [task EXCEPT ![w] = 1]
  /\ UNCHANGED <<job, nextTid, tid, cur, lists, calls, mainVars>>

\* split_values returns false: the worker leaves its driver loop.
FinishDriver(w) ==
  /\ pc[w] = "split"
  /\ SplitterFinished(cur[w].start)
  /\ pc' = [pc EXCEPT ![w] = "merge"]
  /\ UNCHANGED <<job, nextTid, tid, cur, task, lists, calls, mainVars>>

\* Mistaken: the tasks are called from the last to the first.
CallTaskBackwards(w) ==
  /\ pc[w] = "call"
  /\ task[w] <= job.tasks
  /\ calls' = [calls EXCEPT ![job.tasks + 1 - task[w]] =
       [i \in Items |-> IF i \in BatchOf(w) THEN @[i] + 1 ELSE @[i]]]
  /\ task' = [task EXCEPT ![w] = @ + 1]
  /\ UNCHANGED <<job, nextTid, pc, tid, cur, lists, mainVars>>

\* call_task: the next task's function runs on the pieces of the batch.
CallTask(w) ==
  /\ pc[w] = "call"
  /\ task[w] <= job.tasks
  /\ calls' = [calls EXCEPT ![task[w]] =
       [i \in Items |-> IF i \in BatchOf(w) THEN @[i] + 1 ELSE @[i]]]
  /\ task' = [task EXCEPT ![w] = @ + 1]
  /\ UNCHANGED <<job, nextTid, pc, tid, cur, lists, mainVars>>

\* The worker goes on to the next batch of its range, if there is one.
Advance(w) ==
  LET next == NextBatch(RangeOf(w), job.taskSize, cur[w])
  IN  /\ cur' = [cur EXCEPT ![w] = next]
      /\ pc' = [pc EXCEPT ![w] =
                  IF next.start >= RangeOf(w).end THEN "merge" ELSE "split"]

\* Mistaken: the outputs of the batch are lost.
FinishBatchWithoutOutput(w) ==
  /\ pc[w] = "call"
  /\ task[w] > job.tasks
  /\ Advance(w)
  /\ UNCHANGED <<job, nextTid, tid, task, lists, calls, mainVars>>

\* All tasks were called: the outputs of the batch join the merger lists.
FinishBatch(w) ==
  /\ pc[w] = "call"
  /\ task[w] > job.tasks
  /\ lists' = IF job.emits
              THEN [lists EXCEPT ![w] = Append(@, cur[w])]
              ELSE lists
  /\ Advance(w)
  /\ UNCHANGED <<job, nextTid, tid, task, calls, mainVars>>

\* The worker merges the outputs of its batches and returns its piece.
MergeLocal(w) ==
  /\ pc[w] = "merge"
  /\ job.emits => lists[w] # <<>>
  /\ pc' = [pc EXCEPT ![w] = "done"]
  /\ UNCHANGED <<job, nextTid, tid, cur, task, lists, calls, mainVars>>

\* output_lists has no entry for the output when no batch was processed, and
\* its unwrap panics.
PanicWithoutOutput(w) ==
  /\ pc[w] = "merge"
  /\ job.emits /\ lists[w] = <<>>
  /\ pc' = [pc EXCEPT ![w] = "panicked"]
  /\ UNCHANGED <<job, nextTid, tid, cur, task, lists, calls, mainVars>>

Worker(w) ==
  \/ Start(w) \/ QuitWithoutRange(w)
  \/ SplitValues(w) \/ FinishDriver(w)
  \/ CallTask(w) \/ FinishBatch(w)
  \/ MergeLocal(w) \/ PanicWithoutOutput(w)

-----------------------------------------------------------------------------
(***************************************************************************)
(* The steps of the thread that called execute.                            *)
(***************************************************************************)

\* The next worker to join, in the order in which they were spawned.
Joining == Len(pieces) + 1

\* join() of a worker that returned.
Join ==
  /\ main = "joining"
  /\ Joining \in Workers /\ pc[Joining] = "done"
  /\ pieces' = Append(pieces, [tid     |-> tid[Joining],
                               batches |-> lists[Joining]])
  /\ UNCHANGED <<job, workerVars, main, output>>

\* join().unwrap() of a worker that panicked: the scope unwinds.
Unwind ==
  /\ main = "joining"
  /\ Joining \in Workers /\ pc[Joining] = "panicked"
  /\ main' = "unwinding"
  /\ UNCHANGED <<job, workerVars, pieces, output>>

\* Mistaken: the scope waits for every thread to return, which one that
\* panicked does not.
LeaveScopeWhenDone ==
  /\ main = "unwinding"
  /\ \A w \in Workers : pc[w] = "done"
  /\ main' = "panicked"
  /\ UNCHANGED <<job, workerVars, pieces, output>>

\* The scope waits for every thread before it lets the panic out of execute,
\* which leaves the tasks and the outputs registered.
LeaveScope ==
  /\ main = "unwinding"
  /\ \A w \in Workers : pc[w] \in {"done", "panicked"}
  /\ main' = "panicked"
  /\ UNCHANGED <<job, workerVars, pieces, output>>

\* Mistaken: the pieces are merged in the order of the joins.
FinalMergeUnsorted ==
  /\ main = "joining"
  /\ Joining \notin Workers
  /\ job.emits => \E k \in DOMAIN pieces : pieces[k].batches # <<>>
  /\ output' = [k \in DOMAIN pieces |-> pieces[k].batches]
  /\ main' = "cleared"
  /\ UNCHANGED <<job, workerVars, pieces>>

\* All pieces are there: they are sorted by tid, merged and written back, and
\* the tasks are cleared.  No output without a piece: merged.get(..).unwrap().
FinalMerge ==
  /\ main = "joining"
  /\ Joining \notin Workers
  /\ job.emits => \E k \in DOMAIN pieces : pieces[k].batches # <<>>
  /\ \E order \in Bijection(DOMAIN pieces, DOMAIN pieces) :
       /\ \A j, k \in DOMAIN pieces :
            j < k => pieces[order[j]].tid <= pieces[order[k]].tid
       /\ output' = [k \in DOMAIN pieces |-> pieces[order[k]].batches]
  /\ main' = "cleared"
  /\ UNCHANGED <<job, workerVars, pieces>>

Main == Join \/ Unwind \/ LeaveScope \/ FinalMerge

Terminated == main \in {"cleared", "panicked"} /\ UNCHANGED vars

Next == (\E w \in Workers : Worker(w)) \/ Main \/ Terminated

\* Every spawned thread and the thread that joins them get to run.
Fairness ==
  /\ \A w \in 1 .. MaxThreads : WF_vars(w \in Workers /\ Worker(w))
  /\ WF_vars(Main)

Spec     == Init /\ [][Next]_vars
FairSpec == Spec /\ Fairness

-----------------------------------------------------------------------------
(***************************************************************************)
(* Properties.                                                             *)
(***************************************************************************)

WorkerStates == {"spawned", "split", "call", "merge", "done", "panicked"}

Batch == [start : Int, end : Int]

\* The types of the variables.
TypeOK ==
  /\ job \in Jobs
  /\ nextTid \in Nat
  /\ pc \in [Workers -> WorkerStates]
  /\ tid \in [Workers -> Nat \cup {NoTid}]
  /\ cur \in [Workers -> Batch]
  /\ task \in [Workers -> Nat \ {0}]
  /\ lists \in [Workers -> Seq(Batch)]
  /\ calls \in [Tasks -> [Items -> Nat]]
  /\ pieces \in Seq([tid : Nat, batches : Seq(Batch)])
  /\ main \in {"joining", "unwinding", "cleared", "panicked"}
  /\ output \in Seq(Seq(Batch))

\* No task is ever called twice on an item, whichever threads run and in
\* whichever order they take their ids.
AtMostOnce == \A t \in Tasks, i \in Items : calls[t][i] <= 1

\* An item goes through the tasks in the order in which they were registered:
\* it has seen a task only if it has seen all the earlier ones.
PipelineOrder ==
  \A t \in Tasks, u \in Tasks, i \in Items :
    u < t => calls[t][i] <= calls[u][i]

\* Two workers never have the same item in their current batches, so that the
\* tasks, which update the pieces in place, never race.
NoSharedItem ==
  \A v, w \in Workers :
    v # w /\ pc[v] = "call" /\ pc[w] = "call" => BatchOf(v) \cap BatchOf(w) = {}

\* When execute clears its tasks, each was called once on every item: the
\* ranges leave no item out, although ids above the last range get none.
Complete ==
  main = "cleared" => \A t \in Tasks, i \in Items : calls[t][i] = 1

Has(batch, i) == batch.start <= i /\ i < batch.end

\* Item i is in the value written back.
Written(i) ==
  \E k \in DOMAIN output : \E p \in DOMAIN output[k] : Has(output[k][p], i)

\* Item i is in the value written back at a place before one of j.
Before(i, j) ==
  \E k, l \in DOMAIN output :
    \E p \in DOMAIN output[k], q \in DOMAIN output[l] :
      /\ Has(output[k][p], i) /\ Has(output[l][q], j)
      /\ \/ k < l
         \/ k = l /\ p < q
         \/ k = l /\ p = q /\ i < j

\* The merge of what the joins returned has every item, once and in its place,
\* although the joins see the pieces in another order than that of the items.
OutputInOrder ==
  main = "cleared" /\ job.emits =>
    \A i, j \in Items : Written(i) /\ (Before(i, j) <=> i < j)

\* execute panics only for an output, and only if a thread was given a range
\* that begins where the splitters have no item left.
PanicOnlyWithoutItems ==
  main = "panicked" =>
    /\ job.emits
    /\ \E k \in 0 .. job.threads - 1 :
         /\ HasRange(job.items, job.threads, k)
         /\ SplitterFinished(ThreadRange(job.items, job.threads, k).start)

\* A worker that is done stays done, and its id and its list of outputs, which
\* the merge is still to read, do not change.
DoneIsFinal ==
  [][\A w \in Workers : pc[w] = "done" =>
       pc'[w] = "done" /\ tid'[w] = tid[w] /\ lists'[w] = lists[w]]_vars

\* What an execution promises: see ParallelFor.
Abstract == INSTANCE ParallelFor WITH
  items  <- job.items,
  tasks  <- job.tasks,
  emits  <- job.emits,
  calls  <- calls,
  status <- IF main = "cleared" THEN "done"
            ELSE IF main = "panicked" THEN "panicked" ELSE "running",
  output <- [holds  |-> {i \in Items : Written(i)},
             before |-> {pair \in Items \X Items : Before(pair[1], pair[2])}]

Implements == Abstract!Spec

\* Every execution ends, whatever happened to its workers.
Terminates == <>(main \in {"cleared", "panicked"})

-----------------------------------------------------------------------------
(***************************************************************************)
(* The inductive invariant of the proofs in ExecutorProofs.                *)
(***************************************************************************)

Started(w) == pc[w] # "spawned"

\* Worker w has item i in the range its id gives it.
Owns(w, i) == Started(w) /\ InRange(job.items, job.threads, tid[w], i)

\* The ids taken are those below the counter, each taken by one worker.
TidsTaken ==
  /\ \A w \in Workers : Started(w) => tid[w] \in 0 .. nextTid - 1
  /\ \A k \in 0 .. nextTid - 1 : \E w \in Workers : Started(w) /\ tid[w] = k
  /\ \A v, w \in Workers :
       Started(v) /\ Started(w) /\ tid[v] = tid[w] => v = w

\* Where a worker is in its range.
CurInRange ==
  \A w \in Workers :
    /\ pc[w] \in {"split", "call", "merge"} =>
         /\ HasRange(job.items, job.threads, tid[w])
         /\ RangeOf(w).start <= cur[w].start
    /\ pc[w] \in {"split", "call"} =>
         cur[w].end = Lesser(RangeOf(w).end,
                             cur[w].start + BatchSize(RangeOf(w), job.taskSize))
    /\ pc[w] = "call" => cur[w].start <= job.items
    /\ pc[w] \in {"merge", "done", "panicked"} =>
         \A i \in Items : Owns(w, i) => i < cur[w].start

\* Worker w, whose item i is, has called task t on it.
HasCalled(w, t, i) ==
  \/ i < cur[w].start
  \/ pc[w] = "call" /\ i < cur[w].end /\ t < task[w]

\* An item was seen by the tasks its owner called on it, and by no other.
CallsOfOwner ==
  \A t \in Tasks, i \in Items :
    /\ \A w \in Workers :
         Owns(w, i) => calls[t][i] = IF HasCalled(w, t, i) THEN 1 ELSE 0
    /\ (\A w \in Workers : ~ Owns(w, i)) => calls[t][i] = 0

\* The batches in the list of a worker are those of its range before its
\* current one, one after the other.
ListsOfOwner ==
  \A w \in Workers :
    /\ lists[w] # <<>> =>
         job.emits /\ Started(w) /\ HasRange(job.items, job.threads, tid[w])
    /\ \A j \in DOMAIN lists[w] :
         /\ RangeOf(w).start <= lists[w][j].start
         /\ lists[w][j].end <= RangeOf(w).end
         /\ lists[w][j].end <= cur[w].start
    /\ \A j, k \in DOMAIN lists[w] :
         j < k => lists[w][j].end <= lists[w][k].start
    /\ job.emits =>
         \A i \in Items : Owns(w, i) /\ i < cur[w].start =>
           \E j \in DOMAIN lists[w] : Has(lists[w][j], i)

\* A worker without output, and one that panicked for it, found no item at
\* the beginning of its range.
PanicsForLackOfItems ==
  \A w \in Workers :
    /\ job.emits /\ lists[w] = <<>> =>
         /\ pc[w] \in {"split", "call", "merge"} =>
              cur[w].start = RangeOf(w).start
         /\ pc[w] = "merge" => SplitterFinished(RangeOf(w).start)
    /\ pc[w] = "panicked" =>
         /\ job.emits
         /\ HasRange(job.items, job.threads, tid[w])
         /\ SplitterFinished(RangeOf(w).start)

\* The joined pieces are those of the first workers, which are done: all of
\* them when the tasks are cleared.  A panic leaves execute when all ended.
JoinedAreDone ==
  /\ Len(pieces) <= job.threads
  /\ \A k \in 1 .. Len(pieces) :
       /\ pc[k] = "done"
       /\ pieces[k] = [tid |-> tid[k], batches |-> lists[k]]
  /\ main = "cleared" => Len(pieces) = job.threads
  /\ main \in {"unwinding", "panicked"} =>
       \E w \in Workers : pc[w] = "panicked"
  /\ main = "panicked" =>
       \A w \in Workers : pc[w] \in {"done", "panicked"}

\* What was written back are the lists of the workers in the order of their
\* ids, and nothing before the end.
OutputIsMerge ==
  /\ main # "cleared" => output = <<>>
  /\ main = "cleared" =>
       /\ DOMAIN output = Workers
       /\ \E order \in Bijection(Workers, Workers) :
            /\ \A j, k \in Workers : j < k => tid[order[j]] <= tid[order[k]]
            /\ \A k \in Workers : output[k] = lists[order[k]]

\* The state of an execution, told from the id, the batch and the place in
\* thread_func of each worker.
Inductive ==
  /\ TypeOK /\ TidsTaken
  /\ CurInRange /\ CallsOfOwner /\ ListsOfOwner
  /\ PanicsForLackOfItems /\ JoinedAreDone /\ OutputIsMerge

-----------------------------------------------------------------------------
(***************************************************************************)
(* What the code says of itself and does not hold.                         *)
(***************************************************************************)

\* "The task list is cleared afterwards."
ClearedAfterwards == main # "panicked"

=============================================================================
