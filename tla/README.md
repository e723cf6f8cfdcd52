# Split annotations in TLA+

A TLA+ verification project for the two runtimes of this repository, which
split the arguments of annotated functions into pieces, run the functions on
the pieces in parallel, and merge the results: the C runtime (`c/composer`,
with the wrapper generator `c/annotate` and the splitters under `c/lib`) and
the Python one (`python/pycomposer`, with the split types under `python/lib`).

## 1. The system

### C

| Component | Source | State | Operations | Correct when |
| --- | --- | --- | --- | --- |
| Wrappers | `c/annotate/src/resources/function.c.template` | none | a call of an annotated function | laziness cannot be observed |
| Entry points | `composer/src/runtime/mod.rs` | `STATE`, a mutex around the two managers | `composer_init`, `malloc`, `free`, `tolazy`, `evaluate`, `emit`, `register_function`, `protect_all`, `execute`, the SIGSEGV handler | the mutex is unlocked again, calls run once and in order, no access sees a buffer whose calls wait |
| Memory manager | `composer/src/runtime/memory.rs` | the segments with their flags, `all_protected` | `allocate`, `free`, `protect`, `protect_all`, `unprotect_all` | flags and pages agree, no mapping is lost, nothing is open when `protect_all` is skipped |
| Task manager | `composer/src/runtime/tasks.rs` | `tasks`, `arguments`, `futures`, `outputs`, the id generator, `evaluate` | `register_task`, `register_output`, `inputs`, `init_splitters`, `execute` | an argument stands for one value; a future is never split; everything is cleared after an execution |
| Parallel executor | `composer/src/runtime/tasks.rs` | one atomic counter; per worker an id, a range, a batch, buffers, output lists | `thread_range`, `split_values`, `call_task`, merging in a worker and after the joins | every task once on every item, in order, without races; the output in the order of the items |
| Splitters | `c/lib/*/splitters.c` | base and size | `new`, `next`, merge | pieces are disjoint and cover the value |
| Annotate | `c/annotate/src` | none between runs | parsing, checks, code generation, files | wrappers agree with declarations |

A wrapper asks `composer_evaluate` whether to run its function now. If not, it
calls `composer_protect_all`, which takes access rights from the pages of all
buffers, and `composer_register_function`. Whoever touches a buffer then faults;
the handler opens all pages and calls `execute`, under the mutex. `execute`
starts `threads` workers, which share nothing but the task list, the splitters
and the counter of ids, and joins them.

### Python

| Component | Source | State | Operations | Correct when |
| --- | --- | --- | --- | --- |
| Logical plan | `pycomposer/dag.py` | roots, operations and their children | `register`, `walk`, `infer_types`, `to_vm`, `commit`, `evaluate_dag` | calls run in an order that respects data flow; each once |
| Split types | `pycomposer/split_types.py`, `annotation.py` | generics and their concrete types | `_sync`, `_finalized` | inference ends, equal generics get equal types |
| Driver | `pycomposer/vm/driver.py`, `program.py`, `instruction.py` | the program, its values, a pool of processes | `get_partitions`, `run`, `_run_program`, `_merge`, `Program.step` | as the parallel executor |
| Split types of libraries | `python/lib` | none | `split`, `combine`, `elements` | disjoint and covering |

### What is hard here

Workers take their ids in the order of scheduling, not of spawning; ranges are
rounded up, so the last ones may be empty or inverted; splitters disagree on
where the end is; a worker may panic while others run. Pages are opened for all
threads before the pending calls have run; wrappers take the mutex three times;
a free can overtake a pending call; the memory manager skips system calls on
the word of cached flags, and a system call may fail in the middle of a loop.
`PROJECT.json` lists each hazard at its line with the properties that cover it.

## 2. The modules

| Module | Models | Role |
| --- | --- | --- |
| `Partition` | `thread_range`, the arithmetic of batches (also `Driver.get_partitions`), where the splitters under `c/lib` end | operators |
| `PartitionProofs` | | theorems: ranges are disjoint and cover the items; how many items leave none of them empty |
| `ParallelFor` | what an execution promises | abstract specification |
| `Executor` | the parallel region of `TaskManager::execute` | state machine |
| `ExecutorProofs` | | theorems for every property of `Executor` but termination, and for its safety half |
| `MemoryManager` | `MemoryManager`, `MemorySegment` | state machine |
| `MemoryManagerProofs` | | theorems for every property of `MemoryManager` |
| `EagerCalls` | what the client of annotated functions is promised | abstract specification |
| `Runtime` | entry points, wrappers, handler, over `MemoryManager` | composition |
| `MCRuntime` | the threads and buffers of the runs of `Runtime` | TLC |
| `RuntimeProofs` | | theorems for every safety property of `Runtime`, its refinements of `EagerCalls` and `MemoryManager`, and the safety halves of its liveness |
| `DeferredCalls` | what a client that registers calls is promised | abstract specification |
| `TaskManager` | `TaskManager` outside the parallel region of `execute` | state machine |
| `MCTaskManager` | the library, values and rules of the runs of `TaskManager` | TLC |
| `TaskManagerProofs` | | theorems for the invariants of `TaskManager`, its refinement of `DeferredCalls`, and what each rule of the client is for |
| `PyDriver` | `Driver.run`, `_run_program`, `_merge`, `Program`, the split types of NumPy and pandas | state machine |
| `PyDriverProofs` | | theorems for the safety properties of `PyDriver`, its refinement of `ParallelFor`, and the safety half of termination |
| `LogicalPlan` | `LogicalPlan`, `evaluate_dag`, the inference of split types | state machine |
| `MCLogicalPlan` | the functions, types and values of the runs of `LogicalPlan` | TLC |
| `LogicalPlanProofs` | | theorems: types, dependencies, building, clearing |
| `PipelineProofs` | | theorems: inference, pipelines, the order of the roots, how far a return is |

Definitions that begin with "Mistaken:" are variants of the definition after
them with a plausible bug: each property is checked to fail with one of them.

### Executor

`job` holds what an execution finds fixed: the number of items, tasks, threads,
`init_task_size`, how the splitters tell the end, and whether an output was
registered. `nextTid` is the atomic counter, `tid`, `cur`, `task`, `lists` are
the locals `tid`, `current_range`, the loop index and `output_lists` of
`thread_func`; `pieces`, `main`, `output` belong to the thread in `execute`.
A worker goes `spawned -> split -> call -> ... -> merge -> done`, with the
actions `Start`/`QuitWithoutRange` (lines 510-529), `SplitValues`/`FinishDriver`
(`split_values`), one `CallTask` per task, `FinishBatch` (565-579), `MergeLocal`
/`PanicWithoutOutput` (the `unwrap` of line 602). Two workers interleave between
any two of these steps. `Join`, `Unwind`, `LeaveScope` are the joins inside
`thread::scope`, in the order of spawning, and a panic on its way out;
`FinalMerge` is the rest of `execute`, which nothing else can interleave with.

With one thread the code calls `thread_func` itself instead of spawning; the
model's one worker behaves alike. Values are abstracted to the ranges they were
made from, so that a merged value is a sequence of sequences of ranges.
`SplitterFinished` is that of the splitter that ends first: `RegularSplit` of
MKL goes on when a batch begins exactly at the end, `WandSplit` of ImageMagick
does not (`Finished` of `Partition`).

### MemoryManager

An address is one mapping. `allocations` is the vector with its order (which
`swap_remove` changes), `access` is what the kernel knows of each mapping. Each
operation has a variant that panics where an `mprotect` fails, with the segments
before it already changed; the mutex is then poisoned and the library unusable.

### Runtime

The mutex is `holder`; operations that take and release it in one go are single
actions, guarded by `Unlocked`; executions hold it over many actions. A thread
is `idle` or at a place of a wrapper (`evaluate?`, `protect`, `register`), about
to `touch` pages, or in `unprotect`/`execute`/`run` of the handler or of
`composer_execute`. `WorkerFaults` is a worker of an execution that touches a
page that is not open: its handler waits for the mutex of the thread that joins
it (`stuck`); if that thread is itself in a handler, SIGSEGV is blocked in the
worker and the process dies (`killed`). `ExecutionPanics` stands for what panics
inside `execute` while `STATE` is locked, before the first call or when the
workers have ended: items of different numbers or none (lines 387, 393), a
worker without a piece of an output (602). The panic leaves functions that are
`extern "C"`, so that the process is aborted (`panicked`), with the calls still
registered; a program that caught it would find the mutex poisoned. When the
conditions hold is in `TaskManager` and `Executor`; here any execution may panic.
The program is arbitrary: any thread may
call anything on the buffers it works on. It keeps two rules, each a guard
with a comment: `composer_init` is called when no call is under way, and (unless
`FreesEarly`) no buffer is freed while a registered call uses it.

A call has a number, and `content` is the sequence of the calls that ran on a
buffer. `EagerCalls` speaks of the same without sequences: the value of a buffer
is the calls it holds and which of them were before which, so that one more
call is a union. `ValueOf` maps a buffer of `Runtime` to it: the calls that ran,
then those that wait.

### TaskManager

The variables are the fields of the struct (`id_gen` as `nextId`), and
`written`, a history of what the last execution wrote where. A call's arguments
are bytes: values of the client, or handles, which are numbers as
`FUTURE_BASE_PTR + future_offset` is. `Register` is `register_task`: an id for
the future, then for each argument the id of equal bytes or a new one (ids are
only compared, so the model leaves gaps). `RegisterOutput` is `register_output`;
`Execute` is `execute` from the check of the tasks to the clearing; in
`ExecuteDies` an `assert_eq` or `unwrap` of `init_splitters` fails, or that of
an output's buffer (line 568) or of its pieces in a worker that had none (line
602, `Starved`), or a splitter is handed a handle. Which values leave one of
`NumThreads` workers without a piece (`Scarce`) is computed from `Partition`, as
`Executor` does. `Split` is the
result of `inputs` and `init_splitters`: the first parameter an id is passed to
decides whether it is split. `Receives` is what `split_values` and the loop over
tasks (lines 554-563) put into the buffers.

A client keeps up to three rules, `Rules`: it uses a handle only while its call
waits ("handles"); it passes no value both to be split and to be broadcast
("kinds"); it emits what a waiting call takes or returns, and no value from two
locations nor two from one ("emits"). They are what the code takes for granted
without checking. With all three nothing ends in "crashed"; a pipeline of
broadcast arguments only, or of values with different numbers of items, or of
too few for the workers when anything was emitted, still panics, which
`DeferredCalls` has as `Die`.

### PyDriver

As `Executor`, with a pool of processes in place of threads: ids are arguments
of the calls, so there is no counter; results are got in the order of the
ranges; a `combine` of nothing raises in the worker and again in `get`, and
the other processes are not stopped. `piece` is `piece_start` and `piece_end`,
`context` the entry of the result in a worker's context, `result` the partial
results of the driver. A worker goes `queued -> split -> call -> ... -> merge ->
done` or `raised`: `Begin`, `Split`/`Stop` and `Call` (the instructions of
`Program.step`), `Advance` (the next piece), `Merge`/`MergeRaises`; the driver
takes `Get`, `GetRaises`, `Return`, or `Uncountable`.

The values of a program are of one kind, which is what the split types tell
apart: `array` (one dimension; a split beyond the end stops the worker),
`frame` (a data frame, whose empty slice is a piece), `matrix` (two dimensions:
`elements` counts its columns, `split` slices its rows), `column` (one column:
whole in every piece) and `constant` (broadcast, without a count). An array that
is sliced by columns (`slice_col`) is like a frame with rows and columns
exchanged. `sends` is whether the result is mutable and so merged.

### LogicalPlan

An `Operation` is the number of its call. `calls` has the function, arguments
and children of each, `roots` those of the plan; `types` and `generic` are the
`_concrete` and the class of each split type of a call's annotation, `pipeline`
the attribute of that name. `todo`, `queue`, `stack` and `visited` are what the
walks keep: `queue` that of `walk` from the top, `stack` the Python stack of
`_walk_bottomup`. `pc` is the stage:

- `open -> wire -> open`: `Register` (a new call), `Wire` for each call the walk
  takes, `Wired` (the roots that became dependencies are roots no longer).
- `open -> infer <-> sync`: `Evaluate`, the walk from the bottom (`NextRoot`,
  `Descend`), `Infer` when it visits a call, `Sync` for each link of
  `infer_locally`, `Join` or `Break` at its end; `InferAgain` while a pass
  changed something.
- `finalize`: `Finalize` per call; `build`: `Construct` per call of the walk;
  `run`: `RunCall` per call of the programs, in the order of the pipelines;
  `Clear`. Raising takes `Raise` in `Finalize`, `ConstructRaises` or `RunRaises`
  back to `open`, with the plan, types and marks as they are then.

The inference compares types by class and attributes, two of which an evaluation
sets: `mutable` when programs are built (`Marked`), and `range_end` when one runs
in the process of its caller, as with one worker (`Ranged`). After an evaluation
that raised, a type may differ from itself as it was. The model keeps this with
the pair of a type and `new`, `kept`, `merged` or `ranged`. A program that comes
later still holds the operations of earlier ones, not their results
(`TakesOperation`). What a function does with one is the library's: most raise
(`RunRaises`), but `equal` of `composer_pandas`, for one, compares with it and
returns. `RunCall` therefore asks nothing of its arguments.

The client passes values or results of the plan at hand, and leaves `dontsend`
alone. Keyword arguments are further arguments.

## 3. What is checked

| Run | Instance | Shows |
| --- | --- | --- |
| `executor` | items 0..5, threads 1..3, piece size 1..2, tasks 1..2, both splitters, with and without output | calls once and in order, no races, panics explained, the refinement of `ParallelFor`, termination |
| `executor_idle_thread` (violation) | items 0..5, threads 1..4 | "The task list is cleared afterwards": not when there is an output and a range has no items (a value without items, or 5 items on 4 threads) |
| `memory_safety` | 3 addresses, 4 segments, failing `mmap` and `mprotect` | flags, belief, mappings |
| `runtime_one_thread` | 1 thread, 2 buffers, 3 calls | laziness is invisible: the refinement of `EagerCalls`; everything returns unless an execution panics |
| `runtime_two_threads` | 2 threads, 2 shared buffers, 2 calls, early frees | order; a worker faults only over a freed buffer; unless one does or the execution panics, the mutex is released |
| `runtime_race` (violation) | 2 threads, a buffer each | a thread misses its own call on its own buffer |
| `task_manager` | 3 functions, 2 images of 2 and 4 items on 3 workers, 2 variables, 2 calls and 2 handles | ids, futures, the refinement of `DeferredCalls` |
| `task_manager_kinds` (violation) | the same, without the rule "kinds" | a broadcast parameter receives pieces |
| `pydriver` | 5 rows and columns, 3 workers, pieces of 3, 2 calls, five kinds of values | nothing that counts left out, exceptions explained, refinement of `ParallelFor` when pieces fit the ranges |
| `pydriver_clamp` (violation) | 5 elements, 2 workers, pieces of 4 | elements processed twice |
| `py_plan` | 3 calls of 4 functions on 2 values, 2 evaluations that raise | dependencies, order of building and running, agreement and end of the inference, where pipelines break, clearing |
| `py_plan_shared` (violation) | 4 calls of 2 functions on 1 value | a call below two roots runs after a call above it |

Why the bounds are enough. Five items on three threads has every case of the
rounding but the inverted range (exact, rounded up, an empty last range, fewer
items than threads), and two batches in a range, the last one short; the
inverted range is in `executor_idle_thread`, and the safety properties and the
refinement are proved for all values. Three mappings suffice for `swap_remove`
to move a segment over another while a third stays, and for a loop that fails
in its middle. Two threads and two buffers have every pair of critical
sections; a third call adds a pending call behind two others.
For `TaskManager`, two functions return and take each kind of parameter, two
calls have an argument before and after the call that returns it, and ids are
kept over any number of executions; of three workers on two items two have no
range, and of those on four the last has one without items.
For `LogicalPlan`, three calls have every shape of a plan but the one of
`py_plan_shared` (a chain, two below one, one below two roots), and the four
functions have what the code tells apart: concrete and generic types, an update
in place, and nothing returned. Two evaluations that raise let the second start
from the types and marks the first left. For `PyDriver`, five rows on three
workers have two pieces in a range and an empty last range, and the matrices
have fewer, as many, and more columns than rows.
Deadlock checking is off where the system may stop: in `runtime_two_threads`,
where a `stuck` program may; in `task_manager` and
the runs of `LogicalPlan`, where the bounds on handles, calls and raises end it.

Fairness. `Executor`: each spawned thread and the joining one are scheduled
(weak fairness of their steps), as the operating system does, and the tasks
return. `Runtime`: a thread that has begun a call or an access, and for which
the next step is possible, takes it; nothing forces the program to begin one.
`Unlocks` and `Returns` ask nothing of the fairness of the mutex beyond that.
`PyDriver`: each process and the driver are scheduled. `LogicalPlan`: the one
thread of the program goes on with the call it has begun (weak fairness of
`Step`); nothing makes the program register or evaluate.

## 4. What is proved

The module `ExecutorProofs` proves for every number of items, threads, tasks and
every piece size:

- `Inductive`, the invariant that makes the others provable: which ids were
  taken and by whom (`TidsTaken`); where in its range a worker is
  (`CurInRange`); what was called on each item, told from the place of the
  worker that owns it (`CallsOfOwner`); that the lists of outputs are the
  batches so far, in order (`ListsOfOwner`); why a worker panicked
  (`PanicsForLackOfItems`); what was joined (`JoinedAreDone`) and what was
  merged (`OutputIsMerge`). None of the properties is inductive alone: that no
  task is called twice, for one, needs that ranges are disjoint, that ids are
  taken by one worker, and that the current batch is the one after the called.
- From it `AtMostOnce`, `PipelineOrder`, `NoSharedItem`, `Complete`,
  `OutputInOrder`, `PanicOnlyWithoutItems`, `DoneIsFinal`, and that every
  behaviour is one of `ParallelFor` (`Implements`): the last batch of calls of a
  worker maps to `Apply`, the merge to `Publish`, a panic to `Abort`, all else
  to stuttering.
- It rests on `RangesDisjoint` and `RangesCover` of `PartitionProofs`, plain
  arithmetic about `thread_range`.
- With more than `(threads - 1) * (threads - 1)` items every range has an item
  (`EveryRangeHasItems`; `LastRangeIsEmpty`: with just as many the last of three
  threads or more has none), and fewer do for a splitter that only needs a range
  not to begin behind the items (`EveryRangeBegins`). With so many (`EnoughItems`)
  no execution panics, hence "the task list is cleared afterwards", the sentence
  that `executor_idle_thread` refutes without (`ClearedWithEnoughItems`).

`MemoryManagerProofs` proves, for any set of addresses and any failures,
`TypeOK`, `FlagIsTrue`, `NoLeak`, `AllProtectedIsTrue` and `OpensAll`. The
strengthening needs `Distinct` (no two segments have the same pages, so that a
free closes no other segment's pages) and `AllFlagged` (the belief in terms of
flags, which with `NoLeak` gives it in terms of pages).

`TaskManagerProofs` proves, for any values, functions and rules, that
`TypeOK`, `OneIdPerValue` and `FuturesArePending` are inductive together: that
bytes have one id needs handles to be below `future_offset`, and that a future
is of one call needs new ids to be new.

It proves too that with all rules every behaviour is one of `DeferredCalls`
(`Implements`). The strengthening `RulesInductive` adds what the
rules preserve: handles among the arguments of a waiting call are those of calls
before it (`HandlesWait`), the futures are the ids of handles
(`FuturesAreHandles`), and every output has a buffer (`Buffered`). The heart of
it is that a call changes what no call before it receives
(`RegisterKeepsRules`, `RegisterImplements`): the first use of an id stays
the first, and an id is not split because of a later parameter.

Each rule is proved to be enough for what it is there for. With "handles" no
splitter is handed a handle (`NoHandleIsSplit`): a handle among the arguments is
the future of a waiting call, and futures are not split. With "kinds" too a
broadcast argument stays whole (`BroadcastIsKept`), what `task_manager_kinds`
refutes without. With "emits" every output has a buffer (`OutputsAreBuffered`),
and with "handles" and "emits" an execution ends early only over items that cannot
be counted, or that leave a worker without a piece of an output
(`OnlyPiecesKill`).

`RuntimeProofs` has, for any threads, buffers and numbers of calls:

- With any threads, whatever is freed: `TypeOK`, `RunInOrder` and
  `FaultsOnlyOnFreed`. They need `Inv`: the thread that executes has the mutex, and
  no other (`LockInv`); no page is closed while it is locked (`OpenInv`); calls
  run where they stand before `composer_init` and are registered afterwards, so
  that `evaluate` is true then during executions only (`PhaseInv`); what a thread
  has begun is of mapped buffers (`DoingInv`); the calls that wait are numbered
  in order, after those that have run on any buffer (`OrderInv`). The pages are
  those of `MemoryManagerProofs`, instantiated.
- What threads do to the pages is what `MemoryManager` allows
  (`ImplementsMemoryManager`, a refinement with `Buffers` for its addresses and no
  failures), so what is proved of it holds of a program's pages. They are opened
  all together, and only in the step that takes `STATE` for an execution
  (`OpensTogetherToExecute`).
- No deadlock (`NobodyDeadlocks`): while `STATE` is unlocked every thread that has
  begun something may go on; while it is locked its holder may, unless a worker
  of its execution faulted or the execution panicked.
- If no buffer of a waiting call is freed, no worker faults (`NoWorkerFaults`):
  the pages are open when the workers begin, and nobody closes them.
- If there is moreover one thread, `PendingIsClosed` and `ReadsAreFresh`:
  `ClosedInv` adds that all pages are closed where a wrapper is about to register.
  With two threads the run `runtime_race` refutes `ReadsAreFresh`.
- From these, for one thread, the refinement of `EagerCalls`. `OrderByNumber` is
  its heart: the order in which a buffer's calls ran or will is the order of
  their numbers, so that it is enough to follow the set of calls a buffer holds
  (`Holds`). A registered call enters the set, running it leaves the set as it
  is (`RunKeeps`), and a read finds no call waiting (`ReadReads`).

`LogicalPlanProofs` and `PipelineProofs` prove, for any functions, annotations
and numbers of calls, `TypeOK`, `DependenciesBelow`, `BuiltInOrder`,
`ClearedWhenRun`, `TypesStay`, `LinksAgree`, `RunsInOrder`, `RootsInOrder` and
`BreaksAtResults`. What is needed for them:

- That the walk of `wire` leaves no dependency out although it does not go below
  one (`WiringHolds`): what it has yet to visit, or what is below that, covers
  the plan.
- That a walk from the bottom visits a call after its children, although the set
  of visited calls is a new one for each root (`BuildInv`, `RanInv`): what was
  visited, or built for an earlier root, is closed under children.
- For the agreement of types: what the current pass has made agree stays so
  unless the pass is noted to have changed something (`PassInv`, `AfterInv`).
  Both it and `RunsInOrder` are stated for plans without a call below two roots
  (`NothingShared`), for `py_plan_shared` shows them false with one.
- For the order of the roots: nothing that is wired is above a root
  (`RootsOnTop`), so a root is reached from itself only. Each walk takes the
  earlier roots first (`RootsWalked`), hence the pipelines of roots do not fall
  (`RootsPiped`) and roots are built in order (`RootsBuilt`).
- For the data flow (`DependenciesRunFirst`): what is below a call has run before
  it, since a call runs after its children, and all it depends on is below it
  (`DependenciesBelow`). It holds with shared calls too as long as no call is of
  an earlier pipeline than its children (`Rising`), so `py_plan_shared` needs types
  that disagree.
- For `BreaksAtResults`: a call that takes no child's result has its generic types
  from above only (`GenericInv`), so a pipeline begins at a call that takes the
  result of a child (`BreaksAtArgument`), and that call stays in it, and the child
  in an earlier one, through the pass (`HeldPass`), the building and the run. So
  whatever types the evaluations that raised left, no program but the first is
  without an operation among its values.

`PyDriverProofs` proves `TypeOK`, `NoSharedItem`, `RaisesOnlyWithoutItems`,
`Complete`, that no call is made twice on a row where pieces fit the ranges
(what `pydriver_clamp` refutes where they do not), and the refinement of
`ParallelFor`. `PlaceInv` says where in its range a worker is, `CallInv` which
calls were made on which row, told from the place of its worker (once only if
pieces fit), `ResultInv` that contexts and results are the pieces so far, in
order. Ranges are disjoint and cover the rows by `PartitionProofs`, as for the C
runtime. The refinement speaks of the rows that a run promises something of:
all, if pieces fit, elements count rows, and the value is no single column.
With enough elements for its workers `Driver.run` does not raise
(`ReturnsWithEnoughItems`, by `EveryRangeHasItems`).

`Complete`, `OutputInOrder` and `DoneIsFinal` of `Executor` are proved, and the
first two follow from the refinement its run checks; no run lists them.

Of liveness the provers reach the safety half: that each step uses something up,
and that there is a next one. What is left to TLC is that a fair scheduler turns
these into `Terminates`, `Returns` and `Unlocks`.

- `Executor` and `PyDriver` (`EveryStepCounts` of each): a step of a worker, or of
  the thread that joins, lowers what is left to it and leaves the others' alone; a
  worker has at most `(items + 1) * (tasks + 2) + 3` steps, whatever its splitter
  answers. `NeverStuck`: until `execute` ends a worker has not ended, or the
  joining thread has a step, after panics too.
- `Runtime` with any threads (`HolderIsAlone`): while a thread has `STATE` locked no
  other changes the pages, the waiting calls or its place, and it unlocks after at
  most two steps more than calls wait, unless the execution panics or its worker
  faults. With one thread that frees
  nothing in use (`OneThreadReturns`), every step uses up one of at most as many
  steps as calls wait and six, a panic among them: no access faults twice.
- `LogicalPlan` (`EveryStepNears`): each step lowers the first of these that it
  changes: the stages left, the positions without a type, whether the pass changed
  a type, the roots, calls and edges to walk, the depth of the walk, the links to
  sync, the calls to run. The exception is the sync of a generic argument with the
  `None` of a function that returns nothing, which notes a change without one
  (`NothingPassed`); it needs that types without a value are generic or `None` in
  the signature (`OpenInv`), that the stack has only calls not visited, one below
  the other (`StackInv`), and that what is counted is finite (`FiniteInv`).
  `EveryStageGoesOn`: the next child, link or call that a step asks for exists.

The assumptions are those on the constants (`BoundsAssumption`,
`MemoryAssumption`, `RuntimeAssumption`, `ClientAssumption`, `SignatureAssumption`: the names of
types, values and calls differ, and a signature has a type for each argument).
Only model-checked: liveness itself (`Terminates`, `Returns`, `Unlocks`), which is
out of the prover's reach, as are ENABLED, induction over data and RECURSIVE
operators.

## 5. What the code says and does not hold

Five runs are expected to fail; `PROJECT.json` quotes the sentence each refutes.

- A thread whose range has no items panics when there is an output, and the
  tasks stay registered (`executor_idle_thread`). It takes at most
  `(threads - 1) * (threads - 1)` items (`ClearedWithEnoughItems`).
- A broadcast parameter receives pieces of a value that was passed to a split
  one first (`task_manager_kinds`). It takes a client that passes one value both
  ways (`BroadcastIsKept`).
- With two threads, protection is not enough for lazy evaluation
  (`runtime_race`).
- The first piece of a Python worker is not clamped (`pydriver_clamp`).
- A call below two roots may run after a call above it: "The plan is evaluated
  from leaves to the root" (`py_plan_shared`). It takes a second pipeline
  (`DependenciesRunFirst`).

Seen while modelling, in the models but refuting no sentence of a run here:

- `malloc(0)` and a failed `malloc` leave a segment at `MAP_FAILED`, on which
  the next `mprotect` fails; the mutex is then poisoned (the actions of
  `MemoryManager` whose names end in `Panics`).
- `free` of a buffer with a pending call hangs `composer_execute`, or kills the
  process if it runs in a handler. `FaultsOnlyOnFreed` of `Runtime` says that
  nothing else makes a worker fault; an execution ends early without a fault too,
  by the panics of `ExecutionPanics`, which `OnlyPiecesKill` and
  `PanicOnlyWithoutItems` explain.
- A call that updates a value is ordered after the calls that updated it before,
  not after those that read it: `RootsInOrder` shows what the order of the roots
  saves, and its comment what it does not.
- Every pipeline but the first is run on an operation in place of its result
  (`BreaksAtResults`): `commit` gives the result to the operation, not to the
  programs that hold the operation (the TODO of `dag.py:413`). Most functions
  raise on it; one that does not, as `equal` of `composer_pandas`
  (`annotated.py:105`) in `equal(s, pandasum(s))`, returns a value of something
  else. The later program has the operation among its values then, so that its
  `commit` (`dag.py:389`) replaces the result as well.
- An array with more rows than columns loses rows, since `elements`
  (`composer_numpy/annotated.py:45`) counts its columns and `split` (line 34)
  slices its rows: `Counted` in `PyDriver`. An array of one column is whole in
  every piece (line 29).
- `Operation.value` (`dag.py:118`) passes on a name, `workers`, that nothing
  defines.

## 6. What is not modelled

- In Python: the check of an annotation against the signature of its function
  (`annotation.py:41-66`), splits that are generators (the repository has none),
  a second run of a pool that was not terminated after an exception, what a
  library makes of pieces, an evaluation inside a call that is evaluated.
- `annotate`: its parsers, its generator and its files are text to text; the
  wrapper it generates is in `Runtime`.
- Pieces and merges of the splitters under `c/lib`: pointer arithmetic on a base
  and a size, with `SplitterFinished` in `Executor`.
- `composer_emit` together with the faults of `Runtime`: an execution by a fault
  between a call and the emit of its result. `TaskManager` leaves it to the
  client's rule "emits".
- Other arguments of a splitter (its base and strides), sizes of arguments.
- Functions that call `composer_evaluate` while they run, faults that no buffer
  explains, non-positive `threads` and `init_task_size`.
- Logging, timing, wording; the benchmarks.
- The computations of libraries: a value is the items it was made from.
- 64-bit overflow: products stay below items + threads (see `Partition`).

## 7. Plan

1. Done: `Partition`, `ParallelFor`, `Executor`, `MemoryManager`, `EagerCalls`,
   `Runtime`, `DeferredCalls`, `TaskManager`, `LogicalPlan`, `PyDriver` with their
   proofs.
2. `Runtime` with `composer_emit`, whose read of the emitted pointer may fault
   under the mutex, and with outputs that an execution by a fault forgets.
3. `Splitters`: pieces disjoint and covering, with pad and stride of images.
4. `Annotate`: the checks of annotations and the lazily built annotation.
