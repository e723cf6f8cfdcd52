----------------------------- MODULE TaskManager -----------------------------
(***************************************************************************)
(* TaskManager (c/composer/src/runtime/tasks.rs): the calls and outputs a  *)
(* client registers, and what execute makes of them.  Each operation runs  *)
(* with STATE locked, from beginning to end.                               *)
(*                                                                         *)
(* A call's arguments are bytes: a value of the client, or a handle, the   *)
(* number that stands for what an earlier call is to return.  The manager  *)
(* gives each of them an id, the same one to equal bytes, and never        *)
(* forgets it.  Ids are told from one another and nothing else, so the     *)
(* model leaves gaps between them.                                         *)
(*                                                                         *)
(* Executor is about the parallel region of execute; here it is told by    *)
(* its end, the panic of a worker without a piece included.                *)
(***************************************************************************)
EXTENDS Partition, Sequences

CONSTANTS
  Values,      \* the bytes a client passes, handles aside
  Elements,    \* the items a splitter finds in each value
  Splitter,    \* the kind of this splitter
  Locations,   \* the client's variables
  Functions,   \* the annotated functions
  Params,      \* the split types of their parameters, "split" or "broadcast"
  Returns,     \* the functions that return a value
  NumThreads,  \* the workers of an execution
  Rules,       \* the rules the client keeps, see below
  MaxTasks,    \* bounds the calls registered at a time
  MaxHandles   \* bounds the handles given out

ASSUME ClientAssumption ==
  /\ Values \cap Nat = {}
  /\ Elements \in [Values -> Nat \ {0}]
  /\ Splitter \in [Values -> {"RegularSplit", "WandSplit"}]
  /\ NumThreads \in Nat \ {0}
  /\ Params \in [Functions -> Seq({"split", "broadcast"})]
  /\ Returns \subseteq Functions
  /\ Rules \subseteq {"handles", "kinds", "emits"}
  /\ MaxTasks \in Nat /\ MaxHandles \in Nat

VARIABLES
  tasks,           \* the registered calls
  arguments,       \* the bytes of each id
  futures,         \* the ids of the values that calls in tasks return
  outputs,         \* the location of each id that is to be written back
  nextId,          \* id_gen
  future_offset,   \* the number of handles so far
  status,          \* "running", "panicked" (STATE is poisoned) or "crashed"
  written          \* what the last execution wrote, and where (history)

vars == <<tasks, arguments, futures, outputs, nextId, future_offset, status, written>>

NoFuture == 0      \* ids begin at 1

Handles == 0 .. future_offset - 1

Init ==
  /\ tasks = <<>>
  /\ arguments = <<>>
  /\ futures = {}
  /\ outputs = <<>>
  /\ nextId = 1
  /\ future_offset = 0
  /\ status = "running"
  /\ written = {}

\* The ids under which bytes are registered.
Known(bytes) == {id \in DOMAIN arguments : arguments[id] = bytes}

\* A place of the bytes among the arguments of a call.
Place(args, bytes) == CHOOSE i \in DOMAIN args : args[i] = bytes

\* The id of the bytes in a call with these arguments: new ids come after the
\* one of the call's future.
IdIn(args, bytes) ==
  IF Known(bytes) # {} THEN CHOOSE id \in Known(bytes) : TRUE
                       ELSE nextId + Place(args, bytes)

\* The places of the registered calls where an id is an argument, in order.
Uses(id) == {use \in (DOMAIN tasks) \X (UNION {DOMAIN tasks[k].arguments : k \in DOMAIN tasks}) :
               /\ use[2] \in DOMAIN tasks[use[1]].arguments
               /\ tasks[use[1]].arguments[use[2]] = id}

NotAfter(use, other) == use[1] < other[1] \/ (use[1] = other[1] /\ use[2] <= other[2])

FirstUses(id) == {use \in Uses(id) : \A other \in Uses(id) : NotAfter(use, other)}

\* The parameter at such a place.
Kind(use) == Params[tasks[use[1]].function][use[2]]

Inputs == {id \in DOMAIN arguments : Uses(id) # {}}

\* Mistaken: also those that were returned in the pipeline.
SplitWithFutures == {id \in Inputs : \E use \in FirstUses(id) : Kind(use) = "split"}

\* The inputs for which execute initializes a splitter: the first parameter
\* they are passed to decides.
Split == {id \in Inputs \ futures : \E use \in FirstUses(id) : Kind(use) = "split"}

-----------------------------------------------------------------------------
(***************************************************************************)
(* The rules a client may keep:                                            *)
(*   "handles"  it uses a handle only while the call that returned it      *)
(*              waits to run;                                              *)
(*   "kinds"    it passes no value both to be split and to be broadcast    *)
(*              before the calls are executed;                             *)
(*   "emits"    it emits what a waiting call takes or returns, and no      *)
(*              value from two locations, nor two from one.                *)
(***************************************************************************)

KeepsHandles(bytes) ==
  "handles" \in Rules /\ bytes \in Nat =>
    \E k \in DOMAIN tasks : tasks[k].future # NoFuture
                              /\ arguments[tasks[k].future] = bytes

KeepsKinds(f, args) ==
  "kinds" \in Rules =>
    \A i \in DOMAIN args : args[i] \in Values =>
      /\ \A j \in DOMAIN args : args[j] = args[i] => Params[f][j] = Params[f][i]
      /\ \A id \in Known(args[i]) : \A use \in Uses(id) : Kind(use) = Params[f][i]

KeepsEmits(location, bytes) ==
  "emits" \in Rules =>
    /\ \E id \in Known(bytes) : id \in Inputs \cup futures
    /\ \A id \in DOMAIN outputs :
         (outputs[id] = location) <=> (arguments[id] = bytes)

-----------------------------------------------------------------------------

\* The bytes among a call's arguments that have no id, and their new ids.
New(args) == {bytes \in {args[i] : i \in DOMAIN args} : Known(bytes) = {}}

NewIds(args) == {IdIn(args, bytes) : bytes \in New(args)}

\* The id of what a call returns, if it does.
FutureIds(f) == IF f \in Returns THEN {nextId} ELSE {}

\* Mistaken: the future is not registered as an argument.
ArgumentsWithoutFuture(f, args) ==
  [id \in DOMAIN arguments \cup NewIds(args) |->
     IF id \in DOMAIN arguments THEN arguments[id] ELSE args[id - nextId]]

\* The arguments, with those of a call and the handle of what it returns.
ArgumentsWith(f, args) ==
  [id \in DOMAIN arguments \cup NewIds(args) \cup FutureIds(f) |->
     IF id \in DOMAIN arguments THEN arguments[id]
     ELSE IF id = nextId THEN future_offset ELSE args[id - nextId]]

\* register_task, with the bytes `args' of the arguments.
Register(f, args) ==
  /\ status = "running" /\ Len(tasks) < MaxTasks
  /\ f \in Returns => future_offset < MaxHandles
  /\ \A i \in DOMAIN args : KeepsHandles(args[i])
  /\ KeepsKinds(f, args)
  /\ tasks' = Append(tasks,
       [function  |-> f,
        arguments |-> [i \in DOMAIN args |-> IdIn(args, args[i])],
        future    |-> IF f \in Returns THEN nextId ELSE NoFuture])
  /\ arguments' = ArgumentsWith(f, args)
  /\ futures' = futures \cup FutureIds(f)
  /\ nextId' = IF f \in Returns \/ New(args) # {} THEN nextId + Len(args) + 1 ELSE nextId
  /\ future_offset' = IF f \in Returns THEN future_offset + 1 ELSE future_offset
  /\ UNCHANGED <<outputs, status, written>>

\* Mistaken: the bytes are not looked for among the arguments.
RegisterOutputAnew(location, bytes) ==
  /\ status = "running"
  /\ KeepsHandles(bytes) /\ KeepsEmits(location, bytes)
  /\ arguments' = [k \in DOMAIN arguments \cup {nextId} |->
                     IF k = nextId THEN bytes ELSE arguments[k]]
  /\ outputs' = [k \in DOMAIN outputs \cup {nextId} |->
                   IF k = nextId THEN location ELSE outputs[k]]
  /\ nextId' = nextId + 1
  /\ UNCHANGED <<tasks, futures, future_offset, status, written>>

\* register_output: the location holds the bytes.
RegisterOutput(location, bytes) ==
  LET id == IF Known(bytes) # {} THEN CHOOSE k \in Known(bytes) : TRUE ELSE nextId
  IN
  /\ status = "running"
  /\ KeepsHandles(bytes) /\ KeepsEmits(location, bytes)
  /\ arguments' = [k \in DOMAIN arguments \cup {id} |->
                     IF k = id THEN bytes ELSE arguments[k]]
  /\ outputs' = [k \in DOMAIN outputs \cup {id} |->
                   IF k = id THEN location ELSE outputs[k]]
  /\ nextId' = IF id = nextId THEN nextId + 1 ELSE nextId
  /\ UNCHANGED <<tasks, futures, future_offset, status, written>>

\* A splitter takes the bytes of a handle for a value.
Crashes == \E id \in Split : arguments[id] \notin Values

\* There is one number of items.
Counted == \E id \in Split : \A other \in Split :
             Elements[arguments[other]] = Elements[arguments[id]]

\* The workers find a buffer with the pieces of every output.
Buffered == DOMAIN outputs \subseteq Inputs \cup futures

\* The values whose items leave a worker without a piece: its range, rounded up
\* as those before it, begins where their splitter is at its end.
Scarce ==
  {v \in Values : \E tid \in 0 .. NumThreads - 1 :
     /\ HasRange(Elements[v], NumThreads, tid)
     /\ Finished(Splitter[v], Elements[v], ThreadRange(Elements[v], NumThreads, tid).start)}

\* A worker has nothing of an output.
Starved == DOMAIN outputs # {} /\ \E id \in Split : arguments[id] \in Scarce

\* Mistaken: futures are not cleared.
ExecuteKeepsFutures ==
  /\ status = "running" /\ tasks # <<>>
  /\ ~ Crashes /\ Counted /\ Buffered /\ ~ Starved
  /\ written' = {<<outputs[id], arguments[id]>> : id \in DOMAIN outputs}
  /\ tasks' = <<>> /\ outputs' = <<>>
  /\ UNCHANGED <<arguments, futures, nextId, future_offset, status>>

\* execute, to the end.  Without tasks it returns, whatever the outputs.
Execute ==
  /\ status = "running" /\ tasks # <<>>
  /\ ~ Crashes /\ Counted /\ Buffered /\ ~ Starved
  /\ written' = {<<outputs[id], arguments[id]>> : id \in DOMAIN outputs}
  /\ tasks' = <<>> /\ futures' = {} /\ outputs' = <<>>
  /\ UNCHANGED <<arguments, nextId, future_offset, status>>

\* init_splitters crashes; or an assertion or an unwrap fails there, or in a
\* worker the unwrap of an output's buffer, or of its pieces.
ExecuteDies ==
  /\ status = "running" /\ tasks # <<>>
  /\ Crashes \/ ~ Counted \/ ~ Buffered \/ Starved
  /\ status' = IF Crashes THEN "crashed" ELSE "panicked"
  /\ UNCHANGED <<tasks, arguments, futures, outputs, nextId, future_offset, written>>

Next ==
  \/ \E f \in Functions : \E args \in [DOMAIN Params[f] -> Values \cup Handles] :
       Register(f, args)
  \/ \E location \in Locations, bytes \in Values \cup Handles :
       RegisterOutput(location, bytes)
  \/ Execute
  \/ ExecuteDies

Spec == Init /\ [][Next]_vars

-----------------------------------------------------------------------------
(***************************************************************************)
(* Properties.                                                             *)
(***************************************************************************)

\* The types of the variables; ids in use are registered.
TypeOK ==
  /\ nextId \in Nat \ {0} /\ future_offset \in Nat
  /\ DOMAIN arguments \subseteq 1 .. nextId - 1
  /\ \A id \in DOMAIN arguments : arguments[id] \in Values \cup Handles
  /\ tasks \in Seq([function : Functions,
                    arguments : Seq(DOMAIN arguments),
                    future : DOMAIN arguments \cup {NoFuture}])
  /\ \A k \in DOMAIN tasks :
       DOMAIN tasks[k].arguments = DOMAIN Params[tasks[k].function]
  /\ futures \subseteq DOMAIN arguments
  /\ DOMAIN outputs \subseteq DOMAIN arguments
  /\ \A id \in DOMAIN outputs : outputs[id] \in Locations
  /\ status \in {"running", "panicked", "crashed"}
  /\ written \subseteq Locations \X (Values \cup Handles)

\* Equal bytes have one id, over any number of calls and executions: or else
\* two arguments of one task, or an argument and the output it is emitted as,
\* would be split, buffered and merged apart (tasks.rs:228, 264, 246).
OneIdPerValue ==
  \A id, other \in DOMAIN arguments : arguments[id] = arguments[other] => id = other

\* futures has the ids of what the registered calls return, each of one call,
\* and of nothing else: a future left of an earlier execution would go
\* unsplit, and unwritten, through the next (tasks.rs:247, 345, 668).
FuturesArePending ==
  /\ futures = {tasks[k].future : k \in DOMAIN tasks} \ {NoFuture}
  /\ \A j, k \in DOMAIN tasks :
       tasks[j].future = tasks[k].future => j = k \/ tasks[j].future = NoFuture

\* What task k finds in its buffer for an id: what a task before it returned
\* (lines 557-562), a piece, or the bytes as they were registered.
Receives(k, id) ==
  IF \E j \in 1 .. k - 1 : tasks[j].future = id THEN <<"result", arguments[id]>>
  ELSE IF id \in Split THEN <<"pieces", arguments[id]>>
  ELSE <<"whole", arguments[id]>>

Promise == INSTANCE DeferredCalls WITH
  pending <- [k \in DOMAIN tasks |->
               [function  |-> tasks[k].function,
                arguments |-> [i \in DOMAIN tasks[k].arguments |->
                                Receives(k, tasks[k].arguments[i])],
                handle    |-> IF tasks[k].future = NoFuture THEN {}
                              ELSE {arguments[tasks[k].future]}]],
  emitted <- {<<outputs[id], arguments[id]>> : id \in DOMAIN outputs},
  handles <- future_offset,
  alive   <- status = "running"

\* For a client that keeps the rules, ids, futures, first uses and what is
\* and is not cleared after an execution come to what was promised: each call
\* receives what it was given, the values emitted and no other are written,
\* and only pieces that cannot be counted, or too few for an output, kill the
\* program.
Implements == Promise!Spec

\* An argument of split type broadcast "won't have a splitter" (tasks.rs:330).
BroadcastIsWhole ==
  \A k \in DOMAIN tasks : \A i \in DOMAIN tasks[k].arguments :
    Params[tasks[k].function][i] = "broadcast" => tasks[k].arguments[i] \notin Split

=============================================================================
