------------------------------ MODULE Runtime ------------------------------
(***************************************************************************)
(* The runtime as the threads of a program meet it                         *)
(* (c/composer/src/runtime/mod.rs): the wrappers generated for annotated   *)
(* functions, the memory functions, composer_execute and the SIGSEGV       *)
(* handler, all of which take the mutex STATE.                             *)
(*                                                                         *)
(* A wrapper takes STATE three times: to ask whether to evaluate, to close *)
(* the pages of all buffers, and to register its call.  A thread that      *)
(* touches a closed page faults; the handler opens all pages and executes  *)
(* the registered calls, with STATE locked, and the access is retried.     *)
(*                                                                         *)
(* An execution may panic (ExecutionPanics).  The panic leaves a function  *)
(* that is extern "C", no caller of which catches it, and the process is   *)
(* aborted: the specification follows it no further.  A program that did   *)
(* catch it would find STATE poisoned at its next call, as in              *)
(* MemoryManager, the calls still registered and their pages open.         *)
(*                                                                         *)
(* The pages are those of MemoryManager, whose mappings here never fail.   *)
(* What one call does to a buffer is told by the call's number; Executor   *)
(* and ParallelFor are about how an execution does it.                     *)
(***************************************************************************)
EXTENDS Naturals, Sequences, FiniteSets

CONSTANTS
  Threads,        \* the threads of the program
  Buffers,        \* the addresses of the buffers
  MapFailed,      \* see MemoryManager
  WorksOn,        \* the buffers each thread works on
  FreesEarly,     \* the program may free a buffer that registered calls use
  MaxCalls        \* bounds the calls of annotated functions

ASSUME RuntimeAssumption ==
  /\ IsFiniteSet(Buffers)
  /\ WorksOn \in [Threads -> SUBSET Buffers]
  /\ MapFailed \notin Buffers
  /\ FreesEarly \in BOOLEAN
  /\ MaxCalls \in Nat

VARIABLES
  allocations, all_protected, access, poisoned,   \* see MemoryManager
  evaluate,    \* TaskManager.evaluate
  tasks,       \* the registered calls: their number and the buffers they use
  next,        \* the next of them to run, during an execution
  holder,      \* the thread that has STATE locked, or {}
  pc,          \* where each thread is
  doing,       \* the access or call each thread has begun
  content,     \* the calls that have run on each buffer (history)
  calls,       \* the number of calls registered or run directly (history)
  seen         \* what was last read of each buffer (history)

memory  == <<allocations, all_protected, access, poisoned>>
manager == <<evaluate, tasks, next>>
history == <<content, calls, seen>>
vars    == <<memory, manager, holder, pc, doing, history>>

Memory == INSTANCE MemoryManager WITH
  Addresses <- Buffers, MaxSegments <- Cardinality(Buffers), MprotectFails <- FALSE

Nothing == [what |-> "nothing", uses |-> {}]

Mapped == {b \in Buffers : access[b] # "unmapped"}

\* Call number `call' has run on the buffers it uses.
Ran(call, uses) ==
  content' = [b \in Buffers |->
                IF b \in uses THEN Append(content[b], call) ELSE content[b]]

\* Buffer b is used by a registered call, or by what a thread has begun.
Pending(b) == \E k \in DOMAIN tasks : b \in tasks[k].uses
InUse(b)   == \E t \in Threads : b \in doing[t].uses

Unlocked == holder = {}

Goto(t, place) == pc' = [pc EXCEPT ![t] = place]

Init ==
  /\ Memory!Init
  /\ evaluate = TRUE /\ tasks = <<>> /\ next = 1
  /\ holder = {}
  /\ pc = [t \in Threads |-> "idle"]
  /\ doing = [t \in Threads |-> Nothing]
  /\ content = [b \in Buffers |-> <<>>]
  /\ calls = 0
  /\ seen = [b \in Buffers |-> <<>>]

-----------------------------------------------------------------------------
(***************************************************************************)
(* The operations that hold STATE from beginning to end.                   *)
(***************************************************************************)

\* composer_init, while no call is under way ("before any of the other composer
\* functions"): from now on calls are registered.
Initialize(t) ==
  /\ \A u \in Threads : pc[u] = "idle"
  /\ Unlocked /\ evaluate
  /\ evaluate' = FALSE
  /\ UNCHANGED <<memory, tasks, next, holder, pc, doing, history>>

\* composer_malloc; lazy only once there is a handler for the faults.
Malloc(t, b) ==
  /\ pc[t] = "idle" /\ Unlocked /\ b \in WorksOn[t]
  /\ Memory!AllocateOpen(b) \/ (~ evaluate /\ Memory!AllocateClosed(b))
  /\ content' = [content EXCEPT ![b] = <<>>]
  /\ UNCHANGED <<manager, holder, pc, doing, calls, seen>>

\* composer_free.  No program frees a buffer in use by a call that stands
\* before the free in its text and runs there; this one may be registered.
Free(t, b) ==
  /\ pc[t] = "idle" /\ Unlocked /\ b \in WorksOn[t]
  /\ ~ InUse(b) /\ (FreesEarly \/ ~ Pending(b))
  /\ \E k \in DOMAIN allocations : allocations[k].address = b /\ Memory!Free(k)
  /\ UNCHANGED <<manager, holder, pc, doing, history>>

\* composer_tolazy.
ToLazy(t, b) ==
  /\ pc[t] = "idle" /\ Unlocked /\ b \in WorksOn[t] /\ ~ evaluate
  /\ \E k \in DOMAIN allocations : allocations[k].address = b /\ Memory!Protect(k)
  /\ UNCHANGED <<manager, holder, pc, doing, history>>

-----------------------------------------------------------------------------
(***************************************************************************)
(* A call of an annotated function, and an access to a buffer.             *)
(***************************************************************************)

\* Calls begun but neither registered nor run are counted by the bound too.
BeginCall(t, uses) ==
  /\ pc[t] = "idle"
  /\ uses # {} /\ uses \subseteq WorksOn[t] \cap Mapped
  /\ calls + Cardinality({u \in Threads : doing[u].what = "call"}) < MaxCalls
  /\ doing' = [doing EXCEPT ![t] = [what |-> "call", uses |-> uses]]
  /\ Goto(t, "evaluate?")
  /\ UNCHANGED <<memory, manager, holder, history>>

\* composer_evaluate: run the call here and now, or register it.
Evaluate(t) ==
  /\ pc[t] = "evaluate?" /\ Unlocked
  /\ Goto(t, IF evaluate THEN "touch" ELSE "protect")
  /\ UNCHANGED <<memory, manager, holder, doing, history>>

\* Mistaken: pages are closed for the first of the registered calls only.
ProtectAllForFirst(t) ==
  /\ pc[t] = "protect" /\ Unlocked
  /\ IF tasks = <<>> THEN Memory!ProtectAll ELSE UNCHANGED memory
  /\ Goto(t, "register")
  /\ UNCHANGED <<manager, holder, doing, history>>

\* composer_protect_all.
ProtectAll(t) ==
  /\ pc[t] = "protect" /\ Unlocked
  /\ Memory!ProtectAll
  /\ Goto(t, "register")
  /\ UNCHANGED <<manager, holder, doing, history>>

\* Mistaken: a call like one that is registered already is not registered.
RegisterOnce(t) ==
  /\ pc[t] = "register" /\ Unlocked
  /\ calls' = calls + 1
  /\ tasks' = IF \E k \in DOMAIN tasks : tasks[k].uses = doing[t].uses
              THEN tasks
              ELSE Append(tasks, [call |-> calls', uses |-> doing[t].uses])
  /\ doing' = [doing EXCEPT ![t] = Nothing]
  /\ Goto(t, "idle")
  /\ UNCHANGED <<memory, evaluate, next, holder, content, seen>>

\* composer_register_function; the wrapper returns.
Register(t) ==
  /\ pc[t] = "register" /\ Unlocked
  /\ calls' = calls + 1
  /\ tasks' = Append(tasks, [call |-> calls', uses |-> doing[t].uses])
  /\ doing' = [doing EXCEPT ![t] = Nothing]
  /\ Goto(t, "idle")
  /\ UNCHANGED <<memory, evaluate, next, holder, content, seen>>

BeginRead(t, b) ==
  /\ pc[t] = "idle"
  /\ b \in WorksOn[t] \cap Mapped
  /\ doing' = [doing EXCEPT ![t] = [what |-> "read", uses |-> {b}]]
  /\ Goto(t, "touch")
  /\ UNCHANGED <<memory, manager, holder, history>>

\* The pages are open: the access succeeds.
Touch(t) ==
  /\ pc[t] = "touch" /\ \A b \in doing[t].uses : access[b] = "open"
  /\ doing' = [doing EXCEPT ![t] = Nothing]
  /\ Goto(t, "idle")
  /\ UNCHANGED <<memory, manager, holder>>

\* A call that was not registered does its work.
CallDirectly(t) ==
  /\ doing[t].what = "call" /\ Touch(t)
  /\ calls' = calls + 1
  /\ Ran(calls', doing[t].uses)
  /\ UNCHANGED seen

Read(t) ==
  /\ doing[t].what = "read" /\ Touch(t)
  /\ seen' = [b \in Buffers |-> IF b \in doing[t].uses THEN content[b] ELSE seen[b]]
  /\ UNCHANGED <<content, calls>>

\* A closed page: SIGSEGV.
Fault(t) ==
  /\ pc[t] = "touch" /\ \E b \in doing[t].uses : access[b] = "closed"
  /\ Goto(t, "unprotect")
  /\ UNCHANGED <<memory, manager, holder, doing, history>>

-----------------------------------------------------------------------------
(***************************************************************************)
(* sigbus_handler and composer_execute: unprotect_all and execute, under   *)
(* one lock of STATE.                                                      *)
(***************************************************************************)

CallExecute(t) ==
  /\ pc[t] = "idle"
  /\ Goto(t, "unprotect")
  /\ UNCHANGED <<memory, manager, holder, doing, history>>

\* Mistaken: pages are opened when the registered calls have run.
UnprotectAllLater(t) ==
  /\ pc[t] = "unprotect" /\ Unlocked
  /\ holder' = {t}
  /\ UNCHANGED memory
  /\ Goto(t, "execute")
  /\ UNCHANGED <<manager, doing, history>>

\* Mistaken: pages are opened only if a call is registered.
UnprotectAllForTasks(t) ==
  /\ pc[t] = "unprotect" /\ Unlocked
  /\ holder' = {t}
  /\ IF tasks = <<>> THEN UNCHANGED memory ELSE Memory!UnprotectAll
  /\ Goto(t, "execute")
  /\ UNCHANGED <<manager, doing, history>>

UnprotectAll(t) ==
  /\ pc[t] = "unprotect" /\ Unlocked
  /\ holder' = {t}
  /\ Memory!UnprotectAll
  /\ Goto(t, "execute")
  /\ UNCHANGED <<manager, doing, history>>

\* STATE is unlocked: the access is retried, or composer_execute returns.
Release(t) ==
  /\ holder' = {}
  /\ Goto(t, IF doing[t] = Nothing THEN "idle" ELSE "touch")

\* Mistaken: one registered call is taken for none.
OneToExecute(t) ==
  /\ pc[t] = "execute" /\ Len(tasks) <= 1
  /\ Release(t)
  /\ UNCHANGED <<memory, manager, doing, history>>

\* Mistaken: the early return leaves STATE locked.
NothingToExecuteKeepsLock(t) ==
  /\ pc[t] = "execute" /\ tasks = <<>>
  /\ Goto(t, IF doing[t] = Nothing THEN "idle" ELSE "touch")
  /\ UNCHANGED <<memory, manager, holder, doing, history>>

\* Nothing is registered, for no call was made or another thread was first.
NothingToExecute(t) ==
  /\ pc[t] = "execute" /\ tasks = <<>>
  /\ Release(t)
  /\ UNCHANGED <<memory, manager, doing, history>>

\* Mistaken: the tasks are counted from 0.
BeginExecutionFromZero(t) ==
  /\ pc[t] = "execute" /\ tasks # <<>>
  /\ evaluate' = TRUE
  /\ next' = 0
  /\ Goto(t, "run")
  /\ UNCHANGED <<memory, tasks, holder, doing, history>>

BeginExecution(t) ==
  /\ pc[t] = "execute" /\ tasks # <<>>
  /\ evaluate' = TRUE
  /\ next' = 1
  /\ Goto(t, "run")
  /\ UNCHANGED <<memory, tasks, holder, doing, history>>

\* The workers run the next call.
RunTask(t) ==
  /\ pc[t] = "run" /\ next <= Len(tasks)
  /\ \A b \in tasks[next].uses : access[b] = "open"
  /\ Ran(tasks[next].call, tasks[next].uses)
  /\ next' = next + 1
  /\ UNCHANGED <<memory, evaluate, tasks, holder, pc, doing, calls, seen>>

\* A worker touches a buffer whose pages are not open.  Its handler waits for
\* STATE, which is held by the thread that waits for it; but a worker spawned
\* by a handler has SIGSEGV blocked, and its fault kills the program.
WorkerFaults(t) ==
  /\ pc[t] = "run" /\ next <= Len(tasks)
  /\ \E b \in tasks[next].uses : access[b] # "open"
  /\ Goto(t, IF doing[t] = Nothing THEN "stuck" ELSE "killed")
  /\ UNCHANGED <<memory, manager, holder, doing, history>>

\* The execution panics: before any call has run, over arguments that differ in
\* their number of items or are all of them broadcast, or of a length that is not
\* their type's; or when the workers have ended, for one of them had no piece
\* although there is an output to merge.  The calls stay registered.
ExecutionPanics(t) ==
  /\ pc[t] = "run" /\ next \in {1, Len(tasks) + 1}
  /\ Goto(t, "panicked")
  /\ UNCHANGED <<memory, manager, holder, doing, history>>

\* Mistaken: the tasks stay registered.
FinishExecutionUncleared(t) ==
  /\ pc[t] = "run" /\ next > Len(tasks)
  /\ evaluate' = FALSE
  /\ Release(t)
  /\ UNCHANGED <<memory, tasks, next, doing, history>>

FinishExecution(t) ==
  /\ pc[t] = "run" /\ next > Len(tasks)
  /\ tasks' = <<>>
  /\ evaluate' = FALSE
  /\ Release(t)
  /\ UNCHANGED <<memory, next, doing, history>>

-----------------------------------------------------------------------------

Faulted(t)  == pc[t] \in {"stuck", "killed"}
Panicked(t) == pc[t] = "panicked"

\* The process has not been killed, nor aborted.
Alive == \A t \in Threads : pc[t] # "killed" /\ ~ Panicked(t)

\* What the program asks of the runtime, which it need not.
Begin(t) ==
  \/ Initialize(t) \/ CallExecute(t)
  \/ \E b \in Buffers : Malloc(t, b) \/ Free(t, b) \/ ToLazy(t, b) \/ BeginRead(t, b)
  \/ \E uses \in SUBSET Buffers : BeginCall(t, uses)

\* What follows.
Continue(t) ==
  \/ Evaluate(t) \/ ProtectAll(t) \/ Register(t)
  \/ CallDirectly(t) \/ Read(t) \/ Fault(t)
  \/ UnprotectAll(t) \/ NothingToExecute(t) \/ BeginExecution(t)
  \/ RunTask(t) \/ WorkerFaults(t) \/ ExecutionPanics(t) \/ FinishExecution(t)

\* Nothing happens in a process that is no more.
Over == ~ Alive /\ UNCHANGED vars

Next == Over \/ (Alive /\ \E t \in Threads : Begin(t) \/ Continue(t))

\* Threads that are not waiting for the program get to run.
Fairness == \A t \in Threads : WF_vars(Alive /\ Continue(t))

Spec     == Init /\ [][Next]_vars
FairSpec == Spec /\ Fairness

-----------------------------------------------------------------------------
(***************************************************************************)
(* Properties.                                                             *)
(***************************************************************************)

Places == {"idle", "evaluate?", "protect", "register", "touch",
           "unprotect", "execute", "run", "stuck", "killed", "panicked"}

\* The types of the variables.
TypeOK ==
  /\ Memory!TypeOK
  /\ evaluate \in BOOLEAN
  /\ tasks \in Seq([call : Nat \ {0}, uses : SUBSET Buffers])
  /\ next \in Nat \ {0}
  /\ holder \in {{}} \cup {{t} : t \in Threads}
  /\ pc \in [Threads -> Places]
  /\ doing \in [Threads -> [what : {"nothing", "read", "call"}, uses : SUBSET Buffers]]
  /\ content \in [Buffers -> Seq(Nat \ {0})]
  /\ calls \in Nat
  /\ seen \in [Buffers -> Seq(Nat \ {0})]

\* No registered call is run twice, nor before one that was registered before
\* it: the calls that ran on a buffer did so in the order of their numbers.
RunInOrder ==
  \A b \in Buffers : \A j, k \in DOMAIN content[b] :
    j < k => content[b][j] < content[b][k]

\* A read sees every call that was registered for the buffer before it.
ReadsAreFresh ==
  [][\A t \in Threads : Read(t) => \A b \in doing[t].uses : ~ Pending(b)]_vars

\* While a registered call waits to run, the pages of its buffers are closed,
\* so that no access is missed; it is enough that this holds between the
\* executions, for these hold STATE.
PendingIsClosed ==
  \A b \in Buffers : Unlocked /\ Pending(b) => access[b] = "closed"

\* The worker of an execution faults, by which STATE stays locked or the program is
\* killed, only over a buffer that was freed while a registered call uses it: the
\* pages of the others were opened first, and no thread closes them meanwhile.
FaultsOnlyOnFreed ==
  \A t \in Threads : Faulted(t) =>
    \E k \in DOMAIN tasks : ~ (tasks[k].uses \subseteq Mapped)

\* Whatever a thread does with STATE locked, it unlocks it, unless a worker of the
\* execution faults or the execution panics.
Unlocks ==
  \A t \in Threads :
    (holder = {t}) ~> (holder # {t} \/ Faulted(t) \/ ~ Alive)

\* Every call returns, and every access ends, whether it faulted or not, unless an
\* execution panics and the process is aborted.
Returns == \A t \in Threads : (pc[t] # "idle") ~> (pc[t] = "idle" \/ ~ Alive)

\* The registered calls that have yet to run on buffer b, by their places.
Waiting(b) ==
  {k \in DOMAIN tasks :
     b \in tasks[k].uses /\ ((\E t \in Threads : pc[t] \in {"run", "panicked"}) => next <= k)}

\* The calls of a sequence, and which of them were before which.
Held(s)   == {s[k] : k \in DOMAIN s}
Before(s) == {<<s[jk[1]], s[jk[2]]>> : jk \in {jk \in (DOMAIN s) \X (DOMAIN s) : jk[1] < jk[2]}}

\* Those of buffer b: the calls that have run on it, then those that wait.
ValueOf(b) ==
  LET waits == {tasks[k].call : k \in Waiting(b)}
      order == {jk \in Waiting(b) \X Waiting(b) : jk[1] < jk[2]}
  IN  [holds  |-> Held(content[b]) \cup waits,
       before |-> Before(content[b]) \cup (Held(content[b]) \X waits)
                    \cup {<<tasks[jk[1]].call, tasks[jk[2]].call>> : jk \in order}]

\* The program behaves as if every call ran where it stands: see EagerCalls.
Eager == INSTANCE EagerCalls WITH
  mapped <- Mapped,
  value  <- [b \in Buffers |-> ValueOf(b)],
  seen   <- [b \in Buffers |-> [holds |-> Held(seen[b]), before |-> Before(seen[b])]]

ImplementsEagerCalls == Eager!Spec

=============================================================================
