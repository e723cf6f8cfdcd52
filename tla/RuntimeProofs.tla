---------------------------- MODULE RuntimeProofs ----------------------------
(***************************************************************************)
(* Proofs about Runtime, for any numbers of buffers and calls: what holds  *)
(* for any threads, among it that Runtime implements MemoryManager and has *)
(* no deadlock, and what one thread that frees no buffer of a waiting call *)
(* is promised, up to EagerCalls and its return.                           *)
(***************************************************************************)
EXTENDS Runtime, FiniteSetTheorems, SequenceTheorems, TLAPS

MemoryProofs == INSTANCE MemoryManagerProofs WITH
  Addresses <- Buffers, MaxSegments <- Cardinality(Buffers), MprotectFails <- FALSE

\* What MemoryManagerProofs assumes of its constants.
LEMMA OfMemory == MemoryProofs!MemoryAssumption
BY RuntimeAssumption, FS_CardinalityType DEF MemoryProofs!MemoryAssumption

-----------------------------------------------------------------------------
(***************************************************************************)
(* The pages.                                                              *)
(***************************************************************************)

MemoryInv == Memory!Inductive /\ ~ poisoned

\* Memory and MemoryProofs are two names of the same definitions.
LEMMA SameInvariant == Memory!Inductive <=> MemoryProofs!Inductive
BY DEF Memory!Inductive, Memory!TypeOK, Memory!FlagIsTrue, Memory!Distinct,
       Memory!NoLeak, Memory!AllFlagged, Memory!Segment,
       MemoryProofs!Inductive, MemoryProofs!TypeOK, MemoryProofs!FlagIsTrue,
       MemoryProofs!Distinct, MemoryProofs!NoLeak, MemoryProofs!AllFlagged,
       MemoryProofs!Segment

LEMMA SameInvariantNext == Memory!Inductive' <=> MemoryProofs!Inductive'
BY DEF Memory!Inductive, Memory!TypeOK, Memory!FlagIsTrue, Memory!Distinct,
       Memory!NoLeak, Memory!AllFlagged, Memory!Segment,
       MemoryProofs!Inductive, MemoryProofs!TypeOK, MemoryProofs!FlagIsTrue,
       MemoryProofs!Distinct, MemoryProofs!NoLeak, MemoryProofs!AllFlagged,
       MemoryProofs!Segment

LEMMA SameActions ==
  /\ \A a \in Buffers \cup {MapFailed} :
       /\ Memory!AllocateOpen(a) <=> MemoryProofs!AllocateOpen(a)
       /\ Memory!AllocateClosed(a) <=> MemoryProofs!AllocateClosed(a)
  /\ \A k \in DOMAIN allocations :
       /\ Memory!Free(k) <=> MemoryProofs!Free(k)
       /\ Memory!Protect(k) <=> MemoryProofs!Protect(k)
  /\ Memory!ProtectAll <=> MemoryProofs!ProtectAll
  /\ Memory!UnprotectAll <=> MemoryProofs!UnprotectAll
<1>1. ASSUME NEW a \in Buffers \cup {MapFailed}
      PROVE  /\ Memory!AllocateOpen(a) <=> MemoryProofs!AllocateOpen(a)
             /\ Memory!AllocateClosed(a) <=> MemoryProofs!AllocateClosed(a)
  BY DEF Memory!AllocateOpen, Memory!AllocateClosed, Memory!MayProtect,
         MemoryProofs!AllocateOpen, MemoryProofs!AllocateClosed, MemoryProofs!MayProtect
<1>2. ASSUME NEW k \in DOMAIN allocations
      PROVE  /\ Memory!Free(k) <=> MemoryProofs!Free(k)
             /\ Memory!Protect(k) <=> MemoryProofs!Protect(k)
  BY DEF Memory!Free, Memory!Protect, Memory!MayProtect, Memory!SwapRemove,
         MemoryProofs!Free, MemoryProofs!Protect, MemoryProofs!MayProtect,
         MemoryProofs!SwapRemove
<1>3. Memory!ProtectAll <=> MemoryProofs!ProtectAll
  BY DEF Memory!ProtectAll, Memory!Succeeds, Memory!SetFirst, Memory!MayProtect,
         Memory!memoryVars, MemoryProofs!memoryVars,
         MemoryProofs!ProtectAll, MemoryProofs!Succeeds, MemoryProofs!SetFirst,
         MemoryProofs!MayProtect
<1>4. Memory!UnprotectAll <=> MemoryProofs!UnprotectAll
  BY DEF Memory!UnprotectAll, Memory!Succeeds, Memory!SetFirst, Memory!MayProtect,
         MemoryProofs!UnprotectAll, MemoryProofs!Succeeds, MemoryProofs!SetFirst,
         MemoryProofs!MayProtect
<1> QED BY <1>1, <1>2, <1>3, <1>4

LEMMA MemoryStep ==
  ASSUME MemoryInv,
         \/ \E a \in Buffers : Memory!AllocateOpen(a) \/ Memory!AllocateClosed(a)
         \/ \E k \in DOMAIN allocations : Memory!Free(k) \/ Memory!Protect(k)
         \/ Memory!ProtectAll \/ Memory!UnprotectAll
         \/ UNCHANGED memory
  PROVE  MemoryInv'
<1>1. MemoryProofs!Inductive /\ ~ poisoned
  BY SameInvariant DEF MemoryInv
<1>2. ASSUME NEW a \in Buffers, Memory!AllocateOpen(a) \/ Memory!AllocateClosed(a)
      PROVE  MemoryProofs!Inductive'
  <2>1. MemoryProofs!Allocate
    BY <1>2, SameActions DEF MemoryProofs!Allocate
  <2> QED BY <1>1, <2>1, OfMemory, MemoryProofs!AllocateStep
<1>3. ASSUME NEW k \in DOMAIN allocations, Memory!Free(k) \/ Memory!Protect(k)
      PROVE  MemoryProofs!Inductive'
  BY <1>1, <1>3, SameActions, OfMemory, MemoryProofs!FreeStep, MemoryProofs!ProtectStep
<1>4. ASSUME Memory!ProtectAll \/ Memory!UnprotectAll
      PROVE  MemoryProofs!Inductive'
  <2>1. MemoryProofs!OfAll
    BY <1>4, SameActions DEF MemoryProofs!OfAll
  <2> QED BY <1>1, <2>1, OfMemory, MemoryProofs!OfAllStep
<1>5. ASSUME UNCHANGED memory
      PROVE  MemoryProofs!Inductive'
  BY <1>1, <1>5, OfMemory, MemoryProofs!UnchangedStep DEF memory, MemoryProofs!memoryVars
<1>6. MemoryProofs!Inductive'
  BY <1>2, <1>3, <1>4, <1>5
<1>7. ~ poisoned'
  BY <1>1 DEF Memory!AllocateOpen, Memory!AllocateClosed, Memory!Free, Memory!Protect,
     Memory!ProtectAll, Memory!UnprotectAll, Memory!memoryVars, memory
<1> QED BY <1>6, <1>7, SameInvariantNext DEF MemoryInv

\* What the operations do to the pages.
LEMMA AllocateFacts ==
  ASSUME MemoryInv, NEW b \in Buffers, Memory!AllocateOpen(b) \/ Memory!AllocateClosed(b)
  PROVE  /\ access[b] = "unmapped"
         /\ access'[b] = "open" \/ (Memory!AllocateClosed(b) /\ access'[b] = "closed")
         /\ \A c \in Buffers : c # b => access'[c] = access[c]
<1>1. b # MapFailed
  BY RuntimeAssumption
<1> QED BY <1>1 DEF MemoryInv, Memory!Inductive, Memory!TypeOK, Memory!AllocateOpen,
                    Memory!AllocateClosed

LEMMA FreeFacts ==
  ASSUME MemoryInv, NEW b \in Buffers, NEW k \in DOMAIN allocations,
         allocations[k].address = b, Memory!Free(k)
  PROVE  /\ access'[b] = "unmapped"
         /\ \A c \in Buffers : c # b => access'[c] = access[c]
BY DEF MemoryInv, Memory!Inductive, Memory!TypeOK, Memory!Free

LEMMA ToLazyFacts ==
  ASSUME MemoryInv, NEW b \in Buffers, NEW k \in DOMAIN allocations,
         allocations[k].address = b, Memory!Protect(k)
  PROVE  /\ access[b] # "unmapped" /\ access'[b] = "closed"
         /\ \A c \in Buffers : c # b => access'[c] = access[c]
<1>1. b # MapFailed
  BY RuntimeAssumption
<1>2. access[b] # "unmapped"
  BY <1>1 DEF MemoryInv, Memory!Inductive, Memory!FlagIsTrue
<1> QED BY <1>2 DEF MemoryInv, Memory!Inductive, Memory!TypeOK, Memory!Protect

\* The pages of all segments take one access.
LEMMA SetAllFacts ==
  ASSUME MemoryInv, NEW flag, NEW pages,
         Memory!SetFirst(Len(allocations), flag, pages)
  PROVE  \A b \in Buffers : access'[b] = IF access[b] = "unmapped" THEN "unmapped" ELSE pages
<1> SUFFICES ASSUME NEW b \in Buffers
             PROVE  access'[b] = IF access[b] = "unmapped" THEN "unmapped" ELSE pages
  OBVIOUS
<1>1. DOMAIN allocations = 1 .. Len(allocations) /\ Len(allocations) \in Nat
  BY DEF MemoryInv, Memory!Inductive, Memory!TypeOK
<1>2. access'[b] = IF \E j \in DOMAIN allocations :
                        j <= Len(allocations) /\ allocations[j].address = b
                   THEN pages ELSE access[b]
  BY DEF Memory!SetFirst
<1>3. CASE access[b] = "unmapped"
  <2>1. \A j \in DOMAIN allocations : allocations[j].address # b
    BY <1>3, RuntimeAssumption DEF MemoryInv, Memory!Inductive, Memory!FlagIsTrue
  <2> QED BY <1>2, <1>3, <2>1
<1>4. CASE access[b] # "unmapped"
  <2>1. \E j \in DOMAIN allocations : allocations[j].address = b
    BY <1>4 DEF MemoryInv, Memory!Inductive, Memory!NoLeak
  <2> QED BY <1>1, <1>2, <1>4, <2>1
<1> QED BY <1>3, <1>4

LEMMA ProtectAllFacts ==
  ASSUME MemoryInv, Memory!ProtectAll
  PROVE  \A b \in Buffers :
           access'[b] = IF access[b] = "unmapped" THEN "unmapped" ELSE "closed"
<1>1. CASE all_protected
  <2>1. UNCHANGED access
    BY <1>1 DEF Memory!ProtectAll, Memory!memoryVars
  <2>2. SUFFICES ASSUME NEW b \in Buffers, access[b] # "unmapped" PROVE access[b] = "closed"
    BY <2>1
  <2>3. PICK k \in DOMAIN allocations : allocations[k].address = b
    BY <2>2 DEF MemoryInv, Memory!Inductive, Memory!NoLeak
  <2>4. allocations[k].protected
    BY <1>1 DEF MemoryInv, Memory!Inductive, Memory!AllFlagged
  <2> QED BY <2>3, <2>4, RuntimeAssumption DEF MemoryInv, Memory!Inductive, Memory!FlagIsTrue
<1>2. CASE ~ all_protected
  BY <1>2, SetAllFacts DEF Memory!ProtectAll
<1> QED BY <1>1, <1>2

LEMMA UnprotectAllFacts ==
  ASSUME MemoryInv, Memory!UnprotectAll
  PROVE  \A b \in Buffers :
           access'[b] = IF access[b] = "unmapped" THEN "unmapped" ELSE "open"
BY SetAllFacts DEF Memory!UnprotectAll

-----------------------------------------------------------------------------
(***************************************************************************)
(* Any threads: the lock, the two phases of a program, the order of calls. *)
(***************************************************************************)

Running == {"run", "stuck", "killed", "panicked"}

\* An execution is under way; the first of the calls that are left.
Executing == \E t \in Threads : pc[t] \in Running
FirstLeft == IF Executing THEN next ELSE 1

\* A thread has STATE locked where it should, and no other thread has.
LockInv == \A t \in Threads : pc[t] \in Running \cup {"execute"} <=> holder = {t}

\* While STATE is locked, pages are open.
OpenInv == ~ Unlocked => \A b \in Buffers : access[b] # "closed"

\* Before composer_init calls run where they stand, afterwards they are
\* registered: evaluate is true then during executions only.
PhaseInv ==
  /\ Executing => evaluate
  /\ evaluate /\ ~ Executing =>
       /\ tasks = <<>>
       /\ \A t \in Threads : pc[t] \notin {"protect", "register"}
  /\ ~ evaluate \/ Executing =>
       \A t \in Threads : doing[t].what = "call" => pc[t] \in {"evaluate?", "protect", "register"}

\* What a thread has begun: nothing freed meanwhile.
DoingInv ==
  \A t \in Threads :
    /\ pc[t] = "idle" => doing[t] = Nothing
    /\ pc[t] \in {"evaluate?", "protect", "register"} => doing[t].what = "call"
    /\ doing[t].what = "call" => doing[t].uses # {}
    /\ doing[t].what = "read" => \E b \in Buffers : doing[t].uses = {b}
    /\ doing[t].uses \subseteq Mapped

\* The calls that wait are numbered in order, after those that have run.
OrderInv ==
  /\ \A k \in DOMAIN tasks : tasks[k].call <= calls
  /\ \A j, k \in DOMAIN tasks : j < k => tasks[j].call < tasks[k].call
  /\ \A b \in Buffers : \A j \in DOMAIN content[b] :
       /\ content[b][j] <= calls
       /\ \A k \in DOMAIN tasks : FirstLeft <= k => content[b][j] < tasks[k].call
  /\ RunInOrder

Inv ==
  /\ TypeOK /\ MemoryInv
  /\ LockInv /\ OpenInv /\ PhaseInv /\ DoingInv /\ OrderInv
  /\ FaultsOnlyOnFreed

LEMMA InitInv == Init => Inv
<1> SUFFICES ASSUME Init PROVE Inv
  OBVIOUS
<1>1. MemoryInv
  <2>1. MemoryProofs!Init
    BY DEF Init, Memory!Init, MemoryProofs!Init
  <2>2. MemoryProofs!Inductive
    BY <2>1, OfMemory, MemoryProofs!InitInductive
  <2> QED BY <2>2, SameInvariant DEF MemoryInv, Init, Memory!Init
<1>2. /\ evaluate = TRUE /\ tasks = <<>> /\ next = 1 /\ holder = {} /\ calls = 0
      /\ pc = [t \in Threads |-> "idle"] /\ doing = [t \in Threads |-> Nothing]
      /\ content = [b \in Buffers |-> <<>>] /\ seen = [b \in Buffers |-> <<>>]
  BY DEF Init
<1>3. TypeOK
  <2>1. Nothing \in [what : {"nothing", "read", "call"}, uses : SUBSET Buffers]
    BY DEF Nothing
  <2> QED BY <1>1, <1>2, <2>1 DEF TypeOK, MemoryInv, Memory!Inductive, Places
<1>4. LockInv /\ OpenInv /\ PhaseInv
  BY <1>2 DEF LockInv, OpenInv, PhaseInv, Running, Executing, Unlocked, Nothing
<1>5. DoingInv
  BY <1>2 DEF DoingInv, Nothing
<1>6. OrderInv
  BY <1>2 DEF OrderInv, RunInOrder
<1>7. FaultsOnlyOnFreed
  BY <1>2 DEF FaultsOnlyOnFreed, Faulted
<1> QED BY <1>1, <1>3, <1>4, <1>5, <1>6, <1>7 DEF Inv

-----------------------------------------------------------------------------
(***************************************************************************)
(* The steps, one conjunct of the invariant at a time.                     *)
(***************************************************************************)

LEMMA PagesStep ==
  ASSUME Inv, NEW t \in Threads, Begin(t) \/ Continue(t)
  PROVE  MemoryInv'
<1>1. ASSUME NEW b \in Buffers, Malloc(t, b) \/ Free(t, b) \/ ToLazy(t, b) \/ BeginRead(t, b)
      PROVE  MemoryInv'
  BY <1>1, MemoryStep DEF Inv, Malloc, Free, ToLazy, BeginRead
<1>2. ASSUME Initialize(t) \/ CallExecute(t) \/ \E uses \in SUBSET Buffers : BeginCall(t, uses)
      PROVE  MemoryInv'
  BY <1>2, MemoryStep DEF Inv, Initialize, CallExecute, BeginCall
<1>3. CASE Continue(t)
  BY <1>3, MemoryStep DEF Inv, Continue, Evaluate, ProtectAll, Register, CallDirectly, Read, Touch,
     Fault, UnprotectAll, NothingToExecute, BeginExecution, RunTask, WorkerFaults,
     ExecutionPanics, FinishExecution
<1> QED BY <1>1, <1>2, <1>3 DEF Begin

LEMMA RanFacts ==
  ASSUME content \in [Buffers -> Seq(Nat \ {0})], NEW call \in Nat \ {0}, NEW uses,
         content' = [b \in Buffers |->
                       IF b \in uses THEN Append(content[b], call) ELSE content[b]]
  PROVE  content' \in [Buffers -> Seq(Nat \ {0})]
<1>1. \A b \in Buffers : Append(content[b], call) \in Seq(Nat \ {0})
  BY AppendProperties
<1> QED BY <1>1

LEMMA TypeStep ==
  ASSUME Inv, NEW t \in Threads, Begin(t) \/ Continue(t)
  PROVE  TypeOK'
<1>1. Memory!TypeOK'
  BY PagesStep DEF MemoryInv, Memory!Inductive
<1>2. /\ evaluate \in BOOLEAN
      /\ tasks \in Seq([call : Nat \ {0}, uses : SUBSET Buffers])
      /\ next \in Nat \ {0}
      /\ holder \in {{}} \cup {{u} : u \in Threads}
      /\ pc \in [Threads -> Places]
      /\ doing \in [Threads -> [what : {"nothing", "read", "call"}, uses : SUBSET Buffers]]
      /\ content \in [Buffers -> Seq(Nat \ {0})]
      /\ calls \in Nat
      /\ seen \in [Buffers -> Seq(Nat \ {0})]
  BY DEF Inv, TypeOK
<1>3. Nothing \in [what : {"nothing", "read", "call"}, uses : SUBSET Buffers]
  BY DEF Nothing
<1>4. ASSUME NEW b \in Buffers, Malloc(t, b) \/ Free(t, b) \/ ToLazy(t, b)
      PROVE  TypeOK'
  <2>1. <<>> \in Seq(Nat \ {0})
    OBVIOUS
  <2>2. content' \in [Buffers -> Seq(Nat \ {0})]
    BY <1>2, <1>4, <2>1 DEF Malloc, Free, ToLazy, history
  <2> QED BY <1>1, <1>2, <1>4, <2>2 DEF TypeOK, Malloc, Free, ToLazy, manager, history
<1>5. ASSUME NEW b \in Buffers, BeginRead(t, b)
      PROVE  TypeOK'
  <2>1. [what |-> "read", uses |-> {b}] \in [what : {"nothing", "read", "call"}, uses : SUBSET Buffers]
    OBVIOUS
  <2> QED BY <1>1, <1>2, <1>5, <2>1 DEF TypeOK, BeginRead, Goto, Places, manager, history
<1>6. CASE Initialize(t) \/ CallExecute(t)
  BY <1>1, <1>2, <1>6 DEF TypeOK, Initialize, CallExecute, Goto, Places, manager, history
<1>7. ASSUME NEW uses \in SUBSET Buffers, BeginCall(t, uses)
      PROVE  TypeOK'
  <2>1. [what |-> "call", uses |-> uses] \in [what : {"nothing", "read", "call"}, uses : SUBSET Buffers]
    OBVIOUS
  <2> QED BY <1>1, <1>2, <1>7, <2>1 DEF TypeOK, BeginCall, Goto, Places, manager, history
<1>8. CASE Evaluate(t) \/ ProtectAll(t) \/ Fault(t)
  BY <1>1, <1>2, <1>8 DEF TypeOK, Evaluate, ProtectAll, Fault, Goto, Places, manager, history
<1>9. CASE Register(t)
  <2>1. [call |-> calls + 1, uses |-> doing[t].uses] \in [call : Nat \ {0}, uses : SUBSET Buffers]
    BY <1>2
  <2> QED BY <1>1, <1>2, <1>3, <1>9, <2>1 DEF TypeOK, Register, Goto, Places
<1>10. CASE CallDirectly(t)
  <2>1. content' \in [Buffers -> Seq(Nat \ {0})]
    <3>1. calls + 1 \in Nat \ {0}
      BY <1>2
    <3>2. content' = [b \in Buffers |-> IF b \in doing[t].uses
                        THEN Append(content[b], calls + 1) ELSE content[b]]
      BY <1>10 DEF CallDirectly, Ran
    <3> QED BY <1>2, <3>1, <3>2, RanFacts
  <2> QED BY <1>1, <1>2, <1>3, <1>10, <2>1 DEF TypeOK, CallDirectly, Touch, Goto, Places, manager
<1>11. CASE Read(t)
  <2>1. seen' \in [Buffers -> Seq(Nat \ {0})]
    BY <1>2, <1>11 DEF Read
  <2> QED BY <1>1, <1>2, <1>3, <1>11, <2>1 DEF TypeOK, Read, Touch, Goto, Places, manager
<1>12. CASE BeginExecution(t)
  <2>1. 1 \in Nat \ {0} /\ "run" \in Places
    BY DEF Places
  <2> QED BY <1>1, <1>2, <1>12, <2>1 DEF TypeOK, BeginExecution, Goto, history
<1>13. CASE NothingToExecute(t) \/ FinishExecution(t)
  <2>1. <<>> \in Seq([call : Nat \ {0}, uses : SUBSET Buffers])
    OBVIOUS
  <2> QED BY <1>1, <1>2, <1>13, <2>1
      DEF TypeOK, NothingToExecute, FinishExecution, Release, Goto, Places, manager, history
<1>14. CASE RunTask(t)
  <2>1. tasks[next] \in [call : Nat \ {0}, uses : SUBSET Buffers]
    <3>1. next \in 1 .. Len(tasks)
      BY <1>2, <1>14 DEF RunTask
    <3> QED BY <1>2, <3>1, ElementOfSeq
  <2>2. content' \in [Buffers -> Seq(Nat \ {0})]
    <3>1. tasks[next].call \in Nat \ {0}
      BY <2>1
    <3>2. content' = [b \in Buffers |-> IF b \in tasks[next].uses
                        THEN Append(content[b], tasks[next].call) ELSE content[b]]
      BY <1>14 DEF RunTask, Ran
    <3> QED BY <1>2, <3>1, <3>2, RanFacts
  <2> QED BY <1>1, <1>2, <1>14, <2>2 DEF TypeOK, RunTask
<1>15. CASE UnprotectAll(t)
  BY <1>1, <1>2, <1>15 DEF TypeOK, UnprotectAll, Goto, Places, manager, history
<1>16. CASE WorkerFaults(t) \/ ExecutionPanics(t)
  BY <1>1, <1>2, <1>16 DEF TypeOK, WorkerFaults, ExecutionPanics, Goto, Places, manager, history
<1> QED BY <1>4, <1>5, <1>6, <1>7, <1>8, <1>9, <1>10, <1>11, <1>12, <1>13, <1>14, <1>15, <1>16
    DEF Begin, Continue

LEMMA LockStep ==
  ASSUME Inv, NEW t \in Threads, Begin(t) \/ Continue(t)
  PROVE  LockInv'
<1>1. /\ pc \in [Threads -> Places] /\ LockInv
      /\ \A u \in Threads : holder = {u} => \A v \in Threads : holder = {v} => u = v
  BY DEF Inv, TypeOK
<1>2. CASE UNCHANGED <<pc, holder>>
  BY <1>1, <1>2 DEF LockInv
<1>3. ASSUME UNCHANGED holder, NEW place \in Places, pc' = [pc EXCEPT ![t] = place],
             place \in Running \cup {"execute"} <=> pc[t] \in Running \cup {"execute"}
      PROVE  LockInv'
  BY <1>1, <1>3 DEF LockInv
<1>4. CASE UnprotectAll(t)
  BY <1>1, <1>4 DEF LockInv, UnprotectAll, Unlocked, Goto, Running
<1>5. CASE NothingToExecute(t) \/ FinishExecution(t)
  BY <1>1, <1>5 DEF LockInv, NothingToExecute, FinishExecution, Release, Goto, Running
<1>6. ASSUME NEW b \in Buffers, Malloc(t, b) \/ Free(t, b) \/ ToLazy(t, b) \/ BeginRead(t, b)
      PROVE  LockInv'
  BY <1>2, <1>3, <1>6 DEF Malloc, Free, ToLazy, BeginRead, Goto, Running, Places
<1>7. CASE Initialize(t) \/ CallExecute(t)
  BY <1>2, <1>3, <1>7 DEF Initialize, CallExecute, Goto, Running, Places
<1>8. ASSUME NEW uses \in SUBSET Buffers, BeginCall(t, uses)
      PROVE  LockInv'
  BY <1>3, <1>8 DEF BeginCall, Goto, Running, Places
<1>9. CASE Evaluate(t) \/ ProtectAll(t) \/ Register(t) \/ CallDirectly(t) \/ Read(t) \/ Fault(t)
  BY <1>3, <1>9
  DEF Evaluate, ProtectAll, Register, CallDirectly, Read, Touch, Fault, Goto, Running, Places
<1>10. CASE BeginExecution(t) \/ RunTask(t) \/ WorkerFaults(t) \/ ExecutionPanics(t)
  BY <1>2, <1>3, <1>10 DEF BeginExecution, RunTask, WorkerFaults,
    ExecutionPanics, Goto, Running, Places
<1> QED BY <1>4, <1>5, <1>6, <1>7, <1>8, <1>9, <1>10 DEF Begin, Continue

LEMMA OpenStep ==
  ASSUME Inv, NEW t \in Threads, Begin(t) \/ Continue(t)
  PROVE  OpenInv'
<1>1. MemoryInv /\ OpenInv
  BY DEF Inv
<1>2. ASSUME UNCHANGED access, holder' = holder \/ holder' = {}
      PROVE  OpenInv'
  BY <1>1, <1>2 DEF OpenInv, Unlocked
<1>3. ASSUME Unlocked, UNCHANGED holder
      PROVE  OpenInv'
  BY <1>3 DEF OpenInv, Unlocked
<1>4. CASE UnprotectAll(t)
  <2>1. \A b \in Buffers : access'[b] # "closed"
    BY <1>1, <1>4, UnprotectAllFacts DEF UnprotectAll
  <2> QED BY <2>1 DEF OpenInv
<1>5. ASSUME NEW b \in Buffers, Malloc(t, b) \/ Free(t, b) \/ ToLazy(t, b) \/ BeginRead(t, b)
      PROVE  OpenInv'
  BY <1>2, <1>3, <1>5 DEF Malloc, Free, ToLazy, BeginRead, memory
<1>6. CASE Initialize(t) \/ CallExecute(t) \/ \E uses \in SUBSET Buffers : BeginCall(t, uses)
  BY <1>2, <1>6 DEF Initialize, CallExecute, BeginCall, memory
<1>7. CASE Evaluate(t) \/ ProtectAll(t) \/ Register(t) \/ CallDirectly(t) \/ Read(t) \/ Fault(t)
  BY <1>2, <1>3, <1>7
  DEF Evaluate, ProtectAll, Register, CallDirectly, Read, Touch, Fault, memory
<1>8. CASE NothingToExecute(t) \/ BeginExecution(t) \/ RunTask(t) \/ WorkerFaults(t)
           \/ ExecutionPanics(t) \/ FinishExecution(t)
  BY <1>2, <1>8
  DEF NothingToExecute, BeginExecution, RunTask, WorkerFaults,
  ExecutionPanics, FinishExecution, Release, memory
<1> QED BY <1>4, <1>5, <1>6, <1>7, <1>8 DEF Begin, Continue

\* Whoever executes has STATE locked, alone.
LEMMA Alone ==
  ASSUME Inv, NEW t \in Threads
  PROVE  /\ Unlocked => ~ Executing /\ pc[t] \notin Running \cup {"execute"}
         /\ pc[t] \in Running \cup {"execute"} =>
              /\ ~ Unlocked
              /\ \A u \in Threads : u # t => pc[u] \notin Running \cup {"execute"}
<1>1. LockInv
  BY DEF Inv
<1>2. ASSUME Unlocked, NEW u \in Threads PROVE pc[u] \notin Running \cup {"execute"}
  BY <1>1, <1>2 DEF LockInv, Unlocked
<1>3. ASSUME pc[t] \in Running \cup {"execute"}, NEW u \in Threads, u # t
      PROVE  pc[u] \notin Running \cup {"execute"}
  BY <1>1, <1>3 DEF LockInv
<1> QED BY <1>2, <1>3 DEF Executing

\* A thread that neither begins nor ends an execution.
LEMMA ExecutingMoves ==
  ASSUME pc \in [Threads -> Places], NEW t \in Threads, NEW place,
         pc' = [pc EXCEPT ![t] = place],
         place \in Running <=> pc[t] \in Running
  PROVE  Executing' <=> Executing
<1>1. \A u \in Threads : pc'[u] \in Running <=> pc[u] \in Running
  OBVIOUS
<1> QED BY <1>1 DEF Executing

LEMMA PhaseStep ==
  ASSUME Inv, NEW t \in Threads, Begin(t) \/ Continue(t)
  PROVE  PhaseInv'
<1>1. /\ PhaseInv /\ DoingInv
      /\ pc \in [Threads -> Places] /\ evaluate \in BOOLEAN
      /\ doing \in [Threads -> [what : {"nothing", "read", "call"}, uses : SUBSET Buffers]]
  BY DEF Inv, TypeOK
<1>2. Nothing.what # "call"
  BY DEF Nothing
<1>3. ASSUME NEW b \in Buffers, Malloc(t, b) \/ Free(t, b) \/ ToLazy(t, b)
      PROVE  PhaseInv'
  BY <1>1, <1>3 DEF PhaseInv, Executing, Malloc, Free, ToLazy, manager, history
<1>4. ASSUME NEW b \in Buffers, BeginRead(t, b)
      PROVE  PhaseInv'
  <2>1. Executing' <=> Executing
    BY <1>1, <1>4, ExecutingMoves DEF BeginRead, Goto, Running
  <2> QED BY <1>1, <1>4, <2>1 DEF PhaseInv, BeginRead, Goto, manager
<1>5. ASSUME NEW uses \in SUBSET Buffers, BeginCall(t, uses)
      PROVE  PhaseInv'
  <2>1. Executing' <=> Executing
    BY <1>1, <1>5, ExecutingMoves DEF BeginCall, Goto, Running
  <2> QED BY <1>1, <1>5, <2>1 DEF PhaseInv, BeginCall, Goto, manager
<1>6. CASE Initialize(t)
  <2>1. ~ Executing /\ UNCHANGED pc
    BY <1>6, Alone DEF Initialize
  <2>2. \A u \in Threads : doing'[u] = Nothing
    BY <1>1, <1>6 DEF Initialize, DoingInv
  <2> QED BY <1>2, <1>6, <2>1, <2>2 DEF PhaseInv, Initialize, Executing
<1>7. CASE CallExecute(t)
  <2>1. Executing' <=> Executing
    BY <1>1, <1>7, ExecutingMoves DEF CallExecute, Goto, Running
  <2>2. doing[t].what # "call"
    BY <1>1, <1>2, <1>7 DEF CallExecute, DoingInv
  <2> QED BY <1>1, <1>7, <2>1, <2>2 DEF PhaseInv, CallExecute, Goto, manager
<1>8. CASE Evaluate(t) \/ ProtectAll(t)
  <2>1. Executing' <=> Executing
    BY <1>1, <1>8, ExecutingMoves DEF Evaluate, ProtectAll, Goto, Running
  <2>2. ~ Executing
    BY <1>8, Alone DEF Evaluate, ProtectAll
  <2> QED BY <1>1, <1>8, <2>1, <2>2 DEF PhaseInv, Evaluate, ProtectAll, Goto, manager
<1>9. CASE Register(t)
  <2>1. Executing' <=> Executing
    BY <1>1, <1>9, ExecutingMoves DEF Register, Goto, Running
  <2>2. ~ Executing
    BY <1>9, Alone DEF Register
  <2>3. ~ evaluate
    BY <1>1, <1>9, <2>2 DEF PhaseInv, Register
  <2> QED BY <1>1, <1>2, <1>9, <2>1, <2>2, <2>3 DEF PhaseInv, Register, Goto
<1>10. CASE CallDirectly(t) \/ Read(t)
  <2>1. Executing' <=> Executing
    BY <1>1, <1>10, ExecutingMoves DEF CallDirectly, Read, Touch, Goto, Running
  <2> QED BY <1>1, <1>2, <1>10, <2>1 DEF PhaseInv, CallDirectly, Read, Touch, Goto, manager
<1>11. CASE Fault(t) \/ UnprotectAll(t)
  <2>1. Executing' <=> Executing
    BY <1>1, <1>11, ExecutingMoves DEF Fault, UnprotectAll, Goto, Running
  <2> QED BY <1>1, <1>11, <2>1 DEF PhaseInv, Fault, UnprotectAll, Goto, manager
<1>12. CASE NothingToExecute(t)
  <2>1. Executing' <=> Executing
    BY <1>1, <1>12, ExecutingMoves DEF NothingToExecute, Release, Goto, Running
  <2> QED BY <1>1, <1>2, <1>12, <2>1 DEF PhaseInv, NothingToExecute, Release, Goto, manager
<1>13. CASE BeginExecution(t)
  <2>1. Executing' /\ evaluate'
    BY <1>1, <1>13 DEF BeginExecution, Goto, Executing, Running
  <2>2. ~ evaluate \/ Executing
    BY <1>1, <1>13 DEF BeginExecution, PhaseInv
  <2> QED BY <1>1, <1>13, <2>1, <2>2 DEF PhaseInv, BeginExecution, Goto
<1>14. CASE RunTask(t)
  BY <1>1, <1>14 DEF PhaseInv, Executing, RunTask
<1>15. CASE WorkerFaults(t) \/ ExecutionPanics(t)
  <2>1. Executing' <=> Executing
    BY <1>1, <1>15, ExecutingMoves DEF WorkerFaults, ExecutionPanics, Goto, Running
  <2> QED BY <1>1, <1>15, <2>1 DEF PhaseInv, WorkerFaults, ExecutionPanics, Goto, manager
<1>16. CASE FinishExecution(t)
  <2>1. Executing
    BY <1>16 DEF FinishExecution, Executing, Running
  <2>2. \A u \in Threads : u # t => pc[u] \notin Running
    BY <1>16, Alone DEF FinishExecution, Running
  <2>3. ~ Executing' /\ ~ evaluate'
    BY <1>1, <1>16, <2>2 DEF FinishExecution, Release, Goto, Executing, Running
  <2> QED BY <1>1, <1>16, <2>1, <2>3 DEF PhaseInv, FinishExecution, Release, Goto
<1> QED BY <1>3, <1>4, <1>5, <1>6, <1>7, <1>8, <1>9, <1>10, <1>11, <1>12, <1>13, <1>14,
           <1>15, <1>16 DEF Begin, Continue

\* Pages of a buffer in use stay mapped.
LEMMA MappedStep ==
  ASSUME Inv, NEW t \in Threads, Begin(t) \/ Continue(t),
         NEW b \in Mapped, b \notin Mapped'
  PROVE  Free(t, b)
<1>1. b \in Buffers /\ access[b] # "unmapped" /\ access'[b] = "unmapped" /\ MemoryInv
  BY DEF Mapped, Inv
<1>2. ASSUME NEW c \in Buffers, Malloc(t, c)
      PROVE  FALSE
  <2>1. access[c] = "unmapped" /\ (c # b => access'[b] = access[b])
    BY <1>1, <1>2, AllocateFacts DEF Malloc
  <2> QED BY <1>1, <2>1
<1>3. ASSUME NEW c \in Buffers, Free(t, c)
      PROVE  c = b
  <2>1. c # b => access'[b] = access[b]
    BY <1>1, <1>3, FreeFacts DEF Free
  <2> QED BY <1>1, <2>1
<1>4. ASSUME NEW c \in Buffers, ToLazy(t, c)
      PROVE  FALSE
  <2>1. access'[c] = "closed" /\ (c # b => access'[b] = access[b])
    BY <1>1, <1>4, ToLazyFacts DEF ToLazy
  <2> QED BY <1>1, <2>1
<1>5. CASE ProtectAll(t)
  BY <1>1, <1>5, ProtectAllFacts DEF ProtectAll
<1>6. CASE UnprotectAll(t)
  BY <1>1, <1>6, UnprotectAllFacts DEF UnprotectAll
<1>7. CASE UNCHANGED access
  BY <1>1, <1>7
<1> QED BY <1>2, <1>3, <1>4, <1>5, <1>6, <1>7
    DEF Begin, Continue, Initialize, CallExecute, BeginRead, BeginCall, Evaluate, Register,
        CallDirectly, Read, Touch, Fault, NothingToExecute, BeginExecution, RunTask,
        WorkerFaults, ExecutionPanics, FinishExecution, Release, memory

LEMMA DoingStep ==
  ASSUME Inv, NEW t \in Threads, Begin(t) \/ Continue(t)
  PROVE  DoingInv'
<1>1. /\ DoingInv /\ LockInv
      /\ pc \in [Threads -> Places]
      /\ doing \in [Threads -> [what : {"nothing", "read", "call"}, uses : SUBSET Buffers]]
  BY DEF Inv, TypeOK
<1>2. ASSUME NEW u \in Threads PROVE doing[u].uses \subseteq Mapped'
  <2>1. SUFFICES ASSUME NEW b \in doing[u].uses, b \notin Mapped' PROVE FALSE
    OBVIOUS
  <2>2. b \in Mapped
    BY <1>1 DEF DoingInv
  <2>3. Free(t, b)
    BY <2>1, <2>2, MappedStep
  <2> QED BY <2>3 DEF Free, InUse
<1>3. Nothing.uses = {} /\ Nothing.what = "nothing"
  BY DEF Nothing
<1>4. ASSUME UNCHANGED <<pc, doing>>
      PROVE  DoingInv'
  BY <1>1, <1>2, <1>4 DEF DoingInv
<1>5. ASSUME NEW place, pc' = [pc EXCEPT ![t] = place], UNCHANGED doing,
             place # "idle" \/ doing[t] = Nothing,
             place \in {"evaluate?", "protect", "register"} => doing[t].what = "call"
      PROVE  DoingInv'
  BY <1>1, <1>2, <1>5 DEF DoingInv
<1>6. ASSUME pc' = [pc EXCEPT ![t] = "idle"], doing' = [doing EXCEPT ![t] = Nothing]
      PROVE  DoingInv'
  <2>1. /\ pc'[t] = "idle" /\ doing'[t] = Nothing
        /\ \A u \in Threads : u # t => pc'[u] = pc[u] /\ doing'[u] = doing[u]
    BY <1>1, <1>6
  <2>2. /\ doing'[t].uses \subseteq Mapped' /\ doing'[t].what \notin {"call", "read"}
    BY <1>3, <2>1
  <2> QED BY <1>1, <1>2, <2>1, <2>2 DEF DoingInv
<1>7. ASSUME NEW b \in Buffers, Malloc(t, b) \/ Free(t, b) \/ ToLazy(t, b)
      PROVE  DoingInv'
  BY <1>4, <1>7 DEF Malloc, Free, ToLazy
<1>8. ASSUME NEW b \in Buffers, BeginRead(t, b)
      PROVE  DoingInv'
  <2>1. b \in Mapped' /\ UNCHANGED access
    BY <1>8 DEF BeginRead, memory, Mapped
  <2> QED BY <1>1, <1>2, <1>8, <2>1 DEF DoingInv, BeginRead, Goto
<1>9. ASSUME NEW uses \in SUBSET Buffers, BeginCall(t, uses)
      PROVE  DoingInv'
  <2>1. uses \subseteq Mapped'
    BY <1>9 DEF BeginCall, memory, Mapped
  <2> QED BY <1>1, <1>2, <1>9, <2>1 DEF DoingInv, BeginCall, Goto
<1>10. CASE Initialize(t) \/ RunTask(t)
  BY <1>4, <1>10 DEF Initialize, RunTask
<1>11. CASE CallExecute(t) \/ Evaluate(t) \/ ProtectAll(t) \/ Fault(t)
  BY <1>1, <1>5, <1>11 DEF CallExecute, Evaluate, ProtectAll, Fault, Goto, DoingInv
<1>12. CASE Register(t) \/ CallDirectly(t) \/ Read(t)
  BY <1>6, <1>12 DEF Register, CallDirectly, Read, Touch, Goto
<1>13. CASE UnprotectAll(t) \/ BeginExecution(t) \/ WorkerFaults(t) \/ ExecutionPanics(t)
  BY <1>5, <1>13 DEF UnprotectAll, BeginExecution, WorkerFaults, ExecutionPanics, Goto
<1>14. CASE NothingToExecute(t) \/ FinishExecution(t)
  BY <1>5, <1>14 DEF NothingToExecute, FinishExecution, Release, Goto
<1> QED BY <1>7, <1>8, <1>9, <1>10, <1>11, <1>12, <1>13, <1>14 DEF Begin, Continue

\* The calls by their places.
LEMMA TaskFacts ==
  ASSUME Inv
  PROVE  /\ Len(tasks) \in Nat /\ DOMAIN tasks = 1 .. Len(tasks)
         /\ \A k \in 1 .. Len(tasks) :
              tasks[k].call \in Nat \ {0} /\ tasks[k].uses \subseteq Buffers
         /\ \A b \in Buffers :
              /\ Len(content[b]) \in Nat /\ DOMAIN content[b] = 1 .. Len(content[b])
              /\ \A j \in 1 .. Len(content[b]) : content[b][j] \in Nat \ {0}
         /\ calls \in Nat /\ next \in Nat \ {0}
<1>1. /\ tasks \in Seq([call : Nat \ {0}, uses : SUBSET Buffers])
      /\ content \in [Buffers -> Seq(Nat \ {0})]
      /\ calls \in Nat /\ next \in Nat \ {0}
  BY DEF Inv, TypeOK
<1>2. \A k \in 1 .. Len(tasks) : tasks[k] \in [call : Nat \ {0}, uses : SUBSET Buffers]
  BY <1>1, ElementOfSeq
<1>3. \A b \in Buffers : content[b] \in Seq(Nat \ {0})
  BY <1>1
<1>4. \A b \in Buffers : \A j \in 1 .. Len(content[b]) : content[b][j] \in Nat \ {0}
  BY <1>3, ElementOfSeq
<1> QED BY <1>1, <1>2, <1>3, <1>4

\* A call, later than all that ran, runs on the buffers it uses.
LEMMA RanStep ==
  ASSUME Inv, NEW call \in Nat \ {0}, NEW uses \in SUBSET Buffers, Ran(call, uses),
         \A b \in Buffers : \A j \in DOMAIN content[b] : content[b][j] < call
  PROVE  \A b \in Buffers :
           /\ \A j \in DOMAIN content'[b] :
                /\ content'[b][j] \in Nat
                /\ content'[b][j] = call \/ (j \in DOMAIN content[b] /\ content'[b][j] = content[b][j])
           /\ \A j, k \in DOMAIN content'[b] : j < k => content'[b][j] < content'[b][k]
<1> SUFFICES ASSUME NEW b \in Buffers
             PROVE  /\ \A j \in DOMAIN content'[b] :
                         /\ content'[b][j] \in Nat
                         /\ content'[b][j] = call
                              \/ (j \in DOMAIN content[b] /\ content'[b][j] = content[b][j])
                    /\ \A j, k \in DOMAIN content'[b] : j < k => content'[b][j] < content'[b][k]
  OBVIOUS
<1>1. /\ DOMAIN content[b] = 1 .. Len(content[b]) /\ Len(content[b]) \in Nat
      /\ \A j \in 1 .. Len(content[b]) : content[b][j] \in Nat \ {0}
      /\ content[b] \in Seq(Nat \ {0})
  BY TaskFacts DEF Inv, TypeOK
<1>2. \A j, k \in DOMAIN content[b] : j < k => content[b][j] < content[b][k]
  BY DEF Inv, OrderInv, RunInOrder
<1>3. CASE b \notin uses
  BY <1>1, <1>2, <1>3 DEF Ran
<1>4. CASE b \in uses
  <2>1. content'[b] = Append(content[b], call)
    BY <1>4 DEF Ran
  <2>2. /\ DOMAIN content'[b] = 1 .. Len(content[b]) + 1
        /\ content'[b][Len(content[b]) + 1] = call
        /\ \A j \in 1 .. Len(content[b]) : content'[b][j] = content[b][j]
    BY <1>1, <2>1
  <2>3. \A j \in 1 .. Len(content[b]) : content[b][j] \in Nat /\ content[b][j] < call
    BY <1>1
  <2>4. ASSUME NEW j \in 1 .. Len(content[b]) + 1
        PROVE  /\ content'[b][j] \in Nat
               /\ content'[b][j] = call
                    \/ (j \in DOMAIN content[b] /\ content'[b][j] = content[b][j])
    <3>1. CASE j = Len(content[b]) + 1
      BY <2>2, <3>1
    <3>2. CASE j \in 1 .. Len(content[b])
      BY <1>1, <2>2, <2>3, <3>2
    <3> QED BY <1>1, <3>1, <3>2
  <2>5. ASSUME NEW j \in 1 .. Len(content[b]) + 1, NEW k \in 1 .. Len(content[b]) + 1, j < k
        PROVE  content'[b][j] < content'[b][k]
    <3>1. j \in 1 .. Len(content[b])
      BY <1>1, <2>5
    <3>2. CASE k \in 1 .. Len(content[b])
      BY <1>1, <1>2, <2>2, <2>5, <3>1, <3>2
    <3>3. CASE k = Len(content[b]) + 1
      BY <2>2, <2>3, <3>1, <3>3
    <3> QED BY <1>1, <3>2, <3>3
  <2> QED BY <2>2, <2>4, <2>5
<1> QED BY <1>3, <1>4

LEMMA OrderStep ==
  ASSUME Inv, NEW t \in Threads, Begin(t) \/ Continue(t)
  PROVE  OrderInv'
<1>1. /\ OrderInv /\ PhaseInv /\ pc \in [Threads -> Places]
      /\ content \in [Buffers -> Seq(Nat \ {0})]
  BY DEF Inv, TypeOK
<1>2. ASSUME UNCHANGED <<tasks, calls, content>>, FirstLeft' = FirstLeft
      PROVE  OrderInv'
  BY <1>1, <1>2 DEF OrderInv, RunInOrder
<1>3. ASSUME UNCHANGED <<pc, next>> PROVE FirstLeft' = FirstLeft
  BY <1>3 DEF FirstLeft, Executing
<1>4. ASSUME NEW place, pc' = [pc EXCEPT ![t] = place], UNCHANGED next,
             place \in Running <=> pc[t] \in Running
      PROVE  FirstLeft' = FirstLeft
  BY <1>1, <1>4, ExecutingMoves DEF FirstLeft
<1>5. ASSUME NEW b \in Buffers, Malloc(t, b)
      PROVE  OrderInv'
  <2>1. /\ UNCHANGED <<tasks, calls>> /\ FirstLeft' = FirstLeft
        /\ \A c \in Buffers : content'[c] = IF c = b THEN <<>> ELSE content[c]
    BY <1>1, <1>3, <1>5 DEF Malloc, manager
  <2>2. \A c \in Buffers : c = b => DOMAIN content'[c] = {}
    BY <2>1
  <2>3. ASSUME NEW c \in Buffers, NEW j \in DOMAIN content'[c]
        PROVE  content'[c] = content[c]
    BY <2>1, <2>2
  <2>4. \A c \in Buffers : \A j \in DOMAIN content'[c] :
          /\ content'[c][j] <= calls'
          /\ \A k \in DOMAIN tasks' : FirstLeft' <= k => content'[c][j] < tasks'[k].call
    BY <1>1, <2>1, <2>3 DEF OrderInv
  <2>5. RunInOrder'
    BY <1>1, <2>3 DEF OrderInv, RunInOrder
  <2> QED BY <1>1, <2>1, <2>4, <2>5 DEF OrderInv
<1>6. ASSUME NEW b \in Buffers, Free(t, b) \/ ToLazy(t, b) \/ BeginRead(t, b)
      PROVE  OrderInv'
  BY <1>2, <1>3, <1>4, <1>6 DEF Free, ToLazy, BeginRead, Goto, Running, manager, history
<1>7. ASSUME NEW uses \in SUBSET Buffers, BeginCall(t, uses)
      PROVE  OrderInv'
  BY <1>2, <1>4, <1>7 DEF BeginCall, Goto, Running, manager, history
<1>8. CASE Initialize(t) \/ CallExecute(t) \/ Evaluate(t) \/ ProtectAll(t)
  BY <1>2, <1>3, <1>4, <1>8
  DEF Initialize, CallExecute, Evaluate, ProtectAll, Goto, Running, manager, history
<1>9. CASE Read(t) \/ Fault(t) \/ UnprotectAll(t) \/ WorkerFaults(t) \/ ExecutionPanics(t)
  BY <1>2, <1>4, <1>9
  DEF Read, Touch, Fault, UnprotectAll, WorkerFaults,
  ExecutionPanics, Goto, Running, manager, history
<1>10. CASE NothingToExecute(t)
  BY <1>2, <1>4, <1>10 DEF NothingToExecute, Release, Goto, Running, manager, history
<1>11. CASE Register(t)
  <2>1. /\ tasks' = Append(tasks, [call |-> calls + 1, uses |-> doing[t].uses])
        /\ calls' = calls + 1 /\ UNCHANGED content
    BY <1>11 DEF Register
  <2>2. /\ DOMAIN tasks = 1 .. Len(tasks) /\ DOMAIN tasks' = 1 .. Len(tasks) + 1
        /\ \A k \in 1 .. Len(tasks) : tasks'[k] = tasks[k]
        /\ tasks'[Len(tasks) + 1].call = calls + 1
        /\ Len(tasks) \in Nat
    BY <2>1 DEF Inv, TypeOK
  <2>3. FirstLeft' = 1 /\ FirstLeft = 1
    <3>1. ~ Executing
      BY <1>11, Alone DEF Register
    <3>2. ~ Executing'
      BY <1>1, <1>11, <3>1, ExecutingMoves DEF Register, Goto, Running
    <3> QED BY <3>1, <3>2 DEF FirstLeft
  <2>4. /\ \A k \in DOMAIN tasks' : tasks'[k].call <= calls'
        /\ \A j, k \in DOMAIN tasks' : j < k => tasks'[j].call < tasks'[k].call
    BY <1>1, <2>1, <2>2, TaskFacts DEF OrderInv
  <2>5. \A b \in Buffers : \A j \in DOMAIN content[b] :
          /\ content[b][j] <= calls + 1
          /\ \A k \in DOMAIN tasks' : content[b][j] < tasks'[k].call
    <3> SUFFICES ASSUME NEW b \in Buffers, NEW j \in DOMAIN content[b]
                 PROVE  /\ content[b][j] <= calls + 1
                        /\ \A k \in DOMAIN tasks' : content[b][j] < tasks'[k].call
      OBVIOUS
    <3>1. content[b][j] \in Nat /\ calls \in Nat
      BY TaskFacts
    <3>2. content[b][j] <= calls
      BY <1>1 DEF OrderInv
    <3>3. \A k \in 1 .. Len(tasks) : content[b][j] < tasks[k].call
      BY <1>1, <2>2, <2>3 DEF OrderInv
    <3> QED BY <2>2, <3>1, <3>2, <3>3
  <2>6. RunInOrder'
    BY <1>1, <2>1 DEF OrderInv, RunInOrder
  <2> QED BY <2>1, <2>3, <2>4, <2>5, <2>6 DEF OrderInv
<1>12. CASE CallDirectly(t)
  <2>1. tasks = <<>> /\ DOMAIN tasks = {} /\ tasks' = tasks
    BY <1>1, <1>12 DEF CallDirectly, Touch, PhaseInv, manager
  <2>2. /\ calls' = calls + 1 /\ calls + 1 \in Nat \ {0}
        /\ Ran(calls + 1, doing[t].uses) /\ doing[t].uses \in SUBSET Buffers
    BY <1>12, TaskFacts DEF CallDirectly, Inv, TypeOK
  <2>3. \A b \in Buffers : \A j \in DOMAIN content[b] :
          content[b][j] \in Nat /\ content[b][j] < calls + 1 /\ content[b][j] <= calls
    BY <1>1, TaskFacts DEF OrderInv
  <2>4. \A b \in Buffers :
          /\ \A j \in DOMAIN content'[b] :
               content'[b][j] = calls + 1 \/ (j \in DOMAIN content[b] /\ content'[b][j] = content[b][j])
          /\ \A j, k \in DOMAIN content'[b] : j < k => content'[b][j] < content'[b][k]
    BY <2>1, <2>2, <2>3, RanStep
  <2> QED BY <2>1, <2>2, <2>3, <2>4, TaskFacts DEF OrderInv, RunInOrder
<1>13. CASE BeginExecution(t)
  <2>1. FirstLeft = 1
    BY <1>13, Alone DEF BeginExecution, FirstLeft, Executing, Running
  <2>2. FirstLeft' = 1
    BY <1>13 DEF BeginExecution, FirstLeft
  <2> QED BY <1>2, <1>13, <2>1, <2>2 DEF BeginExecution, history
<1>14. CASE RunTask(t)
  <2>1. FirstLeft = next /\ FirstLeft' = next + 1
    BY <1>14 DEF RunTask, FirstLeft, Executing, Running
  <2>2. /\ next \in 1 .. Len(tasks) /\ UNCHANGED <<tasks, calls>>
        /\ tasks[next].call \in Nat \ {0} /\ tasks[next].uses \in SUBSET Buffers
        /\ Ran(tasks[next].call, tasks[next].uses)
    BY <1>14, TaskFacts DEF RunTask
  <2>3. /\ \A b \in Buffers : \A j \in DOMAIN content[b] :
             content[b][j] < tasks[next].call /\ content[b][j] <= calls
        /\ \A b \in Buffers : \A j \in DOMAIN content[b] :
             \A k \in next + 1 .. Len(tasks) : content[b][j] < tasks[k].call
        /\ \A k \in next + 1 .. Len(tasks) : tasks[next].call < tasks[k].call
        /\ tasks[next].call <= calls
    <3>1. /\ DOMAIN tasks = 1 .. Len(tasks) /\ Len(tasks) \in Nat
          /\ next \in DOMAIN tasks /\ next \in Nat
      BY <2>2, TaskFacts
    <3>2. \A k \in next + 1 .. Len(tasks) : k \in DOMAIN tasks /\ next <= k /\ next < k
      BY <3>1
    <3>3. ASSUME NEW b \in Buffers, NEW j \in DOMAIN content[b]
          PROVE  /\ content[b][j] < tasks[next].call /\ content[b][j] <= calls
                 /\ \A k \in next + 1 .. Len(tasks) : content[b][j] < tasks[k].call
      <4>1. next <= next
        BY <3>1
      <4> QED BY <1>1, <2>1, <3>1, <3>2, <4>1 DEF OrderInv
    <3>4. \A k \in next + 1 .. Len(tasks) : tasks[next].call < tasks[k].call
      BY <1>1, <3>1, <3>2 DEF OrderInv
    <3>5. tasks[next].call <= calls
      BY <1>1, <3>1 DEF OrderInv
    <3> QED BY <3>3, <3>4, <3>5
  <2>4. \A b \in Buffers :
          /\ \A j \in DOMAIN content'[b] :
               \/ content'[b][j] = tasks[next].call
               \/ (j \in DOMAIN content[b] /\ content'[b][j] = content[b][j])
          /\ \A j, k \in DOMAIN content'[b] : j < k => content'[b][j] < content'[b][k]
    <3>1. next + 1 .. Len(tasks) \subseteq DOMAIN tasks
      BY <2>2, TaskFacts
    <3> QED BY <2>2, <2>3, <3>1, RanStep
  <2>5. \A b \in Buffers : \A j \in DOMAIN content'[b] :
          /\ content'[b][j] <= calls
          /\ \A k \in next + 1 .. Len(tasks) : content'[b][j] < tasks[k].call
    BY <2>3, <2>4
  <2>6. \A k \in DOMAIN tasks : next + 1 <= k => k \in next + 1 .. Len(tasks)
    BY <2>2, TaskFacts
  <2>7. RunInOrder'
    BY <2>4 DEF RunInOrder
  <2> QED BY <1>1, <2>1, <2>2, <2>5, <2>6, <2>7 DEF OrderInv
<1>15. CASE FinishExecution(t)
  <2>1. tasks' = <<>> /\ UNCHANGED <<content, calls>>
    BY <1>15 DEF FinishExecution, history
  <2> QED BY <1>1, <2>1 DEF OrderInv, RunInOrder
<1> QED BY <1>5, <1>6, <1>7, <1>8, <1>9, <1>10, <1>11, <1>12, <1>13, <1>14, <1>15
    DEF Begin, Continue

LEMMA FaultStep ==
  ASSUME Inv, NEW t \in Threads, Begin(t) \/ Continue(t)
  PROVE  FaultsOnlyOnFreed'
<1> SUFFICES ASSUME NEW u \in Threads, Faulted(u)'
             PROVE  \E k \in DOMAIN tasks' : ~ (tasks'[k].uses \subseteq Mapped')
  BY DEF FaultsOnlyOnFreed
<1>1. pc \in [Threads -> Places] /\ access \in [Buffers -> {"unmapped", "open", "closed"}]
  BY DEF Inv, TypeOK, Memory!TypeOK
<1>2. CASE WorkerFaults(t)
  <2>1. PICK b \in tasks[next].uses : access[b] # "open"
    BY <1>2 DEF WorkerFaults
  <2>2. next \in DOMAIN tasks /\ b \in Buffers
    BY <1>2, <2>1, TaskFacts DEF WorkerFaults
  <2>3. access[b] = "unmapped"
    <3>1. ~ Unlocked
      BY <1>2, Alone DEF WorkerFaults, Running
    <3> QED BY <1>1, <2>1, <2>2, <3>1 DEF Inv, OpenInv
  <2> QED BY <1>2, <2>1, <2>2, <2>3 DEF WorkerFaults, memory, manager, Mapped
<1>3. CASE ~ WorkerFaults(t)
  <2>1. Faulted(u)
    BY <1>1, <1>3 DEF Faulted, Begin, Continue, Initialize, Malloc, Free, ToLazy, CallExecute,
       BeginRead, BeginCall, Evaluate, ProtectAll, Register, CallDirectly, Read, Touch, Fault,
       UnprotectAll, NothingToExecute, BeginExecution, RunTask, ExecutionPanics, FinishExecution,
       Release, Goto
  <2>2. /\ ~ Unlocked
        /\ t # u => pc[t] \notin Running \cup {"execute"}
    BY <2>1, Alone DEF Faulted, Running
  <2>3. UNCHANGED <<tasks, access>>
    BY <1>3, <2>1, <2>2 DEF Faulted, Running, Begin, Continue, Initialize, Malloc, Free, ToLazy,
       CallExecute, BeginRead, BeginCall, Evaluate, ProtectAll, Register, CallDirectly, Read,
       Touch, Fault, UnprotectAll, NothingToExecute, BeginExecution, RunTask, ExecutionPanics,
       FinishExecution, memory, manager
  <2> QED BY <2>1, <2>3 DEF Inv, FaultsOnlyOnFreed, Mapped
<1> QED BY <1>2, <1>3

LEMMA InvStep ==
  ASSUME Inv, [Next]_vars
  PROVE  Inv'
<1>1. CASE UNCHANGED vars
  <2>1. MemoryInv'
    BY <1>1, MemoryStep DEF Inv, vars
  <2>2. UNCHANGED <<allocations, all_protected, access, poisoned, evaluate, tasks, next,
                    holder, pc, doing, content, calls, seen>>
    BY <1>1 DEF vars, memory, manager, history
  <2>3. TypeOK'
    BY <2>1, <2>2 DEF Inv, TypeOK, MemoryInv, Memory!Inductive
  <2>4. LockInv' /\ OpenInv' /\ PhaseInv'
    BY <2>2 DEF Inv, LockInv, OpenInv, Unlocked, PhaseInv, Executing
  <2>5. DoingInv' /\ OrderInv' /\ FaultsOnlyOnFreed'
    BY <2>2 DEF Inv, DoingInv, Mapped, OrderInv, FirstLeft, Executing, RunInOrder,
                FaultsOnlyOnFreed, Faulted
  <2> QED BY <2>1, <2>3, <2>4, <2>5 DEF Inv
<1>2. CASE ~ UNCHANGED vars
  <2>1. PICK t \in Threads : Begin(t) \/ Continue(t)
    BY <1>2 DEF Next, Over
  <2> QED BY <2>1, PagesStep, TypeStep, LockStep, OpenStep, PhaseStep, DoingStep, OrderStep,
             FaultStep DEF Inv
<1> QED BY <1>1, <1>2

\* Whatever the threads do: STATE is locked by the thread that executes, pages are
\* open while it is, and the calls that wait come after those that have run.
THEOREM InductiveInvariant == Spec => []Inv
BY InitInv, InvStep, PTL DEF Spec

\* The types, for any numbers of threads, buffers and calls.
THEOREM TypeCorrect == Spec => []TypeOK
BY InductiveInvariant, PTL DEF Inv

\* However the threads' wrappers and faults interleave, and whatever is freed, the
\* calls run on a buffer once each and in the order of their registration.
THEOREM CallsRunInOrder == Spec => []RunInOrder
<1>1. Inv => RunInOrder
  BY DEF Inv, OrderInv
<1> QED BY <1>1, InductiveInvariant, PTL

\* A worker faults, by which STATE stays locked or the program is killed, only over a
\* buffer freed while a registered call uses it; executions that panic are among the
\* steps.
THEOREM FaultsAreForFreed == Spec => []FaultsOnlyOnFreed
BY InductiveInvariant, PTL DEF Inv

-----------------------------------------------------------------------------
(***************************************************************************)
(* Runtime implements MemoryManager: it calls the operations one at a      *)
(* time, on segments that exist.                                           *)
(***************************************************************************)

LEMMA ManagerStep ==
  ASSUME Inv, NEW t \in Threads, Begin(t) \/ Continue(t)
  PROVE  [Memory!Next]_(Memory!memoryVars)
<1>1. ~ poisoned
  BY DEF Inv, MemoryInv
<1>2. ASSUME NEW b \in Buffers, Malloc(t, b) PROVE Memory!Next
  BY <1>1, <1>2 DEF Malloc, Memory!Next, Memory!Allocate
<1>3. ASSUME NEW b \in Buffers, Free(t, b) \/ ToLazy(t, b) PROVE Memory!Next
  BY <1>1, <1>3 DEF Free, ToLazy, Memory!Next, Memory!OfPointer
<1>4. CASE ProtectAll(t) \/ UnprotectAll(t)
  BY <1>1, <1>4 DEF ProtectAll, UnprotectAll, Memory!Next, Memory!OfAll
<1>5. ASSUME UNCHANGED memory PROVE UNCHANGED Memory!memoryVars
  BY <1>5 DEF memory, Memory!memoryVars
<1>6. ASSUME NEW b \in Buffers, BeginRead(t, b) PROVE UNCHANGED memory
  BY <1>6 DEF BeginRead
<1>7. ASSUME NEW uses \in SUBSET Buffers, BeginCall(t, uses) PROVE UNCHANGED memory
  BY <1>7 DEF BeginCall
<1>8. CASE \/ Initialize(t) \/ CallExecute(t) \/ Evaluate(t) \/ Register(t) \/ CallDirectly(t)
           \/ Read(t) \/ Fault(t) \/ NothingToExecute(t) \/ BeginExecution(t) \/ RunTask(t)
           \/ WorkerFaults(t) \/ ExecutionPanics(t) \/ FinishExecution(t)
  <2>1. UNCHANGED memory
    BY <1>8 DEF Initialize, CallExecute, Evaluate, Register, CallDirectly, Read, Touch, Fault,
       NothingToExecute, BeginExecution, RunTask, WorkerFaults, ExecutionPanics, FinishExecution
  <2> QED BY <1>5, <2>1
<1> QED BY <1>2, <1>3, <1>4, <1>5, <1>6, <1>7, <1>8 DEF Begin, Continue

\* What the threads do to the pages, whatever their wrappers, faults and
\* executions interleave, MemoryManager allows: what is proved of it is true of
\* the manager that a program has.
THEOREM ImplementsMemoryManager == Spec => Memory!Spec
<1>1. Init => Memory!Init
  BY DEF Init
<1>2. ASSUME Inv, [Next]_vars PROVE [Memory!Next]_(Memory!memoryVars)
  <2>1. CASE UNCHANGED vars
    BY <2>1 DEF vars, memory, Memory!memoryVars
  <2> QED BY <1>2, <2>1, ManagerStep DEF Next, Over
<1> QED BY <1>1, <1>2, InductiveInvariant, PTL DEF Spec, Memory!Spec

LEMMA OpeningStep ==
  ASSUME Inv, NEW t \in Threads, Begin(t) \/ Continue(t),
         NEW b \in Buffers, access[b] = "closed", access'[b] = "open"
  PROVE  /\ Unlocked /\ holder' = {t} /\ pc'[t] = "execute"
         /\ \A c \in Buffers : access'[c] # "closed"
<1>1. MemoryInv /\ pc \in [Threads -> Places]
  BY DEF Inv, TypeOK
<1>2. ASSUME UNCHANGED access PROVE FALSE
  BY <1>2
<1>3. ASSUME NEW c \in Buffers, Malloc(t, c) PROVE FALSE
  <2>1. access[c] = "unmapped" /\ \A d \in Buffers : d # c => access'[d] = access[d]
    BY <1>1, <1>3, AllocateFacts DEF Malloc
  <2> QED BY <2>1
<1>4. ASSUME NEW c \in Buffers, Free(t, c) PROVE FALSE
  <2>1. access'[c] = "unmapped" /\ \A d \in Buffers : d # c => access'[d] = access[d]
    BY <1>1, <1>4, FreeFacts DEF Free
  <2> QED BY <2>1
<1>5. ASSUME NEW c \in Buffers, ToLazy(t, c) PROVE FALSE
  <2>1. access'[c] = "closed" /\ \A d \in Buffers : d # c => access'[d] = access[d]
    BY <1>1, <1>5, ToLazyFacts DEF ToLazy
  <2> QED BY <2>1
<1>6. ASSUME ProtectAll(t) PROVE FALSE
  <2>1. access'[b] = "closed"
    BY <1>1, <1>6, ProtectAllFacts DEF ProtectAll
  <2> QED BY <2>1
<1>7. CASE UnprotectAll(t)
  <2>1. \A c \in Buffers : access'[c] # "closed"
    BY <1>1, <1>7, UnprotectAllFacts DEF UnprotectAll
  <2> QED BY <1>1, <1>7, <2>1 DEF UnprotectAll, Goto
<1>8. ASSUME \/ \E c \in Buffers : BeginRead(t, c)
             \/ \E uses \in SUBSET Buffers : BeginCall(t, uses)
             \/ Initialize(t) \/ CallExecute(t) \/ Evaluate(t) \/ Register(t) \/ CallDirectly(t)
             \/ Read(t) \/ Fault(t) \/ NothingToExecute(t) \/ BeginExecution(t) \/ RunTask(t)
             \/ WorkerFaults(t) \/ ExecutionPanics(t) \/ FinishExecution(t)
      PROVE  FALSE
  BY <1>2, <1>8 DEF BeginRead, BeginCall, Initialize, CallExecute, Evaluate, Register,
     CallDirectly, Read, Touch, Fault, NothingToExecute, BeginExecution, RunTask, WorkerFaults,
     ExecutionPanics, FinishExecution, memory
<1> QED BY <1>3, <1>4, <1>5, <1>6, <1>7, <1>8 DEF Begin, Continue

\* The pages are opened all together, and only by a thread that takes STATE for
\* an execution with the same step: no other thread comes between the two.
OpensToExecute ==
  [][\A b \in Buffers : access[b] = "closed" /\ access'[b] = "open" =>
       /\ Unlocked /\ \E t \in Threads : holder' = {t} /\ pc'[t] = "execute"
       /\ \A c \in Buffers : access'[c] # "closed"]_vars

THEOREM OpensTogetherToExecute == Spec => OpensToExecute
<1>1. ASSUME Inv, [Next]_vars, NEW b \in Buffers, access[b] = "closed", access'[b] = "open"
      PROVE  /\ Unlocked /\ \E t \in Threads : holder' = {t} /\ pc'[t] = "execute"
             /\ \A c \in Buffers : access'[c] # "closed"
  <2>1. ~ UNCHANGED vars
    BY <1>1 DEF vars, memory
  <2>2. PICK t \in Threads : Begin(t) \/ Continue(t)
    BY <1>1, <2>1 DEF Next, Over
  <2> QED BY <1>1, <2>2, OpeningStep
<1>2. Inv /\ [Next]_vars =>
        [\A b \in Buffers : access[b] = "closed" /\ access'[b] = "open" =>
           /\ Unlocked /\ \E t \in Threads : holder' = {t} /\ pc'[t] = "execute"
           /\ \A c \in Buffers : access'[c] # "closed"]_vars
  BY <1>1
<1> QED BY <1>2, InductiveInvariant, PTL DEF Spec, OpensToExecute

-----------------------------------------------------------------------------
(***************************************************************************)
(* What of Unlocks and Returns holds without fairness: who has STATE       *)
(* locked is left alone and each of its steps counts, and unless an        *)
(* execution faults or panics somebody can always go on.                   *)
(***************************************************************************)

\* What is begun is a read or a call, and an access that faulted is retried.
\* A thread runs no further than past the last call.
GoingInv ==
  \A t \in Threads :
    /\ doing[t].what = "nothing" => doing[t] = Nothing
    /\ pc[t] = "touch" => doing[t].what # "nothing"
    /\ pc[t] = "run" => next <= Len(tasks) + 1

LEMMA GoingStep ==
  ASSUME Inv, GoingInv, NEW t \in Threads, Begin(t) \/ Continue(t)
  PROVE  GoingInv'
<1>1. /\ pc \in [Threads -> Places]
      /\ doing \in [Threads -> [what : {"nothing", "read", "call"}, uses : SUBSET Buffers]]
      /\ Len(tasks) \in Nat /\ next \in Nat
      /\ \A u \in Threads : pc[u] \in {"evaluate?", "protect", "register"} => doing[u].what = "call"
  BY DEF Inv, TypeOK, DoingInv
<1>2. /\ Unlocked => \A u \in Threads : pc[u] # "run"
      /\ pc[t] \in {"execute", "run"} => \A u \in Threads : u # t => pc[u] # "run"
  BY Alone DEF Running
<1>3. ASSUME NEW b \in Buffers, Malloc(t, b) \/ Free(t, b) \/ ToLazy(t, b)
      PROVE  GoingInv'
  BY <1>3 DEF GoingInv, Malloc, Free, ToLazy, manager, history
<1>4. ASSUME NEW b \in Buffers, BeginRead(t, b)
      PROVE  GoingInv'
  BY <1>1, <1>4 DEF GoingInv, BeginRead, Goto, manager
<1>5. ASSUME NEW uses \in SUBSET Buffers, BeginCall(t, uses)
      PROVE  GoingInv'
  BY <1>1, <1>5 DEF GoingInv, BeginCall, Goto, manager
<1>6. CASE Initialize(t) \/ CallExecute(t) \/ ProtectAll(t) \/ Fault(t) \/ UnprotectAll(t)
  BY <1>1, <1>6
  DEF GoingInv, Initialize, CallExecute, ProtectAll, Fault, UnprotectAll, Goto, manager, history
<1>7. CASE Evaluate(t)
  BY <1>1, <1>7 DEF GoingInv, Evaluate, Goto, manager
<1>8. CASE Register(t)
  <2>1. \A u \in Threads : pc'[u] # "run"
    BY <1>1, <1>2, <1>8 DEF Register, Goto
  <2> QED BY <1>1, <1>8, <2>1 DEF GoingInv, Register, Goto, Nothing
<1>9. CASE CallDirectly(t) \/ Read(t)
  BY <1>1, <1>9 DEF GoingInv, CallDirectly, Read, Touch, Goto, Nothing, manager
<1>10. CASE NothingToExecute(t)
  BY <1>1, <1>10 DEF GoingInv, NothingToExecute, Release, Goto, manager
<1>11. CASE FinishExecution(t)
  <2>1. \A u \in Threads : pc'[u] # "run"
    BY <1>1, <1>2, <1>11 DEF FinishExecution, Release, Goto
  <2> QED BY <1>1, <1>11, <2>1 DEF GoingInv, FinishExecution, Release, Goto
<1>12. CASE BeginExecution(t)
  BY <1>1, <1>12 DEF GoingInv, BeginExecution, Goto
<1>13. CASE RunTask(t)
  BY <1>1, <1>13 DEF GoingInv, RunTask
<1>14. CASE WorkerFaults(t) \/ ExecutionPanics(t)
  BY <1>1, <1>14 DEF GoingInv, WorkerFaults, ExecutionPanics, Goto, manager
<1> QED BY <1>3, <1>4, <1>5, <1>6, <1>7, <1>8, <1>9, <1>10, <1>11, <1>12, <1>13, <1>14
    DEF Begin, Continue

LEMMA GoingInvariant == Spec => [](Inv /\ GoingInv)
<1>1. Init => GoingInv
  BY DEF Init, GoingInv, Nothing
<1>2. Inv /\ GoingInv /\ [Next]_vars => GoingInv'
  <2>1. ASSUME GoingInv, UNCHANGED vars PROVE GoingInv'
    BY <2>1 DEF GoingInv, vars, manager
  <2> QED BY <2>1, GoingStep DEF Next, Over
<1> QED BY <1>1, <1>2, InductiveInvariant, PTL DEF Spec

\* The steps until t, which has STATE locked, unlocks it.
LockedSteps(t) ==
  CASE pc[t] = "execute" -> Len(tasks) + 2
    [] pc[t] = "run"     -> (Len(tasks) + 2) - next
    [] OTHER             -> 0

\* It is at least one until STATE is unlocked, or the execution faults or panics.
LEMMA LockedStepsType ==
  ASSUME Inv, GoingInv, NEW t \in Threads
  PROVE  /\ LockedSteps(t) \in Nat
         /\ LockedSteps(t) > 0 <=> holder = {t} /\ ~ Faulted(t) /\ ~ Panicked(t)
<1>1. /\ Len(tasks) \in Nat /\ next \in Nat /\ LockInv
      /\ pc[t] = "run" => next <= Len(tasks) + 1
  BY DEF Inv, TypeOK, GoingInv
<1> QED BY <1>1 DEF LockedSteps, LockInv, Running, Faulted, Panicked

LEMMA OthersAreLockedOut ==
  ASSUME Inv, NEW t \in Threads, holder = {t}, NEW u \in Threads, u # t, Begin(u) \/ Continue(u)
  PROVE  UNCHANGED <<memory, manager, holder, pc[t], doing[t]>>
<1>1. /\ ~ Unlocked /\ pc[u] \notin Running \cup {"execute"}
      /\ pc \in [Threads -> Places]
      /\ doing \in [Threads -> [what : {"nothing", "read", "call"}, uses : SUBSET Buffers]]
  BY DEF Unlocked, Inv, LockInv, TypeOK
<1>2. ASSUME NEW b \in Buffers, BeginRead(u, b)
      PROVE  UNCHANGED <<memory, manager, holder, pc[t], doing[t]>>
  BY <1>1, <1>2 DEF BeginRead, Goto
<1>3. ASSUME NEW uses \in SUBSET Buffers, BeginCall(u, uses)
      PROVE  UNCHANGED <<memory, manager, holder, pc[t], doing[t]>>
  BY <1>1, <1>3 DEF BeginCall, Goto
<1>4. CASE CallExecute(u) \/ CallDirectly(u) \/ Read(u) \/ Fault(u)
  BY <1>1, <1>4 DEF CallExecute, CallDirectly, Read, Touch, Fault, Goto
<1>5. \/ \E b \in Buffers : BeginRead(u, b)
      \/ \E uses \in SUBSET Buffers : BeginCall(u, uses)
      \/ CallExecute(u) \/ CallDirectly(u) \/ Read(u) \/ Fault(u)
  BY <1>1 DEF Begin, Continue, Initialize, Malloc, Free, ToLazy, Evaluate, ProtectAll, Register,
     UnprotectAll, NothingToExecute, BeginExecution, RunTask, WorkerFaults,
     ExecutionPanics, FinishExecution, Running
<1> QED BY <1>2, <1>3, <1>4, <1>5

LEMMA LockedStepCounts ==
  ASSUME Inv, GoingInv, NEW t \in Threads, holder = {t}, Begin(t) \/ Continue(t)
  PROVE  ~ Faulted(t) /\ LockedSteps(t)' < LockedSteps(t)
<1>1. /\ ~ Unlocked /\ pc[t] \in Running \cup {"execute"}
      /\ pc \in [Threads -> Places] /\ Len(tasks) \in Nat /\ next \in Nat
      /\ pc[t] = "run" => next <= Len(tasks) + 1
  BY DEF Unlocked, Inv, LockInv, TypeOK, GoingInv
<1>2. NothingToExecute(t) \/ BeginExecution(t) \/ RunTask(t) \/ WorkerFaults(t)
      \/ ExecutionPanics(t) \/ FinishExecution(t)
  BY <1>1 DEF Begin, Continue, Initialize, Malloc, Free, ToLazy, CallExecute, BeginRead, BeginCall,
     Evaluate, ProtectAll, Register, CallDirectly, Read, Touch, Fault, UnprotectAll, Running
<1>3. CASE NothingToExecute(t)
  BY <1>1, <1>3 DEF NothingToExecute, Release, Goto, LockedSteps, Faulted
<1>4. CASE BeginExecution(t)
  BY <1>1, <1>4 DEF BeginExecution, Goto, LockedSteps, Faulted
<1>5. CASE RunTask(t)
  BY <1>1, <1>5 DEF RunTask, LockedSteps, Faulted
<1>6. CASE WorkerFaults(t) \/ ExecutionPanics(t)
  BY <1>1, <1>6 DEF WorkerFaults, ExecutionPanics, Goto, LockedSteps, Faulted
<1>7. CASE FinishExecution(t)
  BY <1>1, <1>7 DEF FinishExecution, Release, Goto, LockedSteps, Faulted
<1> QED BY <1>2, <1>3, <1>4, <1>5, <1>6, <1>7

\* While a thread has STATE locked no other thread changes the pages, the calls
\* that wait, the lock or the thread's place; the thread's own steps until it
\* unlocks STATE, at most two more than calls wait, become fewer with each.
LockedOut ==
  [][\A t \in Threads : holder = {t} =>
       \/ UNCHANGED <<memory, manager, holder, pc[t], doing[t]>>
       \/ ~ Faulted(t) /\ LockedSteps(t)' < LockedSteps(t)]_vars

THEOREM HolderIsAlone == Spec => LockedOut
<1>1. ASSUME Inv, GoingInv, [Next]_vars, NEW t \in Threads, holder = {t}
      PROVE  \/ UNCHANGED <<memory, manager, holder, pc[t], doing[t]>>
             \/ ~ Faulted(t) /\ LockedSteps(t)' < LockedSteps(t)
  <2>1. CASE UNCHANGED vars
    BY <2>1 DEF vars
  <2> QED BY <1>1, <2>1, OthersAreLockedOut, LockedStepCounts DEF Next, Over
<1>2. Inv /\ GoingInv /\ [Next]_vars =>
        [\A t \in Threads : holder = {t} =>
           \/ UNCHANGED <<memory, manager, holder, pc[t], doing[t]>>
           \/ ~ Faulted(t) /\ LockedSteps(t)' < LockedSteps(t)]_vars
  BY <1>1
<1> QED BY <1>2, GoingInvariant, PTL DEF Spec, LockedOut

\* Every segment is of a buffer: its mprotect succeeds.
RealInv == \A k \in DOMAIN allocations : allocations[k].address \in Buffers

LEMMA RealStep ==
  ASSUME Inv, RealInv, NEW t \in Threads, Begin(t) \/ Continue(t)
  PROVE  RealInv'
<1>1. /\ allocations \in Seq(Memory!Segment)
      /\ DOMAIN allocations = 1 .. Len(allocations) /\ Len(allocations) \in Nat
  BY DEF Inv, MemoryInv, Memory!Inductive, Memory!TypeOK
<1>2. ASSUME UNCHANGED allocations PROVE RealInv'
  BY <1>2 DEF RealInv
<1>3. ASSUME NEW b \in Buffers, Malloc(t, b) PROVE RealInv'
  <2>1. PICK flag \in BOOLEAN :
          allocations' = Append(allocations, [address |-> b, protected |-> flag])
    BY <1>3 DEF Malloc, Memory!AllocateOpen, Memory!AllocateClosed
  <2> QED BY <1>1, <2>1 DEF RealInv
<1>4. ASSUME NEW b \in Buffers, Free(t, b) PROVE RealInv'
  <2>1. PICK k \in DOMAIN allocations : allocations' = Memory!SwapRemove(allocations, k)
    BY <1>4 DEF Free, Memory!Free
  <2> QED BY <1>1, <2>1 DEF RealInv, Memory!SwapRemove
<1>5. ASSUME NEW b \in Buffers, ToLazy(t, b) PROVE RealInv'
  <2>1. PICK k \in DOMAIN allocations : allocations' = [allocations EXCEPT ![k].protected = TRUE]
    BY <1>5 DEF ToLazy, Memory!Protect
  <2> QED BY <1>1, <2>1 DEF RealInv, Memory!Segment
<1>6. ASSUME NEW flag \in BOOLEAN, NEW pages, Memory!SetFirst(Len(allocations), flag, pages)
      PROVE  RealInv'
  <2>1. allocations' = [j \in DOMAIN allocations |->
          IF j <= Len(allocations) THEN [allocations[j] EXCEPT !.protected = flag] ELSE allocations[j]]
    BY <1>6 DEF Memory!SetFirst
  <2>2. \A j \in DOMAIN allocations : allocations'[j].address = allocations[j].address
    <3> SUFFICES ASSUME NEW j \in DOMAIN allocations
                 PROVE  allocations'[j].address = allocations[j].address
      OBVIOUS
    <3>1. allocations[j] \in Memory!Segment
      BY <1>1, ElementOfSeq
    <3>2. [allocations[j] EXCEPT !.protected = flag].address = allocations[j].address
      BY <3>1 DEF Memory!Segment
    <3> QED BY <2>1, <3>2
  <2> QED BY <2>1, <2>2 DEF RealInv
<1>7. CASE ProtectAll(t) \/ UnprotectAll(t)
  BY <1>2, <1>6, <1>7 DEF ProtectAll, UnprotectAll, Memory!ProtectAll, Memory!UnprotectAll,
     Memory!memoryVars
<1>8. CASE \/ \E b \in Buffers : BeginRead(t, b)
           \/ \E uses \in SUBSET Buffers : BeginCall(t, uses)
           \/ Initialize(t) \/ CallExecute(t) \/ Evaluate(t) \/ Register(t) \/ CallDirectly(t)
           \/ Read(t) \/ Fault(t) \/ NothingToExecute(t) \/ BeginExecution(t) \/ RunTask(t)
           \/ WorkerFaults(t) \/ ExecutionPanics(t) \/ FinishExecution(t)
  BY <1>2, <1>8 DEF BeginRead, BeginCall, Initialize, CallExecute, Evaluate, Register,
     CallDirectly, Read, Touch, Fault, NothingToExecute, BeginExecution, RunTask, WorkerFaults,
     ExecutionPanics, FinishExecution, memory
<1> QED BY <1>3, <1>4, <1>5, <1>7, <1>8 DEF Begin, Continue

LEMMA RealInvariant == Spec => [](Inv /\ GoingInv /\ RealInv)
<1>1. Init => RealInv
  BY DEF Init, Memory!Init, RealInv
<1>2. Inv /\ RealInv /\ [Next]_vars => RealInv'
  <2>1. ASSUME RealInv, UNCHANGED vars PROVE RealInv'
    BY <2>1 DEF RealInv, vars, memory
  <2> QED BY <2>1, RealStep DEF Next, Over
<1> QED BY <1>1, <1>2, GoingInvariant, PTL DEF Spec

\* What Continue asks of this state: a thread waits for STATE only, the manager
\* does not panic, and the buffers it is about to touch are mapped.
MayGoOn(t) ==
  \/ pc[t] \in {"execute", "run"}
  \/ Unlocked /\ pc[t] \in {"evaluate?", "register"}
  \/ Unlocked /\ pc[t] = "protect" /\ (all_protected \/ Memory!Succeeds(TRUE))
  \/ Unlocked /\ pc[t] = "unprotect" /\ Memory!Succeeds(FALSE)
  \/ /\ pc[t] = "touch" /\ doing[t].what \in {"read", "call"}
     /\ \A b \in doing[t].uses : access[b] # "unmapped"

\* No deadlock, with any threads: while STATE is unlocked every thread that has
\* begun something may go on, and while it is locked its holder may, unless it
\* has faulted or panicked.
SomebodyMayGoOn ==
  /\ Unlocked => \A t \in Threads : pc[t] # "idle" => MayGoOn(t)
  /\ ~ Unlocked => \E t \in Threads : holder = {t} /\ (Faulted(t) \/ Panicked(t) \/ MayGoOn(t))

THEOREM NobodyDeadlocks == Spec => []SomebodyMayGoOn
<1>1. ASSUME Inv, GoingInv, RealInv PROVE SomebodyMayGoOn
  <2>1. Memory!Succeeds(TRUE) /\ Memory!Succeeds(FALSE)
    BY <1>1, RuntimeAssumption DEF RealInv, Memory!Succeeds, Memory!MayProtect
  <2>2. ASSUME Unlocked, NEW t \in Threads, pc[t] # "idle" PROVE MayGoOn(t)
    <3>1. /\ pc[t] \in Places /\ pc[t] \notin Running \cup {"execute"}
          /\ doing[t].what \in {"nothing", "read", "call"}
      BY <1>1, <2>2, Alone DEF Inv, TypeOK
    <3>2. /\ pc[t] = "touch" => doing[t].what # "nothing"
          /\ \A b \in doing[t].uses : access[b] # "unmapped"
      BY <1>1 DEF GoingInv, Inv, DoingInv, Mapped
    <3> QED BY <2>1, <2>2, <3>1, <3>2 DEF MayGoOn, Places, Running
  <2>3. ASSUME ~ Unlocked
        PROVE  \E t \in Threads : holder = {t} /\ (Faulted(t) \/ Panicked(t) \/ MayGoOn(t))
    <3>1. PICK t \in Threads : holder = {t}
      BY <1>1, <2>3 DEF Inv, TypeOK, Unlocked
    <3>2. pc[t] \in Running \cup {"execute"}
      BY <1>1, <3>1 DEF Inv, LockInv
    <3> QED BY <3>1, <3>2 DEF Running, Faulted, Panicked, MayGoOn
  <2> QED BY <2>2, <2>3 DEF SomebodyMayGoOn
<1> QED BY <1>1, RealInvariant, PTL

-----------------------------------------------------------------------------
(***************************************************************************)
(* A program that frees no buffer of a waiting call.                       *)
(***************************************************************************)

UsesMapped == \A k \in DOMAIN tasks : tasks[k].uses \subseteq Mapped

LEMMA UsesStep ==
  ASSUME Inv, UsesMapped, ~ FreesEarly, NEW t \in Threads, Begin(t) \/ Continue(t)
  PROVE  UsesMapped'
<1>1. ASSUME NEW k \in DOMAIN tasks PROVE tasks[k].uses \subseteq Mapped'
  <2>1. SUFFICES ASSUME NEW b \in tasks[k].uses, b \notin Mapped' PROVE FALSE
    OBVIOUS
  <2>2. Free(t, b)
    BY <2>1, MappedStep DEF UsesMapped
  <2> QED BY <2>2 DEF Free, Pending
<1>2. CASE tasks' = tasks \/ tasks' = <<>>
  BY <1>1, <1>2 DEF UsesMapped
<1>3. CASE Register(t)
  <2>1. /\ tasks' = Append(tasks, [call |-> calls + 1, uses |-> doing[t].uses])
        /\ UNCHANGED access
    BY <1>3 DEF Register, memory
  <2>2. /\ DOMAIN tasks = 1 .. Len(tasks) /\ DOMAIN tasks' = 1 .. Len(tasks) + 1
        /\ \A k \in 1 .. Len(tasks) : tasks'[k] = tasks[k]
        /\ tasks'[Len(tasks) + 1].uses = doing[t].uses
        /\ Len(tasks) \in Nat
    BY <2>1 DEF Inv, TypeOK
  <2>3. doing[t].uses \subseteq Mapped'
    BY <2>1 DEF Inv, DoingInv, Mapped
  <2> QED BY <1>1, <2>2, <2>3 DEF UsesMapped
<1> QED BY <1>2, <1>3
    DEF Begin, Continue, Initialize, Malloc, Free, ToLazy, CallExecute, BeginRead, BeginCall,
        Evaluate, ProtectAll, CallDirectly, Read, Touch, Fault, UnprotectAll, NothingToExecute,
        BeginExecution, RunTask, WorkerFaults, ExecutionPanics, FinishExecution, manager

LEMMA UsesInvariant ==
  ASSUME ~ FreesEarly
  PROVE  Spec => [](Inv /\ UsesMapped)
<1>1. Init => UsesMapped
  BY DEF Init, UsesMapped
<1>2. Inv /\ UsesMapped /\ [Next]_vars => UsesMapped'
  <2>1. ASSUME Inv, UsesMapped, UNCHANGED vars PROVE UsesMapped'
    BY <2>1 DEF UsesMapped, vars, manager, memory, Mapped
  <2> QED BY <2>1, UsesStep DEF Next, Over
<1> QED BY <1>1, <1>2, InductiveInvariant, PTL DEF Spec

\* Where no buffer of a waiting call is freed no worker faults, whatever the threads
\* do: an execution that does not finish panics.
THEOREM NoWorkerFaults ==
  ASSUME ~ FreesEarly
  PROVE  Spec => [](\A t \in Threads : ~ Faulted(t))
<1>1. Inv /\ UsesMapped => \A t \in Threads : ~ Faulted(t)
  BY DEF Inv, UsesMapped, FaultsOnlyOnFreed
<1> QED BY <1>1, UsesInvariant, PTL

-----------------------------------------------------------------------------
(***************************************************************************)
(* A program of one thread.                                                *)
(***************************************************************************)

OneThread == \A t, u \in Threads : t = u

\* Pages of waiting calls are closed, and so are all where the next is about to
\* be registered.
ClosedInv ==
  /\ PendingIsClosed
  /\ \A t \in Threads : pc[t] = "register" => \A b \in Mapped : access[b] = "closed"

ThreadInv == Inv /\ UsesMapped /\ ClosedInv

LEMMA ClosedStep ==
  ASSUME ThreadInv, OneThread, ~ FreesEarly, NEW t \in Threads, Begin(t) \/ Continue(t)
  PROVE  ClosedInv'
<1>1. /\ Inv /\ UsesMapped /\ ClosedInv /\ MemoryInv
      /\ pc \in [Threads -> Places] /\ \A u \in Threads : u = t
  BY DEF ThreadInv, Inv, TypeOK, OneThread
<1>2. \A b \in Buffers : Pending(b) => b \in Mapped
  BY <1>1 DEF UsesMapped, Pending
<1>3. ASSUME UNCHANGED <<access, tasks, holder>>, pc'[t] # "register"
      PROVE  ClosedInv'
  BY <1>1, <1>3 DEF ClosedInv, PendingIsClosed, Pending, Unlocked
<1>4. ASSUME tasks' = <<>>, pc'[t] # "register"
      PROVE  ClosedInv'
  BY <1>1, <1>4 DEF ClosedInv, PendingIsClosed, Pending
<1>5. ASSUME NEW b \in Buffers, Malloc(t, b)
      PROVE  ClosedInv'
  <2>1. ~ Pending(b) /\ (\A c \in Buffers : c # b => access'[c] = access[c])
    BY <1>1, <1>2, <1>5, AllocateFacts DEF Malloc, Mapped
  <2>2. UNCHANGED <<tasks, holder, pc>> /\ pc[t] = "idle"
    BY <1>5 DEF Malloc, manager
  <2> QED BY <1>1, <2>1, <2>2 DEF ClosedInv, PendingIsClosed, Pending, Unlocked
<1>6. ASSUME NEW b \in Buffers, Free(t, b)
      PROVE  ClosedInv'
  <2>1. ~ Pending(b) /\ (\A c \in Buffers : c # b => access'[c] = access[c])
    BY <1>1, <1>6, FreeFacts DEF Free
  <2>2. UNCHANGED <<tasks, holder, pc>> /\ pc[t] = "idle"
    BY <1>6 DEF Free, manager
  <2> QED BY <1>1, <2>1, <2>2 DEF ClosedInv, PendingIsClosed, Pending, Unlocked
<1>7. ASSUME NEW b \in Buffers, ToLazy(t, b)
      PROVE  ClosedInv'
  <2>1. access'[b] = "closed" /\ (\A c \in Buffers : c # b => access'[c] = access[c])
    BY <1>1, <1>7, ToLazyFacts DEF ToLazy
  <2>2. UNCHANGED <<tasks, holder, pc>> /\ pc[t] = "idle"
    BY <1>7 DEF ToLazy, manager
  <2> QED BY <1>1, <2>1, <2>2 DEF ClosedInv, PendingIsClosed, Pending, Unlocked
<1>8. ASSUME NEW b \in Buffers, BeginRead(t, b)
      PROVE  ClosedInv'
  BY <1>1, <1>3, <1>8 DEF BeginRead, Goto, memory, manager
<1>9. ASSUME NEW uses \in SUBSET Buffers, BeginCall(t, uses)
      PROVE  ClosedInv'
  BY <1>1, <1>3, <1>9 DEF BeginCall, Goto, memory, manager
<1>10. CASE Initialize(t) \/ CallExecute(t) \/ Evaluate(t) \/ Fault(t)
  BY <1>1, <1>3, <1>10 DEF Initialize, CallExecute, Evaluate, Fault, Goto, memory, manager
<1>11. CASE ProtectAll(t)
  <2>1. \A b \in Buffers : access'[b] = IF access[b] = "unmapped" THEN "unmapped" ELSE "closed"
    BY <1>1, <1>11, ProtectAllFacts DEF ProtectAll
  <2>2. UNCHANGED tasks
    BY <1>11 DEF ProtectAll, manager
  <2>3. PendingIsClosed'
    BY <1>2, <2>1, <2>2 DEF PendingIsClosed, Pending, Mapped
  <2>4. \A b \in Mapped' : access'[b] = "closed"
    BY <2>1 DEF Mapped
  <2> QED BY <2>3, <2>4 DEF ClosedInv
<1>12. CASE Register(t)
  <2>1. /\ tasks' = Append(tasks, [call |-> calls + 1, uses |-> doing[t].uses])
        /\ UNCHANGED access /\ pc[t] = "register" /\ pc'[t] = "idle"
    BY <1>1, <1>12 DEF Register, memory, Goto
  <2>2. /\ DOMAIN tasks = 1 .. Len(tasks) /\ DOMAIN tasks' = 1 .. Len(tasks) + 1
        /\ \A k \in 1 .. Len(tasks) : tasks'[k] = tasks[k]
        /\ tasks'[Len(tasks) + 1].uses = doing[t].uses
        /\ Len(tasks) \in Nat
    BY <1>1, <2>1 DEF Inv, TypeOK
  <2>3. \A b \in Buffers : Pending(b)' => b \in Mapped
    BY <1>1, <1>2, <2>2 DEF Pending, Inv, DoingInv
  <2>4. \A b \in Mapped : access[b] = "closed"
    BY <1>1, <2>1 DEF ClosedInv
  <2> QED BY <1>1, <2>1, <2>3, <2>4 DEF ClosedInv, PendingIsClosed
<1>13. CASE CallDirectly(t) \/ Read(t)
  BY <1>1, <1>3, <1>13 DEF CallDirectly, Read, Touch, Goto, memory, manager
<1>14. CASE UnprotectAll(t)
  BY <1>1, <1>14 DEF UnprotectAll, Goto, ClosedInv, PendingIsClosed, Unlocked
<1>15. CASE NothingToExecute(t) \/ FinishExecution(t)
  BY <1>1, <1>4, <1>15 DEF NothingToExecute, FinishExecution, Release, Goto, manager
<1>16. CASE BeginExecution(t) \/ RunTask(t) \/ WorkerFaults(t) \/ ExecutionPanics(t)
  BY <1>1, <1>3, <1>16 DEF BeginExecution, RunTask, WorkerFaults,
    ExecutionPanics, Goto, memory, manager
<1> QED BY <1>5, <1>6, <1>7, <1>8, <1>9, <1>10, <1>11, <1>12, <1>13, <1>14, <1>15, <1>16
    DEF Begin, Continue

LEMMA ThreadInvariant ==
  ASSUME OneThread, ~ FreesEarly
  PROVE  Spec => []ThreadInv
<1>1. Init => ClosedInv
  BY DEF Init, ClosedInv, PendingIsClosed, Pending
<1>2. ThreadInv /\ [Next]_vars => ClosedInv'
  <2>1. ASSUME ThreadInv, UNCHANGED vars PROVE ClosedInv'
    BY <2>1 DEF ThreadInv, ClosedInv, PendingIsClosed, Pending, Unlocked, Mapped, vars, memory, manager
  <2> QED BY <2>1, ClosedStep DEF Next, Over
<1> QED BY <1>1, <1>2, UsesInvariant, PTL DEF Spec, ThreadInv

\* With one thread, which frees no buffer of a waiting call, protection is enough:
\* between executions the pages of waiting calls are closed.
THEOREM WaitingIsClosed ==
  ASSUME OneThread, ~ FreesEarly
  PROVE  Spec => []PendingIsClosed
<1>1. ThreadInv => PendingIsClosed
  BY DEF ThreadInv, ClosedInv
<1> QED BY <1>1, ThreadInvariant, PTL

LEMMA ReadIsFresh ==
  ASSUME ThreadInv, OneThread, NEW t \in Threads, Read(t)
  PROVE  \A b \in doing[t].uses : ~ Pending(b)
<1>1. Unlocked
  <2>1. pc[t] \notin Running \cup {"execute"}
    BY DEF Read, Touch, Running
  <2>2. holder # {t}
    BY <2>1 DEF ThreadInv, Inv, LockInv
  <2>3. holder \in {{}} \cup {{u} : u \in Threads}
    BY DEF ThreadInv, Inv, TypeOK
  <2> QED BY <2>2, <2>3 DEF Unlocked, OneThread
<1>2. doing[t].uses \subseteq Buffers
  BY DEF ThreadInv, Inv, DoingInv, Mapped
<1> QED BY <1>1, <1>2 DEF ThreadInv, ClosedInv, PendingIsClosed, Read, Touch

\* Nor is any access missed: a read sees every call made before it.
THEOREM ReadsSeeCalls ==
  ASSUME OneThread, ~ FreesEarly
  PROVE  Spec => ReadsAreFresh
<1>1. ThreadInv /\ [Next]_vars =>
        [\A t \in Threads : Read(t) => \A b \in doing[t].uses : ~ Pending(b)]_vars
  BY ReadIsFresh
<1> QED BY <1>1, ThreadInvariant, PTL DEF Spec, ReadsAreFresh

-----------------------------------------------------------------------------
(***************************************************************************)
(* What of Returns holds without fairness, with one thread: every step     *)
(* towards the return counts.                                              *)
(***************************************************************************)

\* The steps until t is idle: a call is registered at once or touches its buffers,
\* an access that faults waits for the calls that are registered, once.
StepsLeft(t) ==
  CASE pc[t] = "evaluate?" -> Len(tasks) + 6
    [] pc[t] = "protect"   -> 2
    [] pc[t] = "register"  -> 1
    [] pc[t] = "touch"     -> IF \A b \in doing[t].uses : access[b] = "open"
                              THEN 1 ELSE Len(tasks) + 5
    [] pc[t] = "unprotect" -> Len(tasks) + 4
    [] pc[t] = "execute"   -> Len(tasks) + 3
    [] pc[t] = "run"       -> (Len(tasks) + 3) - next
    [] OTHER               -> 0

LEMMA StepsLeftType ==
  ASSUME ThreadInv, GoingInv, NEW t \in Threads
  PROVE  StepsLeft(t) \in Nat /\ (StepsLeft(t) = 0 <=> pc[t] = "idle" \/ Panicked(t))
<1>1. /\ Len(tasks) \in Nat /\ next \in Nat /\ pc[t] \in Places
      /\ pc[t] = "run" => next <= Len(tasks) + 1
      /\ pc[t] \notin {"stuck", "killed"}
  BY DEF ThreadInv, Inv, TypeOK, GoingInv, UsesMapped, FaultsOnlyOnFreed, Faulted
<1> QED BY <1>1 DEF StepsLeft, Places, Panicked

LEMMA StepsLeftStep ==
  ASSUME ThreadInv, GoingInv, NEW t \in Threads, Begin(t) \/ Continue(t), pc[t] # "idle"
  PROVE  StepsLeft(t)' < StepsLeft(t)
<1>1. /\ Len(tasks) \in Nat /\ next \in Nat /\ pc \in [Threads -> Places]
      /\ pc[t] = "run" => next <= Len(tasks) + 1
      /\ access \in [Buffers -> {"unmapped", "open", "closed"}]
      /\ doing[t].uses \subseteq Mapped
  BY DEF ThreadInv, Inv, TypeOK, Memory!TypeOK, GoingInv, DoingInv
<1>2. Continue(t)
  BY DEF Begin, Initialize, CallExecute, Malloc, Free, ToLazy, BeginRead, BeginCall
<1>3. CASE Evaluate(t)
  BY <1>1, <1>3 DEF Evaluate, Goto, StepsLeft, manager
<1>4. CASE ProtectAll(t)
  BY <1>1, <1>4 DEF ProtectAll, Goto, StepsLeft
<1>5. CASE Register(t)
  BY <1>1, <1>5 DEF Register, Goto, StepsLeft
<1>6. CASE CallDirectly(t) \/ Read(t)
  BY <1>1, <1>6 DEF CallDirectly, Read, Touch, Goto, StepsLeft
<1>7. CASE Fault(t)
  BY <1>1, <1>7 DEF Fault, Goto, StepsLeft, manager
<1>8. CASE UnprotectAll(t)
  BY <1>1, <1>8 DEF UnprotectAll, Goto, StepsLeft, manager
<1>9. CASE BeginExecution(t)
  BY <1>1, <1>9 DEF BeginExecution, Goto, StepsLeft
<1>10. CASE RunTask(t)
  BY <1>1, <1>10 DEF RunTask, StepsLeft
<1>11. CASE WorkerFaults(t) \/ ExecutionPanics(t)
  BY <1>1, <1>11 DEF WorkerFaults, ExecutionPanics, Goto, StepsLeft
<1>12. CASE NothingToExecute(t) \/ FinishExecution(t)
  <2>1. /\ pc[t] \in {"execute", "run"} /\ pc'[t] \in {"idle", "touch"}
        /\ UNCHANGED <<memory, doing>>
    BY <1>1, <1>12 DEF NothingToExecute, FinishExecution, Release, Goto
  <2>2. \A b \in Buffers : access[b] # "closed"
    BY <2>1, Alone DEF ThreadInv, Inv, OpenInv, Running
  <2>3. \A b \in doing'[t].uses : access'[b] = "open"
    BY <1>1, <2>1, <2>2 DEF memory, Mapped
  <2>4. StepsLeft(t)' <= 1
    BY <2>1, <2>3 DEF StepsLeft
  <2>5. StepsLeft(t) >= 2
    BY <1>1, <2>1 DEF StepsLeft
  <2>6. StepsLeft(t)' \in Nat /\ StepsLeft(t) \in Nat
    BY <1>1, <2>1, <2>3 DEF StepsLeft
  <2> QED BY <2>4, <2>5, <2>6
<1> QED BY <1>2, <1>3, <1>4, <1>5, <1>6, <1>7, <1>8, <1>9, <1>10, <1>11, <1>12 DEF Continue

\* Whatever a thread has begun, a step brings it nearer to its end, its return or the
\* abort of an execution that panics, by one at least of no more than the waiting
\* calls and six: no access faults a second time after the execution its first fault
\* began.
EveryStepCounts ==
  [][\A t \in Threads : pc[t] # "idle" => StepsLeft(t)' < StepsLeft(t)]_vars

THEOREM OneThreadReturns ==
  ASSUME OneThread, ~ FreesEarly
  PROVE  Spec => EveryStepCounts
<1>1. ASSUME ThreadInv, GoingInv, Next, ~ UNCHANGED vars, NEW t \in Threads, pc[t] # "idle"
      PROVE  StepsLeft(t)' < StepsLeft(t)
  BY <1>1, StepsLeftStep DEF Next, Over, OneThread
<1>2. ThreadInv /\ GoingInv /\ [Next]_vars =>
        [\A t \in Threads : pc[t] # "idle" => StepsLeft(t)' < StepsLeft(t)]_vars
  BY <1>1
<1> QED BY <1>2, ThreadInvariant, GoingInvariant, PTL DEF Spec, EveryStepCounts

-----------------------------------------------------------------------------
(***************************************************************************)
(* Runtime implements EagerCalls.                                          *)
(***************************************************************************)

\* The calls that have run on b or wait to, and their order, by number.
Holds(b) == Held(content[b]) \cup {tasks[k].call : k \in Waiting(b)}
Less(S)  == {ij \in S \X S : ij[1] < ij[2]}

ByNumber ==
  \A b \in Buffers :
    /\ ValueOf(b) = [holds |-> Holds(b), before |-> Less(Holds(b))]
    /\ \A call \in Holds(b) : call \in Nat /\ call <= calls
    /\ Waiting(b) = {k \in DOMAIN tasks : b \in tasks[k].uses /\ FirstLeft <= k}

LEMMA WaitingFacts ==
  ASSUME ThreadInv, NEW b \in Buffers
  PROVE  Waiting(b) = {k \in DOMAIN tasks : b \in tasks[k].uses /\ FirstLeft <= k}
<1>1. \A t \in Threads : ~ Faulted(t)
  BY DEF ThreadInv, Inv, UsesMapped, FaultsOnlyOnFreed
<1>2. Executing <=> \E t \in Threads : pc[t] \in {"run", "panicked"}
  BY <1>1 DEF Executing, Running, Faulted
<1>3. \A k \in DOMAIN tasks : 1 <= k
  BY TaskFacts DEF ThreadInv
<1> QED BY <1>2, <1>3 DEF Waiting, FirstLeft

LEMMA OrderByNumber == ThreadInv => ByNumber
<1> SUFFICES ASSUME ThreadInv, NEW b \in Buffers
             PROVE  /\ ValueOf(b) = [holds |-> Holds(b), before |-> Less(Holds(b))]
                    /\ \A call \in Holds(b) : call \in Nat /\ call <= calls
  BY WaitingFacts DEF ByNumber
<1> DEFINE ran == content[b]
           waits == {tasks[k].call : k \in Waiting(b)}
           order == {jk \in Waiting(b) \X Waiting(b) : jk[1] < jk[2]}
           before == Before(ran) \cup (Held(ran) \X waits)
                       \cup {<<tasks[jk[1]].call, tasks[jk[2]].call>> : jk \in order}
<1>1. /\ DOMAIN tasks = 1 .. Len(tasks) /\ Len(tasks) \in Nat
      /\ \A k \in DOMAIN tasks : tasks[k].call \in Nat /\ tasks[k].call <= calls
      /\ \A j, k \in DOMAIN tasks : j < k => tasks[j].call < tasks[k].call
      /\ DOMAIN ran = 1 .. Len(ran) /\ Len(ran) \in Nat
      /\ \A j \in DOMAIN ran : ran[j] \in Nat /\ ran[j] <= calls
      /\ \A j, k \in DOMAIN ran : j < k => ran[j] < ran[k]
      /\ calls \in Nat
  BY TaskFacts DEF ThreadInv, Inv, OrderInv, RunInOrder
<1>2. /\ Waiting(b) \subseteq DOMAIN tasks
      /\ \A j \in DOMAIN ran : \A k \in Waiting(b) : ran[j] < tasks[k].call
  BY WaitingFacts DEF ThreadInv, Inv, OrderInv
<1>3. \A call \in Holds(b) : call \in Nat /\ call <= calls
  BY <1>1, <1>2 DEF Holds, Held
<1>4. ASSUME NEW ij \in before PROVE ij \in Less(Holds(b))
  <2>1. CASE ij \in Before(ran)
    <3>1. PICK jk \in (DOMAIN ran) \X (DOMAIN ran) : jk[1] < jk[2] /\ ij = <<ran[jk[1]], ran[jk[2]]>>
      BY <2>1 DEF Before
    <3> QED BY <1>1, <3>1 DEF Less, Holds, Held
  <2>2. CASE ij \in Held(ran) \X waits
    <3>1. PICK j \in DOMAIN ran : ij[1] = ran[j]
      BY <2>2 DEF Held
    <3>2. PICK k \in Waiting(b) : ij[2] = tasks[k].call
      BY <2>2
    <3>3. ij = <<ran[j], tasks[k].call>>
      BY <2>2, <3>1, <3>2
    <3> QED BY <1>2, <3>3 DEF Less, Holds, Held
  <2>3. CASE ij \in {<<tasks[jk[1]].call, tasks[jk[2]].call>> : jk \in order}
    <3>1. PICK jk \in order : ij = <<tasks[jk[1]].call, tasks[jk[2]].call>>
      BY <2>3
    <3> QED BY <1>1, <1>2, <3>1 DEF Less, Holds
  <2> QED BY <2>1, <2>2, <2>3
<1>5. ASSUME NEW ij \in Less(Holds(b)) PROVE ij \in before
  <2>1. /\ ij[1] \in Holds(b) /\ ij[2] \in Holds(b) /\ ij[1] < ij[2]
        /\ ij = <<ij[1], ij[2]>>
    BY DEF Less
  <2>2. CASE ij[1] \in Held(ran) /\ ij[2] \in Held(ran)
    <3>1. PICK j \in DOMAIN ran : ij[1] = ran[j]
      BY <2>2 DEF Held
    <3>2. PICK k \in DOMAIN ran : ij[2] = ran[k]
      BY <2>2 DEF Held
    <3>3. j < k
      BY <1>1, <2>1, <3>1, <3>2
    <3>4. /\ <<j, k>> \in {jk \in (DOMAIN ran) \X (DOMAIN ran) : jk[1] < jk[2]}
          /\ ij = <<ran[<<j, k>>[1]], ran[<<j, k>>[2]]>>
      BY <2>1, <3>1, <3>2, <3>3
    <3> QED BY <3>4 DEF Before
  <2>3. CASE ij[1] \in Held(ran) /\ ij[2] \in waits
    BY <2>1, <2>3
  <2>4. CASE ij[1] \in waits /\ ij[2] \in Held(ran)
    <3>1. PICK k \in Waiting(b) : ij[1] = tasks[k].call
      BY <2>4
    <3>2. PICK j \in DOMAIN ran : ij[2] = ran[j]
      BY <2>4 DEF Held
    <3> QED BY <1>1, <1>2, <2>1, <3>1, <3>2
  <2>5. CASE ij[1] \in waits /\ ij[2] \in waits
    <3>1. PICK j \in Waiting(b) : ij[1] = tasks[j].call
      BY <2>5
    <3>2. PICK k \in Waiting(b) : ij[2] = tasks[k].call
      BY <2>5
    <3>3. j < k
      BY <1>1, <1>2, <2>1, <3>1, <3>2
    <3>4. <<j, k>> \in order /\ ij = <<tasks[<<j, k>>[1]].call, tasks[<<j, k>>[2]].call>>
      BY <2>1, <3>1, <3>2, <3>3
    <3> QED BY <3>4
  <2> QED BY <2>1, <2>2, <2>3, <2>4, <2>5 DEF Holds
<1>6. before = Less(Holds(b))
  BY <1>4, <1>5
<1> QED BY <1>3, <1>6 DEF ValueOf, Holds

NumberedInv == ThreadInv /\ ByNumber

LEMMA NumberedInvariant ==
  ASSUME OneThread, ~ FreesEarly
  PROVE  Spec => []NumberedInv
BY OrderByNumber, ThreadInvariant, PTL DEF NumberedInv

\* What a buffer holds decides its value, in this state and the next.
LEMMA ValueByNumber ==
  ASSUME NumberedInv, NumberedInv', NEW b \in Buffers
  PROVE  /\ ValueOf(b) = [holds |-> Holds(b), before |-> Less(Holds(b))]
         /\ ValueOf(b)' = [holds |-> Holds(b)', before |-> Less(Holds(b)')]
         /\ Waiting(b) = {k \in DOMAIN tasks : b \in tasks[k].uses /\ FirstLeft <= k}
         /\ Waiting(b)' = {k \in DOMAIN tasks' : b \in tasks'[k].uses /\ FirstLeft' <= k}
BY DEF NumberedInv, ByNumber, Less

LEMMA SameHolds ==
  ASSUME NumberedInv, NumberedInv', NEW b \in Buffers,
         content'[b] = content[b], UNCHANGED tasks, FirstLeft' = FirstLeft
  PROVE  Holds(b)' = Holds(b)
<1>1. Waiting(b)' = Waiting(b)
  BY ValueByNumber
<1> QED BY <1>1 DEF Holds, Held

LEMMA Stutters ==
  ASSUME NumberedInv, NumberedInv', Mapped' = Mapped, UNCHANGED <<calls, seen>>,
         \A b \in Buffers : Holds(b)' = Holds(b)
  PROVE  UNCHANGED Eager!vars
<1>1. \A b \in Buffers : ValueOf(b)' = ValueOf(b)
  BY ValueByNumber
<1> QED BY <1>1 DEF Eager!vars, Held, Before

\* A call later than those a buffer holds comes after all of them.
LEMMA LaterCall ==
  ASSUME NEW H \in SUBSET Nat, NEW last \in Nat, \A call \in H : call <= last
  PROVE  Less(H \cup {last + 1}) = Less(H) \cup (H \X {last + 1})
<1>1. ASSUME NEW ij \in Less(H \cup {last + 1}) PROVE ij \in Less(H) \cup (H \X {last + 1})
  <2>1. /\ ij[1] \in H \cup {last + 1} /\ ij[2] \in H \cup {last + 1} /\ ij[1] < ij[2]
        /\ ij = <<ij[1], ij[2]>>
    BY <1>1 DEF Less
  <2>2. ij[1] \in H
    BY <2>1
  <2> QED BY <2>1, <2>2 DEF Less
<1>2. ASSUME NEW ij \in Less(H) \cup (H \X {last + 1}) PROVE ij \in Less(H \cup {last + 1})
  <2>1. CASE ij \in Less(H)
    BY <2>1 DEF Less
  <2>2. CASE ij \in H \X {last + 1}
    <3>1. ij = <<ij[1], last + 1>> /\ ij[1] \in H
      BY <2>2
    <3>2. ij[1] \in Nat /\ ij[1] < last + 1
      BY <3>1
    <3>3. /\ <<ij[1], last + 1>>[1] < <<ij[1], last + 1>>[2]
          /\ <<ij[1], last + 1>> \in (H \cup {last + 1}) \X (H \cup {last + 1})
      BY <3>1, <3>2
    <3> QED BY <3>1, <3>3 DEF Less
  <2> QED BY <1>2, <2>1, <2>2
<1> QED BY <1>1, <1>2

LEMMA Calls ==
  ASSUME NumberedInv, NumberedInv', NEW uses \in SUBSET Buffers,
         uses # {}, uses \subseteq Mapped, Mapped' = Mapped, UNCHANGED seen,
         calls' = calls + 1,
         \A b \in Buffers :
           Holds(b)' = IF b \in uses THEN Holds(b) \cup {calls + 1} ELSE Holds(b)
  PROVE  Eager!Call(uses)
<1>1. ASSUME NEW b \in Buffers
      PROVE  ValueOf(b)' = IF b \in uses THEN Eager!Called(ValueOf(b), calls') ELSE ValueOf(b)
  <2>1. /\ Holds(b) \in SUBSET Nat /\ calls \in Nat
        /\ \A call \in Holds(b) : call <= calls
    BY TaskFacts DEF NumberedInv, ThreadInv, ByNumber
  <2>2. Less(Holds(b) \cup {calls + 1}) = Less(Holds(b)) \cup (Holds(b) \X {calls + 1})
    BY <2>1, LaterCall
  <2>3. /\ ValueOf(b) = [holds |-> Holds(b), before |-> Less(Holds(b))]
        /\ ValueOf(b)' = [holds |-> Holds(b)', before |-> Less(Holds(b)')]
    BY ValueByNumber
  <2>4. CASE b \in uses
    <3>1. ValueOf(b)' = [holds  |-> Holds(b) \cup {calls + 1},
                         before |-> Less(Holds(b) \cup {calls + 1})]
      BY <2>3, <2>4
    <3>2. Eager!Called(ValueOf(b), calls + 1)
            = [holds  |-> Holds(b) \cup {calls + 1},
               before |-> Less(Holds(b)) \cup (Holds(b) \X {calls + 1})]
      BY <2>3 DEF Eager!Called
    <3> QED BY <2>2, <2>4, <3>1, <3>2
  <2>5. CASE b \notin uses
    BY <2>3, <2>5
  <2> QED BY <2>4, <2>5
<1>2. [b \in Buffers |-> ValueOf(b)']
        = [b \in Buffers |-> IF b \in uses THEN Eager!Called(ValueOf(b), calls') ELSE ValueOf(b)]
  BY <1>1
<1> QED BY <1>2 DEF Eager!Call, Held, Before

\* The pages that stay mapped.
LEMMA MallocMaps ==
  ASSUME MemoryInv, NEW t \in Threads, NEW b \in Buffers, Malloc(t, b)
  PROVE  b \notin Mapped /\ Mapped' = Mapped \cup {b}
<1>1. /\ access[b] = "unmapped" /\ access'[b] # "unmapped"
      /\ \A c \in Buffers : c # b => access'[c] = access[c]
  BY AllocateFacts DEF Malloc
<1> QED BY <1>1 DEF Mapped

LEMMA FreeUnmaps ==
  ASSUME MemoryInv, NEW t \in Threads, NEW b \in Buffers, Free(t, b)
  PROVE  b \in Mapped /\ Mapped' = Mapped \ {b}
<1>1. PICK k \in DOMAIN allocations : allocations[k].address = b /\ Memory!Free(k)
  BY DEF Free
<1>2. access[b] # "unmapped"
  BY <1>1, RuntimeAssumption DEF MemoryInv, Memory!Inductive, Memory!FlagIsTrue
<1>3. access'[b] = "unmapped" /\ \A c \in Buffers : c # b => access'[c] = access[c]
  BY <1>1, FreeFacts
<1> QED BY <1>2, <1>3 DEF Mapped

LEMMA OthersKeepMapped ==
  ASSUME MemoryInv, NEW t \in Threads,
         \/ \E b \in Buffers : ToLazy(t, b)
         \/ ProtectAll(t) \/ UnprotectAll(t)
         \/ UNCHANGED memory
  PROVE  Mapped' = Mapped
<1>1. ASSUME NEW b \in Buffers, ToLazy(t, b) PROVE Mapped' = Mapped
  <2>1. /\ access[b] # "unmapped" /\ access'[b] = "closed"
        /\ \A c \in Buffers : c # b => access'[c] = access[c]
    BY <1>1, ToLazyFacts DEF ToLazy
  <2> QED BY <2>1 DEF Mapped
<1>2. CASE ProtectAll(t)
  BY <1>2, ProtectAllFacts DEF ProtectAll, Mapped
<1>3. CASE UnprotectAll(t)
  BY <1>3, UnprotectAllFacts DEF UnprotectAll, Mapped
<1>4. CASE UNCHANGED memory
  BY <1>4 DEF memory, Mapped
<1> QED BY <1>1, <1>2, <1>3, <1>4

\* What an execution does with the calls that wait.
LEMMA BeginKeeps ==
  ASSUME NumberedInv, NumberedInv', NEW t \in Threads, BeginExecution(t), NEW b \in Buffers
  PROVE  Holds(b)' = Holds(b)
<1>1. \A u \in Threads : pc[u] \notin Running
  BY Alone DEF NumberedInv, ThreadInv, BeginExecution, Running
<1>2. FirstLeft = 1 /\ FirstLeft' = 1
  BY <1>1 DEF FirstLeft, Executing, BeginExecution
<1> QED BY <1>2, SameHolds DEF BeginExecution, history

LEMMA RunKeeps ==
  ASSUME NumberedInv, NumberedInv', NEW t \in Threads, RunTask(t), NEW b \in Buffers
  PROVE  Holds(b)' = Holds(b)
<1>1. /\ Inv /\ DOMAIN tasks = 1 .. Len(tasks) /\ Len(tasks) \in Nat
      /\ next \in 1 .. Len(tasks) /\ next' = next + 1 /\ UNCHANGED tasks
      /\ content[b] \in Seq(Nat \ {0}) /\ tasks[next].call \in Nat \ {0}
  <2>1. Inv
    BY DEF NumberedInv, ThreadInv
  <2>2. next \in 1 .. Len(tasks)
    BY <2>1, TaskFacts DEF RunTask
  <2> QED BY <2>1, <2>2, TaskFacts DEF Inv, TypeOK, RunTask
<1>2. FirstLeft = next /\ FirstLeft' = next + 1
  BY <1>1 DEF RunTask, FirstLeft, Executing, Running
<1>3. /\ Waiting(b) = {k \in 1 .. Len(tasks) : b \in tasks[k].uses /\ next <= k}
      /\ Waiting(b)' = {k \in 1 .. Len(tasks) : b \in tasks[k].uses /\ next + 1 <= k}
  BY <1>1, <1>2, ValueByNumber
<1>4. CASE b \notin tasks[next].uses
  <2>1. Waiting(b)' = Waiting(b)
    BY <1>1, <1>3, <1>4
  <2>2. content'[b] = content[b]
    BY <1>4 DEF RunTask, Ran
  <2> QED BY <1>1, <2>1, <2>2 DEF Holds
<1>5. CASE b \in tasks[next].uses
  <2>1. Waiting(b) = Waiting(b)' \cup {next}
    BY <1>1, <1>3, <1>5
  <2>2. content'[b] = Append(content[b], tasks[next].call)
    BY <1>5 DEF RunTask, Ran
  <2>3. /\ DOMAIN content[b] = 1 .. Len(content[b]) /\ Len(content[b]) \in Nat
        /\ DOMAIN content'[b] = 1 .. Len(content[b]) + 1
        /\ \A j \in 1 .. Len(content[b]) : content'[b][j] = content[b][j]
        /\ content'[b][Len(content[b]) + 1] = tasks[next].call
    BY <1>1, <2>2, AppendProperties
  <2>4. 1 .. Len(content[b]) + 1 = (1 .. Len(content[b])) \cup {Len(content[b]) + 1}
    BY <2>3
  <2>5. Held(content'[b]) = Held(content[b]) \cup {tasks[next].call}
    BY <2>3, <2>4 DEF Held
  <2>6. {tasks[k].call : k \in Waiting(b)} = {tasks[k].call : k \in Waiting(b)'} \cup {tasks[next].call}
    BY <2>1
  <2> QED BY <1>1, <2>5, <2>6 DEF Holds, Held
<1> QED BY <1>4, <1>5

LEMMA FinishKeeps ==
  ASSUME NumberedInv, NumberedInv', NEW t \in Threads, FinishExecution(t), NEW b \in Buffers
  PROVE  Holds(b)' = Holds(b)
<1>1. DOMAIN tasks = 1 .. Len(tasks) /\ Len(tasks) \in Nat /\ next \in Nat
  BY TaskFacts DEF NumberedInv, ThreadInv
<1>2. FirstLeft = next
  BY DEF FinishExecution, FirstLeft, Executing, Running
<1>3. Waiting(b) = {} /\ Waiting(b)' = {}
  BY <1>1, <1>2, ValueByNumber DEF FinishExecution
<1> QED BY <1>3 DEF Holds, FinishExecution, history

LEMMA NothingKeeps ==
  ASSUME NumberedInv, NumberedInv', NEW t \in Threads, NothingToExecute(t), NEW b \in Buffers
  PROVE  Holds(b)' = Holds(b)
<1>1. Waiting(b) = {} /\ Waiting(b)' = {}
  BY ValueByNumber DEF NothingToExecute, manager
<1> QED BY <1>1 DEF Holds, NothingToExecute, history

\* A call is made where it is registered, or where it runs directly.
LEMMA RegisterCalls ==
  ASSUME NumberedInv, NumberedInv', NEW t \in Threads, Register(t)
  PROVE  Eager!Call(doing[t].uses)
<1>1. /\ Inv /\ DoingInv /\ Len(tasks) \in Nat /\ DOMAIN tasks = 1 .. Len(tasks)
      /\ pc \in [Threads -> Places]
      /\ tasks \in Seq([call : Nat \ {0}, uses : SUBSET Buffers])
      /\ doing[t].uses \in SUBSET Buffers /\ calls \in Nat
  BY TaskFacts DEF NumberedInv, ThreadInv, Inv, TypeOK
<1>2. /\ tasks' = Append(tasks, [call |-> calls + 1, uses |-> doing[t].uses])
      /\ UNCHANGED <<content, seen, memory>> /\ calls' = calls + 1
  BY DEF Register
<1>3. /\ DOMAIN tasks' = 1 .. Len(tasks) + 1
      /\ \A k \in 1 .. Len(tasks) : tasks'[k] = tasks[k]
      /\ tasks'[Len(tasks) + 1] = [call |-> calls + 1, uses |-> doing[t].uses]
  BY <1>1, <1>2
<1>4. FirstLeft = 1 /\ FirstLeft' = 1
  <2>1. ~ Executing
    BY <1>1, Alone DEF Register
  <2>2. Executing' <=> Executing
    BY <1>1, ExecutingMoves DEF Register, Goto, Running
  <2> QED BY <2>1, <2>2 DEF FirstLeft
<1>5. ASSUME NEW b \in Buffers
      PROVE  Holds(b)' = IF b \in doing[t].uses THEN Holds(b) \cup {calls + 1} ELSE Holds(b)
  <2>1. /\ Waiting(b) = {k \in 1 .. Len(tasks) : b \in tasks[k].uses}
        /\ Waiting(b)' = {k \in 1 .. Len(tasks) + 1 : b \in tasks'[k].uses}
    BY <1>1, <1>3, <1>4, ValueByNumber
  <2>2. Waiting(b)' = Waiting(b) \cup (IF b \in doing[t].uses THEN {Len(tasks) + 1} ELSE {})
    <3>1. \A k : k \in 1 .. Len(tasks) + 1 <=> k \in 1 .. Len(tasks) \/ k = Len(tasks) + 1
      BY <1>1
    <3>2. Len(tasks) + 1 \notin 1 .. Len(tasks)
      BY <1>1
    <3> QED BY <1>3, <2>1, <3>1, <3>2
  <2>3. \A k \in Waiting(b) : tasks'[k].call = tasks[k].call
    BY <1>3, <2>1
  <2>4. {tasks'[k].call : k \in Waiting(b)} = {tasks[k].call : k \in Waiting(b)}
    BY <2>3
  <2>5. tasks'[Len(tasks) + 1].call = calls + 1
    BY <1>3
  <2>6. {tasks'[k].call : k \in Waiting(b)'}
          = {tasks[k].call : k \in Waiting(b)}
              \cup (IF b \in doing[t].uses THEN {calls + 1} ELSE {})
    BY <2>2, <2>4, <2>5
  <2> QED BY <1>2, <2>6 DEF Holds, Held
<1>6. doing[t].uses # {} /\ doing[t].uses \subseteq Mapped
  BY <1>1 DEF DoingInv, Register
<1>7. Mapped' = Mapped
  BY <1>2, OthersKeepMapped DEF NumberedInv, ThreadInv, Inv
<1> QED BY <1>1, <1>2, <1>5, <1>6, <1>7, Calls

LEMMA DirectCalls ==
  ASSUME NumberedInv, NumberedInv', NEW t \in Threads, CallDirectly(t)
  PROVE  Eager!Call(doing[t].uses)
<1>1. /\ Inv /\ DoingInv /\ pc \in [Threads -> Places]
      /\ content \in [Buffers -> Seq(Nat \ {0})]
      /\ doing[t].uses \in SUBSET Buffers /\ calls \in Nat
  BY TaskFacts DEF NumberedInv, ThreadInv, Inv, TypeOK
<1>2. /\ UNCHANGED <<tasks, seen, memory>> /\ calls' = calls + 1
      /\ \A b \in Buffers : content'[b] = IF b \in doing[t].uses
                                         THEN Append(content[b], calls + 1) ELSE content[b]
  BY DEF CallDirectly, Touch, Ran, manager
<1>3. FirstLeft' = FirstLeft
  <2>1. Executing' <=> Executing
    BY <1>1, ExecutingMoves DEF CallDirectly, Touch, Goto, Running
  <2> QED BY <2>1 DEF FirstLeft, CallDirectly, Touch, manager
<1>4. ASSUME NEW b \in Buffers
      PROVE  Holds(b)' = IF b \in doing[t].uses THEN Holds(b) \cup {calls + 1} ELSE Holds(b)
  <2>1. Waiting(b)' = Waiting(b)
    BY <1>2, <1>3, ValueByNumber
  <2>2. Held(content'[b]) = IF b \in doing[t].uses THEN Held(content[b]) \cup {calls + 1}
                                                    ELSE Held(content[b])
    <3>1. CASE b \in doing[t].uses
      <4>1. content'[b] = Append(content[b], calls + 1) /\ content[b] \in Seq(Nat \ {0})
        BY <1>1, <1>2, <3>1
      <4>2. /\ DOMAIN content[b] = 1 .. Len(content[b]) /\ Len(content[b]) \in Nat
            /\ DOMAIN content'[b] = 1 .. Len(content[b]) + 1
            /\ \A j \in 1 .. Len(content[b]) : content'[b][j] = content[b][j]
            /\ content'[b][Len(content[b]) + 1] = calls + 1
        BY <1>1, <4>1
      <4>3. 1 .. Len(content[b]) + 1 = (1 .. Len(content[b])) \cup {Len(content[b]) + 1}
        BY <4>2
      <4> QED BY <3>1, <4>2, <4>3 DEF Held
    <3>2. CASE b \notin doing[t].uses
      BY <1>2, <3>2
    <3> QED BY <3>1, <3>2
  <2> QED BY <1>2, <2>1, <2>2 DEF Holds, Held
<1>5. doing[t].uses # {} /\ doing[t].uses \subseteq Mapped
  BY <1>1 DEF DoingInv, CallDirectly
<1>6. Mapped' = Mapped
  BY <1>2, OthersKeepMapped DEF NumberedInv, ThreadInv, Inv
<1> QED BY <1>1, <1>2, <1>4, <1>5, <1>6, Calls

LEMMA MallocAllocates ==
  ASSUME NumberedInv, NumberedInv', NEW t \in Threads, NEW b \in Buffers, Malloc(t, b)
  PROVE  Eager!Malloc(b)
<1>1. /\ Inv /\ MemoryInv /\ UsesMapped /\ content \in [Buffers -> Seq(Nat \ {0})]
      /\ UNCHANGED <<tasks, calls, seen>>
      /\ \A c \in Buffers : content'[c] = IF c = b THEN <<>> ELSE content[c]
  BY DEF NumberedInv, ThreadInv, Inv, TypeOK, Malloc, manager
<1>2. FirstLeft' = FirstLeft
  BY DEF Malloc, FirstLeft, Executing, manager
<1>3. b \notin Mapped /\ Mapped' = Mapped \cup {b}
  BY <1>1, MallocMaps
<1>4. ValueOf(b)' = Eager!Fresh
  <2>1. Waiting(b)' = {}
    BY <1>1, <1>3, ValueByNumber DEF UsesMapped
  <2>2. Holds(b)' = {}
    BY <1>1, <2>1 DEF Holds, Held
  <2> QED BY <2>2, ValueByNumber DEF Less, Eager!Fresh
<1>5. ASSUME NEW c \in Buffers, c # b PROVE ValueOf(c)' = ValueOf(c)
  BY <1>1, <1>2, <1>5, SameHolds, ValueByNumber
<1>6. [c \in Buffers |-> ValueOf(c)']
        = [[c \in Buffers |-> ValueOf(c)] EXCEPT ![b] = Eager!Fresh]
  BY <1>4, <1>5
<1> QED BY <1>1, <1>3, <1>6 DEF Eager!Malloc, Held, Before

\* What changes no value.
LEMMA SameValues ==
  ASSUME NumberedInv, NumberedInv', UNCHANGED <<tasks, content>>, FirstLeft' = FirstLeft
  PROVE  \A b \in Buffers : Holds(b)' = Holds(b) /\ ValueOf(b)' = ValueOf(b)
BY SameHolds, ValueByNumber

LEMMA FreeFrees ==
  ASSUME NumberedInv, NumberedInv', NEW t \in Threads, NEW b \in Buffers, Free(t, b)
  PROVE  Eager!Free(b)
<1>1. FirstLeft' = FirstLeft
  BY DEF Free, FirstLeft, Executing, manager
<1>2. \A c \in Buffers : ValueOf(c)' = ValueOf(c)
  BY <1>1, SameValues DEF Free, manager, history
<1>3. b \in Mapped /\ Mapped' = Mapped \ {b}
  BY FreeUnmaps DEF NumberedInv, ThreadInv, Inv
<1> QED BY <1>2, <1>3 DEF Eager!Free, Free, Held, Before, history

LEMMA ReadReads ==
  ASSUME NumberedInv, NumberedInv', OneThread, NEW t \in Threads, Read(t)
  PROVE  \E b \in Buffers : Eager!Read(b)
<1>1. /\ ThreadInv /\ Inv /\ DoingInv /\ pc \in [Threads -> Places]
      /\ UNCHANGED <<tasks, content, calls, memory>>
  BY DEF NumberedInv, ThreadInv, Inv, TypeOK, Read, Touch, manager
<1>2. PICK b \in Buffers : doing[t].uses = {b}
  BY <1>1 DEF DoingInv, Read
<1>3. /\ b \in Mapped /\ ~ Pending(b)
      /\ seen' = [c \in Buffers |-> IF c = b THEN content[c] ELSE seen[c]]
  BY <1>1, <1>2, ReadIsFresh DEF DoingInv, Read
<1>4. FirstLeft' = FirstLeft
  <2>1. Executing' <=> Executing
    BY <1>1, ExecutingMoves DEF Read, Touch, Goto, Running
  <2> QED BY <2>1 DEF FirstLeft, Read, Touch, manager
<1>5. \A c \in Buffers : ValueOf(c)' = ValueOf(c)
  BY <1>1, <1>4, SameValues
<1>6. ValueOf(b) = [holds |-> Held(content[b]), before |-> Before(content[b])]
  <2>1. Waiting(b) = {}
    BY <1>3, ValueByNumber DEF Pending
  <2> QED BY <2>1 DEF ValueOf
<1>7. Mapped' = Mapped
  BY <1>1, OthersKeepMapped DEF Inv
<1>8. [c \in Buffers |-> [holds |-> Held(seen'[c]), before |-> Before(seen'[c])]]
        = [[c \in Buffers |-> [holds |-> Held(seen[c]), before |-> Before(seen[c])]]
             EXCEPT ![b] = ValueOf(b)]
  BY <1>3, <1>6
<1>9. [c \in Buffers |-> ValueOf(c)][b] = ValueOf(b)
  OBVIOUS
<1>10. Eager!Read(b)
  BY <1>1, <1>3, <1>5, <1>7, <1>8, <1>9 DEF Eager!Read, Held, Before
<1> QED BY <1>10

LEMMA OthersStutter ==
  ASSUME NumberedInv, NumberedInv', NEW t \in Threads,
         \/ Initialize(t) \/ CallExecute(t) \/ Evaluate(t) \/ ProtectAll(t) \/ Fault(t)
         \/ UnprotectAll(t) \/ NothingToExecute(t) \/ BeginExecution(t) \/ RunTask(t)
         \/ WorkerFaults(t) \/ ExecutionPanics(t) \/ FinishExecution(t)
         \/ \E b \in Buffers : ToLazy(t, b) \/ BeginRead(t, b)
         \/ \E uses \in SUBSET Buffers : BeginCall(t, uses)
  PROVE  UNCHANGED Eager!vars
<1>1. Inv /\ MemoryInv /\ pc \in [Threads -> Places]
  BY DEF NumberedInv, ThreadInv, Inv, TypeOK
<1>2. ASSUME UNCHANGED <<tasks, history>>, FirstLeft' = FirstLeft, Mapped' = Mapped
      PROVE  UNCHANGED Eager!vars
  BY <1>2, SameValues, Stutters DEF history
<1>3. ASSUME UNCHANGED <<next, pc>> PROVE FirstLeft' = FirstLeft
  BY <1>3 DEF FirstLeft, Executing
<1>4. ASSUME NEW place, pc' = [pc EXCEPT ![t] = place], UNCHANGED next,
             place \in Running <=> pc[t] \in Running
      PROVE  FirstLeft' = FirstLeft
  BY <1>1, <1>4, ExecutingMoves DEF FirstLeft
<1>5. CASE Initialize(t)
  BY <1>1, <1>2, <1>3, <1>5, OthersKeepMapped DEF Initialize
<1>6. ASSUME NEW b \in Buffers, ToLazy(t, b) PROVE UNCHANGED Eager!vars
  <2>1. Mapped' = Mapped
    BY <1>1, <1>6, OthersKeepMapped
  <2> QED BY <1>2, <1>3, <1>6, <2>1 DEF ToLazy, manager
<1>7. ASSUME NEW b \in Buffers, BeginRead(t, b) PROVE UNCHANGED Eager!vars
  <2>1. Mapped' = Mapped /\ FirstLeft' = FirstLeft
    BY <1>1, <1>4, <1>7, OthersKeepMapped DEF BeginRead, Goto, Running, manager
  <2> QED BY <1>2, <1>7, <2>1 DEF BeginRead, manager
<1>8. ASSUME NEW uses \in SUBSET Buffers, BeginCall(t, uses) PROVE UNCHANGED Eager!vars
  <2>1. Mapped' = Mapped /\ FirstLeft' = FirstLeft
    BY <1>1, <1>4, <1>8, OthersKeepMapped DEF BeginCall, Goto, Running, manager
  <2> QED BY <1>2, <1>8, <2>1 DEF BeginCall, manager
<1>9. CASE CallExecute(t) \/ Evaluate(t) \/ Fault(t) \/ WorkerFaults(t) \/ ExecutionPanics(t)
  <2>1. Mapped' = Mapped
    BY <1>1, <1>9, OthersKeepMapped DEF CallExecute, Evaluate, Fault, WorkerFaults, ExecutionPanics
  <2>2. FirstLeft' = FirstLeft
    BY <1>4, <1>9 DEF CallExecute, Evaluate, Fault, WorkerFaults,
      ExecutionPanics, Goto, Running, manager
  <2> QED BY <1>2, <1>9, <2>1, <2>2 DEF CallExecute, Evaluate, Fault, WorkerFaults,
    ExecutionPanics, manager
<1>10. CASE ProtectAll(t) \/ UnprotectAll(t)
  <2>1. Mapped' = Mapped
    BY <1>1, <1>10, OthersKeepMapped
  <2>2. FirstLeft' = FirstLeft
    BY <1>4, <1>10 DEF ProtectAll, UnprotectAll, Goto, Running, manager
  <2> QED BY <1>2, <1>10, <2>1, <2>2 DEF ProtectAll, UnprotectAll, manager
<1>11. CASE NothingToExecute(t)
  BY <1>1, <1>11, NothingKeeps, OthersKeepMapped, Stutters DEF NothingToExecute, history
<1>12. CASE BeginExecution(t)
  BY <1>1, <1>12, BeginKeeps, OthersKeepMapped, Stutters DEF BeginExecution, history
<1>13. CASE RunTask(t)
  BY <1>1, <1>13, RunKeeps, OthersKeepMapped, Stutters DEF RunTask
<1>14. CASE FinishExecution(t)
  BY <1>1, <1>14, FinishKeeps, OthersKeepMapped, Stutters DEF FinishExecution, history
<1> QED BY <1>5, <1>6, <1>7, <1>8, <1>9, <1>10, <1>11, <1>12, <1>13, <1>14

LEMMA EagerStep ==
  ASSUME NumberedInv, NumberedInv', OneThread, [Next]_vars
  PROVE  [Eager!Next]_(Eager!vars)
<1>1. CASE UNCHANGED vars
  BY <1>1 DEF vars, memory, manager, history, Eager!vars, Mapped, ValueOf, Waiting, Held, Before
<1>2. CASE ~ UNCHANGED vars
  <2>1. PICK t \in Threads : Begin(t) \/ Continue(t)
    BY <1>2 DEF Next, Over
  <2>2. ASSUME NEW b \in Buffers, Malloc(t, b) \/ Free(t, b) PROVE Eager!Next
    BY <2>2, MallocAllocates, FreeFrees DEF Eager!Next
  <2>3. CASE Register(t) \/ CallDirectly(t)
    <3>1. Eager!Call(doing[t].uses) /\ doing[t].uses \in SUBSET Buffers
      BY <2>3, RegisterCalls, DirectCalls DEF NumberedInv, ThreadInv, Inv, TypeOK
    <3> QED BY <3>1 DEF Eager!Next
  <2>4. CASE Read(t)
    BY <2>4, ReadReads DEF Eager!Next
  <2> QED BY <2>1, <2>2, <2>3, <2>4, OthersStutter DEF Begin, Continue
<1> QED BY <1>1, <1>2

\* With one thread, which frees no buffer of a waiting call, the program behaves
\* as if every call ran where it stands.
THEOREM OneThreadIsEager ==
  ASSUME OneThread, ~ FreesEarly
  PROVE  Spec => ImplementsEagerCalls
<1>1. NumberedInv /\ Init => Eager!Init
  <2> SUFFICES ASSUME Init PROVE Eager!Init
    OBVIOUS
  <2>1. Mapped = {} /\ calls = 0
    BY DEF Init, Memory!Init, Mapped
  <2>2. \A b \in Buffers : content[b] = <<>> /\ seen[b] = <<>>
    BY DEF Init
  <2>3. Held(<<>>) = {} /\ Before(<<>>) = {}
    BY DEF Held, Before
  <2>4. \A b \in Buffers : Waiting(b) = {}
    BY DEF Init, Waiting
  <2>5. \A b \in Buffers : ValueOf(b) = Eager!Fresh
    BY <2>2, <2>3, <2>4 DEF ValueOf, Eager!Fresh
  <2> QED BY <2>1, <2>2, <2>3, <2>5 DEF Eager!Init, Eager!Fresh
<1>2. NumberedInv /\ NumberedInv' /\ [Next]_vars => [Eager!Next]_(Eager!vars)
  BY EagerStep
<1> QED BY <1>1, <1>2, NumberedInvariant, PTL DEF Spec, ImplementsEagerCalls, Eager!Spec
=============================================================================
