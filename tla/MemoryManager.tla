---------------------------- MODULE MemoryManager ----------------------------
(***************************************************************************)
(* MemoryManager and MemorySegment (c/composer/src/runtime/memory.rs): the *)
(* allocations whose pages the runtime takes away while calls are pending, *)
(* and gives back before it runs them.                                     *)
(*                                                                         *)
(* An address stands for the pages of one mapping; the client's pointers   *)
(* into it all lead to it (MemorySegment::contains).  The operating system *)
(* answers an mmap with any address that is not mapped, or with            *)
(* MAP_FAILED, always so for a size of 0.  Its mprotect always fails on    *)
(* MAP_FAILED, and may fail elsewhere when the kernel is short of memory   *)
(* areas: the manager then panics with STATE locked, which poisons it, and *)
(* every later call to the library panics on the lock.                     *)
(***************************************************************************)
EXTENDS Integers, Sequences

CONSTANTS
  Addresses,       \* the addresses an mmap may return
  MaxSegments,     \* bounds the segments allocated at a time
  MprotectFails    \* whether mprotect may fail on a mapped address

CONSTANT MapFailed \* what an mmap that fails returns

ASSUME MemoryAssumption ==
  /\ MapFailed \notin Addresses
  /\ MaxSegments \in Nat
  /\ MprotectFails \in BOOLEAN

VARIABLES
  allocations,     \* the segments, in the order of the code's vector
  all_protected,   \* the manager's belief that it need not protect anything
  access,          \* the pages of each address: "unmapped", "open", "closed"
  poisoned         \* a panic left STATE locked

memoryVars == <<allocations, all_protected, access, poisoned>>

Segment == [address : Addresses \cup {MapFailed}, protected : BOOLEAN]

Init ==
  /\ allocations = <<>>
  /\ all_protected = FALSE
  /\ access = [a \in Addresses |-> "unmapped"]
  /\ poisoned = FALSE

\* An mprotect on the pages at address may succeed, may fail.
MayProtect(address) == address # MapFailed
MayFail(address)    == address = MapFailed \/ MprotectFails

\* A panic: the calling operation stops here.
Panic == poisoned' = TRUE /\ UNCHANGED all_protected

-----------------------------------------------------------------------------
(***************************************************************************)
(* The operations, each called with STATE locked.                          *)
(***************************************************************************)

\* Mistaken: a failed mmap counts as a mapping.
AllocateOpenOfFailed(address) ==
  /\ Len(allocations) < MaxSegments
  /\ address # MapFailed => access[address] = "unmapped"
  /\ allocations' = Append(allocations, [address |-> address, protected |-> FALSE])
  /\ all_protected' = FALSE
  /\ access' = [a \in Addresses \cup {address} |->
                  IF a = address THEN "open" ELSE access[a]]
  /\ UNCHANGED poisoned

\* Mistaken: the manager goes on believing that all is protected.
AllocateOpenUnnoticed(address) ==
  /\ Len(allocations) < MaxSegments
  /\ address # MapFailed => access[address] = "unmapped"
  /\ allocations' = Append(allocations, [address |-> address, protected |-> FALSE])
  /\ access' = [a \in Addresses |-> IF a = address THEN "open" ELSE access[a]]
  /\ UNCHANGED <<all_protected, poisoned>>

\* allocate, not lazy: a failed mmap is logged and its segment kept.
AllocateOpen(address) ==
  /\ Len(allocations) < MaxSegments
  /\ address # MapFailed => access[address] = "unmapped"
  /\ allocations' = Append(allocations, [address |-> address, protected |-> FALSE])
  /\ all_protected' = FALSE
  /\ access' = [a \in Addresses |-> IF a = address THEN "open" ELSE access[a]]
  /\ UNCHANGED poisoned

\* allocate, lazy: the pages are closed at once.
AllocateClosed(address) ==
  /\ Len(allocations) < MaxSegments
  /\ MayProtect(address) /\ access[address] = "unmapped"
  /\ allocations' = Append(allocations, [address |-> address, protected |-> TRUE])
  /\ access' = [access EXCEPT ![address] = "closed"]
  /\ UNCHANGED <<all_protected, poisoned>>

\* allocate, lazy, with pages that cannot be closed.
AllocatePanics(address) ==
  /\ Len(allocations) < MaxSegments
  /\ MayFail(address)
  /\ address # MapFailed => access[address] = "unmapped"
  /\ access' = [a \in Addresses |-> IF a = address THEN "open" ELSE access[a]]
  /\ UNCHANGED allocations
  /\ Panic

\* Vec::swap_remove.
SwapRemove(seq, k) ==
  [j \in 1 .. Len(seq) - 1 |-> IF j = k THEN seq[Len(seq)] ELSE seq[j]]

\* Mistaken: the segment is dropped, its pages stay mapped.
FreeWithoutUnmap(k) ==
  /\ k \in DOMAIN allocations
  /\ allocations[k].address # MapFailed
  /\ allocations' = SwapRemove(allocations, k)
  /\ UNCHANGED <<all_protected, access, poisoned>>

\* free of a pointer into segment k; a pointer into none is ignored.
Free(k) ==
  /\ k \in DOMAIN allocations
  /\ allocations[k].address # MapFailed
  /\ access' = [access EXCEPT ![allocations[k].address] = "unmapped"]
  /\ allocations' = SwapRemove(allocations, k)
  /\ UNCHANGED <<all_protected, poisoned>>

\* Mistaken: the flags are not updated.
SetFirstUnflagged(k, flag, pages) ==
  /\ UNCHANGED allocations
  /\ access' = [a \in Addresses |->
       IF \E j \in DOMAIN allocations : j <= k /\ allocations[j].address = a
       THEN pages ELSE access[a]]

\* The segments from 1 to k take the flag, and their pages the access.
SetFirst(k, flag, pages) ==
  /\ allocations' = [j \in DOMAIN allocations |->
       IF j <= k THEN [allocations[j] EXCEPT !.protected = flag] ELSE allocations[j]]
  /\ access' = [a \in Addresses |->
       IF \E j \in DOMAIN allocations : j <= k /\ allocations[j].address = a
       THEN pages ELSE access[a]]

\* The mprotect of segment k fails; those before k, unless they already had
\* the flag, took it.
FailsAt(k, flag) ==
  /\ allocations[k].protected # flag
  /\ MayFail(allocations[k].address)
  /\ \A j \in 1 .. k - 1 :
       allocations[j].protected # flag => MayProtect(allocations[j].address)

Succeeds(flag) ==
  \A j \in DOMAIN allocations :
    allocations[j].protected # flag => MayProtect(allocations[j].address)

\* protect of a pointer into segment k (composer_tolazy); into none: nothing.
Protect(k) ==
  /\ k \in DOMAIN allocations
  /\ MayProtect(allocations[k].address)
  /\ allocations' = [allocations EXCEPT ![k].protected = TRUE]
  /\ access' = [access EXCEPT ![allocations[k].address] = "closed"]
  /\ UNCHANGED <<all_protected, poisoned>>

ProtectPanics(k) ==
  /\ k \in DOMAIN allocations
  /\ allocations[k].address # MapFailed
  /\ ~ allocations[k].protected /\ MayFail(allocations[k].address)
  /\ UNCHANGED <<allocations, access>>
  /\ Panic

\* protect_all: it returns at once if it believes that all is protected.
ProtectAll ==
  IF all_protected
  THEN UNCHANGED memoryVars
  ELSE /\ Succeeds(TRUE)
       /\ SetFirst(Len(allocations), TRUE, "closed")
       /\ all_protected' = TRUE
       /\ UNCHANGED poisoned

ProtectAllPanics ==
  /\ ~ all_protected
  /\ \E k \in DOMAIN allocations :
       /\ FailsAt(k, TRUE)
       /\ SetFirst(k - 1, TRUE, "closed")
  /\ Panic

\* Mistaken: the last segment is left out.
UnprotectAllButLast ==
  /\ Succeeds(FALSE) /\ allocations # <<>>
  /\ SetFirst(Len(allocations) - 1, FALSE, "open")
  /\ all_protected' = FALSE
  /\ UNCHANGED poisoned

\* unprotect_all.
UnprotectAll ==
  /\ Succeeds(FALSE)
  /\ SetFirst(Len(allocations), FALSE, "open")
  /\ all_protected' = FALSE
  /\ UNCHANGED poisoned

UnprotectAllPanics ==
  /\ \E k \in DOMAIN allocations :
       /\ FailsAt(k, FALSE)
       /\ SetFirst(k - 1, FALSE, "open")
  /\ Panic

-----------------------------------------------------------------------------

Allocate ==
  \E address \in Addresses \cup {MapFailed} :
    AllocateOpen(address) \/ AllocateClosed(address) \/ AllocatePanics(address)

\* The pointers a client may pass, those into a segment.
OfPointer ==
  \E k \in DOMAIN allocations : Free(k) \/ Protect(k) \/ ProtectPanics(k)

OfAll == ProtectAll \/ ProtectAllPanics \/ UnprotectAll \/ UnprotectAllPanics

Next ==
  \/ ~ poisoned /\ (Allocate \/ OfPointer \/ OfAll)
  \/ poisoned /\ UNCHANGED memoryVars

Spec == Init /\ [][Next]_memoryVars

-----------------------------------------------------------------------------
(***************************************************************************)
(* Properties.                                                             *)
(***************************************************************************)

\* The types of the variables.
TypeOK ==
  /\ allocations \in Seq(Segment)
  /\ all_protected \in BOOLEAN
  /\ access \in [Addresses -> {"unmapped", "open", "closed"}]
  /\ poisoned \in BOOLEAN

\* A segment's flag, for which the code skips the mprotect, tells the truth
\* about its pages, even when an operation panicked halfway.
FlagIsTrue ==
  \A k \in DOMAIN allocations :
    allocations[k].address # MapFailed =>
      access[allocations[k].address]
        = IF allocations[k].protected THEN "closed" ELSE "open"

\* When the manager believes that all is protected, for which protect_all does
\* nothing, no page of a segment is open, although segments were allocated,
\* freed, moved by swap_remove, and closed one by one meanwhile.
AllProtectedIsTrue ==
  ~ poisoned /\ all_protected => \A a \in Addresses : access[a] # "open"

\* Every mapping belongs to one segment: none is lost, none is freed twice.
NoLeak ==
  ~ poisoned =>
    \A a \in Addresses : access[a] # "unmapped" =>
      \E k \in DOMAIN allocations :
        /\ allocations[k].address = a
        /\ \A j \in DOMAIN allocations : allocations[j].address = a => j = k

\* Pages are opened all together or not at all: a step that opens closed pages
\* leaves no page closed, for a page still closed after the others opened
\* would be read without its pending calls being run.
OpensAll ==
  [][(\E a \in Addresses : access[a] = "closed" /\ access'[a] = "open")
       => poisoned' \/ \A a \in Addresses : access'[a] # "closed"]_memoryVars

\* No two segments have the same pages.
Distinct ==
  \A j, k \in DOMAIN allocations :
    allocations[j].address = allocations[k].address
      /\ allocations[k].address # MapFailed => j = k

\* The belief, in terms of the flags.
AllFlagged ==
  ~ poisoned /\ all_protected =>
    \A k \in DOMAIN allocations : allocations[k].protected

\* The inductive invariant of the proofs in MemoryManagerProofs.
Inductive == TypeOK /\ FlagIsTrue /\ Distinct /\ NoLeak /\ AllFlagged

=============================================================================
