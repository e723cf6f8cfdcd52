------------------------- MODULE MemoryManagerProofs -------------------------
(***************************************************************************)
(* Proofs about MemoryManager, for any number of addresses and segments.   *)
(***************************************************************************)
EXTENDS MemoryManager, SequenceTheorems, TLAPS

LEMMA InitInductive == Init => Inductive
<1> SUFFICES ASSUME Init PROVE Inductive
  OBVIOUS
<1>1. /\ allocations = <<>> /\ DOMAIN allocations = {}
      /\ \A a \in Addresses : access[a] = "unmapped"
  BY DEF Init
<1>2. TypeOK
  <2>1. allocations \in Seq(Segment)
    BY <1>1
  <2>2. access \in [Addresses -> {"unmapped", "open", "closed"}]
    BY DEF Init
  <2> QED BY <2>1, <2>2 DEF Init, TypeOK
<1>3. FlagIsTrue /\ Distinct
  BY <1>1 DEF FlagIsTrue, Distinct
<1>4. NoLeak
  BY <1>1 DEF NoLeak
<1>5. AllFlagged
  BY <1>1 DEF AllFlagged
<1> QED BY <1>2, <1>3, <1>4, <1>5 DEF Inductive

\* The segments, one by one.
LEMMA SegmentFacts ==
  ASSUME TypeOK
  PROVE  /\ Len(allocations) \in Nat
         /\ DOMAIN allocations = 1 .. Len(allocations)
         /\ \A k \in 1 .. Len(allocations) :
              /\ allocations[k] \in Segment
              /\ allocations[k].address \in Addresses \cup {MapFailed}
              /\ allocations[k].protected \in BOOLEAN
<1>1. /\ Len(allocations) \in Nat /\ DOMAIN allocations = 1 .. Len(allocations)
      /\ allocations \in Seq(Segment)
  BY DEF TypeOK
<1>2. \A k \in 1 .. Len(allocations) : allocations[k] \in Segment
  BY <1>1, ElementOfSeq
<1> QED BY <1>1, <1>2 DEF Segment

-----------------------------------------------------------------------------
(***************************************************************************)
(* allocate.                                                               *)
(***************************************************************************)

\* A segment for an address that no segment has, with pages as its flag says.
LEMMA PushStep ==
  ASSUME Inductive, ~ poisoned, NEW address \in Addresses \cup {MapFailed},
         NEW flag \in BOOLEAN,
         address = MapFailed => flag = FALSE,
         address # MapFailed => access[address] = "unmapped",
         allocations' = Append(allocations, [address |-> address, protected |-> flag]),
         all_protected' = (all_protected /\ flag),
         access' = [a \in Addresses |->
                      IF a = address THEN IF flag THEN "closed" ELSE "open"
                      ELSE access[a]],
         poisoned' = poisoned
  PROVE  Inductive'
<1> DEFINE n == Len(allocations)
<1>1. /\ n \in Nat /\ DOMAIN allocations = 1 .. n
      /\ \A k \in 1 .. n : allocations[k] \in Segment
  BY SegmentFacts DEF Inductive
<1>2. [address |-> address, protected |-> flag] \in Segment
  BY DEF Segment
<1>3. /\ allocations' \in Seq(Segment) /\ DOMAIN allocations' = 1 .. n + 1
      /\ \A k \in 1 .. n : allocations'[k] = allocations[k]
      /\ allocations'[n + 1] = [address |-> address, protected |-> flag]
  BY <1>2 DEF Inductive, TypeOK
<1>4. TypeOK'
  BY <1>3 DEF Inductive, TypeOK
<1>5. ASSUME NEW k \in 1 .. n, allocations[k].address # MapFailed
      PROVE  allocations[k].address # address
  <2>1. access[allocations[k].address] # "unmapped"
    BY <1>1, <1>5 DEF Inductive, FlagIsTrue
  <2> QED BY <1>5, <2>1
<1>6. FlagIsTrue'
  <2>1. SUFFICES ASSUME NEW k \in 1 .. n + 1, allocations'[k].address # MapFailed
                 PROVE  access'[allocations'[k].address]
                          = IF allocations'[k].protected THEN "closed" ELSE "open"
    BY <1>3 DEF FlagIsTrue
  <2>2. CASE k = n + 1
    BY <1>3, <2>1, <2>2
  <2>3. CASE k \in 1 .. n
    <3>1. allocations[k].address \in Addresses
      BY <1>1, <1>3, <2>1, <2>3 DEF Segment
    <3> QED BY <1>1, <1>3, <1>5, <2>1, <2>3, <3>1 DEF Inductive, FlagIsTrue
  <2> QED BY <1>1, <2>2, <2>3
<1>7. Distinct'
  <2>1. SUFFICES ASSUME NEW j \in 1 .. n + 1, NEW k \in 1 .. n + 1,
                        allocations'[j].address = allocations'[k].address,
                        allocations'[k].address # MapFailed
                 PROVE  j = k
    BY <1>3 DEF Distinct
  <2>2. CASE j \in 1 .. n /\ k \in 1 .. n
    BY <1>1, <1>3, <2>1, <2>2 DEF Inductive, Distinct
  <2>3. CASE j = n + 1 /\ k \in 1 .. n
    BY <1>3, <1>5, <2>1, <2>3
  <2>4. CASE j \in 1 .. n /\ k = n + 1
    BY <1>3, <1>5, <2>1, <2>4
  <2> QED BY <1>1, <2>2, <2>3, <2>4
<1>8. NoLeak'
  <2>1. SUFFICES ASSUME NEW a \in Addresses, access'[a] # "unmapped"
                 PROVE  \E k \in 1 .. n + 1 : allocations'[k].address = a
    BY <1>3, <1>7, <2>1, MemoryAssumption DEF NoLeak, Distinct
  <2>2. CASE a = address
    BY <1>1, <1>3, <2>2
  <2>3. CASE a # address
    <3>1. PICK k \in 1 .. n : allocations[k].address = a
      BY <1>1, <2>1, <2>3 DEF Inductive, NoLeak
    <3> QED BY <1>1, <1>3, <3>1
  <2> QED BY <2>2, <2>3
<1>9. AllFlagged'
  BY <1>1, <1>3 DEF Inductive, AllFlagged, TypeOK
<1> QED BY <1>4, <1>6, <1>7, <1>8, <1>9 DEF Inductive

LEMMA AllocateStep ==
  ASSUME Inductive, ~ poisoned, Allocate
  PROVE  Inductive'
<1> PICK address \in Addresses \cup {MapFailed} :
      AllocateOpen(address) \/ AllocateClosed(address) \/ AllocatePanics(address)
  BY DEF Allocate
<1>1. CASE AllocateOpen(address)
  BY <1>1, PushStep DEF AllocateOpen, Inductive, TypeOK
<1>2. CASE AllocateClosed(address)
  BY <1>2, PushStep DEF AllocateClosed, MayProtect, Inductive, TypeOK
<1>3. CASE AllocatePanics(address)
  <2>1. /\ poisoned' = TRUE /\ UNCHANGED <<allocations, all_protected>>
        /\ access' \in [Addresses -> {"unmapped", "open", "closed"}]
    BY <1>3 DEF AllocatePanics, Panic, Inductive, TypeOK
  <2>2. ASSUME NEW k \in DOMAIN allocations, allocations[k].address # MapFailed
        PROVE  access'[allocations[k].address] = access[allocations[k].address]
    <3>1. allocations[k].address \in Addresses
      BY <2>2, SegmentFacts DEF Inductive
    <3>2. access[allocations[k].address] # "unmapped"
      BY <2>2 DEF Inductive, FlagIsTrue
    <3>3. allocations[k].address # address
      BY <1>3, <2>2, <3>2 DEF AllocatePanics
    <3>4. access' = [a \in Addresses |-> IF a = address THEN "open" ELSE access[a]]
      BY <1>3 DEF AllocatePanics
    <3> QED BY <3>1, <3>3, <3>4
  <2> QED BY <2>1, <2>2
       DEF Inductive, TypeOK, FlagIsTrue, Distinct, NoLeak, AllFlagged
<1> QED BY <1>1, <1>2, <1>3

-----------------------------------------------------------------------------
(***************************************************************************)
(* free and protect of one segment.                                        *)
(***************************************************************************)

LEMMA FreeStep ==
  ASSUME Inductive, ~ poisoned, NEW k \in DOMAIN allocations, Free(k)
  PROVE  Inductive'
<1> DEFINE n == Len(allocations)
           freed == allocations[k].address
           \* where the segment that is now at j was
           old(j) == IF j = k THEN n ELSE j
<1>1. /\ n \in Nat /\ DOMAIN allocations = 1 .. n /\ k \in 1 .. n
      /\ \A j \in 1 .. n : allocations[j] \in Segment
  BY SegmentFacts DEF Inductive
<1>2. /\ freed \in Addresses /\ freed # MapFailed
  BY <1>1 DEF Free, Segment
<1>3. /\ allocations' = [j \in 1 .. n - 1 |-> allocations[old(j)]]
      /\ DOMAIN allocations' = 1 .. n - 1
      /\ access' = [access EXCEPT ![freed] = "unmapped"]
      /\ UNCHANGED <<all_protected, poisoned>>
  BY <1>1 DEF Free, SwapRemove
<1>4. \A j \in 1 .. n - 1 :
        /\ old(j) \in 1 .. n /\ old(j) # k
        /\ allocations'[j] = allocations[old(j)]
  BY <1>1, <1>3
<1>5. \A i, j \in 1 .. n - 1 : old(i) = old(j) => i = j
  BY <1>1
<1>6. \A h \in 1 .. n : h # k => \E j \in 1 .. n - 1 : old(j) = h
  <2>1. SUFFICES ASSUME NEW h \in 1 .. n, h # k
                 PROVE  \E j \in 1 .. n - 1 : old(j) = h
    OBVIOUS
  <2>2. CASE h = n
    <3>1. k \in 1 .. n - 1 /\ old(k) = h
      BY <1>1, <2>1, <2>2
    <3> HIDE DEF old
    <3> QED BY <3>1
  <2>3. CASE h # n
    <3>1. h \in 1 .. n - 1 /\ old(h) = h
      <4>1. n \in Nat
        BY <1>1
      <4>2. old(h) = h
        BY <2>1
      <4> HIDE DEF n, old
      <4>3. h \in 1 .. n - 1
        BY <2>1, <2>3, <4>1
      <4> QED BY <4>2, <4>3
    <3> HIDE DEF old
    <3> QED BY <3>1
  <2> QED BY <2>2, <2>3
<1> HIDE DEF old
<1>7. ASSUME NEW h \in 1 .. n, h # k, allocations[h].address # MapFailed
      PROVE  /\ allocations[h].address # freed
             /\ access'[allocations[h].address] = access[allocations[h].address]
  <2>1. allocations[h].address # freed
    BY <1>1, <1>2, <1>7 DEF Inductive, Distinct
  <2>2. allocations[h].address \in Addresses
    BY <1>1, <1>7 DEF Segment
  <2> QED BY <1>3, <2>1, <2>2 DEF Inductive, TypeOK
<1>8. TypeOK'
  <2>1. allocations' \in Seq(Segment)
    <3>1. \A j \in 1 .. n - 1 : allocations[old(j)] \in Segment
      BY <1>1, <1>4
    <3>2. n - 1 \in Nat
      BY <1>1
    <3>3. allocations' \in [1 .. n - 1 -> Segment]
      BY <1>3, <3>1
    <3> QED BY <3>2, <3>3, SeqDef
  <2>2. access' \in [Addresses -> {"unmapped", "open", "closed"}]
    BY <1>3 DEF Inductive, TypeOK
  <2> QED BY <1>3, <2>1, <2>2 DEF Inductive, TypeOK
<1>9. FlagIsTrue'
  <2>1. SUFFICES ASSUME NEW j \in 1 .. n - 1, allocations'[j].address # MapFailed
                 PROVE  access'[allocations'[j].address]
                          = IF allocations'[j].protected THEN "closed" ELSE "open"
    BY <1>3 DEF FlagIsTrue
  <2>2. access'[allocations'[j].address] = access[allocations[old(j)].address]
    BY <1>4, <1>7, <2>1
  <2> QED BY <1>1, <1>4, <2>1, <2>2 DEF Inductive, FlagIsTrue
<1>10. Distinct'
  <2>1. SUFFICES ASSUME NEW i \in 1 .. n - 1, NEW j \in 1 .. n - 1,
                        allocations'[i].address = allocations'[j].address,
                        allocations'[j].address # MapFailed
                 PROVE  i = j
    BY <1>3 DEF Distinct
  <2>2. old(i) = old(j)
    BY <1>1, <1>4, <2>1 DEF Inductive, Distinct
  <2> QED BY <1>5, <2>2
<1>11. NoLeak'
  <2>1. SUFFICES ASSUME NEW a \in Addresses, access'[a] # "unmapped"
                 PROVE  \E j \in 1 .. n - 1 : allocations'[j].address = a
    <3> DEFINE mapped(a) == access'[a] # "unmapped"
               at(j, a) == allocations'[j].address = a
    <3>1. \A a \in Addresses : mapped(a) => \E j \in 1 .. n - 1 : at(j, a)
      BY <2>1
    <3>2. \A i, j \in 1 .. n - 1 : \A a \in Addresses : at(i, a) /\ at(j, a) => i = j
      BY <1>3, <1>10, MemoryAssumption DEF Distinct
    <3>3. \A a \in Addresses : mapped(a) =>
            \E i \in 1 .. n - 1 : at(i, a) /\ \A j \in 1 .. n - 1 : at(j, a) => j = i
      BY <3>1, <3>2
    <3> QED BY <1>3, <3>3 DEF NoLeak
  <2>2. a # freed /\ access[a] # "unmapped"
    BY <1>2, <1>3, <2>1 DEF Inductive, TypeOK
  <2>3. PICK h \in 1 .. n : allocations[h].address = a
    BY <1>1, <2>2 DEF Inductive, NoLeak
  <2>4. PICK j \in 1 .. n - 1 : old(j) = h
    BY <1>6, <2>2, <2>3
  <2> QED BY <1>4, <2>3, <2>4
<1>12. AllFlagged'
  <2>1. SUFFICES ASSUME ~ poisoned', all_protected', NEW j \in 1 .. n - 1
                 PROVE  allocations'[j].protected
    BY <1>3 DEF AllFlagged
  <2>2. allocations[old(j)].protected
    BY <1>1, <1>3, <1>4, <2>1 DEF Inductive, AllFlagged
  <2> QED BY <1>4, <2>2
<1> QED BY <1>8, <1>9, <1>10, <1>11, <1>12 DEF Inductive

LEMMA ProtectStep ==
  ASSUME Inductive, ~ poisoned, NEW k \in DOMAIN allocations, Protect(k)
  PROVE  Inductive'
<1> DEFINE n == Len(allocations)
           closed == allocations[k].address
<1>1. /\ n \in Nat /\ DOMAIN allocations = 1 .. n /\ k \in 1 .. n
      /\ \A j \in 1 .. n : allocations[j] \in Segment
  BY SegmentFacts DEF Inductive
<1>2. closed \in Addresses /\ closed # MapFailed
  BY <1>1 DEF Protect, MayProtect, Segment
<1>3. /\ allocations' = [allocations EXCEPT ![k].protected = TRUE]
      /\ access' = [access EXCEPT ![closed] = "closed"]
      /\ UNCHANGED <<all_protected, poisoned>>
  BY DEF Protect
<1>4. /\ allocations' \in Seq(Segment) /\ DOMAIN allocations' = 1 .. n
      /\ \A j \in 1 .. n :
           /\ allocations'[j].address = allocations[j].address
           /\ allocations'[j].protected = IF j = k THEN TRUE ELSE allocations[j].protected
  <2>1. [allocations[k] EXCEPT !.protected = TRUE] \in Segment
    BY <1>1 DEF Segment
  <2> QED BY <1>1, <1>3, <2>1 DEF Inductive, TypeOK, Segment
<1>5. ASSUME NEW j \in 1 .. n, j # k, allocations[j].address # MapFailed
      PROVE  access'[allocations[j].address] = access[allocations[j].address]
  <2>1. allocations[j].address # closed /\ allocations[j].address \in Addresses
    BY <1>1, <1>2, <1>5 DEF Inductive, Distinct, Segment
  <2> QED BY <1>3, <2>1 DEF Inductive, TypeOK
<1>6. access'[closed] = "closed"
  BY <1>2, <1>3 DEF Inductive, TypeOK
<1>7. TypeOK'
  BY <1>3, <1>4 DEF Inductive, TypeOK
<1>8. FlagIsTrue'
  <2>1. SUFFICES ASSUME NEW j \in 1 .. n, allocations'[j].address # MapFailed
                 PROVE  access'[allocations'[j].address]
                          = IF allocations'[j].protected THEN "closed" ELSE "open"
    BY <1>4 DEF FlagIsTrue
  <2>2. CASE j = k
    BY <1>4, <1>6, <2>2
  <2>3. CASE j # k
    BY <1>1, <1>4, <1>5, <2>1, <2>3 DEF Inductive, FlagIsTrue
  <2> QED BY <2>2, <2>3
<1>9. Distinct'
  BY <1>1, <1>4 DEF Inductive, Distinct
<1>10. NoLeak'
  <2>1. \A a \in Addresses : access'[a] # "unmapped" => access[a] # "unmapped"
    <3>1. access[closed] # "unmapped"
      BY <1>1, <1>2 DEF Inductive, FlagIsTrue
    <3> QED BY <1>3, <3>1 DEF Inductive, TypeOK
  <2> QED BY <1>1, <1>3, <1>4, <2>1 DEF Inductive, NoLeak
<1>11. AllFlagged'
  BY <1>1, <1>3, <1>4 DEF Inductive, AllFlagged
<1> QED BY <1>7, <1>8, <1>9, <1>10, <1>11 DEF Inductive

LEMMA PointerStep ==
  ASSUME Inductive, ~ poisoned, OfPointer
  PROVE  Inductive'
<1> PICK k \in DOMAIN allocations : Free(k) \/ Protect(k) \/ ProtectPanics(k)
  BY DEF OfPointer
<1>1. CASE Free(k)
  BY <1>1, FreeStep
<1>2. CASE Protect(k)
  BY <1>2, ProtectStep
<1>3. CASE ProtectPanics(k)
  <2>1. poisoned' = TRUE /\ UNCHANGED <<allocations, access, all_protected>>
    BY <1>3 DEF ProtectPanics, Panic
  <2> QED BY <2>1 DEF Inductive, TypeOK, FlagIsTrue, Distinct, NoLeak, AllFlagged
<1> QED BY <1>1, <1>2, <1>3

-----------------------------------------------------------------------------
(***************************************************************************)
(* protect_all and unprotect_all, whole or cut short by a panic.           *)
(***************************************************************************)

LEMMA SetFirstStep ==
  ASSUME Inductive, NEW k \in 0 .. Len(allocations), NEW flag \in BOOLEAN,
         SetFirst(k, flag, IF flag THEN "closed" ELSE "open")
  PROVE  /\ allocations' \in Seq(Segment)
         /\ access' \in [Addresses -> {"unmapped", "open", "closed"}]
         /\ FlagIsTrue' /\ Distinct'
         /\ \A a \in Addresses : access'[a] = "unmapped" <=> access[a] = "unmapped"
         /\ DOMAIN allocations' = 1 .. Len(allocations)
         /\ \A j \in 1 .. Len(allocations) :
              /\ allocations'[j].address = allocations[j].address
              /\ allocations'[j].protected
                   = IF j <= k THEN flag ELSE allocations[j].protected
<1> DEFINE n == Len(allocations)
           pages == IF flag THEN "closed" ELSE "open"
<1>1. /\ n \in Nat /\ DOMAIN allocations = 1 .. n
      /\ \A j \in 1 .. n : allocations[j] \in Segment
  BY SegmentFacts DEF Inductive
<1>2. DOMAIN allocations' = 1 .. n
  BY <1>1 DEF SetFirst
<1>3. \A j \in 1 .. n :
        /\ allocations'[j] \in Segment
        /\ allocations'[j].address = allocations[j].address
        /\ allocations'[j].protected = IF j <= k THEN flag ELSE allocations[j].protected
  BY <1>1 DEF SetFirst, Segment
<1>4. allocations' \in Seq(Segment)
  <2>1. allocations' \in [1 .. n -> Segment]
    BY <1>1, <1>3 DEF SetFirst
  <2> QED BY <1>1, <2>1, SeqDef
<1>5. access' \in [Addresses -> {"unmapped", "open", "closed"}]
  BY DEF SetFirst, Inductive, TypeOK
<1>6. \A a \in Addresses :
        access'[a] = IF \E j \in 1 .. n : j <= k /\ allocations[j].address = a
                     THEN pages ELSE access[a]
  BY <1>1 DEF SetFirst
<1>7. Distinct'
  BY <1>1, <1>2, <1>3 DEF Inductive, Distinct
<1>8. FlagIsTrue'
  <2>1. SUFFICES ASSUME NEW j \in 1 .. n, allocations[j].address # MapFailed
                 PROVE  access'[allocations[j].address]
                          = IF allocations'[j].protected THEN "closed" ELSE "open"
    BY <1>2, <1>3 DEF FlagIsTrue
  <2>2. allocations[j].address \in Addresses
    BY <1>1, <2>1 DEF Segment
  <2>3. CASE j <= k
    <3>1. access'[allocations[j].address] = pages
      BY <1>6, <2>2, <2>3
    <3>2. allocations'[j].protected = flag
      BY <1>3, <2>3
    <3> QED BY <3>1, <3>2
  <2>4. CASE ~ (j <= k)
    <3>1. \A i \in 1 .. n : i <= k => allocations[i].address # allocations[j].address
      BY <1>1, <2>1, <2>4 DEF Inductive, Distinct
    <3>2. access'[allocations[j].address] = access[allocations[j].address]
      BY <1>6, <2>2, <3>1
    <3>3. allocations'[j].protected = allocations[j].protected
      BY <1>3, <2>4
    <3> QED BY <1>1, <2>1, <3>2, <3>3 DEF Inductive, FlagIsTrue
  <2> QED BY <2>3, <2>4
<1>9. \A a \in Addresses : access'[a] = "unmapped" <=> access[a] = "unmapped"
  <2>1. SUFFICES ASSUME NEW a \in Addresses, NEW j \in 1 .. n,
                        j <= k, allocations[j].address = a
                 PROVE  access'[a] # "unmapped" /\ access[a] # "unmapped"
    BY <1>6
  <2>2. access'[a] = pages
    BY <1>6, <2>1
  <2>3. access[a] # "unmapped"
    BY <1>1, <2>1, MemoryAssumption DEF Inductive, FlagIsTrue
  <2> QED BY <2>2, <2>3
<1> QED BY <1>2, <1>3, <1>4, <1>5, <1>7, <1>8, <1>9

\* protect_all and unprotect_all when no mprotect fails.
LEMMA AllStep ==
  ASSUME Inductive, ~ poisoned, NEW flag \in BOOLEAN,
         SetFirst(Len(allocations), flag, IF flag THEN "closed" ELSE "open"),
         all_protected' = flag, poisoned' = poisoned
  PROVE  Inductive'
<1> DEFINE n == Len(allocations)
<1>1. n \in Nat /\ DOMAIN allocations = 1 .. n
  BY SegmentFacts DEF Inductive
<1>2. /\ allocations' \in Seq(Segment)
      /\ access' \in [Addresses -> {"unmapped", "open", "closed"}]
      /\ FlagIsTrue' /\ Distinct'
      /\ \A a \in Addresses : access'[a] = "unmapped" <=> access[a] = "unmapped"
      /\ DOMAIN allocations' = 1 .. n
      /\ \A j \in 1 .. n :
           /\ allocations'[j].address = allocations[j].address
           /\ allocations'[j].protected = IF j <= n THEN flag ELSE allocations[j].protected
  BY <1>1, SetFirstStep
<1>3. NoLeak'
  BY <1>1, <1>2 DEF Inductive, NoLeak
<1>4. AllFlagged'
  <2>1. SUFFICES ASSUME flag, NEW k \in 1 .. n PROVE allocations'[k].protected
    BY <1>2 DEF AllFlagged
  <2>2. allocations'[k].protected = flag
    BY <1>1, <1>2
  <2> QED BY <2>1, <2>2
<1>5. TypeOK'
  BY <1>2 DEF Inductive, TypeOK
<1> QED BY <1>2, <1>3, <1>4, <1>5 DEF Inductive

\* protect_all and unprotect_all when the mprotect of segment k fails.
LEMMA CutShortStep ==
  ASSUME Inductive, NEW k \in DOMAIN allocations, NEW flag \in BOOLEAN,
         SetFirst(k - 1, flag, IF flag THEN "closed" ELSE "open"), Panic
  PROVE  Inductive'
<1>1. k - 1 \in 0 .. Len(allocations)
  BY SegmentFacts DEF Inductive
<1>2. /\ allocations' \in Seq(Segment)
      /\ access' \in [Addresses -> {"unmapped", "open", "closed"}]
      /\ FlagIsTrue' /\ Distinct'
  BY <1>1, SetFirstStep
<1>3. poisoned' = TRUE /\ all_protected' = all_protected
  BY DEF Panic
<1>4. TypeOK'
  BY <1>2, <1>3 DEF Inductive, TypeOK
<1>5. NoLeak' /\ AllFlagged'
  BY <1>3 DEF NoLeak, AllFlagged
<1> QED BY <1>2, <1>4, <1>5 DEF Inductive

LEMMA UnchangedStep ==
  ASSUME Inductive, UNCHANGED memoryVars
  PROVE  Inductive'
BY DEF memoryVars, Inductive, TypeOK, FlagIsTrue, Distinct, NoLeak, AllFlagged

LEMMA OfAllStep ==
  ASSUME Inductive, ~ poisoned, OfAll
  PROVE  Inductive'
<1>1. CASE ProtectAll
  <2>1. CASE all_protected
    BY <1>1, <2>1, UnchangedStep DEF ProtectAll
  <2>2. CASE ~ all_protected
    BY <1>1, <2>2, AllStep DEF ProtectAll
  <2> QED BY <2>1, <2>2
<1>2. CASE ProtectAllPanics
  BY <1>2, CutShortStep DEF ProtectAllPanics
<1>3. CASE UnprotectAll
  BY <1>3, AllStep DEF UnprotectAll
<1>4. CASE UnprotectAllPanics
  BY <1>4, CutShortStep DEF UnprotectAllPanics
<1> QED BY <1>1, <1>2, <1>3, <1>4 DEF OfAll

-----------------------------------------------------------------------------
(***************************************************************************)
(* The theorems.                                                           *)
(***************************************************************************)

\* Every state satisfies the inductive invariant: beside the properties of the
\* runs, segments do not share pages, and a manager that believes that all is
\* protected has every segment flagged.
THEOREM InductiveInvariant == Spec => []Inductive
<1>1. ASSUME Inductive, [Next]_memoryVars PROVE Inductive'
  <2>1. CASE Allocate /\ ~ poisoned
    BY <1>1, <2>1, AllocateStep
  <2>2. CASE OfPointer /\ ~ poisoned
    BY <1>1, <2>2, PointerStep
  <2>3. CASE OfAll /\ ~ poisoned
    BY <1>1, <2>3, OfAllStep
  <2>4. CASE UNCHANGED memoryVars
    BY <1>1, <2>4, UnchangedStep
  <2> QED BY <1>1, <2>1, <2>2, <2>3, <2>4 DEF Next
<1> QED BY <1>1, InitInductive, PTL DEF Spec

\* The types, for any number of addresses and segments.
THEOREM TypeCorrect == Spec => []TypeOK
BY InductiveInvariant, PTL DEF Inductive

\* The flag for which MemorySegment::protect and unprotect skip their mprotect
\* is always true of the pages.
THEOREM FlagsAreTrue == Spec => []FlagIsTrue
BY InductiveInvariant, PTL DEF Inductive

\* No mapping is lost and none belongs to two segments.
THEOREM NothingLeaks == Spec => []NoLeak
BY InductiveInvariant, PTL DEF Inductive

\* protect_all returns early only when no page is open.
THEOREM SkippingIsSound == Spec => []AllProtectedIsTrue
<1>1. ASSUME Inductive PROVE AllProtectedIsTrue
  <2>1. SUFFICES ASSUME ~ poisoned, all_protected, NEW a \in Addresses, access[a] = "open"
                 PROVE  FALSE
    BY DEF AllProtectedIsTrue
  <2>2. PICK k \in DOMAIN allocations : allocations[k].address = a
    BY <1>1, <2>1 DEF Inductive, NoLeak
  <2>3. allocations[k].protected
    BY <1>1, <2>1, <2>2 DEF Inductive, AllFlagged
  <2>4. access[a] = "closed"
    BY <1>1, <2>2, <2>3, MemoryAssumption DEF Inductive, FlagIsTrue
  <2> QED BY <2>1, <2>4
<1> QED BY <1>1, InductiveInvariant, PTL

\* The pages of the library are opened together or not at all.
THEOREM OpenedTogether == Spec => OpensAll
<1> DEFINE Opens == \E a \in Addresses : access[a] = "closed" /\ access'[a] = "open"
           NoneClosed == \A a \in Addresses : access'[a] # "closed"
<1>1. ASSUME Inductive, Next, Opens PROVE poisoned' \/ NoneClosed
  <2>1. PICK a \in Addresses : access[a] = "closed" /\ access'[a] = "open"
    BY <1>1
  <2>2. CASE Allocate
    <3>1. PICK address \in Addresses \cup {MapFailed} :
            AllocateOpen(address) \/ AllocateClosed(address) \/ AllocatePanics(address)
      BY <2>2 DEF Allocate
    <3>2. a # address
      BY <2>1, <3>1, MemoryAssumption
      DEF AllocateOpen, AllocateClosed, AllocatePanics, MayProtect
    <3>3. access'[a] = access[a]
      BY <1>1, <3>1, <3>2
      DEF AllocateOpen, AllocateClosed, AllocatePanics, Inductive, TypeOK
    <3> QED BY <2>1, <3>3
  <2>3. CASE OfPointer
    BY <1>1, <2>1, <2>3
    DEF OfPointer, Free, Protect, ProtectPanics, Inductive, TypeOK
  <2>4. CASE OfAll /\ ~ UnprotectAll
    <3>1. access'[a] \in {access[a], "closed"} \/ poisoned' = TRUE
      BY <2>1, <2>4 DEF OfAll, ProtectAll, ProtectAllPanics, UnprotectAllPanics,
                    SetFirst, Panic, memoryVars
    <3> QED BY <2>1, <3>1
  <2>5. CASE UnprotectAll /\ ~ poisoned
    <3>1. SetFirst(Len(allocations), FALSE, "open") /\ DOMAIN allocations = 1 .. Len(allocations)
      BY <1>1, <2>5, SegmentFacts DEF UnprotectAll, Inductive
    <3>2. SUFFICES ASSUME NEW b \in Addresses, access'[b] = "closed" PROVE FALSE
      OBVIOUS
    <3>3. CASE access[b] = "unmapped"
      BY <3>1, <3>2, <3>3 DEF SetFirst
    <3>4. CASE access[b] # "unmapped"
      <4>1. PICK k \in 1 .. Len(allocations) : allocations[k].address = b
        BY <1>1, <2>5, <3>1, <3>4 DEF Inductive, NoLeak
      <4>2. access'[b] = "open"
        BY <1>1, <3>1, <4>1, SegmentFacts DEF SetFirst, Inductive
      <4> QED BY <3>2, <4>2
    <3> QED BY <3>3, <3>4
  <2>6. CASE UNCHANGED memoryVars
    BY <2>1, <2>6 DEF memoryVars
  <2> QED BY <1>1, <2>2, <2>3, <2>4, <2>5, <2>6 DEF Next
<1>2. ASSUME Inductive, [Next]_memoryVars
      PROVE  [Opens => poisoned' \/ NoneClosed]_memoryVars
  BY <1>1, <1>2
<1> QED BY <1>2, InductiveInvariant, PTL DEF Spec, OpensAll

=============================================================================
