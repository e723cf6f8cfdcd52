--------------------------- MODULE PipelineProofs ---------------------------
(***************************************************************************)
(* What the inference of LogicalPlan does: types stay, the links of a call *)
(* agree or it begins a pipeline, and the pipelines run children first and *)
(* the roots in order. Pipelines break at results of children only.        *)
(* Every step is one nearer to a return, unless nothing is passed.         *)
(***************************************************************************)
EXTENDS LogicalPlanProofs, FiniteSetTheorems

-----------------------------------------------------------------------------
(***************************************************************************)
(* Types stay.                                                             *)
(***************************************************************************)

\* The types of call k are what they were, or have become so.
Stays(k) ==
  \A i \in DOMAIN types[k] :
    types[k][i] # None => types'[k][i] # None /\ types'[k][i][1] = types[k][i][1]

LEMMA SyncStays ==
  ASSUME TypeInv, NEW l \in links, Sync(l), NEW j \in Calls
  PROVE  Stays(j)
<1>1. pc = "sync" /\ LinksOK /\ TypeOK /\ stack # <<>> /\ stack \in Seq(Calls) /\ DOMAIN types = Calls
  BY PlanFacts DEF Sync, TypeInv, StagesOK, TypeOK
<1>2. PICK k \in Calls : k = Head(stack)
  BY <1>1, HeadAndTail
<1>3. l[1] \in DOMAIN types[k] /\ l[2] \in Calls /\ l[3] \in DOMAIN types[l[2]]
  BY <1>1, <1>2 DEF LinksOK, IsLink
<1>4. \/ types[k][l[1]] = None /\ types' = [types EXCEPT ![k][l[1]] = Its(l)]
      \/ types[l[2]][l[3]] = None /\ types' = [types EXCEPT ![l[2]][l[3]] = Mine(l)]
      \/ types' = types
  BY <1>2 DEF Sync, Mine, Its
<1> QED BY <1>1, <1>3, <1>4 DEF Stays

LEMMA MarkedStays ==
  ASSUME TypeInv, NEW k \in Calls, types' = [types EXCEPT ![k] = Marked(k)], NEW j \in Calls
  PROVE  Stays(j)
<1>1. DOMAIN types = Calls /\ types[k] \in Seq(InferredTypes)
  BY PlanFacts DEF TypeInv
<1>2. CASE j # k
  BY <1>1, <1>2 DEF Stays
<1>3. CASE j = k
  <2> SUFFICES ASSUME NEW i \in DOMAIN types[k], types[k][i] # None
               PROVE  Marked(k)[i] # None /\ Marked(k)[i][1] = types[k][i][1]
    BY <1>1, <1>3 DEF Stays
  <2>1. types[k][i][1] \in Types
    <3>1. types[k][i] \in InferredTypes
      BY <1>1
    <3> QED BY <3>1 DEF InferredTypes
  <2>2. \A mark \in {"merged", "kept"} : <<types[k][i][1], mark>> # None
    BY <2>1, SignatureAssumption
  <2>3. \/ Marked(k)[i] = types[k][i]
        \/ Marked(k)[i] = <<types[k][i][1], "merged">>
        \/ Marked(k)[i] = <<types[k][i][1], "kept">>
    BY DEF Marked
  <2> QED BY <2>2, <2>3
<1> QED BY <1>2, <1>3

LEMMA RangedStays ==
  ASSUME TypeInv, RunRaises, NEW j \in Calls
  PROVE  Stays(j) /\ DOMAIN types'[j] = DOMAIN types[j]
<1>1. PICK here : types' = [k \in Calls |-> RangedIn(here, k)]
  BY DEF RunRaises, RangedIn
<1>2. types[j] \in Seq(InferredTypes) /\ DOMAIN types = Calls
  BY PlanFacts DEF TypeInv
<1>3. CASE pipeline[j] \notin here
  BY <1>1, <1>2, <1>3 DEF RangedIn, Stays
<1>4. CASE pipeline[j] \in here
  <2>1. types'[j] = Ranged(j) /\ DOMAIN Ranged(j) = DOMAIN types[j]
    BY <1>1, <1>4, RangedFacts DEF RangedIn, TypeInv
  <2>2. ASSUME NEW i \in DOMAIN types[j], types[j][i] # None
        PROVE  Ranged(j)[i] # None /\ Ranged(j)[i][1] = types[j][i][1]
    <3>1. types[j][i][1] \in Types
      <4>1. types[j][i] \in InferredTypes
        BY <1>2
      <4> QED BY <4>1, <2>2 DEF InferredTypes
    <3>2. <<types[j][i][1], "ranged">> # None
      BY <3>1, SignatureAssumption
    <3>3. Ranged(j)[i] = types[j][i] \/ Ranged(j)[i] = <<types[j][i][1], "ranged">>
      BY DEF Ranged
    <3> QED BY <2>2, <3>2, <3>3
  <2> QED BY <2>1, <2>2 DEF Stays
<1> QED BY <1>3, <1>4

\* infer_types goes on until a pass changes nothing (dag.py:325-332): it never
\* takes back a type, and neither does an evaluation that raised.
THEOREM TypesAreKept == Spec => TypesStay
<1>1. TypeInv /\ [Next]_vars =>
        [\A k \in Calls : \A i \in DOMAIN types[k] :
           types[k][i] # None /\ calls' # <<>> =>
             types'[k][i] # None /\ types'[k][i][1] = types[k][i][1]]_vars
  <2> SUFFICES ASSUME TypeInv, Next, calls' # <<>>, NEW k \in Calls PROVE Stays(k)
    BY DEF Stays
  <2>1. CASE UNCHANGED types
    BY <2>1 DEF Stays
  <2>2. ASSUME NEW f \in Functions, NEW args \in Arguments(f), Register(f, args) PROVE Stays(k)
    <3>1. PICK t : types' = Append(types, t)
      BY <2>2 DEF Register
    <3>2. types \in Seq(Seq(InferredTypes)) /\ k \in 1 .. Len(types)
      BY DEF TypeInv, TypeOK, Calls
    <3>3. types'[k] = types[k]
      BY <3>1, <3>2
    <3> QED BY <3>3 DEF Stays
  <2>3. ASSUME NEW l \in links, Sync(l) PROVE Stays(k)
    BY <2>3, SyncStays
  <2>4. ASSUME NEW j \in Calls, Construct(j) \/ ConstructRaises(j) PROVE Stays(k)
    BY <2>1, <2>4, MarkedStays DEF Construct, ConstructRaises
  <2>5. ASSUME Evaluate \/ Step, \A l \in links : ~ Sync(l),
               \A j \in Calls : ~ Construct(j) /\ ~ ConstructRaises(j), ~ RunRaises
        PROVE  UNCHANGED types
    <3>1. CASE Evaluate \/ Wire \/ Wired \/ NextRoot \/ Descend \/ Join \/ InferAgain \/ Inferred
               \/ Finalized \/ Built
      BY <3>1 DEF Evaluate, Wire, Wired, NextRoot, Descend, Join, InferAgain, Inferred,
                  Finalized, Built, inferred
    <3>2. CASE \E l \in links : Break(l)
      BY <3>2 DEF Break
    <3>3. CASE \E j \in Calls : Infer(j) \/ RunCall(j)
      BY <3>3 DEF Infer, RunCall, inferred
    <3>4. CASE Finalize
      BY <3>4 DEF Finalize, inferred
    <3>5. ~ Clear
      BY DEF Clear
    <3> QED BY <2>5, <3>1, <3>2, <3>3, <3>4, <3>5 DEF Step
  <2>6. CASE RunRaises
    BY <2>6, RangedStays
  <2> QED BY <2>1, <2>2, <2>3, <2>4, <2>5, <2>6 DEF Next
<1> QED BY <1>1, TypesHold, PTL DEF Spec, TypesStay

-----------------------------------------------------------------------------
(***************************************************************************)
(* What is below what.                                                     *)
(***************************************************************************)

LEMMA BelowSelf ==
  ASSUME NEW r \in Calls
  PROVE  r \in Below({r})
  BY DEF Below

LEMMA BelowChild ==
  ASSUME NEW r, NEW v \in Below({r}), NEW c \in Children(v), c \in Calls
  PROVE  c \in Below({r})
  BY DEF Below, Closed

\* What is below a call is in a closed set that has the call.
LEMMA BelowIn ==
  ASSUME NEW r, NEW C \in SUBSET Calls, r \in C, \A k \in C : Children(k) \subseteq C
  PROVE  Below({r}) \subseteq C
  BY DEF Below, Closed

\* Every call is below some root.
LEMMA BelowSome ==
  ASSUME TypeInv, WireInv, pc # "wire", NEW v \in Calls
  PROVE  \E r \in roots : v \in Below({r})
<1> DEFINE C == UNION {Below({r}) : r \in roots}
<1>1. \A k \in Calls : Children(k) \subseteq Calls
  BY PlanFacts DEF TypeInv
<1>2. C \in SUBSET Calls
  BY DEF Below
<1>3. Closed(C)
  <2> SUFFICES ASSUME NEW r \in roots, NEW k \in Below({r}), NEW c \in Children(k)
               PROVE  c \in Below({r})
    BY DEF Closed
  <2>1. c \in Calls
    BY <1>1 DEF Below
  <2> QED BY <2>1, BelowChild
<1>4. roots \subseteq C
  <2>1. roots \subseteq Calls
    BY DEF TypeInv, TypeOK
  <2> QED BY <2>1, BelowSelf
<1>5. v \in C
  <2>1. Old = Calls
    BY DEF Old
  <2> HIDE DEF C
  <2> QED BY <2>1, <1>2, <1>3, <1>4 DEF WireInv, RootsAbove
<1> QED BY <1>5

\* Nothing is below other calls while the plan is as it is.
LEMMA PlanSame ==
  ASSUME UNCHANGED <<calls, roots>>
  PROVE  /\ Calls' = Calls /\ \A k : Children(k)' = Children(k)
         /\ \A S : Below(S)' = Below(S)
         /\ NothingShared' <=> NothingShared
<1>1. Calls' = Calls /\ \A k : Children(k)' = Children(k)
  BY DEF Calls, Children
<1>2. \A C : Closed(C)' <=> Closed(C)
  BY <1>1 DEF Closed
<1>3. \A S : Below(S)' = Below(S)
  BY <1>1, <1>2 DEF Below
<1> QED BY <1>1, <1>3 DEF NothingShared

-----------------------------------------------------------------------------
(***************************************************************************)
(* The passes of the inference.                                            *)
(***************************************************************************)

\* The children of a call are of its pipeline or of earlier ones.
Ordered(v) == \A c \in Children(v) : pipeline[c] <= pipeline[v]
Above(v)   == \A c \in Children(v) : pipeline[c] < pipeline[v]

\* The link of a call agrees, as all of them do.
AgreesOn(v, l) == types[v][l[1]] = types[l[2]][l[3]]
LinksHold(v)   == \A l \in Links(v) : AgreesOn(v, l)

\* A call that was visited in a pass that changed nothing.
Fine(v) == Ordered(v) /\ (~ changed => LinksHold(v) \/ Above(v))

\* The interpreter is inside of ever lower calls, which it did not visit yet.
Inside ==
  /\ \A i, h \in DOMAIN stack : i < h => stack[i] < stack[h]
  /\ Range(stack) \cap visited = {}

\* What is visited below the root that is walked.
Visited ==
  \A v \in visited : Children(v) \subseteq visited /\ Fine(v) /\ pipeline[v] <= current

\* The walk is below one root; the calls below those before it are fine.
Walked ==
  \/ todo = roots /\ visited = {} /\ stack = <<>>
  \/ \E cur \in roots \ todo :
       /\ cur \in visited \cup Range(stack)
       /\ visited \cup Range(stack) \subseteq Below({cur})
       /\ \A r \in roots \ todo : r # cur => \A v \in Below({r}) : Fine(v)

\* The links of the call that is visited are synced so far.
Synced ==
  pc = "sync" =>
    /\ Children(Head(stack)) \subseteq visited
    /\ ~ changed => \A l \in Links(Head(stack)) \ links : AgreesOn(Head(stack), l)

PassInv == pc \in {"infer", "sync"} /\ NothingShared => Inside /\ Visited /\ Walked /\ Synced

\* A call is fine as long as nothing it is about changes.
LEMMA FineSame ==
  ASSUME NEW v, Fine(v), UNCHANGED <<calls, types, generic>>, changed' = changed,
         pipeline'[v] = pipeline[v], \A c \in Children(v) : pipeline'[c] = pipeline[c]
  PROVE  Fine(v)'
<1>1. Children(v)' = Children(v) /\ Links(v)' = Links(v)
  BY DEF Children, Links, ArgLinks, InnerLinks, Arity, Result
<1>2. LinksHold(v)' <=> LinksHold(v)
  BY <1>1 DEF LinksHold, AgreesOn
<1> QED BY <1>1, <1>2 DEF Fine, Ordered, Above

\* A pass begins.
LEMMA BeginPass ==
  ASSUME TypeInv, Evaluate \/ InferAgain
  PROVE  PassInv'
<1>1. stack' = <<>> /\ todo' = roots /\ UNCHANGED roots /\ visited' = {} /\ pc' = "infer"
  BY DEF Evaluate, InferAgain, WalkEnds, plan, TypeInv, StagesOK
<1>2. Inside'
  BY <1>1 DEF Inside, Range
<1> QED BY <1>1, <1>2 DEF PassInv, Visited, Walked, Synced

\* Below a root whose walk is over all is fine.
LEMMA RootsFine ==
  ASSUME TypeInv, Visited, Walked, stack = <<>>, NEW r \in roots \ todo, NEW v \in Below({r})
  PROVE  Fine(v)
<1>1. PICK cur \in roots \ todo :
        /\ cur \in visited \cup Range(stack)
        /\ \A q \in roots \ todo : q # cur => \A w \in Below({q}) : Fine(w)
  BY DEF Walked
<1>2. cur \in visited /\ visited \in SUBSET Calls
  BY <1>1 DEF Range, TypeInv, TypeOK
<1>3. Below({cur}) \subseteq visited
  BY <1>2, BelowIn DEF Visited
<1> QED BY <1>1, <1>3 DEF Visited

LEMMA NextRootPass ==
  ASSUME TypeInv, PassInv, NextRoot, pc = "infer"
  PROVE  PassInv'
<1> SUFFICES ASSUME NothingShared' PROVE Inside' /\ Visited' /\ Walked' /\ Synced'
  BY DEF PassInv
<1>1. /\ stack = <<>> /\ visited' = {} /\ pc' = "infer"
      /\ UNCHANGED <<calls, roots, types, generic, pipeline, changed>>
  BY DEF NextRoot, plan, inferred
<1>2. PICK m \in roots : m \in todo /\ m \in Calls /\ stack' = <<m>> /\ todo' = todo \ {m}
  <2>1. todo \subseteq roots /\ roots \subseteq Calls /\ Calls \subseteq Nat /\ todo # {}
    BY PlanFacts DEF TypeInv, TypeOK, NextRoot
  <2>2. Min(todo) \in todo
    BY <2>1, MinInSet
  <2> QED BY <2>1, <2>2 DEF NextRoot
<1>3. /\ \A S : Below(S)' = Below(S)
      /\ \A k : Children(k)' = Children(k)
      /\ NothingShared
  BY <1>1, PlanSame
<1>4. Visited /\ Walked
  BY <1>1, <1>3 DEF PassInv, NextRoot
<1>5. DOMAIN stack' = {1} /\ Range(stack') = {m}
  BY <1>2 DEF Range
<1>6. Inside'
  BY <1>1, <1>5 DEF Inside
<1>7. Walked'
  <2>1. m \in roots' \ todo' /\ {m} \subseteq Below({m})'
    BY <1>1, <1>2, <1>3, BelowSelf
  <2>2. ASSUME NEW r \in roots \ todo', r # m, NEW v \in Below({r}) PROVE Fine(v)'
    <3>1. Fine(v)
      BY <1>1, <1>2, <1>4, <2>2, RootsFine
    <3> QED BY <3>1, <1>1, FineSame
  <2> QED BY <2>1, <2>2, <1>1, <1>3, <1>5 DEF Walked
<1> QED BY <1>1, <1>6, <1>7 DEF Visited, Synced

\* The head of the stack is below the root that is walked.
LEMMA HeadFacts ==
  ASSUME TypeInv, Inside, stack # <<>>
  PROVE  /\ Head(stack) \in Calls /\ Head(stack) \in Range(stack)
         /\ Head(stack) \notin visited
         /\ stack \in Seq(Calls) /\ Tail(stack) \in Seq(Calls)
         /\ Range(stack) = {Head(stack)} \cup Range(Tail(stack))
         /\ Len(stack) \in Nat /\ Len(stack) >= 1
         /\ DOMAIN stack = 1 .. Len(stack) /\ stack[1] = Head(stack)
<1>1. stack \in Seq(Calls)
  BY DEF TypeInv, TypeOK
<1>2. /\ Head(stack) \in Calls /\ Tail(stack) \in Seq(Calls)
      /\ Range(stack) = {Head(stack)} \cup Range(Tail(stack))
  BY <1>1, HeadAndTail
<1>3. /\ Len(stack) \in Nat /\ Len(stack) >= 1
      /\ DOMAIN stack = 1 .. Len(stack) /\ stack[1] = Head(stack)
  BY <1>1
<1> QED BY <1>1, <1>2, <1>3 DEF Inside

LEMMA DescendPass ==
  ASSUME TypeInv, PassInv, Descend, pc = "infer"
  PROVE  PassInv'
<1> SUFFICES ASSUME NothingShared' PROVE Inside' /\ Visited' /\ Walked' /\ Synced'
  BY DEF PassInv
<1>1. /\ stack # <<>> /\ pc' = "infer"
      /\ UNCHANGED <<calls, roots, types, generic, pipeline, changed, current, visited, todo>>
  BY DEF Descend, plan, inferred
<1>2. /\ \A S : Below(S)' = Below(S)
      /\ \A k : Children(k)' = Children(k)
      /\ NothingShared
  BY <1>1, PlanSame
<1>3. Inside /\ Visited /\ Walked
  BY <1>1, <1>2 DEF PassInv, Descend
<1>4. PICK k \in Calls : k = Head(stack)
  BY <1>1, <1>3, HeadFacts
<1>5. PICK c \in Children(k) : c \notin visited /\ stack' = <<c>> \o stack /\ c \in Calls /\ c < k
  <2>1. PICK i \in DOMAIN calls[k].children :
          calls[k].children[i] \notin visited /\ stack' = <<calls[k].children[i]>> \o stack
    BY <1>4 DEF Descend
  <2>2. calls[k].children[i] \in Children(k)
    BY DEF Children, Range
  <2>3. Children(k) \subseteq Calls /\ Children(k) \subseteq 1 .. k - 1 /\ k \in Nat
    BY PlanFacts DEF TypeInv, TypeOK
  <2> QED BY <2>1, <2>2, <2>3
<1>6. /\ Len(stack) \in Nat /\ stack \in Seq(Calls) /\ stack[1] = k /\ DOMAIN stack = 1 .. Len(stack)
      /\ Calls \subseteq Nat
  BY <1>1, <1>3, <1>4, HeadFacts, PlanFacts DEF TypeInv
<1>7. /\ DOMAIN stack' = 1 .. Len(stack) + 1 /\ stack'[1] = c
      /\ \A i \in 2 .. Len(stack) + 1 : stack'[i] = stack[i - 1]
  <2>1. <<c>> \in Seq(Calls) /\ Len(<<c>>) = 1 /\ <<c>>[1] = c
    BY <1>5
  <2>2. PICK s \in Seq(Calls) : s = <<c>> /\ Len(s) = 1 /\ s[1] = c
    BY <2>1
  <2>3. /\ Len(s \o stack) = 1 + Len(stack) /\ s \o stack \in Seq(Calls)
        /\ \A i \in 1 .. 1 + Len(stack) : (s \o stack)[i] = IF i <= 1 THEN s[i] ELSE stack[i - 1]
    BY <2>2, <1>6
  <2>4. stack' = s \o stack /\ DOMAIN (s \o stack) = 1 .. Len(stack) + 1
    BY <2>2, <2>3, <1>5, <1>6
  <2> QED BY <2>2, <2>3, <2>4, <1>6
<1>8. Range(stack') = {c} \cup Range(stack)
  <2>1. <<c>> \in Seq(Calls) /\ Range(<<c>>) = {c}
    BY <1>5 DEF Range
  <2>2. PICK s \in Seq(Calls) : s = <<c>> /\ Range(s) = {c}
    BY <2>1
  <2>3. Range(s \o stack) = Range(s) \cup Range(stack)
    BY <1>6, ConcatRange
  <2> QED BY <2>2, <2>3, <1>5, Zenon
<1>9. Inside'
  <2>1. ASSUME NEW i \in 1 .. Len(stack) + 1, NEW h \in 1 .. Len(stack) + 1, i < h
        PROVE  stack'[i] < stack'[h]
    <3>1. stack'[h] = stack[h - 1] /\ h - 1 \in 1 .. Len(stack)
      BY <1>6, <1>7, <2>1
    <3>2. \A a, b \in 1 .. Len(stack) : a < b => stack[a] < stack[b]
      BY <1>3, <1>6 DEF Inside
    <3>3. CASE i = 1
      <4>1. stack[h - 1] \in Calls /\ (h - 1 = 1 \/ k < stack[h - 1])
        BY <3>1, <3>2, <1>6
      <4>2. stack[h - 1] \in Nat /\ k \in Nat /\ c \in Nat
        BY <4>1, <1>4, <1>5, <1>6
      <4>3. k <= stack[h - 1]
        BY <4>1, <4>2, <1>6
      <4> QED BY <3>1, <3>3, <4>2, <4>3, <1>5, <1>7
    <3>4. CASE i # 1
      <4>1. stack'[i] = stack[i - 1] /\ i - 1 \in 1 .. Len(stack) /\ i - 1 < h - 1
        BY <1>6, <1>7, <2>1, <3>4
      <4> QED BY <3>1, <3>2, <4>1
    <3> QED BY <3>3, <3>4
  <2>2. Range(stack') \cap visited' = {}
    BY <1>1, <1>3, <1>5, <1>8 DEF Inside
  <2> QED BY <2>1, <2>2, <1>7 DEF Inside
<1>10. \A v : Fine(v) => Fine(v)'
  BY <1>1, FineSame
<1>11. Visited'
  BY <1>1, <1>2, <1>3, <1>10 DEF Visited
<1>12. Walked'
  <2>1. PICK cur \in roots \ todo :
          /\ cur \in visited \cup Range(stack)
          /\ visited \cup Range(stack) \subseteq Below({cur})
          /\ \A r \in roots \ todo : r # cur => \A v \in Below({r}) : Fine(v)
    BY <1>1, <1>3 DEF Walked
  <2>2. c \in Below({cur})
    <3>1. k \in Below({cur})
      BY <2>1, <1>1, <1>3, <1>4, HeadFacts
    <3> QED BY <3>1, <1>5, BelowChild
  <2> QED BY <2>1, <2>2, <1>1, <1>2, <1>8, <1>10 DEF Walked
<1> QED BY <1>1, <1>9, <1>11, <1>12 DEF Synced

LEMMA InferPass ==
  ASSUME TypeInv, PassInv, NEW k \in Calls, Infer(k)
  PROVE  PassInv'
<1> SUFFICES ASSUME NothingShared' PROVE Inside' /\ Visited' /\ Walked' /\ Synced'
  BY DEF PassInv
<1>1. /\ pc = "infer" /\ pc' = "sync" /\ k = Head(stack) /\ Children(k) \subseteq visited
      /\ links' = Links(k)
      /\ UNCHANGED <<calls, roots, types, generic, pipeline, changed, current, visited, todo, stack>>
  BY DEF Infer, CanVisit, plan, walk
<1>2. /\ \A S : Below(S)' = Below(S)
      /\ \A j : Children(j)' = Children(j)
      /\ NothingShared
  BY <1>1, PlanSame
<1>3. Inside /\ Visited /\ Walked
  BY <1>1, <1>2 DEF PassInv
<1>4. \A v : Fine(v) => Fine(v)'
  BY <1>1, FineSame
<1>5. Inside'
  BY <1>1, <1>3 DEF Inside
<1>6. Visited'
  BY <1>1, <1>2, <1>3, <1>4 DEF Visited
<1>7. Walked'
  BY <1>1, <1>2, <1>3, <1>4 DEF Walked
<1>8. Links(k)' = Links(k)
  BY <1>1, <1>2 DEF Links, ArgLinks, InnerLinks, Arity, Result
<1> QED BY <1>1, <1>2, <1>5, <1>6, <1>7, <1>8 DEF Synced

LEMMA SyncPass ==
  ASSUME TypeInv, PassInv, NEW l \in links, Sync(l)
  PROVE  PassInv'
<1> SUFFICES ASSUME NothingShared' PROVE Inside' /\ Visited' /\ Walked' /\ Synced'
  BY DEF PassInv
<1>1. /\ pc = "sync" /\ pc' = "sync" /\ links' = links \ {l}
      /\ UNCHANGED <<calls, roots, generic, pipeline, current, visited, todo, stack>>
      /\ changed' = TRUE \/ (types' = types /\ changed' = changed /\ Mine(l) = Its(l))
  BY DEF Sync, plan, walk
<1>2. /\ \A S : Below(S)' = Below(S)
      /\ \A j : Children(j)' = Children(j)
      /\ NothingShared
  BY <1>1, PlanSame
<1>3. Inside /\ Visited /\ Walked /\ Synced
  BY <1>1, <1>2 DEF PassInv
<1>4. \A v : Fine(v) => Fine(v)'
  <2>1. CASE changed' = TRUE
    BY <2>1, <1>1, <1>2 DEF Fine, Ordered
  <2>2. CASE types' = types /\ changed' = changed
    BY <2>2, <1>1, FineSame
  <2> QED BY <2>1, <2>2, <1>1
<1>5. Inside'
  BY <1>1, <1>3 DEF Inside
<1>6. Visited'
  BY <1>1, <1>2, <1>3, <1>4 DEF Visited
<1>7. Walked'
  BY <1>1, <1>2, <1>3, <1>4 DEF Walked
<1>8. Synced'
  <2>1. CASE changed' = TRUE
    BY <2>1, <1>1, <1>2, <1>3 DEF Synced
  <2>2. CASE types' = types /\ changed' = changed /\ Mine(l) = Its(l)
    <3>1. PICK k : k = Head(stack) /\ k = Head(stack')
      BY <1>1
    <3>2. Links(k)' = Links(k)
      BY <2>2, <1>1, <1>2 DEF Links, ArgLinks, InnerLinks, Arity, Result
    <3>3. AgreesOn(k, l)
      BY <2>2, <3>1 DEF AgreesOn, Mine, Its
    <3>4. \A m : AgreesOn(k, m)' <=> AgreesOn(k, m)
      BY <2>2 DEF AgreesOn
    <3> QED BY <2>2, <3>1, <3>2, <3>3, <3>4, <1>1, <1>2, <1>3 DEF Synced
  <2> QED BY <2>1, <2>2, <1>1
<1> QED BY <1>5, <1>6, <1>7, <1>8

\* What a call is lower than is not it.
LEMMA TailFacts ==
  ASSUME TypeInv, Inside, stack # <<>>
  PROVE  /\ Head(stack) \notin Range(Tail(stack))
         /\ \A i, h \in DOMAIN Tail(stack) : i < h => Tail(stack)[i] < Tail(stack)[h]
<1>1. /\ stack \in Seq(Calls) /\ Len(stack) \in Nat /\ Len(stack) >= 1
      /\ DOMAIN stack = 1 .. Len(stack) /\ stack[1] = Head(stack) /\ Calls \subseteq Nat
      /\ Head(stack) \in Nat
  BY HeadFacts, PlanFacts DEF TypeInv
<1>2. /\ DOMAIN Tail(stack) = 1 .. Len(stack) - 1
      /\ \A i \in 1 .. Len(stack) - 1 : Tail(stack)[i] = stack[i + 1]
  BY <1>1
<1>3. \A i, h \in 1 .. Len(stack) : i < h => stack[i] < stack[h]
  BY <1>1 DEF Inside
<1>4. ASSUME NEW i \in 1 .. Len(stack) - 1 PROVE Tail(stack)[i] # Head(stack)
  <2>1. 1 \in 1 .. Len(stack) /\ i + 1 \in 1 .. Len(stack) /\ 1 < i + 1
    BY <1>1
  <2>2. stack[1] < stack[i + 1]
    BY <2>1, <1>3
  <2> QED BY <2>1, <2>2, <1>1, <1>2
<1>5. Head(stack) \notin Range(Tail(stack))
  BY <1>2, <1>4 DEF Range
<1>6. ASSUME NEW i \in 1 .. Len(stack) - 1, NEW h \in 1 .. Len(stack) - 1, i < h
      PROVE  Tail(stack)[i] < Tail(stack)[h]
  <2>1. i + 1 \in 1 .. Len(stack) /\ h + 1 \in 1 .. Len(stack) /\ i + 1 < h + 1
    BY <1>1, <1>6
  <2> QED BY <2>1, <1>2, <1>3
<1> QED BY <1>2, <1>5, <1>6

\* A call is visited last of what it is above, so that its pipeline is no
\* earlier than theirs; what was visited, or is below other roots, keeps its own.
LEMMA VisitPass ==
  ASSUME TypeInv, PassInv, Join \/ \E l \in links : Break(l)
  PROVE  PassInv'
<1> SUFFICES ASSUME NothingShared' PROVE Inside' /\ Visited' /\ Walked' /\ Synced'
  BY DEF PassInv
<1>1. /\ pc = "sync" /\ pc' = "infer" /\ stack # <<>>
      /\ UNCHANGED <<calls, roots, types, generic, changed, todo>>
      /\ stack' = Tail(stack) /\ visited' = visited \cup {Head(stack)}
      /\ pipeline' = [pipeline EXCEPT ![Head(stack)] = current']
      /\ (current' = current /\ links = {}) \/ current' = current + 1
  BY DEF Join, Break, Visit, plan, TypeInv, StagesOK
<1>2. /\ \A S : Below(S)' = Below(S)
      /\ \A j : Children(j)' = Children(j)
      /\ NothingShared
  BY <1>1, PlanSame
<1>3. Inside /\ Visited /\ Walked /\ Synced
  BY <1>1, <1>2 DEF PassInv
<1>4. PICK k \in Calls : k = Head(stack)
  BY <1>1, <1>3, HeadFacts
<1>5. /\ k \notin visited /\ Range(stack) = {k} \cup Range(stack') /\ k \in Range(stack)
      /\ DOMAIN pipeline = Calls /\ current \in Nat /\ visited \subseteq Calls
      /\ \A c \in Calls : pipeline[c] \in Nat
      /\ Children(k) \subseteq visited /\ Children(k) \subseteq Calls /\ k \notin Children(k)
      /\ \A j \in Calls : Children(j) \subseteq Calls
  <2>1. k \notin visited /\ Range(stack) = {k} \cup Range(stack') /\ k \in Range(stack)
    BY <1>1, <1>3, <1>4, HeadFacts
  <2>2. k \notin Children(k)
    BY <1>4 DEF TypeInv, TypeOK
  <2>3. Children(k) \subseteq visited
    BY <1>1, <1>3, <1>4 DEF Synced
  <2> QED BY <2>1, <2>2, <2>3, PlanFacts DEF TypeInv, TypeOK
<1>6. \A c \in Calls : pipeline'[c] = IF c = k THEN current' ELSE pipeline[c]
  BY <1>1, <1>4, <1>5
<1>7. current' \in Nat /\ current <= current'
  BY <1>1, <1>5
<1>8. ASSUME NEW v \in Calls, Fine(v), v # k, k \notin Children(v) PROVE Fine(v)'
  <2>1. pipeline'[v] = pipeline[v] /\ \A c \in Children(v) : pipeline'[c] = pipeline[c]
    BY <1>5, <1>6, <1>8
  <2> QED BY <2>1, <1>1, <1>8, FineSame
<1>9. ASSUME NEW v \in visited
      PROVE  Children(v) \subseteq visited' /\ Fine(v)' /\ pipeline'[v] <= current'
  <2>1. Children(v) \subseteq visited /\ Fine(v) /\ pipeline[v] <= current /\ v \in Calls /\ v # k
    BY <1>3, <1>5, <1>9 DEF Visited
  <2>2. Fine(v)'
    BY <2>1, <1>5, <1>8
  <2>3. pipeline'[v] = pipeline[v] /\ pipeline[v] \in Nat
    BY <2>1, <1>5, <1>6
  <2> QED BY <2>1, <2>2, <2>3, <1>1, <1>5, <1>7
<1>10. \A c \in Children(k) : pipeline'[c] = pipeline[c] /\ pipeline[c] <= current /\ pipeline[c] \in Nat
  BY <1>3, <1>5, <1>6 DEF Visited
<1>11. Fine(k)'
  <2>1. Ordered(k)'
    <3>1. pipeline'[k] = current'
      BY <1>6
    <3> QED BY <3>1, <1>2, <1>5, <1>7, <1>10 DEF Ordered
  <2>2. CASE links = {}
    <3>1. ~ changed => LinksHold(k)
      BY <2>2, <1>1, <1>3, <1>4 DEF Synced, LinksHold
    <3>2. LinksHold(k)' <=> LinksHold(k)
      <4>1. Links(k)' = Links(k)
        BY <1>1, <1>2 DEF Links, ArgLinks, InnerLinks, Arity, Result
      <4> QED BY <4>1, <1>1 DEF LinksHold, AgreesOn
    <3> QED BY <2>1, <3>1, <3>2, <1>1 DEF Fine
  <2>3. CASE current' = current + 1
    <3>1. pipeline'[k] = current + 1
      BY <2>3, <1>6
    <3>2. Above(k)'
      BY <3>1, <1>2, <1>5, <1>10 DEF Above
    <3> QED BY <2>1, <3>2 DEF Fine
  <2> QED BY <2>2, <2>3, <1>1
<1>12. Visited'
  <2>1. pipeline'[k] <= current'
    BY <1>6, <1>7
  <2> QED BY <2>1, <1>1, <1>2, <1>4, <1>5, <1>9, <1>11 DEF Visited
<1>13. Inside'
  <2>1. /\ k \notin Range(stack')
        /\ \A i, h \in DOMAIN stack' : i < h => stack'[i] < stack'[h]
    BY <1>1, <1>3, <1>4, TailFacts
  <2>2. Range(stack') \cap visited' = {}
    BY <2>1, <1>1, <1>3, <1>4, <1>5 DEF Inside
  <2> QED BY <2>1, <2>2 DEF Inside
<1>14. Walked'
  <2>1. PICK cur \in roots \ todo :
          /\ cur \in visited \cup Range(stack)
          /\ visited \cup Range(stack) \subseteq Below({cur})
          /\ \A r \in roots \ todo : r # cur => \A v \in Below({r}) : Fine(v)
    BY <1>1, <1>3 DEF Walked
  <2>2. visited' \cup Range(stack') = visited \cup Range(stack)
    BY <1>1, <1>4, <1>5
  <2>3. ASSUME NEW r \in roots \ todo, r # cur, NEW v \in Below({r}) PROVE Fine(v)'
    <3>1. Fine(v) /\ v \in Calls
      BY <2>1, <2>3 DEF Below
    <3>2. k \notin Below({r})
      BY <2>1, <2>3, <1>2, <1>5 DEF NothingShared
    <3>3. k \notin Children(v)
      BY <3>2, <2>3, <1>5, <3>1, BelowChild
    <3> QED BY <3>1, <3>2, <3>3, <2>3, <1>8
  <2> QED BY <2>1, <2>2, <2>3, <1>1, <1>2 DEF Walked
<1> QED BY <1>1, <1>12, <1>13, <1>14 DEF Synced

\* The steps that begin and make a pass.
LEMMA OnlyTheyPass ==
  ASSUME Next, ~ Evaluate, ~ InferAgain, ~ NextRoot, ~ Descend, \A k \in Calls : ~ Infer(k),
         \A l \in links : ~ Sync(l) /\ ~ Break(l), ~ Join
  PROVE  pc' \notin {"infer", "sync"}
<1>1. ASSUME NEW f \in Functions, NEW args \in Arguments(f), Register(f, args) PROVE pc' = "wire"
  BY <1>1 DEF Register
<1>2. CASE Wire \/ Wired \/ Inferred \/ Finalized \/ Built
  BY <1>2 DEF Wire, Wired, Inferred, Finalized, Built
<1>3. CASE (\E k \in Calls : Construct(k) \/ ConstructRaises(k) \/ RunCall(k)) \/ RunRaises \/ Clear
  BY <1>3 DEF Construct, CanVisit, ConstructRaises, RunCall, RunRaises, Raise, Clear
<1>4. CASE Finalize
  BY <1>4 DEF Finalize, Raise
<1> QED BY <1>1, <1>2, <1>3, <1>4 DEF Next, Step

LEMMA PassStep ==
  ASSUME TypeInv, PassInv, [Next]_vars
  PROVE  PassInv'
<1>1. CASE Evaluate \/ InferAgain
  BY <1>1, BeginPass
<1>2. CASE pc' \notin {"infer", "sync"}
  BY <1>2 DEF PassInv
<1>3. CASE NextRoot
  <2>1. pc \in {"infer", "build"} /\ pc' = pc
    BY <1>3 DEF NextRoot
  <2> QED BY <2>1, <1>2, <1>3, NextRootPass
<1>4. CASE Descend
  <2>1. pc \in {"infer", "build"} /\ pc' = pc
    BY <1>4 DEF Descend
  <2> QED BY <2>1, <1>2, <1>4, DescendPass
<1>5. CASE \E k \in Calls : Infer(k)
  BY <1>5, InferPass
<1>6. CASE \E l \in links : Sync(l)
  BY <1>6, SyncPass
<1>7. CASE Join \/ \E l \in links : Break(l)
  BY <1>7, VisitPass
<1>8. CASE UNCHANGED vars
  <2>1. /\ UNCHANGED <<calls, roots, types, generic, pipeline, changed, current, links, pc,
                       todo, stack, visited>>
    BY <1>8 DEF vars, plan, inferred, walk
  <2>2. /\ \A S : Below(S)' = Below(S)
        /\ \A j : Children(j)' = Children(j)
        /\ NothingShared' <=> NothingShared
    BY <2>1, PlanSame
  <2>3. \A v : Fine(v) => Fine(v)'
    BY <2>1, FineSame
  <2>4. \A k : Links(k)' = Links(k)
    BY <2>1, <2>2 DEF Links, ArgLinks, InnerLinks, Arity, Result
  <2>5. \A k, l : AgreesOn(k, l)' <=> AgreesOn(k, l)
    BY <2>1 DEF AgreesOn
  <2>6. Inside => Inside'
    BY <2>1 DEF Inside
  <2>7. Visited => Visited'
    BY <2>1, <2>2, <2>3 DEF Visited
  <2>8. Walked => Walked'
    BY <2>1, <2>2, <2>3 DEF Walked
  <2>9. Synced => Synced'
    <3>1. PICK k : k = Head(stack) /\ k = Head(stack')
      BY <2>1
    <3> QED BY <3>1, <2>1, <2>2, <2>4, <2>5 DEF Synced
  <2> QED BY <2>1, <2>2, <2>6, <2>7, <2>8, <2>9 DEF PassInv
<1>9. ASSUME Next, ~ Evaluate, ~ InferAgain, ~ NextRoot, ~ Descend, \A k \in Calls : ~ Infer(k),
             \A l \in links : ~ Sync(l) /\ ~ Break(l), ~ Join
      PROVE  pc' \notin {"infer", "sync"}
  BY <1>9, OnlyTheyPass
<1> QED BY <1>1, <1>2, <1>3, <1>4, <1>5, <1>6, <1>7, <1>8, <1>9

LEMMA PassesHold == Spec => []PassInv
<1>1. Init => PassInv
  BY DEF Init, PassInv
<1>2. TypeInv /\ PassInv /\ [Next]_vars => PassInv'
  BY PassStep
<1> QED BY <1>1, <1>2, TypesHold, PTL DEF Spec

-----------------------------------------------------------------------------
(***************************************************************************)
(* After the inference.                                                    *)
(***************************************************************************)

\* Until an evaluation raises, the generic types of a call are all generic in
\* the inference.
AllGeneric ==
  pc \in {"open", "wire", "infer", "sync"} /\ raises = 0 =>
    \A k \in Calls : generic[k] =
      {i \in 1 .. Len(Signature[calls[k].function]) : Signature[calls[k].function][i] \in Generics}

LEMMA AllGenericStep ==
  ASSUME TypeInv, AllGeneric, [Next]_vars
  PROVE  AllGeneric'
<1>1. CASE UNCHANGED <<calls, generic, raises>> /\ (pc = "open" \/ pc = "wire" \/ pc = "infer" \/ pc = "sync")
  <2>1. Calls' = Calls
    BY <1>1 DEF Calls
  <2> QED BY <2>1, <1>1, Zenon DEF AllGeneric
<1>2. CASE pc' \notin {"open", "wire", "infer", "sync"}
  BY <1>2 DEF AllGeneric
<1>3. CASE Raise
  <2>1. raises' = raises + 1 /\ raises \in Nat
    BY <1>3 DEF Raise, TypeInv, TypeOK
  <2> QED BY <2>1 DEF AllGeneric
<1>4. ASSUME NEW f \in Functions, NEW args \in Arguments(f), Register(f, args) PROVE AllGeneric'
  <2> DEFINE new == [function |-> f, args |-> args, children |-> <<>>]
             gs == {i \in 1 .. Len(Signature[f]) : Signature[f][i] \in Generics}
  <2>1. /\ pc = "open" /\ pc' = "wire" /\ UNCHANGED raises
        /\ calls' = Append(calls, new) /\ generic' = Append(generic, gs)
    BY <1>4, Zenon DEF Register
  <2>2. PICK n \in Nat : n = Len(calls) + 1
    BY PlanFacts DEF TypeInv
  <2>3. calls \in Seq(Annotated) /\ generic \in Seq(SUBSET Nat) /\ Len(generic) = Len(calls)
    BY DEF TypeInv, TypeOK
  <2>4. new.function = f
    OBVIOUS
  <2> HIDE DEF new, gs
  <2>5. /\ Len(calls') = n /\ calls'[n] = new /\ \A k \in 1 .. n - 1 : calls'[k] = calls[k]
        /\ Len(generic') = n /\ generic'[n] = gs /\ \A k \in 1 .. n - 1 : generic'[k] = generic[k]
    BY <2>1, <2>2, <2>3
  <2>6. Calls' = Calls \cup {n} /\ Calls = 1 .. n - 1
    BY <2>2, <2>5 DEF Calls
  <2> SUFFICES ASSUME raises = 0, NEW k \in Calls'
               PROVE  generic'[k] = {i \in 1 .. Len(Signature[calls'[k].function]) :
                                       Signature[calls'[k].function][i] \in Generics}
    BY <2>1, Zenon DEF AllGeneric
  <2>7. CASE k = n
    BY <2>4, <2>5, <2>7 DEF gs
  <2>8. CASE k \in Calls
    <3>1. generic[k] = {i \in 1 .. Len(Signature[calls[k].function]) :
                          Signature[calls[k].function][i] \in Generics}
      BY <2>1, <2>8 DEF AllGeneric
    <3> QED BY <3>1, <2>5, <2>6, <2>8
  <2> QED BY <2>6, <2>7, <2>8
<1>5. CASE Wire
  <2>1. PICK n : n = Len(calls)
    OBVIOUS
  <2>2. /\ pc = "wire" /\ Calls' = Calls /\ UNCHANGED <<pc, inferred, raises>>
        /\ \A i \in Calls : calls'[i].function = calls[i].function
    BY <1>5, <2>1, WireFacts
  <2>3. UNCHANGED generic
    BY <2>2 DEF inferred
  <2> QED BY <2>2, <2>3 DEF AllGeneric
<1>6. CASE Clear
  <2>1. Calls' = {}
    BY <1>6 DEF Clear, Calls
  <2> QED BY <2>1 DEF AllGeneric
<1>7. CASE UNCHANGED vars
  <2>1. UNCHANGED <<calls, generic, raises, pc>> /\ Calls' = Calls
    BY <1>7 DEF vars, plan, inferred, Calls
  <2> QED BY <2>1 DEF AllGeneric
<1>8. CASE Wired \/ Evaluate \/ InferAgain \/ Join
  BY <1>1, <1>8 DEF Wired, Evaluate, InferAgain, Join, plan, inferred
<1>9. CASE \E l \in links : Sync(l) \/ Break(l)
  BY <1>1, <1>9 DEF Sync, Break, plan
<1>10. CASE \E k \in Calls : Infer(k)
  BY <1>1, <1>10 DEF Infer, plan
<1>11. CASE Inferred \/ Finalized \/ Built
  BY <1>2, <1>11 DEF Inferred, Finalized, Built
<1>12. CASE NextRoot \/ Descend
  <2>1. UNCHANGED <<calls, generic, raises, pc>> /\ Calls' = Calls
    BY <1>12 DEF NextRoot, Descend, plan, inferred, Calls
  <2> QED BY <2>1 DEF AllGeneric
<1>13. CASE (\E k \in Calls : Construct(k) \/ RunCall(k)) \/ (Finalize /\ ~ Raise)
  BY <1>2, <1>13 DEF Construct, CanVisit, RunCall, Finalize
<1>14. CASE (\E k \in Calls : ConstructRaises(k)) \/ RunRaises \/ (Finalize /\ Raise)
  BY <1>3, <1>14 DEF ConstructRaises, RunRaises
<1> QED BY <1>4, <1>5, <1>6, <1>7, <1>8, <1>9, <1>10, <1>11, <1>12, <1>13, <1>14 DEF Next, Step

\* What the passes have come to, while the programs are built and run.
AfterInv ==
  NothingShared =>
    /\ pc \in {"finalize", "build", "run"} => \A v \in Calls : Ordered(v)
    /\ pc = "finalize" => \A v \in Calls : Agrees(v) \/ Above(v)

\* A call whose links hold agrees.
LEMMA LinksAgreeing ==
  ASSUME TypeInv, AllGeneric, pc = "infer", NEW k \in Calls, LinksHold(k)
  PROVE  Agrees(k)
<1>1. ASSUME NEW i \in 1 .. Arity(k), calls[k].args[i] \in Children(k)
      PROVE  types[k][i] = types[calls[k].args[i]][Result(calls[k].args[i])]
  <2>1. <<i, calls[k].args[i], Result(calls[k].args[i])>> \in Links(k)
    BY <1>1 DEF Links, ArgLinks
  <2> QED BY <2>1 DEF LinksHold, AgreesOn
<1>2. ASSUME NEW i \in DOMAIN types[k], NEW h \in DOMAIN types[k], raises = 0,
             Signature[calls[k].function][i] \in Generics,
             Signature[calls[k].function][i] = Signature[calls[k].function][h]
      PROVE  types[k][i] = types[k][h]
  <2>1. CASE i = h
    BY <2>1
  <2>2. CASE i # h
    <3>1. DOMAIN types[k] = 1 .. Len(Signature[calls[k].function])
      BY PlanFacts DEF TypeInv, TypeOK
    <3>2. i \in generic[k] /\ h \in generic[k]
      BY <1>2, <3>1 DEF AllGeneric
    <3>3. <<i, k, h>> \in Links(k)
      BY <2>2, <3>2, <1>2 DEF Links, InnerLinks
    <3> QED BY <3>3 DEF LinksHold, AgreesOn
  <2> QED BY <2>1, <2>2
<1> QED BY <1>1, <1>2 DEF Agrees

LEMMA InferredAfter ==
  ASSUME TypeInv, WireInv, PassInv, AllGeneric, Inferred
  PROVE  AfterInv'
<1> SUFFICES ASSUME NothingShared', NEW v \in Calls' PROVE Ordered(v)' /\ (Agrees(v) \/ Above(v))'
  BY DEF AfterInv
<1>1. /\ pc = "infer" /\ pc' = "finalize" /\ stack = <<>> /\ todo = {} /\ changed = FALSE
      /\ UNCHANGED <<calls, roots, types, pipeline, raises>>
  BY DEF Inferred, WalkEnds, plan, inferred, TypeInv, TypeOK
<1>2. /\ Calls' = Calls /\ \A j : Children(j)' = Children(j)
      /\ NothingShared
  BY <1>1, PlanSame
<1>3. Visited /\ Walked
  BY <1>1, <1>2 DEF PassInv
<1>4. PICK r \in roots : v \in Below({r})
  BY <1>1, <1>2, BelowSome
<1>5. Fine(v)
  BY <1>1, <1>3, <1>4, RootsFine
<1>6. Ordered(v)' /\ (Above(v)' <=> Above(v)) /\ (Agrees(v)' <=> Agrees(v))
  <2>1. Arity(v)' = Arity(v) /\ \A j : Result(j)' = Result(j)
    BY <1>1 DEF Arity, Result
  <2> QED BY <2>1, <1>1, <1>2, <1>5 DEF Fine, Ordered, Above, Agrees
<1>7. Agrees(v) \/ Above(v)
  BY <1>1, <1>2, <1>5, LinksAgreeing DEF Fine
<1> QED BY <1>6, <1>7

\* The steps that follow the passes.
LEMMA OnlyTheyFollow ==
  ASSUME Next, ~ Inferred, ~ Finalize, ~ Finalized, ~ Built, ~ NextRoot, ~ Descend,
         \A k \in Calls : ~ Construct(k) /\ ~ RunCall(k)
  PROVE  pc' \notin {"finalize", "build", "run"}
<1>1. ASSUME NEW f \in Functions, NEW args \in Arguments(f), Register(f, args) PROVE pc' = "wire"
  BY <1>1 DEF Register
<1>2. CASE Wire \/ Wired \/ Evaluate \/ InferAgain \/ Join
  BY <1>2 DEF Wire, Wired, Evaluate, InferAgain, Join
<1>3. CASE (\E k \in Calls : Infer(k) \/ ConstructRaises(k)) \/ RunRaises \/ Clear
  BY <1>3 DEF Infer, ConstructRaises, RunRaises, Raise, Clear
<1>4. CASE \E l \in links : Sync(l) \/ Break(l)
  BY <1>4 DEF Sync, Break
<1> QED BY <1>1, <1>2, <1>3, <1>4 DEF Next, Step

LEMMA AfterStep ==
  ASSUME TypeInv, WireInv, PassInv, AllGeneric, AfterInv, [Next]_vars
  PROVE  AfterInv'
<1>1. CASE Inferred
  BY <1>1, InferredAfter
<1>2. CASE pc' \notin {"finalize", "build", "run"}
  BY <1>2 DEF AfterInv
<1>3. ASSUME UNCHANGED <<calls, roots, pipeline>>, pc \in {"finalize", "build", "run"}, pc' # "finalize"
      PROVE  AfterInv'
  <2>1. /\ Calls' = Calls /\ \A j : Children(j)' = Children(j)
        /\ NothingShared' <=> NothingShared
    BY <1>3, PlanSame
  <2> QED BY <2>1, <1>3 DEF AfterInv, Ordered
<1>4. ASSUME UNCHANGED <<calls, roots, pipeline, types, raises, pc>> PROVE AfterInv'
  <2>1. /\ Calls' = Calls /\ \A j : Children(j)' = Children(j)
        /\ NothingShared' <=> NothingShared
    BY <1>4, PlanSame
  <2>2. \A k, j : Arity(k)' = Arity(k) /\ Result(j)' = Result(j)
    BY <1>4 DEF Arity, Result
  <2>3. \A k \in Calls : Agrees(k)' <=> Agrees(k)
    BY <2>1, <2>2, <1>4 DEF Agrees
  <2> QED BY <2>1, <2>3, <1>4 DEF AfterInv, Ordered, Above
<1>5. CASE UNCHANGED vars
  BY <1>4, <1>5 DEF vars, plan, inferred
<1>6. CASE Finalize
  <2>1. CASE Raise
    BY <1>2, <2>1 DEF Raise
  <2>2. CASE ~ Raise
    BY <1>4, <1>6, <2>2 DEF Finalize, plan, inferred
  <2> QED BY <2>1, <2>2
<1>7. CASE Finalized \/ Built \/ \E k \in Calls : Construct(k) \/ RunCall(k)
  <2>1. UNCHANGED <<calls, roots, pipeline>> /\ pc \in {"finalize", "build", "run"} /\ pc' # "finalize"
    <3>1. CASE Finalized \/ Built
      BY <3>1 DEF Finalized, Built, plan, inferred
    <3>2. CASE \E k \in Calls : Construct(k) \/ RunCall(k)
      BY <3>2 DEF Construct, CanVisit, RunCall, plan, inferred
    <3> QED BY <1>7, <3>1, <3>2
  <2> QED BY <1>3, <2>1
<1>8. CASE NextRoot \/ Descend
  <2>1. UNCHANGED <<calls, roots, pipeline, types, raises, pc>>
    BY <1>8 DEF NextRoot, Descend, plan, inferred
  <2> QED BY <1>4, <2>1
<1>9. ASSUME Next, ~ Inferred, ~ Finalize, ~ Finalized, ~ Built, ~ NextRoot, ~ Descend,
             \A k \in Calls : ~ Construct(k) /\ ~ RunCall(k)
      PROVE  pc' \notin {"finalize", "build", "run"}
  BY <1>9, OnlyTheyFollow
<1> QED BY <1>1, <1>2, <1>5, <1>6, <1>7, <1>8, <1>9

LEMMA InferenceHolds == Spec => [](AllGeneric /\ AfterInv)
<1>1. Init => AllGeneric /\ AfterInv
  BY DEF Init, AllGeneric, AfterInv, Calls
<1>2. TypeInv /\ WireInv /\ PassInv /\ AllGeneric /\ AfterInv /\ [Next]_vars => (AllGeneric /\ AfterInv)'
  BY AllGenericStep, AfterStep
<1> QED BY <1>1, <1>2, TypesHold, WiringHolds, PassesHold, PTL DEF Spec

\* What infer_types promises (dag.py:285-332): a call has the types of its
\* arguments, or is of a later pipeline than its children.
THEOREM InferenceAgrees == Spec => []LinksAgree
<1>1. AfterInv => LinksAgree
  BY DEF AfterInv, LinksAgree, Above
<1> QED BY <1>1, InferenceHolds, PTL

\* No call is of an earlier pipeline than its children.
Rising == \A v \in Calls : Ordered(v)

RanInv == Rising => LeavesFirst

LEMMA RunCallInOrder ==
  ASSUME TypeInv, BuildInv, RanInv, NEW k \in Calls, RunCall(k)
  PROVE  RanInv'
<1>0. UNCHANGED <<calls, pipeline>>
  BY DEF RunCall, plan, inferred
<1> SUFFICES ASSUME Rising
             PROVE  \A i \in DOMAIN ran' : \A j \in Children(ran'[i]) : \E h \in 1 .. i - 1 : ran'[h] = j
  BY <1>0 DEF RanInv, LeavesFirst, Rising, Ordered, Calls, Children
<1>1. /\ pc = "run" /\ k \in Remaining /\ IsNext(k) /\ ran' = Append(ran, k)
      /\ ran \in Seq(Calls)
  BY DEF RunCall, plan, TypeInv, TypeOK
<1>3. /\ Len(ran) \in Nat /\ DOMAIN ran = 1 .. Len(ran)
      /\ DOMAIN ran' = 1 .. Len(ran) + 1 /\ ran'[Len(ran) + 1] = k
      /\ \A i \in 1 .. Len(ran) : ran'[i] = ran[i]
  BY <1>1, AppendFacts
<1>4. Children(k) \subseteq Range(ran)
  <2> SUFFICES ASSUME NEW j \in Children(k), j \notin Range(ran) PROVE FALSE
    OBVIOUS
  <2>1. PICK i \in DOMAIN built :
          /\ built[i] = k
          /\ \A h \in DOMAIN built : built[h] \in Remaining =>
               \/ pipeline[k] < pipeline[built[h]]
               \/ pipeline[k] = pipeline[built[h]] /\ i <= h
    BY <1>1 DEF IsNext
  <2>2. i \in Nat /\ DOMAIN built = 1 .. Len(built) /\ Len(built) \in Nat
    <3>1. built \in Seq(Calls)
      BY DEF TypeInv, TypeOK
    <3> QED BY <3>1
  <2>3. PICK h \in 1 .. i - 1 : built[h] = j
    BY <2>1 DEF BuildInv, ChildrenFirst
  <2>4. h \in DOMAIN built /\ ~ (i <= h)
    BY <2>2, <2>3
  <2>5. j \in Remaining
    BY <2>3, <2>4 DEF Remaining, Range
  <2>6. pipeline[k] < pipeline[j]
    BY <2>1, <2>3, <2>4, <2>5
  <2>7. pipeline[j] <= pipeline[k] /\ pipeline[j] \in Nat /\ pipeline[k] \in Nat
    BY PlanFacts DEF Rising, Ordered, TypeInv
  <2> QED BY <2>6, <2>7
<1>5. ASSUME NEW i \in 1 .. Len(ran), NEW j \in Children(ran[i]) PROVE \E h \in 1 .. i - 1 : ran'[h] = j
  <2>1. PICK h \in 1 .. i - 1 : ran[h] = j
    BY <1>3 DEF RanInv, LeavesFirst
  <2>2. h \in 1 .. Len(ran)
    BY <1>3
  <2> QED BY <2>1, <2>2, <1>3
<1>6. ASSUME NEW j \in Children(k) PROVE \E h \in 1 .. Len(ran) : ran'[h] = j
  <2>1. PICK h \in 1 .. Len(ran) : ran[h] = j
    BY <1>3, <1>4 DEF Range
  <2> QED BY <2>1, <1>3
<1>7. ASSUME NEW i \in DOMAIN ran', NEW j \in Children(ran'[i]) PROVE \E h \in 1 .. i - 1 : ran'[h] = j
  <2>1. CASE i \in 1 .. Len(ran)
    BY <2>1, <1>3, <1>5
  <2>2. CASE i = Len(ran) + 1
    <3>1. i - 1 = Len(ran) /\ j \in Children(k)
      BY <2>2, <1>3
    <3> QED BY <3>1, <1>6
  <2> QED BY <2>1, <2>2, <1>3
<1> QED BY <1>7

LEMMA RanHolds == Spec => []RanInv
<1>1. Init => RanInv
  BY DEF Init, RanInv, LeavesFirst
<1>2. TypeInv /\ TypeInv' /\ BuildInv /\ RanInv /\ [Next]_vars => RanInv'
  <2> SUFFICES ASSUME TypeInv, TypeInv', BuildInv, RanInv, [Next]_vars PROVE RanInv'
    OBVIOUS
  <2>1. CASE pc' # "run" \/ Built
    <3>1. ran' = <<>>
      BY <2>1 DEF TypeInv, StagesOK, Built
    <3> QED BY <3>1 DEF RanInv, LeavesFirst
  <2>2. ASSUME NEW k \in Calls, RunCall(k) PROVE RanInv'
    BY <2>2, RunCallInOrder
  <2>3. CASE UNCHANGED vars
    BY <2>3 DEF RanInv, Rising, Ordered, LeavesFirst, Calls, Children, vars, plan, inferred
  <2>4. ASSUME Next, \A k \in Calls : ~ RunCall(k), ~ Built PROVE pc' # "run"
    BY <2>4, OnlyTheyRun
  <2> QED BY <2>1, <2>2, <2>3, <2>4
<1> QED BY <1>1, <1>2, TypesHold, BuildingHolds, PTL DEF Spec

\* While calls run, pipelines rise if no call is below two roots.
LEMMA RisesUnshared ==
  ASSUME TypeInv, AfterInv, NothingShared, ran # <<>>
  PROVE  Rising
  BY DEF TypeInv, StagesOK, AfterInv, Rising

\* The programs run in the order of their numbers, and a pipeline begins above
\* what is below it: a call runs after its children (dag.py:408-420).
THEOREM ChildrenRunFirst == Spec => []RunsInOrder
<1>1. TypeInv /\ AfterInv /\ RanInv => RunsInOrder
  BY RisesUnshared DEF RanInv, RunsInOrder, LeavesFirst
<1> QED BY <1>1, RanHolds, TypesHold, InferenceHolds, PTL

\* What register is for: a call runs after every call whose result, or whose
\* update of a value, it takes, be that a child or further below.  Calls that
\* roots share may have been given a pipeline after those above them; if none
\* has, as where types never disagree, theirs run in order too.
DependenciesRan ==
  NothingShared \/ Rising =>
    \A i \in DOMAIN ran : \A j \in 1 .. ran[i] - 1 :
      DependencyOf(j, ran[i]) => \E h \in 1 .. i - 1 : ran[h] = j

\* register wires the highest dependencies, the programs run children first:
\* between them no dependency is lost (dag.py:179-238, 373-423).
THEOREM DependenciesRunFirst == Spec => []DependenciesRan
<1>1. TypeInv /\ WireInv /\ AfterInv /\ RanInv => DependenciesRan
  <2> SUFFICES ASSUME TypeInv, WireInv, AfterInv, RanInv, NothingShared \/ Rising,
                      NEW i \in DOMAIN ran, NEW j \in 1 .. ran[i] - 1, DependencyOf(j, ran[i])
               PROVE  \E h \in 1 .. i - 1 : ran[h] = j
    BY DEF DependenciesRan
  <2> DEFINE C == {ran[h] : h \in 1 .. i}
  <2>1. /\ ran \in Seq(Calls) /\ ran # <<>> /\ i \in 1 .. Len(ran) /\ Len(ran) \in Nat
        /\ DOMAIN ran = 1 .. Len(ran) /\ ran[i] \in Calls /\ pc = "run"
    BY DEF TypeInv, TypeOK, StagesOK
  <2>2. LeavesFirst
    BY <2>1, RisesUnshared DEF RanInv
  <2>3. C \subseteq Calls /\ ran[i] \in C
    BY <2>1
  <2>4. \A k \in C : Children(k) \subseteq C
    <3> SUFFICES ASSUME NEW g \in 1 .. i, NEW c \in Children(ran[g]) PROVE c \in C
      OBVIOUS
    <3>1. PICK h \in 1 .. g - 1 : ran[h] = c
      BY <2>1, <2>2 DEF LeavesFirst
    <3>2. h \in 1 .. i
      BY <2>1
    <3> QED BY <3>1, <3>2
  <2>5. j \in C
    <3>1. Old = Calls /\ j \in 1 .. ran[i] - 1
      BY <2>1 DEF Old
    <3> HIDE DEF C
    <3> QED BY <3>1, <2>1, <2>3, <2>4 DEF WireInv, AboveDependencies, Closed
  <2>6. PICK h \in 1 .. i : ran[h] = j
    BY <2>5
  <2>7. h # i
    BY <2>1, <2>6 DEF Calls
  <2> QED BY <2>1, <2>6, <2>7
<1> QED BY <1>1, RanHolds, TypesHold, WiringHolds, InferenceHolds, PTL

-----------------------------------------------------------------------------
(***************************************************************************)
(* The order of the roots.                                                 *)
(***************************************************************************)

\* A call that is wired is above no root, and the new one above what it depends
\* on only.
RootsOnTop ==
  /\ \A k \in Old : Children(k) \cap roots = {}
  /\ pc = "wire" => \A j \in Children(Len(calls)) : DependencyOf(j, Len(calls))

\* A walk has taken earlier roots than it has yet to take.
RootsWalked ==
  pc \in {"infer", "sync", "build"} =>
    /\ todo \cap Range(stack) = {}
    /\ \A r \in roots \ todo :
         /\ \A q \in todo : r < q
         /\ \A q \in Range(stack) \cap roots : r <= q

\* The roots whose walks are over.
Done == roots \ (todo \cup Range(stack))

\* The pipelines of the roots of a set do not fall.
Monotone(S) == \A r, q \in S : r < q => pipeline[r] <= pipeline[q]

RootsPiped ==
  /\ pc \in {"infer", "sync"} => Monotone(Done) /\ \A r \in Done : pipeline[r] <= current
  /\ pc \in {"finalize", "build", "run"} => Monotone(roots)

\* The roots are built in their order.
RootsBuilt ==
  /\ pc = "build" => Range(built) \cap todo = {}
  /\ \A i, h \in DOMAIN built : built[i] \in roots /\ built[h] \in roots /\ built[i] < built[h] => i < h

RootInv == RootsOnTop /\ RootsWalked /\ RootsPiped /\ RootsBuilt

LEMMA TopWire ==
  ASSUME TypeInv, RootsOnTop, Wire
  PROVE  RootsOnTop'
<1>1. PICK n : n = Len(calls)
  OBVIOUS
<1>2. /\ pc = "wire" /\ pc' = "wire" /\ n \in Calls /\ n \in Nat /\ Len(calls') = n
      /\ UNCHANGED roots /\ Calls' = Calls /\ First \in 1 .. n - 1
      /\ \A i \in Calls : i # n => calls'[i] = calls[i]
      /\ \A i \in Calls : calls'[i].args = calls[i].args /\ calls'[i].function = calls[i].function
      /\ calls' = calls \/ (DependencyOf(First, n) /\ Children(n)' = Children(n) \cup {First})
  BY <1>1, WireFacts
<1>3. Old' = 1 .. n - 1 /\ Old = 1 .. n - 1 /\ Old \subseteq Calls /\ n \notin Old
  BY <1>1, <1>2 DEF Old, Calls
<1>4. \A k \in Old : Children(k)' = Children(k)
  BY <1>2, <1>3 DEF Children
<1>5. \A j \in Calls : DependencyOf(j, n)' <=> DependencyOf(j, n)
  BY <1>2 DEF DependencyOf
<1>6. \A j \in Children(n)' : DependencyOf(j, n)
  <2>1. \A j \in Children(n) : DependencyOf(j, n)
    BY <1>1, <1>2 DEF RootsOnTop
  <2>2. CASE calls' = calls
    BY <2>1, <2>2 DEF Children
  <2>3. CASE DependencyOf(First, n) /\ Children(n)' = Children(n) \cup {First}
    BY <2>1, <2>3
  <2> QED BY <2>2, <2>3, <1>2
<1>7. Children(n)' \subseteq Calls
  <2>1. Children(n) \subseteq Calls /\ First \in Calls
    BY <1>2, <1>3, PlanFacts DEF TypeInv
  <2>2. calls' = calls => Children(n)' = Children(n)
    BY DEF Children
  <2> QED BY <2>1, <2>2, <1>2
<1> QED BY <1>2, <1>3, <1>4, <1>5, <1>6, <1>7 DEF RootsOnTop

LEMMA TopWired ==
  ASSUME TypeInv, RootsOnTop, Wired
  PROVE  RootsOnTop'
<1>1. PICK n : n = Len(calls)
  OBVIOUS
<1>2. /\ pc = "wire" /\ pc' = "open" /\ UNCHANGED calls
      /\ roots' = {r \in roots : ~ DependencyOf(r, n)} \cup {n}
  BY <1>1 DEF Wired
<1>3. n \in Nat /\ Calls' = 1 .. n /\ Calls = 1 .. n /\ Old = 1 .. n - 1 /\ Old' = 1 .. n
  <2>1. Len(calls) \in Nat
    BY PlanFacts DEF TypeInv
  <2> QED BY <2>1, <1>1, <1>2 DEF Calls, Old
<1>4. \A k : Children(k)' = Children(k)
  BY <1>2 DEF Children
<1>5. \A k \in Calls : Children(k) \subseteq 1 .. k - 1
  BY DEF TypeInv, TypeOK
<1>6. ASSUME NEW k \in 1 .. n PROVE Children(k) \cap roots' = {}
  <2>1. n \notin Children(k)
    BY <1>3, <1>5
  <2>2. CASE k = n
    BY <2>1, <2>2, <1>1, <1>2 DEF RootsOnTop
  <2>3. CASE k # n
    <3>1. k \in Old
      BY <2>3, <1>3
    <3> QED BY <3>1, <2>1, <1>2 DEF RootsOnTop
  <2> QED BY <2>2, <2>3
<1> QED BY <1>2, <1>3, <1>4, <1>6 DEF RootsOnTop

LEMMA TopStep ==
  ASSUME TypeInv, RootsOnTop, [Next]_vars
  PROVE  RootsOnTop'
<1>1. ASSUME UNCHANGED <<calls, roots>>, pc # "wire", pc' # "wire" PROVE RootsOnTop'
  BY <1>1 DEF RootsOnTop, Old, Calls, Children
<1>2. CASE UNCHANGED vars
  <2>1. UNCHANGED <<calls, roots, pc>>
    BY <1>2 DEF vars, plan
  <2>2. Old' = Old /\ \A k : Children(k)' = Children(k)
    BY <2>1 DEF Old, Calls, Children
  <2>3. \A j, k : DependencyOf(j, k)' <=> DependencyOf(j, k)
    BY <2>1 DEF DependencyOf
  <2> QED BY <2>1, <2>2, <2>3 DEF RootsOnTop
<1>3. ASSUME NEW f \in Functions, NEW args \in Arguments(f), Register(f, args) PROVE RootsOnTop'
  <2> DEFINE new == [function |-> f, args |-> args, children |-> <<>>]
  <2>1. pc = "open" /\ pc' = "wire" /\ UNCHANGED roots /\ calls' = Append(calls, new)
    BY <1>3, Zenon DEF Register
  <2>2. calls \in Seq(Annotated) /\ Len(calls) \in Nat
    BY PlanFacts DEF TypeInv, TypeOK
  <2>3. new.children = <<>>
    OBVIOUS
  <2> HIDE DEF new
  <2>4. /\ Len(calls') = Len(calls) + 1 /\ calls'[Len(calls) + 1] = new
        /\ \A k \in 1 .. Len(calls) : calls'[k] = calls[k]
    BY <2>1, <2>2
  <2>5. Old' = Calls /\ Old = Calls /\ Calls = 1 .. Len(calls)
    BY <2>1, <2>2, <2>4 DEF Old, Calls
  <2>6. \A k \in Calls : Children(k)' = Children(k)
    BY <2>4, <2>5 DEF Children
  <2>7. Children(Len(calls))' = {}
    <3>1. calls'[Len(calls')].children = <<>>
      BY <2>3, <2>4
    <3> QED BY <3>1 DEF Children, Range
  <2> QED BY <2>1, <2>5, <2>6, <2>7 DEF RootsOnTop
<1>4. CASE Wire
  BY <1>4, TopWire
<1>5. CASE Wired
  BY <1>5, TopWired
<1>6. CASE Clear
  <2>1. calls' = <<>> /\ pc' = "open"
    BY <1>6 DEF Clear
  <2>2. Old' = {}
    BY <2>1 DEF Old, Calls
  <2> QED BY <2>1, <2>2 DEF RootsOnTop
<1>7. ASSUME Evaluate \/ Step, ~ Wire, ~ Wired, ~ Clear
      PROVE  UNCHANGED <<calls, roots>> /\ pc # "wire" /\ pc' # "wire"
  <2>1. CASE Evaluate \/ NextRoot \/ Descend \/ Join \/ InferAgain \/ Inferred \/ Finalized \/ Built
    BY <2>1 DEF Evaluate, NextRoot, Descend, Join, InferAgain, Inferred, Finalized, Built, plan
  <2>2. CASE \E l \in links : Sync(l) \/ Break(l)
    BY <2>2 DEF Sync, Break, plan
  <2>3. CASE \E k \in Calls : Infer(k) \/ Construct(k) \/ ConstructRaises(k) \/ RunCall(k)
    BY <2>3 DEF Infer, Construct, ConstructRaises, RunCall, Raise, plan
  <2>4. CASE Finalize \/ RunRaises
    BY <2>4 DEF Finalize, RunRaises, Raise, plan
  <2> QED BY <1>7, <2>1, <2>2, <2>3, <2>4 DEF Step
<1> QED BY <1>1, <1>2, <1>3, <1>4, <1>5, <1>6, <1>7 DEF Next

\* A walk begins: none of the roots was taken.
LEMMA RootsBegin ==
  ASSUME UNCHANGED roots, todo' = roots, stack' = <<>>, pc' \in {"infer", "build"}
  PROVE  RootsWalked' /\ Done' = {}
<1>1. Range(stack') = {}
  BY DEF Range
<1> QED BY <1>1 DEF RootsWalked, Done

\* The walk of the first of the roots that are left begins.
LEMMA RootsNext ==
  ASSUME TypeInv, RootsWalked, NextRoot
  PROVE  RootsWalked' /\ Done' = Done
<1>1. /\ stack = <<>> /\ UNCHANGED <<pc, roots>> /\ pc \in {"infer", "build"}
      /\ stack' = <<Min(todo)>> /\ todo' = todo \ {Min(todo)}
  BY DEF NextRoot, plan
<1>2. todo \subseteq roots /\ roots \subseteq Nat /\ todo \subseteq Nat /\ todo # {}
  BY PlanFacts DEF TypeInv, TypeOK, NextRoot
<1>3. PICK m \in todo : m = Min(todo) /\ \A q \in todo : m <= q
  <2>1. \E m \in todo : \A q \in todo : m <= q
    BY <1>2, LeastOf
  <2> QED BY <2>1 DEF Min
<1>4. Range(stack) = {} /\ Range(stack') = {m} /\ todo' = todo \ {m}
  BY <1>1, <1>3 DEF Range
<1>5. Done' = Done
  BY <1>1, <1>2, <1>4 DEF Done
<1>6. ASSUME NEW r \in roots \ todo'
      PROVE  (\A q \in todo' : r < q) /\ (\A q \in {m} \cap roots : r <= q)
  <2>1. CASE r = m
    BY <2>1, <1>2, <1>3, <1>4
  <2>2. CASE r # m
    <3>1. r \in roots \ todo
      BY <2>2, <1>4
    <3>2. \A q \in todo : r < q
      BY <3>1, <1>1 DEF RootsWalked
    <3> QED BY <3>2, <1>2, <1>3, <1>4
  <2> QED BY <2>1, <2>2
<1> QED BY <1>1, <1>4, <1>5, <1>6 DEF RootsWalked

\* A call that is below another is no root.
LEMMA RootsDescend ==
  ASSUME TypeInv, RootsOnTop, RootsWalked, Descend
  PROVE  RootsWalked' /\ Done' = Done
<1>1. /\ stack # <<>> /\ pc \in {"infer", "build"} /\ UNCHANGED <<pc, roots, todo>>
      /\ stack \in Seq(Calls) /\ todo \subseteq roots
  BY DEF Descend, plan, TypeInv, TypeOK
<1>2. PICK k \in Calls : k = Head(stack)
  BY <1>1, HeadAndTail
<1>3. PICK c \in Children(k) : stack' = <<c>> \o stack /\ c \in Calls
  <2>1. PICK i \in DOMAIN calls[k].children : stack' = <<calls[k].children[i]>> \o stack
    BY <1>2 DEF Descend
  <2>2. calls[k].children[i] \in Children(k)
    BY DEF Children, Range
  <2> QED BY <2>1, <2>2, PlanFacts DEF TypeInv
<1>4. Range(stack') = {c} \cup Range(stack)
  <2>1. <<c>> \in Seq(Calls) /\ Range(<<c>>) = {c}
    BY <1>3 DEF Range
  <2>2. PICK s \in Seq(Calls) : s = <<c>> /\ Range(s) = {c}
    BY <2>1
  <2>3. Range(s \o stack) = Range(s) \cup Range(stack)
    BY <1>1, ConcatRange
  <2> QED BY <2>2, <2>3, <1>3, Zenon
<1>5. c \notin roots
  <2>1. Old = Calls
    BY <1>1 DEF Old
  <2> QED BY <2>1, <1>2, <1>3 DEF RootsOnTop
<1> QED BY <1>1, <1>4, <1>5 DEF RootsWalked, Done

\* The walk of a call is over.
LEMMA RootsVisit ==
  ASSUME TypeInv, RootsWalked, pc \in {"infer", "sync", "build"}, stack # <<>>,
         stack' = Tail(stack), UNCHANGED <<roots, todo>>
  PROVE  /\ RootsWalked' /\ Done \subseteq Done' /\ Done' \subseteq Done \cup {Head(stack)}
         /\ Head(stack) \notin Done /\ Head(stack) \notin todo
         /\ Head(stack) \in roots => \A r \in roots \ todo : r <= Head(stack)
<1>1. Range(stack) = {Head(stack)} \cup Range(stack')
  <2>1. stack \in Seq(Calls)
    BY DEF TypeInv, TypeOK
  <2> QED BY <2>1, HeadAndTail
<1>2. /\ todo \cap Range(stack) = {}
      /\ \A r \in roots \ todo :
           /\ \A q \in todo : r < q
           /\ \A q \in Range(stack) \cap roots : r <= q
  BY DEF RootsWalked
<1>3. RootsWalked'
  BY <1>1, <1>2 DEF RootsWalked
<1> QED BY <1>1, <1>2, <1>3 DEF Done

\* The pipeline of a root that is visited is no earlier than those before it.
LEMMA RootsJoin ==
  ASSUME TypeInv, RootInv, Join \/ \E l \in links : Break(l)
  PROVE  RootsWalked' /\ RootsPiped'
<1>1. /\ pc = "sync" /\ pc' = "infer" /\ stack # <<>> /\ stack' = Tail(stack)
      /\ UNCHANGED <<roots, todo>>
      /\ pipeline' = [pipeline EXCEPT ![Head(stack)] = current']
      /\ current' = current \/ current' = current + 1
  BY DEF Join, Break, Visit, plan, TypeInv, StagesOK
<1>2. PICK k \in Calls : k = Head(stack)
  <2>1. stack \in Seq(Calls)
    BY DEF TypeInv, TypeOK
  <2> QED BY <2>1, <1>1, HeadAndTail
<1>3. /\ RootsWalked' /\ Done' \subseteq Done \cup {k} /\ k \notin Done
      /\ k \in roots => \A r \in roots \ todo : r <= k
  BY <1>1, <1>2, RootsVisit DEF RootInv
<1>4. /\ DOMAIN pipeline = Calls /\ current \in Nat /\ \A c \in Calls : pipeline[c] \in Nat
      /\ roots \subseteq Calls /\ Calls \subseteq Nat
  BY PlanFacts DEF TypeInv, TypeOK
<1>5. current' \in Nat /\ current <= current'
  BY <1>1, <1>4
<1>6. Monotone(Done) /\ \A r \in Done : pipeline[r] <= current
  BY <1>1 DEF RootInv, RootsPiped
<1>7. \A c \in Calls : pipeline'[c] = IF c = k THEN current' ELSE pipeline[c]
  BY <1>1, <1>2, <1>4
<1>8. Done \subseteq roots \ todo /\ Done' \subseteq roots
  BY <1>1 DEF Done
<1>9. \A r \in Done' : pipeline'[r] <= current' /\ pipeline'[r] \in Nat
  BY <1>3, <1>4, <1>5, <1>6, <1>7, <1>8
<1>10. ASSUME NEW r \in Done', NEW q \in Done', r < q PROVE pipeline'[r] <= pipeline'[q]
  <2>1. CASE q = k
    BY <2>1, <1>7, <1>9
  <2>2. CASE r = k
    <3>1. q \in Done /\ q \in roots \ todo /\ k \in roots
      BY <2>2, <1>3, <1>4, <1>8, <1>10
    <3>2. q <= k /\ q \in Nat /\ k \in Nat
      BY <3>1, <1>3, <1>4
    <3> QED BY <3>2, <2>2, <1>10
  <2>3. CASE q # k /\ r # k
    <3>1. q \in Done /\ r \in Done /\ q \in Calls /\ r \in Calls
      BY <2>3, <1>3, <1>4, <1>8
    <3> QED BY <3>1, <2>3, <1>6, <1>7, <1>10 DEF Monotone
  <2> QED BY <2>1, <2>2, <2>3
<1> QED BY <1>1, <1>3, <1>9, <1>10 DEF RootsPiped, Monotone

\* A root is built after those before it.
LEMMA RootsConstruct ==
  ASSUME TypeInv, RootInv, NEW k \in Calls, Construct(k)
  PROVE  RootsWalked' /\ RootsBuilt'
<1>1. /\ pc = "build" /\ pc' = "build" /\ stack # <<>> /\ k = Head(stack) /\ stack' = Tail(stack)
      /\ UNCHANGED <<roots, todo>> /\ built \in Seq(Calls) /\ todo \subseteq roots
  BY DEF Construct, CanVisit, Visit, plan, TypeInv, TypeOK
<1>2. RootsWalked' /\ k \notin todo /\ (k \in roots => \A r \in roots \ todo : r <= k)
  BY <1>1, RootsVisit DEF RootInv
<1>3. CASE UNCHANGED built
  BY <1>1, <1>2, <1>3 DEF RootInv, RootsBuilt
<1>4. CASE built' = Append(built, k)
  <2>1. /\ Len(built) \in Nat
        /\ DOMAIN built' = 1 .. Len(built) + 1 /\ DOMAIN built = 1 .. Len(built)
        /\ built'[Len(built) + 1] = k
        /\ \A i \in 1 .. Len(built) : built'[i] = built[i] /\ built[i] \in Range(built)
    BY <1>1, <1>4, AppendFacts DEF Range
  <2>2. Range(built') = Range(built) \cup {k}
    BY <1>1, <1>4, AppendRange
  <2>3. Range(built) \cap todo = {} /\ roots \subseteq Nat
    BY <1>1, PlanFacts DEF RootInv, RootsBuilt, TypeInv, TypeOK
  <2>4. ASSUME NEW i \in 1 .. Len(built) + 1, NEW h \in 1 .. Len(built) + 1,
               built'[i] \in roots, built'[h] \in roots, built'[i] < built'[h]
        PROVE  i < h
    <3>1. CASE i \in 1 .. Len(built) /\ h \in 1 .. Len(built)
      <4>1. built'[i] = built[i] /\ built'[h] = built[h]
        BY <2>1, <3>1
      <4> QED BY <2>1, <2>4, <3>1, <4>1 DEF RootInv, RootsBuilt
    <3>2. CASE i = Len(built) + 1
      <4>1. built'[i] = k /\ k \in roots /\ k \in Nat
        BY <2>1, <2>3, <2>4, <3>2
      <4>2. built'[h] <= k
        <5>1. CASE h = Len(built) + 1
          BY <5>1, <2>1, <4>1
        <5>2. CASE h \in 1 .. Len(built)
          <6>1. built'[h] \in roots \ todo
            BY <5>2, <2>1, <2>3, <2>4
          <6> QED BY <6>1, <4>1, <1>2
        <5> QED BY <5>1, <5>2, <2>1
      <4>3. built'[h] \in Nat
        BY <2>3, <2>4
      <4> QED BY <4>1, <4>2, <4>3, <2>4
    <3>3. CASE h = Len(built) + 1 /\ i \in 1 .. Len(built)
      BY <2>1, <3>3
    <3> QED BY <3>1, <3>2, <3>3, <2>1
  <2> QED BY <1>1, <1>2, <2>1, <2>2, <2>3, <2>4 DEF RootsBuilt
<1> QED BY <1>2, <1>3, <1>4 DEF Construct

LEMMA RootStep ==
  ASSUME TypeInv, TypeInv', RootInv, [Next]_vars
  PROVE  RootInv'
<1> USE DEF RootInv
<1>1. RootsOnTop'
  BY TopStep
<1>2. CASE pc' \in {"open", "wire"}
  <2>1. built' = <<>>
    BY <1>2 DEF TypeInv, StagesOK
  <2> QED BY <1>1, <1>2, <2>1 DEF RootsWalked, RootsPiped, RootsBuilt
<1>3. ASSUME pc \notin {"build", "run"}, pc' # "run", UNCHANGED built PROVE RootsBuilt'
  <2>1. built' = <<>>
    BY <1>3 DEF TypeInv, StagesOK
  <2>2. Range(built') = {}
    BY <2>1 DEF Range
  <2> QED BY <2>1, <2>2 DEF RootsBuilt
<1>4. CASE Evaluate \/ InferAgain
  <2>1. /\ pc' = "infer" /\ UNCHANGED <<roots, built>> /\ todo' = roots /\ stack' = <<>>
        /\ pc \in {"open", "infer"}
    BY <1>4 DEF Evaluate, InferAgain, WalkEnds, plan, TypeInv, StagesOK
  <2>2. RootsWalked' /\ Done' = {}
    BY <2>1, RootsBegin
  <2> QED BY <1>1, <1>3, <2>1, <2>2 DEF RootsPiped, Monotone
<1>5. CASE NextRoot
  <2>1. UNCHANGED <<pc, roots, pipeline, current, built>> /\ todo' \subseteq todo
    BY <1>5 DEF NextRoot, plan, inferred
  <2>2. RootsWalked' /\ Done' = Done
    BY <1>5, RootsNext
  <2>3. RootsPiped'
    BY <2>1, <2>2 DEF RootsPiped, Monotone
  <2>4. RootsBuilt'
    BY <2>1 DEF RootsBuilt
  <2> QED BY <1>1, <2>2, <2>3, <2>4
<1>6. CASE Descend
  <2>1. UNCHANGED <<pc, roots, pipeline, current, built, todo>>
    BY <1>6 DEF Descend, plan, inferred
  <2>2. RootsWalked' /\ Done' = Done
    BY <1>6, RootsDescend
  <2>3. RootsPiped'
    BY <2>1, <2>2 DEF RootsPiped, Monotone
  <2>4. RootsBuilt'
    BY <2>1 DEF RootsBuilt
  <2> QED BY <1>1, <2>2, <2>3, <2>4
<1>7. CASE (\E k \in Calls : Infer(k)) \/ \E l \in links : Sync(l)
  <2>1. /\ pc \in {"infer", "sync"} /\ pc' = "sync"
        /\ UNCHANGED <<roots, todo, stack, pipeline, current, built>>
    BY <1>7 DEF Infer, Sync, plan, walk
  <2>2. Done' = Done
    BY <2>1 DEF Done
  <2>3. RootsWalked'
    BY <2>1 DEF RootsWalked
  <2>4. RootsPiped'
    BY <2>1, <2>2 DEF RootsPiped, Monotone
  <2> QED BY <1>1, <1>3, <2>1, <2>3, <2>4
<1>8. CASE Join \/ \E l \in links : Break(l)
  <2>1. pc = "sync" /\ pc' = "infer" /\ UNCHANGED built
    BY <1>8 DEF Join, Break
  <2> QED BY <1>1, <1>3, <1>8, <2>1, RootsJoin
<1>9. CASE Inferred
  <2>1. /\ pc = "infer" /\ pc' = "finalize" /\ todo = {} /\ stack = <<>>
        /\ UNCHANGED <<roots, pipeline, built>>
    BY <1>9 DEF Inferred, WalkEnds, plan, inferred
  <2>2. Done = roots
    BY <2>1 DEF Done, Range
  <2> QED BY <1>1, <1>3, <2>1, <2>2 DEF RootsWalked, RootsPiped, Monotone
<1>10. CASE Finalize
  <2>1. CASE Raise
    BY <1>2, <2>1 DEF Raise
  <2>2. CASE ~ Raise
    <3>1. pc = "finalize" /\ pc' = "finalize" /\ UNCHANGED <<roots, pipeline, built>>
      BY <1>10, <2>2 DEF Finalize, plan, inferred
    <3> QED BY <1>1, <1>3, <3>1 DEF RootsWalked, RootsPiped, Monotone
  <2> QED BY <2>1, <2>2
<1>11. CASE Finalized
  <2>1. /\ pc = "finalize" /\ pc' = "build" /\ todo' = roots /\ stack' = <<>>
        /\ UNCHANGED <<roots, pipeline, built>>
    BY <1>11 DEF Finalized, WalkEnds, plan, inferred
  <2>2. RootsWalked'
    BY <2>1, RootsBegin
  <2> QED BY <1>1, <1>3, <2>1, <2>2 DEF RootsPiped, Monotone
<1>12. ASSUME NEW k \in Calls, Construct(k) PROVE RootInv'
  <2>1. pc = "build" /\ pc' = "build" /\ UNCHANGED <<roots, pipeline>>
    BY <1>12 DEF Construct, CanVisit, plan
  <2>2. RootsPiped'
    BY <2>1 DEF RootsPiped, Monotone
  <2> QED BY <1>1, <1>12, <2>2, RootsConstruct
<1>13. CASE Built \/ \E k \in Calls : RunCall(k)
  <2>1. pc \in {"build", "run"} /\ pc' = "run" /\ UNCHANGED <<roots, pipeline, built>>
    BY <1>13 DEF Built, RunCall, plan, inferred
  <2> QED BY <1>1, <2>1 DEF RootsWalked, RootsPiped, RootsBuilt, Monotone
<1>14. CASE UNCHANGED vars
  <2>1. UNCHANGED <<pc, roots, todo, stack, pipeline, current, built>>
    BY <1>14 DEF vars, plan, inferred, walk
  <2>2. Done' = Done
    BY <2>1 DEF Done
  <2>3. RootsWalked'
    BY <2>1 DEF RootsWalked
  <2>4. RootsPiped'
    BY <2>1, <2>2 DEF RootsPiped, Monotone
  <2>5. RootsBuilt'
    BY <2>1 DEF RootsBuilt
  <2> QED BY <1>1, <2>3, <2>4, <2>5
<1>15. ASSUME NEW f \in Functions, NEW args \in Arguments(f), Register(f, args) PROVE pc' = "wire"
  BY <1>15 DEF Register
<1>16. ASSUME Wire \/ Wired PROVE pc' \in {"open", "wire"}
  BY <1>16 DEF Wire, Wired
<1>17. ASSUME (\E k \in Calls : ConstructRaises(k)) \/ RunRaises \/ Clear PROVE pc' = "open"
  BY <1>17 DEF ConstructRaises, RunRaises, Raise, Clear
<1> HIDE DEF RootInv
<1> QED BY <1>2, <1>4, <1>5, <1>6, <1>7, <1>8, <1>9, <1>10, <1>11, <1>12, <1>13, <1>14, <1>15,
           <1>16, <1>17 DEF Next, Step

\* What ran of the roots comes after all roots before it.
RanRoots ==
  \A i \in DOMAIN ran : \A r \in roots :
    ran[i] \in roots /\ r < ran[i] => \E h \in 1 .. i - 1 : ran[h] = r

LEMMA RootRuns ==
  ASSUME TypeInv, BuildInv, RootInv, RanRoots, NEW k \in Calls, RunCall(k)
  PROVE  RanRoots'
<1>1. /\ pc = "run" /\ k \in Remaining /\ IsNext(k) /\ ran' = Append(ran, k)
      /\ UNCHANGED roots /\ ran \in Seq(Calls) /\ built \in Seq(Calls)
  BY DEF RunCall, plan, TypeInv, TypeOK
<1>2. /\ Len(ran) \in Nat /\ DOMAIN ran = 1 .. Len(ran)
      /\ DOMAIN ran' = 1 .. Len(ran) + 1 /\ ran'[Len(ran) + 1] = k
      /\ \A i \in 1 .. Len(ran) : ran'[i] = ran[i]
  BY <1>1, AppendFacts
<1>3. ASSUME NEW r \in roots, k \in roots, r < k PROVE r \in Range(ran)
  <2> SUFFICES ASSUME r \notin Range(ran) PROVE FALSE
    OBVIOUS
  <2>1. r \in Calls /\ k \in Calls /\ Range(built) = Calls
    BY <1>1 DEF TypeInv, TypeOK, BuildInv
  <2>2. PICK i \in DOMAIN built :
          /\ built[i] = k
          /\ \A h \in DOMAIN built : built[h] \in Remaining =>
               \/ pipeline[k] < pipeline[built[h]]
               \/ pipeline[k] = pipeline[built[h]] /\ i <= h
    BY <1>1 DEF IsNext
  <2>3. PICK h \in DOMAIN built : built[h] = r
    BY <2>1 DEF Range
  <2>4. h < i /\ i \in Nat /\ h \in Nat
    <3>1. h < i
      BY <2>2, <2>3, <1>3 DEF RootInv, RootsBuilt
    <3> QED BY <3>1, <1>1
  <2>5. r \in Remaining
    BY <2>1 DEF Remaining
  <2>6. pipeline[k] < pipeline[r]
    BY <2>2, <2>3, <2>4, <2>5
  <2>7. pipeline[r] <= pipeline[k]
    BY <1>1, <1>3 DEF RootInv, RootsPiped, Monotone
  <2>8. pipeline[r] \in Nat /\ pipeline[k] \in Nat
    BY <2>1, PlanFacts DEF TypeInv
  <2> QED BY <2>6, <2>7, <2>8
<1>4. ASSUME NEW i \in 1 .. Len(ran) + 1, NEW r \in roots, ran'[i] \in roots, r < ran'[i]
      PROVE  \E h \in 1 .. i - 1 : ran'[h] = r
  <2>1. CASE i \in 1 .. Len(ran)
    <3>1. PICK h \in 1 .. i - 1 : ran[h] = r
      BY <2>1, <1>2, <1>4 DEF RanRoots
    <3>2. h \in 1 .. Len(ran)
      BY <2>1, <1>2
    <3> QED BY <3>1, <3>2, <1>2
  <2>2. CASE i = Len(ran) + 1
    <3>1. r \in Range(ran) /\ i - 1 = Len(ran)
      BY <2>2, <1>2, <1>3, <1>4
    <3>2. PICK h \in 1 .. Len(ran) : ran[h] = r
      BY <3>1, <1>2 DEF Range
    <3> QED BY <3>1, <3>2, <1>2
  <2> QED BY <2>1, <2>2, <1>2
<1> QED BY <1>1, <1>2, <1>4 DEF RanRoots

LEMMA RootsHold == Spec => []RootInv
<1>1. Init => RootInv
  <2> SUFFICES ASSUME Init PROVE RootInv
    OBVIOUS
  <2>1. pc = "open" /\ built = <<>> /\ Old = {}
    BY DEF Init, Old, Calls
  <2> QED BY <2>1 DEF RootInv, RootsOnTop, RootsWalked, RootsPiped, RootsBuilt
<1>2. TypeInv /\ TypeInv' /\ RootInv /\ [Next]_vars => RootInv'
  BY RootStep
<1> QED BY <1>1, <1>2, TypesHold, PTL DEF Spec

\* The roots are walked in the order of their registration (dag.py:237-283), so
\* their pipelines do not fall, and they run in that order (dag.py:398-420).
THEOREM RootsRunInOrder == Spec => []RootsInOrder
<1>1. Init => RanRoots
  BY DEF Init, RanRoots
<1>2. TypeInv /\ TypeInv' /\ BuildInv /\ RootInv /\ RanRoots /\ [Next]_vars => RanRoots'
  <2> SUFFICES ASSUME TypeInv, TypeInv', BuildInv, RootInv, RanRoots, [Next]_vars PROVE RanRoots'
    OBVIOUS
  <2>1. CASE ran' = <<>>
    BY <2>1 DEF RanRoots
  <2>2. CASE UNCHANGED <<ran, roots>>
    BY <2>2 DEF RanRoots
  <2>3. CASE pc' # "run"
    BY <2>1, <2>3 DEF TypeInv, StagesOK
  <2>4. ASSUME NEW k \in Calls, RunCall(k) PROVE RanRoots'
    BY <2>4, RootRuns
  <2>5. CASE Built \/ UNCHANGED vars
    BY <2>2, <2>5 DEF Built, plan, vars
  <2>6. ASSUME Next, \A k \in Calls : ~ RunCall(k), ~ Built PROVE pc' # "run"
    BY <2>6, OnlyTheyRun
  <2> QED BY <2>3, <2>4, <2>5, <2>6
<1>3. RanRoots => RootsInOrder
  BY DEF RanRoots, RootsInOrder
<1> QED BY <1>1, <1>2, <1>3, TypesHold, BuildingHolds, RootsHold, PTL DEF Spec

-----------------------------------------------------------------------------
(***************************************************************************)
(* Where generic types come from.                                          *)
(***************************************************************************)

\* The results a call takes of its children.
ArgChildren(k) == Children(k) \cap Range(calls[k].args)

\* The generic types of arguments that no child gave are those of the result,
\* which calls above gave.
FromAbove(k) ==
  LET names == Signature[calls[k].function]
  IN  \A i \in generic[k] \ {Result(k)} : types[k][i] # None =>
        names[i] = names[Result(k)] /\ types[k][i] = types[k][Result(k)]

GenericsFromAbove == \A k \in Calls : ArgChildren(k) = {} => FromAbove(k)

\* finalize has been at a call, or will be; then no type is generic.
Finalizing ==
  pc = "finalize" =>
    /\ roots \subseteq visited \cup todo \cup Range(queue)
    /\ \A v \in visited :
         generic[v] = {} /\ Children(v) \subseteq visited \cup todo \cup Range(queue)

NoGenerics == pc \in {"build", "run"} => \A k \in Calls : generic[k] = {}

LinksOfHead == pc = "sync" => links \subseteq Links(Head(stack))

GenericInv == GenericsFromAbove /\ Finalizing /\ NoGenerics /\ LinksOfHead

\* A type not inferred becomes that of another argument, or of the result.
LEMMA FromAboveEdit ==
  ASSUME TypeInv, NEW j \in Calls, FromAbove(j),
         NEW a \in generic[j], NEW b \in generic[j], a # b,
         Signature[calls[j].function][a] = Signature[calls[j].function][b],
         types[j][a] = None, types[j][b] # None,
         types' = [types EXCEPT ![j][a] = types[j][b]], UNCHANGED <<calls, generic>>
  PROVE  FromAbove(j)'
<1>1. /\ DOMAIN types = Calls /\ types[j] \in Seq(InferredTypes) /\ generic[j] \subseteq DOMAIN types[j]
      /\ DOMAIN types[j] = 1 .. Len(types[j])
  BY PlanFacts DEF TypeInv, TypeOK
<1>2. /\ types'[j][a] = types[j][b]
      /\ \A i \in DOMAIN types[j] : i # a => types'[j][i] = types[j][i]
      /\ Len(types'[j]) = Len(types[j])
  BY <1>1
<1>3. Result(j)' = Result(j)
  BY <1>2 DEF Result
<1>4. a # Result(j)
  <2> SUFFICES ASSUME a = Result(j) PROVE FALSE
    OBVIOUS
  <2>1. b \in generic[j] \ {Result(j)}
    OBVIOUS
  <2> QED BY <2>1 DEF FromAbove
<1>5. Result(j) \in DOMAIN types[j]
  <2>1. Len(types[j]) \in Nat /\ a \in 1 .. Len(types[j])
    BY <1>1, PlanFacts DEF TypeInv
  <2> QED BY <2>1, <1>1 DEF Result
<1>6. types'[j][Result(j)] = types[j][Result(j)]
  BY <1>2, <1>4, <1>5
<1>7. ASSUME NEW i \in generic[j] \ {Result(j)}, types'[j][i] # None
      PROVE  /\ Signature[calls[j].function][i] = Signature[calls[j].function][Result(j)]
             /\ types'[j][i] = types[j][Result(j)]
  <2>1. CASE i # a
    BY <2>1, <1>1, <1>2, <1>7 DEF FromAbove
  <2>2. CASE i = a /\ b = Result(j)
    BY <2>2, <1>2
  <2>3. CASE i = a /\ b # Result(j)
    BY <2>3, <1>2 DEF FromAbove
  <2> QED BY <2>1, <2>2, <2>3
<1> QED BY <1>3, <1>6, <1>7 DEF FromAbove

\* The other calls, and those that lose generic types.
LEMMA FromAboveSame ==
  ASSUME NEW j, FromAbove(j), UNCHANGED calls, types'[j] = types[j], generic'[j] \subseteq generic[j]
  PROVE  FromAbove(j)'
  BY DEF FromAbove, Result

LEMMA GenericsSync ==
  ASSUME TypeInv, TypeInv', GenericInv, NEW l \in links, Sync(l)
  PROVE  GenericInv'
<1>1. /\ pc = "sync" /\ pc' = "sync" /\ links' = links \ {l} /\ UNCHANGED <<calls, generic, stack>>
      /\ LinksOK /\ stack # <<>> /\ stack \in Seq(Calls) /\ DOMAIN types = Calls
      /\ links \subseteq Links(Head(stack))
  BY PlanFacts DEF Sync, plan, walk, TypeInv, StagesOK, TypeOK, GenericInv, LinksOfHead
<1>2. PICK k \in Calls : k = Head(stack) /\ k = Head(stack')
  BY <1>1, HeadAndTail
<1>3. l[1] \in DOMAIN types[k] /\ l[2] \in Calls /\ l[3] \in DOMAIN types[l[2]]
  BY <1>1, <1>2 DEF LinksOK, IsLink
<1>4. \/ types' = types
      \/ /\ types[k][l[1]] = None /\ types' = [types EXCEPT ![k][l[1]] = types[l[2]][l[3]]]
         /\ types[l[2]][l[3]] # None \/ l[3] \notin generic[l[2]]
      \/ /\ types[l[2]][l[3]] = None /\ types' = [types EXCEPT ![l[2]][l[3]] = types[k][l[1]]]
         /\ types[k][l[1]] # None
  BY <1>2 DEF Sync, Mine, Its, IsOpen
<1>5. \A j \in Calls : Children(j)' = Children(j) /\ Result(j)' = Result(j) /\ Arity(j)' = Arity(j)
  <2>1. Calls' = Calls /\ \A j \in Calls : Len(types[j]) = Len(Signature[calls[j].function])
    BY <1>1 DEF Calls, TypeInv, TypeOK
  <2>2. \A j \in Calls : Len(types'[j]) = Len(Signature[calls[j].function])
    BY <2>1, <1>1 DEF TypeInv, TypeOK
  <2> QED BY <2>1, <2>2, <1>1 DEF Result, Children, Arity
<1>6. LinksOfHead'
  <2>1. Children(k) \subseteq Calls
    BY PlanFacts DEF TypeInv
  <2>2. Links(k)' = Links(k)
    BY <2>1, <1>1, <1>5 DEF Links, ArgLinks, InnerLinks
  <2> QED BY <2>2, <1>1, <1>2 DEF LinksOfHead
<1>7. ASSUME NEW j \in Calls, ArgChildren(j) = {} PROVE FromAbove(j)'
  <2>1. FromAbove(j)
    BY <1>7 DEF GenericInv, GenericsFromAbove
  <2>2. CASE types'[j] = types[j]
    BY <2>1, <2>2, <1>1, FromAboveSame
  <2>3. CASE l \in ArgLinks(k) /\ j = l[2] /\ types[j][l[3]] = None
             /\ types' = [types EXCEPT ![j][l[3]] = types[k][l[1]]]
    <3>1. l[3] = Result(j)
      BY <2>3 DEF ArgLinks
    <3>2. \A i \in generic[j] \ {Result(j)} : types[j][i] = None
      BY <2>1, <2>3, <3>1 DEF FromAbove
    <3>3. \A i \in DOMAIN types[j] : i # Result(j) => types'[j][i] = types[j][i]
      BY <2>3, <3>1, <1>1
    <3>4. generic[j] \subseteq DOMAIN types[j]
      BY DEF TypeInv, TypeOK
    <3>5. \A i \in generic'[j] \ {Result(j)'} : types'[j][i] = None
      BY <3>2, <3>3, <3>4, <1>1, <1>5
    <3> QED BY <3>5 DEF FromAbove
  <2>4. CASE l \in ArgLinks(k) /\ types' = [types EXCEPT ![k][l[1]] = types[l[2]][l[3]]]
    <3>1. l[2] \in ArgChildren(k)
      <4>1. PICK i \in 1 .. Arity(k) :
              calls[k].args[i] \in Children(k) /\ l = <<i, calls[k].args[i], Result(calls[k].args[i])>>
        BY <2>4 DEF ArgLinks
      <4>2. i \in DOMAIN calls[k].args
        <5>1. calls[k].args \in Seq(Values \cup Nat)
          BY PlanFacts DEF TypeInv, Annotated
        <5> QED BY <5>1 DEF Arity
      <4> QED BY <4>1, <4>2 DEF ArgChildren, Range
    <3>2. j # k
      BY <3>1, <1>7
    <3> QED BY <2>2, <2>4, <3>2, <1>1
  <2>5. CASE l \in InnerLinks(k)
    <3>1. /\ l[1] \in generic[k] /\ l[2] = k /\ l[3] \in generic[k] /\ l[1] # l[3]
          /\ Signature[calls[k].function][l[1]] = Signature[calls[k].function][l[3]]
      BY <2>5 DEF InnerLinks
    <3>2. CASE j # k
      <4>1. types'[j] = types[j]
        BY <3>1, <3>2, <1>1, <1>4
      <4> QED BY <4>1, <2>2
    <3>3. CASE j = k /\ types[k][l[1]] = None /\ types[k][l[3]] # None
               /\ types' = [types EXCEPT ![k][l[1]] = types[k][l[3]]]
      BY <3>1, <3>3, <2>1, <1>1, FromAboveEdit
    <3>4. CASE j = k /\ types[k][l[3]] = None /\ types[k][l[1]] # None
               /\ types' = [types EXCEPT ![k][l[3]] = types[k][l[1]]]
      BY <3>1, <3>4, <2>1, <1>1, FromAboveEdit
    <3> QED BY <3>1, <3>2, <3>3, <3>4, <2>2, <1>4
  <2>6. l \in ArgLinks(k) \/ l \in InnerLinks(k)
    BY <1>1, <1>2 DEF Links
  <2>7. CASE l \in ArgLinks(k)
    <3>1. j # l[2] /\ types' = [types EXCEPT ![l[2]][l[3]] = types[k][l[1]]] => types'[j] = types[j]
      BY <1>1
    <3> QED BY <3>1, <2>2, <2>3, <2>4, <2>7, <1>4
  <2> QED BY <2>5, <2>6, <2>7
<1>8. GenericsFromAbove'
  <2>1. Calls' = Calls /\ \A j \in Calls : ArgChildren(j)' = ArgChildren(j)
    BY <1>1, <1>5 DEF Calls, ArgChildren
  <2> QED BY <2>1, <1>7 DEF GenericsFromAbove
<1> QED BY <1>1, <1>6, <1>8 DEF GenericInv, Finalizing, NoGenerics

LEMMA GenericsFinalize ==
  ASSUME TypeInv, GenericInv, Finalize
  PROVE  GenericInv'
<1>1. /\ pc = "finalize" /\ ~ WalkEnds /\ UNCHANGED <<calls, roots>> /\ stack = <<>>
      /\ DOMAIN generic = Calls /\ queue \in Seq(Calls) /\ todo \subseteq Calls
      /\ visited \subseteq Calls
  BY PlanFacts DEF Finalize, Raise, plan, TypeInv, StagesOK, TypeOK
<1>2. /\ First \in Calls /\ Rest \in Seq(Calls)
      /\ todo \cup Range(queue) = {First} \cup Taken(First) \cup Range(Rest)
  BY <1>1, FirstFacts DEF TypeInv
<1>3. PICK j \in Calls : j = First
  BY <1>2
<1>4. Final(j) \subseteq generic[j]
  <2>1. Result(j) \in {i \in generic[j] : types[j][i] = None} => Result(j) \in generic[j]
    OBVIOUS
  <2> QED BY <2>1 DEF Final
<1>5. types' = types /\ (generic' = generic \/ generic' = [generic EXCEPT ![j] = Final(j)])
  BY <1>3 DEF Finalize, inferred
<1>6. GenericsFromAbove'
  <2>1. Calls' = Calls /\ \A k \in Calls : ArgChildren(k)' = ArgChildren(k)
    BY <1>1 DEF Calls, ArgChildren, Children
  <2>2. \A k \in Calls : generic'[k] \subseteq generic[k]
    BY <1>1, <1>4, <1>5
  <2>3. \A k \in Calls : FromAbove(k) => FromAbove(k)'
    BY <2>2, <1>1, <1>5, FromAboveSame
  <2> QED BY <2>1, <2>3 DEF GenericInv, GenericsFromAbove
<1>7. CASE Raise
  <2>1. pc' = "open"
    BY <1>7 DEF Raise
  <2> QED BY <2>1, <1>6 DEF GenericInv, Finalizing, NoGenerics, LinksOfHead
<1>8. CASE /\ j \notin visited /\ generic' = [generic EXCEPT ![j] = {}] /\ pc' = "finalize"
           /\ todo' = Taken(j) /\ queue' = Rest \o calls[j].children /\ visited' = visited \cup {j}
  <2>1. Range(queue') = Range(Rest) \cup Children(j)
    <3>1. calls[j].children \in Seq(Calls)
      BY PlanFacts DEF TypeInv
    <3> QED BY <3>1, <1>2, <1>8, ConcatRange DEF Children
  <2>2. \A v : Children(v)' = Children(v)
    BY <1>1 DEF Children
  <2>3. visited \cup todo \cup Range(queue) \subseteq visited' \cup todo' \cup Range(queue')
    BY <2>1, <1>2, <1>3, <1>8
  <2>4. ASSUME NEW v \in visited'
        PROVE  generic'[v] = {} /\ Children(v)' \subseteq visited' \cup todo' \cup Range(queue')
    <3>1. CASE v = j
      BY <3>1, <2>1, <2>2, <1>1, <1>8
    <3>2. CASE v # j
      <4>1. v \in visited /\ generic'[v] = generic[v]
        BY <3>2, <1>1, <1>8
      <4> QED BY <4>1, <2>2, <2>3, <1>1 DEF GenericInv, Finalizing
    <3> QED BY <3>1, <3>2
  <2>5. roots' \subseteq visited' \cup todo' \cup Range(queue')
    BY <2>3, <1>1 DEF GenericInv, Finalizing
  <2> QED BY <2>4, <2>5, <1>6, <1>8 DEF GenericInv, Finalizing, NoGenerics, LinksOfHead
<1>9. CASE /\ j \in visited /\ generic' = generic /\ pc' = "finalize"
           /\ todo' = Taken(j) /\ queue' = Rest /\ visited' = visited
  <2>1. \A v : Children(v)' = Children(v)
    BY <1>1 DEF Children
  <2>2. visited \cup todo \cup Range(queue) \subseteq visited' \cup todo' \cup Range(queue')
    BY <1>2, <1>3, <1>9
  <2>3. Finalizing'
    BY <2>1, <2>2, <1>1, <1>9 DEF GenericInv, Finalizing
  <2> QED BY <2>3, <1>6, <1>9 DEF GenericInv, NoGenerics, LinksOfHead
<1> QED BY <1>1, <1>3, <1>7, <1>8, <1>9 DEF Finalize, inferred

\* finalize was at every call.
LEMMA GenericsGone ==
  ASSUME TypeInv, WireInv, GenericInv, Finalized
  PROVE  NoGenerics'
<1>1. /\ pc = "finalize" /\ todo = {} /\ queue = <<>> /\ UNCHANGED <<calls, generic>>
      /\ visited \in SUBSET Calls
  BY DEF Finalized, WalkEnds, plan, inferred, TypeInv, TypeOK
<1>2. Range(queue) = {}
  BY <1>1 DEF Range
<1>3. roots \subseteq visited /\ \A v \in visited : generic[v] = {} /\ Children(v) \subseteq visited
  BY <1>1, <1>2 DEF GenericInv, Finalizing
<1>4. Calls \subseteq visited
  <2>1. Old = Calls
    BY <1>1 DEF Old
  <2> QED BY <2>1, <1>1, <1>3 DEF WireInv, RootsAbove, Closed
<1> QED BY <1>1, <1>3, <1>4 DEF NoGenerics, Calls

LEMMA GenericsRegister ==
  ASSUME TypeInv, TypeInv', GenericInv, NEW f \in Functions, NEW args \in Arguments(f), Register(f, args)
  PROVE  GenericsFromAbove'
<1> DEFINE new == [function |-> f, args |-> args, children |-> <<>>]
           ts == [i \in 1 .. Len(Signature[f]) |->
                    IF Signature[f][i] \in Generics \/ Signature[f][i] = None THEN None
                    ELSE <<Signature[f][i], "new">>]
           gs == {i \in 1 .. Len(Signature[f]) : Signature[f][i] \in Generics}
<1>1. /\ calls' = Append(calls, new) /\ types' = Append(types, ts) /\ generic' = Append(generic, gs)
  BY Zenon DEF Register
<1>2. PICK n \in Nat : n = Len(calls) + 1
  BY PlanFacts DEF TypeInv
<1>3. /\ calls \in Seq(Annotated) /\ types \in Seq(Seq(InferredTypes)) /\ generic \in Seq(SUBSET Nat)
      /\ Len(types) = Len(calls) /\ Len(generic) = Len(calls)
  BY DEF TypeInv, TypeOK
<1>4. \A i \in gs : ts[i] = None
  OBVIOUS
<1> HIDE DEF new, ts, gs
<1>5. /\ Len(calls') = n /\ types'[n] = ts /\ generic'[n] = gs
      /\ \A k \in 1 .. n - 1 : calls'[k] = calls[k] /\ types'[k] = types[k] /\ generic'[k] = generic[k]
  BY <1>1, <1>2, <1>3
<1>6. Calls' = Calls \cup {n} /\ Calls = 1 .. n - 1
  BY <1>2, <1>5 DEF Calls
<1> SUFFICES ASSUME NEW k \in Calls', ArgChildren(k)' = {} PROVE FromAbove(k)'
  BY DEF GenericsFromAbove
<1>7. CASE k = n
  BY <1>4, <1>5, <1>7 DEF FromAbove
<1>8. CASE k \in Calls
  <2>1. calls'[k] = calls[k] /\ types'[k] = types[k] /\ generic'[k] = generic[k]
    BY <1>5, <1>6, <1>8
  <2>2. ArgChildren(k)' = ArgChildren(k)
    BY <2>1 DEF ArgChildren, Children
  <2>3. FromAbove(k)
    BY <1>8, <2>2 DEF GenericInv, GenericsFromAbove
  <2> QED BY <2>1, <2>3 DEF FromAbove, Result
<1> QED BY <1>6, <1>7, <1>8

\* Once more children are known, less is to be from above.
LEMMA GenericsWire ==
  ASSUME TypeInv, GenericInv, Wire
  PROVE  GenericsFromAbove'
<1>1. PICK n : n = Len(calls)
  OBVIOUS
<1>2. /\ n \in Calls /\ Calls' = Calls /\ UNCHANGED inferred
      /\ \A i \in Calls : i # n => calls'[i] = calls[i]
      /\ \A i \in Calls : calls'[i].args = calls[i].args /\ calls'[i].function = calls[i].function
      /\ Children(n) \subseteq Children(n)'
  BY <1>1, WireFacts
<1>3. ASSUME NEW k \in Calls, ArgChildren(k)' = {} PROVE FromAbove(k)'
  <2>1. Children(k) \subseteq Children(k)'
    BY <1>2 DEF Children
  <2>2. FromAbove(k)
    BY <2>1, <1>2, <1>3 DEF ArgChildren, GenericInv, GenericsFromAbove
  <2> QED BY <2>2, <1>2 DEF FromAbove, Result, inferred
<1> QED BY <1>2, <1>3 DEF GenericsFromAbove

\* The types that are marked are of calls without generic ones.
LEMMA GenericsMarked ==
  ASSUME TypeInv, GenericInv, pc \in {"build", "run"}, UNCHANGED <<calls, generic>>
  PROVE  GenericsFromAbove'
<1>1. \A j \in Calls : generic[j] = {}
  BY DEF GenericInv, NoGenerics
<1> QED BY <1>1 DEF GenericsFromAbove, FromAbove, Calls

LEMMA GenericStep ==
  ASSUME TypeInv, TypeInv', WireInv, GenericInv, [Next]_vars
  PROVE  GenericInv'
<1>1. ASSUME UNCHANGED <<calls, types, generic>> PROVE GenericsFromAbove'
  <2>1. Calls' = Calls /\ \A k : ArgChildren(k)' = ArgChildren(k)
    BY <1>1 DEF Calls, ArgChildren, Children
  <2>2. \A k : FromAbove(k)' <=> FromAbove(k)
    BY <1>1 DEF FromAbove, Result
  <2> QED BY <2>1, <2>2 DEF GenericInv, GenericsFromAbove
<1>2. ASSUME pc' \notin {"finalize", "build", "sync", "run"}, GenericsFromAbove' PROVE GenericInv'
  BY <1>2 DEF GenericInv, Finalizing, NoGenerics, LinksOfHead
<1>3. ASSUME NEW f \in Functions, NEW args \in Arguments(f), Register(f, args) PROVE GenericInv'
  <2>1. pc' = "wire"
    BY <1>3 DEF Register
  <2> QED BY <2>1, <1>2, <1>3, GenericsRegister
<1>4. CASE Wire
  <2>1. pc' = "wire"
    BY <1>4 DEF Wire
  <2> QED BY <2>1, <1>2, <1>4, GenericsWire
<1>5. CASE Wired \/ Evaluate \/ Join \/ InferAgain \/ \E l \in links : Break(l)
  <2>1. UNCHANGED <<calls, types, generic>> /\ pc' \notin {"finalize", "build", "sync", "run"}
    <3>1. CASE Wired \/ Evaluate \/ InferAgain
      BY <3>1 DEF Wired, Evaluate, InferAgain, plan, inferred
    <3>2. CASE Join \/ \E l \in links : Break(l)
      BY <3>2 DEF Join, Break, plan
    <3> QED BY <1>5, <3>1, <3>2
  <2> QED BY <2>1, <1>1, <1>2
<1>6. CASE NextRoot \/ Descend
  <2>1. /\ UNCHANGED <<calls, types, generic, pc>> /\ pc \in {"infer", "build"}
    BY <1>6 DEF NextRoot, Descend, plan, inferred
  <2>2. NoGenerics'
    BY <2>1 DEF GenericInv, NoGenerics, Calls
  <2> QED BY <2>1, <2>2, <1>1 DEF GenericInv, Finalizing, LinksOfHead
<1>7. ASSUME NEW k \in Calls, Infer(k) PROVE GenericInv'
  <2>1. /\ UNCHANGED <<calls, types, generic, stack>> /\ pc' = "sync" /\ k = Head(stack)
        /\ links' = Links(k)
    BY <1>7 DEF Infer, CanVisit, plan, walk
  <2>2. Links(k)' = Links(k)
    BY <2>1 DEF Links, ArgLinks, InnerLinks, Arity, Result, Children
  <2> QED BY <2>1, <2>2, <1>1 DEF GenericInv, Finalizing, NoGenerics, LinksOfHead
<1>8. ASSUME NEW l \in links, Sync(l) PROVE GenericInv'
  BY <1>8, GenericsSync
<1>9. CASE Inferred
  <2>1. /\ UNCHANGED <<calls, roots, types, generic>> /\ pc' = "finalize" /\ todo' = roots /\ visited' = {}
    BY <1>9 DEF Inferred, plan, inferred
  <2> QED BY <2>1, <1>1 DEF GenericInv, Finalizing, NoGenerics, LinksOfHead
<1>10. CASE Finalize
  BY <1>10, GenericsFinalize
<1>11. CASE Finalized
  <2>1. UNCHANGED <<calls, types, generic>> /\ pc' = "build"
    BY <1>11 DEF Finalized, plan, inferred
  <2> QED BY <2>1, <1>1, <1>11, GenericsGone DEF GenericInv, Finalizing, LinksOfHead
<1>12. ASSUME NEW k \in Calls, Construct(k) PROVE GenericInv'
  <2>1. /\ pc = "build" /\ pc' = "build" /\ UNCHANGED <<calls, generic>>
        /\ types' = types \/ types' = [types EXCEPT ![k] = Marked(k)]
    BY <1>12 DEF Construct, CanVisit, plan
  <2>2. GenericsFromAbove'
    BY <2>1, <1>1, GenericsMarked
  <2> QED BY <2>1, <2>2 DEF GenericInv, NoGenerics, Finalizing, LinksOfHead, Calls
<1>13. ASSUME NEW k \in Calls, ConstructRaises(k) PROVE GenericInv'
  <2>1. pc = "build" /\ pc' = "open" /\ UNCHANGED <<calls, generic>>
        /\ types' = [types EXCEPT ![k] = Marked(k)]
    BY <1>13 DEF ConstructRaises, Raise, plan
  <2> QED BY <2>1, <1>2, GenericsMarked
<1>14. CASE Built \/ \E k \in Calls : RunCall(k)
  <2>1. /\ UNCHANGED <<calls, types, generic>> /\ pc \in {"build", "run"} /\ pc' = "run"
    BY <1>14 DEF Built, RunCall, plan, inferred
  <2> QED BY <2>1, <1>1 DEF GenericInv, NoGenerics, Finalizing, LinksOfHead, Calls
<1>15. CASE RunRaises
  <2>1. pc = "run" /\ pc' = "open" /\ UNCHANGED <<calls, generic>>
    BY <1>15 DEF RunRaises, Raise, plan
  <2> QED BY <2>1, <1>2, GenericsMarked
<1>16. CASE Clear
  <2>1. Calls' = {} /\ pc' = "open"
    BY <1>16 DEF Clear, Calls
  <2> QED BY <2>1, <1>2 DEF GenericsFromAbove
<1>17. CASE UNCHANGED vars
  <2>1. UNCHANGED <<calls, roots, types, generic, links, pc, todo, queue, stack, visited>>
    BY <1>17 DEF vars, plan, inferred, walk
  <2>2. Finalizing'
    BY <2>1 DEF GenericInv, Finalizing, Children
  <2>3. NoGenerics'
    BY <2>1 DEF GenericInv, NoGenerics, Calls
  <2>4. LinksOfHead'
    <3>1. \A k : Links(k)' = Links(k)
      BY <2>1 DEF Links, ArgLinks, InnerLinks, Arity, Result, Children
    <3>2. PICK k : k = Head(stack) /\ k = Head(stack')
      BY <2>1
    <3> QED BY <3>1, <3>2, <2>1 DEF GenericInv, LinksOfHead
  <2> QED BY <2>1, <2>2, <2>3, <2>4, <1>1 DEF GenericInv
<1> QED BY <1>3, <1>4, <1>5, <1>6, <1>7, <1>8, <1>9, <1>10, <1>11, <1>12, <1>13, <1>14, <1>15, <1>16,
            <1>17 DEF Next, Step

LEMMA GenericsHold == Spec => []GenericInv
<1>1. Init => GenericInv
  BY DEF Init, GenericInv, GenericsFromAbove, Finalizing, NoGenerics, LinksOfHead, Calls
<1>2. TypeInv /\ TypeInv' /\ WireInv /\ GenericInv /\ [Next]_vars => GenericInv'
  BY GenericStep
<1> QED BY <1>1, <1>2, TypesHold, WiringHolds, PTL DEF Spec

\* Types that do not agree are those of a child's result and of the argument it is.
LEMMA BreaksAtArgument ==
  ASSUME TypeInv, GenericInv, NEW l \in links, Break(l), NEW k \in Calls, k = Head(stack)
  PROVE  ArgChildren(k) # {}
<1> SUFFICES ASSUME ArgChildren(k) = {} PROVE FALSE
  OBVIOUS
<1>1. l \in Links(k) /\ FromAbove(k)
  BY DEF Break, GenericInv, LinksOfHead, GenericsFromAbove
<1>2. /\ types[k][l[1]] # types[l[2]][l[3]] /\ types[k][l[1]] # None
      /\ types[l[2]][l[3]] # None \/ l[3] \notin generic[l[2]]
  BY DEF Break, Mine, Its, IsOpen
<1>3. CASE l \in InnerLinks(k)
  <2>1. l[1] \in generic[k] /\ l[2] = k /\ l[3] \in generic[k] /\ l[1] # l[3]
    BY <1>3 DEF InnerLinks
  <2>2. \A i \in generic[k] : types[k][i] # None => types[k][i] = types[k][Result(k)]
    BY <1>1 DEF FromAbove
  <2> QED BY <2>1, <2>2, <1>2
<1>4. CASE l \in ArgLinks(k)
  <2>1. PICK i \in 1 .. Arity(k) : calls[k].args[i] \in Children(k)
    BY <1>4 DEF ArgLinks
  <2>2. i \in DOMAIN calls[k].args
    <3>1. calls[k].args \in Seq(Values \cup Nat)
      BY PlanFacts DEF TypeInv, Annotated
    <3> QED BY <3>1 DEF Arity
  <2> QED BY <2>1, <2>2 DEF ArgChildren, Range
<1> QED BY <1>1, <1>3, <1>4 DEF Links

-----------------------------------------------------------------------------
(***************************************************************************)
(* Why there is a second pipeline.                                         *)
(***************************************************************************)

\* The roots that were walked before, and the calls that keep the pipeline the
\* pass gave them.
Behind  == roots \ (todo \cup visited \cup Range(stack))
Settled == visited \cup UNION {Below({r}) : r \in Behind}

\* The pass has begun each of its pipelines for a call that takes an operation.
HeldPass ==
  pc \in {"infer", "sync"} /\ NothingShared =>
    /\ \A v \in Settled : pipeline[v] <= current
    /\ \A p \in 1 .. current : \E v \in Settled : pipeline[v] = p /\ TakesOperation(v)

HeldAfter ==
  pc \in {"finalize", "build", "run"} /\ NothingShared =>
    \A v \in Calls : pipeline[v] # 0 =>
      \E w \in Calls : pipeline[w] = pipeline[v] /\ TakesOperation(w)

\* While the walk is below one root, no more is settled than it visits.
LEMMA SettledEdit ==
  ASSUME UNCHANGED <<calls, roots>>, Behind' = Behind
  PROVE  Settled' = visited' \cup UNION {Below({r}) : r \in Behind}
<1>1. \A S : Below(S)' = Below(S)
  BY PlanSame
<1> QED BY <1>1 DEF Settled

\* What is settled is closed, and does not have the call that is visited.
LEMMA SettledFacts ==
  ASSUME TypeInv, NothingShared, Inside, Visited, Walked
  PROVE  /\ Settled \subseteq Calls
         /\ \A v \in Settled : Children(v) \subseteq Settled
         /\ stack # <<>> => Head(stack) \notin Settled
<1>1. visited \subseteq Calls /\ roots \subseteq Calls /\ \A v \in Calls : Children(v) \subseteq Calls
  BY PlanFacts DEF TypeInv, TypeOK
<1>2. \A S : Below(S) \subseteq Calls
  BY DEF Below
<1>3. ASSUME NEW v \in Settled, NEW c \in Children(v) PROVE c \in Settled
  <2>1. CASE v \in visited
    BY <2>1, <1>3 DEF Visited, Settled
  <2>2. ASSUME NEW r \in Behind, v \in Below({r})
        PROVE  c \in Below({r})
    BY <2>2, <1>1, <1>2, <1>3, BelowChild
  <2> QED BY <2>1, <2>2 DEF Settled
<1>4. ASSUME stack # <<>> PROVE Head(stack) \notin Settled
  <2>1. Head(stack) \in Range(stack) /\ Head(stack) \notin visited
    BY <1>4, HeadFacts
  <2>2. PICK cur \in roots \ todo :
          cur \in visited \cup Range(stack) /\ visited \cup Range(stack) \subseteq Below({cur})
    BY <1>4 DEF Walked
  <2>3. ASSUME NEW r \in Behind PROVE Head(stack) \notin Below({r})
    <3>1. r # cur /\ r \in roots /\ Head(stack) \in Below({cur})
      BY <2>1, <2>2 DEF Behind
    <3> QED BY <3>1 DEF NothingShared
  <2> QED BY <2>1, <2>3 DEF Settled
<1> QED BY <1>1, <1>2, <1>3, <1>4 DEF Settled

LEMMA HeldBegin ==
  ASSUME TypeInv, Evaluate \/ InferAgain
  PROVE  HeldPass'
<1>1. todo' = roots /\ UNCHANGED roots /\ visited' = {} /\ current' = 0
  BY DEF Evaluate, InferAgain, plan
<1>2. Settled' = {}
  BY <1>1 DEF Settled, Behind
<1> QED BY <1>1, <1>2 DEF HeldPass

\* Nothing changes of what a held call is about.
LEMMA HeldSame ==
  ASSUME UNCHANGED <<calls, roots, pipeline, current>>, pc' \in {"infer", "sync"} => pc \in {"infer", "sync"},
         NothingShared => Settled' = Settled, HeldPass
  PROVE  HeldPass'
<1>1. (NothingShared' <=> NothingShared) /\ \A v : TakesOperation(v)' <=> TakesOperation(v)
  BY PlanSame DEF TakesOperation, ArgChildren
<1> QED BY <1>1 DEF HeldPass

LEMMA HeldNext ==
  ASSUME TypeInv, PassInv, NextRoot, pc = "infer", NothingShared
  PROVE  Settled' = Settled
<1>1. stack = <<>> /\ visited' = {} /\ UNCHANGED <<calls, roots>>
  BY DEF NextRoot, plan
<1>2. PICK m : m \in todo /\ stack' = <<m>> /\ todo' = todo \ {m}
  <2>1. todo \subseteq Nat /\ todo # {}
    BY PlanFacts DEF TypeInv, TypeOK, NextRoot
  <2>2. Min(todo) \in todo
    BY <2>1, MinInSet
  <2> QED BY <2>2 DEF NextRoot
<1>3. /\ \A S : Below(S)' = Below(S)
      /\ Range(stack) = {} /\ Range(stack') = {m}
  BY <1>1, <1>2, PlanSame DEF Range
<1>4. Settled' = UNION {Below({r}) : r \in roots \ todo}
  <2>1. Behind' = roots \ todo
    BY <1>1, <1>2, <1>3 DEF Behind
  <2> QED BY <2>1, <1>1, <1>3 DEF Settled
<1>5. CASE todo = roots /\ visited = {}
  BY <1>3, <1>4, <1>5 DEF Settled, Behind
<1>6. CASE ~ (todo = roots /\ visited = {})
  <2>1. PICK cur \in roots \ todo : cur \in visited /\ visited \subseteq Below({cur})
    BY <1>3, <1>6 DEF PassInv, Walked
  <2>2. visited = Below({cur})
    <3>1. visited \in SUBSET Calls /\ \A v \in visited : Children(v) \subseteq visited
      BY DEF PassInv, Visited, TypeInv, TypeOK
    <3> QED BY <2>1, <3>1, BelowIn
  <2>3. roots \cap visited = {cur}
    <3>1. \A r \in roots : r \in Below({r})
      BY BelowSelf DEF TypeInv, TypeOK
    <3>2. ASSUME NEW r \in roots \cap visited PROVE r = cur
      <4>1. r \in Below({r}) \cap Below({cur})
        BY <2>2, <3>1, <3>2
      <4>2. r # cur => Below({r}) \cap Below({cur}) = {}
        BY <2>1, <3>2 DEF NothingShared
      <4> QED BY <4>1, <4>2
    <3> QED BY <2>1, <3>2
  <2>4. Behind = (roots \ todo) \ {cur}
    BY <1>3, <2>3 DEF Behind
  <2>5. Settled = Below({cur}) \cup UNION {Below({r}) : r \in (roots \ todo) \ {cur}}
    BY <2>2, <2>4 DEF Settled
  <2> QED BY <2>1, <2>5, <1>4
<1> QED BY <1>5, <1>6

LEMMA HeldDescend ==
  ASSUME TypeInv, RootInv, Descend
  PROVE  Settled' = Settled
<1>1. /\ stack # <<>> /\ pc # "wire" /\ UNCHANGED <<calls, roots, todo, visited>> /\ stack \in Seq(Calls)
  BY DEF Descend, plan, TypeInv, TypeOK
<1>2. PICK k \in Calls : k = Head(stack)
  BY <1>1, HeadAndTail
<1>3. PICK c \in Children(k) : stack' = <<c>> \o stack /\ c \in Calls
  <2>1. PICK i \in DOMAIN calls[k].children : stack' = <<calls[k].children[i]>> \o stack
    BY <1>2 DEF Descend
  <2>2. calls[k].children[i] \in Children(k)
    BY DEF Children, Range
  <2> QED BY <2>1, <2>2, PlanFacts DEF TypeInv
<1>4. Range(stack') = {c} \cup Range(stack)
  <2>1. <<c>> \in Seq(Calls) /\ Range(<<c>>) = {c}
    BY <1>3 DEF Range
  <2>2. PICK s \in Seq(Calls) : s = <<c>> /\ Range(s) = {c}
    BY <2>1
  <2>3. Range(s \o stack) = Range(s) \cup Range(stack)
    BY <1>1, ConcatRange
  <2> QED BY <2>2, <2>3, <1>3, Zenon
<1>5. c \notin roots
  <2>1. Old = Calls
    BY <1>1 DEF Old
  <2> QED BY <2>1, <1>2, <1>3 DEF RootInv, RootsOnTop
<1>6. Behind' = Behind
  BY <1>1, <1>4, <1>5 DEF Behind
<1> QED BY <1>1, <1>6, SettledEdit DEF Settled

\* A call that begins a pipeline takes a result of a child, which has an earlier one.
LEMMA HeldVisit ==
  ASSUME TypeInv, PassInv, GenericInv, HeldPass, Join \/ \E l \in links : Break(l)
  PROVE  HeldPass'
<1> SUFFICES ASSUME NothingShared'
             PROVE  /\ \A v \in Settled' : pipeline'[v] <= current'
                    /\ \A p \in 1 .. current' : \E v \in Settled' : pipeline'[v] = p /\ TakesOperation(v)'
  BY DEF HeldPass
<1>1. /\ pc = "sync" /\ stack # <<>> /\ UNCHANGED <<calls, roots, todo>>
      /\ stack' = Tail(stack) /\ visited' = visited \cup {Head(stack)}
      /\ pipeline' = [pipeline EXCEPT ![Head(stack)] = current']
      /\ current' = current \/ (current' = current + 1 /\ \E l \in links : Break(l))
  BY DEF Join, Break, Visit, plan, TypeInv, StagesOK
<1>2. /\ \A S : Below(S)' = Below(S)
      /\ \A j : Children(j)' = Children(j)
      /\ NothingShared
  BY <1>1, PlanSame
<1>3. Inside /\ Visited /\ Walked /\ Synced
  BY <1>1, <1>2 DEF PassInv
<1>4. PICK k \in Calls : k = Head(stack)
  BY <1>1, <1>3, HeadFacts
<1>5. /\ Settled \subseteq Calls /\ k \notin Settled
      /\ \A v \in Settled : Children(v) \subseteq Settled
  BY <1>1, <1>2, <1>3, <1>4, SettledFacts
<1>6. Settled' = Settled \cup {k}
  <2>1. Range(stack) = {k} \cup Range(stack')
    BY <1>1, <1>3, <1>4, HeadFacts
  <2>2. Behind' = Behind
    BY <2>1, <1>1, <1>4 DEF Behind
  <2>3. Settled' = visited' \cup UNION {Below({r}) : r \in Behind}
    BY <2>2, <1>1, SettledEdit
  <2> QED BY <2>3, <1>1, <1>4 DEF Settled
<1>7. DOMAIN pipeline = Calls /\ current \in Nat /\ \A c \in Calls : pipeline[c] \in Nat
  BY PlanFacts DEF TypeInv, TypeOK
<1>8. pipeline'[k] = current' /\ \A v \in Settled : pipeline'[v] = pipeline[v]
  BY <1>1, <1>4, <1>5, <1>7
<1>9. /\ \A v \in Settled : pipeline[v] <= current /\ pipeline[v] \in Nat
      /\ \A p \in 1 .. current : \E v \in Settled : pipeline[v] = p /\ TakesOperation(v)
  BY <1>1, <1>2, <1>5, <1>7 DEF HeldPass
<1>10. \A v \in Settled' : pipeline'[v] <= current'
  <2>1. current' \in Nat /\ current <= current'
    BY <1>1, <1>7
  <2> QED BY <2>1, <1>6, <1>7, <1>8, <1>9
<1>11. ASSUME NEW v \in Settled, TakesOperation(v) PROVE TakesOperation(v)'
  <2>1. ArgChildren(v)' = ArgChildren(v) /\ ArgChildren(v) \subseteq Settled
    BY <1>1, <1>2, <1>5 DEF ArgChildren
  <2> QED BY <2>1, <1>8, <1>11 DEF TakesOperation, ArgChildren
<1>12. ASSUME NEW p \in 1 .. current
       PROVE  \E v \in Settled' : pipeline'[v] = p /\ TakesOperation(v)'
  <2>1. PICK v \in Settled : pipeline[v] = p /\ TakesOperation(v)
    BY <1>9
  <2> QED BY <2>1, <1>6, <1>8, <1>11
<1>13. CASE current' = current
  BY <1>10, <1>13, <1>12
<1>14. CASE current' = current + 1 /\ \E l \in links : Break(l)
  <2>1. PICK c : c \in ArgChildren(k)
    BY <1>4, <1>14, BreaksAtArgument
  <2>2. c \in visited /\ c \in Settled
    BY <2>1, <1>1, <1>3, <1>4 DEF ArgChildren, Synced, Settled
  <2>3. pipeline'[c] < pipeline'[k]
    BY <2>2, <1>7, <1>8, <1>9, <1>14
  <2>4. c \in ArgChildren(k)'
    BY <2>1, <1>1, <1>2 DEF ArgChildren
  <2>5. TakesOperation(k)'
    BY <2>3, <2>4 DEF TakesOperation, ArgChildren
  <2>6. k \in Settled' /\ pipeline'[k] = current + 1
    BY <1>6, <1>8, <1>14
  <2>7. \A p \in 1 .. current' : p \in 1 .. current \/ p = current + 1
    BY <1>7, <1>14
  <2> QED BY <2>5, <2>6, <2>7, <1>10, <1>12
<1> QED BY <1>1, <1>10, <1>13, <1>14

LEMMA HeldStep ==
  ASSUME TypeInv, PassInv, RootInv, GenericInv, HeldPass, [Next]_vars
  PROVE  HeldPass'
<1>1. CASE Evaluate \/ InferAgain
  BY <1>1, HeldBegin
<1>2. CASE pc' \notin {"infer", "sync"}
  BY <1>2 DEF HeldPass
<1>3. CASE NextRoot
  <2>1. UNCHANGED <<calls, roots, pipeline, current, pc>> /\ pc \in {"infer", "build"}
    BY <1>3 DEF NextRoot, plan, inferred
  <2>2. CASE pc = "infer"
    BY <2>1, <2>2, <1>3, HeldNext, HeldSame
  <2> QED BY <2>1, <2>2, <1>2
<1>4. CASE Descend
  <2>1. UNCHANGED <<calls, roots, pipeline, current, pc>>
    BY <1>4 DEF Descend, plan, inferred
  <2> QED BY <2>1, <1>4, HeldDescend, HeldSame
<1>5. CASE (\E k \in Calls : Infer(k)) \/ (\E l \in links : Sync(l)) \/ UNCHANGED vars
  <2>1. /\ UNCHANGED <<calls, roots, pipeline, current, todo, stack, visited>>
        /\ pc' \in {"infer", "sync"} => pc \in {"infer", "sync"}
    <3>1. CASE UNCHANGED vars
      BY <3>1 DEF vars, plan, inferred, walk
    <3>2. CASE \E k \in Calls : Infer(k)
      BY <3>2 DEF Infer, plan, walk
    <3>3. CASE \E l \in links : Sync(l)
      BY <3>3 DEF Sync, plan, walk
    <3> QED BY <1>5, <3>1, <3>2, <3>3
  <2>2. Settled' = Settled
    <3>1. Behind' = Behind
      BY <2>1 DEF Behind
    <3> QED BY <2>1, <3>1, SettledEdit DEF Settled
  <2> QED BY <2>1, <2>2, HeldSame
<1>6. CASE Join \/ \E l \in links : Break(l)
  BY <1>6, HeldVisit
<1>7. ASSUME Next, ~ Evaluate, ~ InferAgain, ~ NextRoot, ~ Descend, \A k \in Calls : ~ Infer(k),
             \A l \in links : ~ Sync(l) /\ ~ Break(l), ~ Join
      PROVE  pc' \notin {"infer", "sync"}
  BY <1>7, OnlyTheyPass
<1> QED BY <1>1, <1>2, <1>3, <1>4, <1>5, <1>6, <1>7

\* The passes are over: all calls are settled.
LEMMA HeldInferred ==
  ASSUME TypeInv, WireInv, PassInv, HeldPass, Inferred
  PROVE  HeldAfter'
<1> SUFFICES ASSUME NothingShared'
             PROVE  \A v \in Calls' : pipeline'[v] # 0 =>
                      \E w \in Calls' : pipeline'[w] = pipeline'[v] /\ TakesOperation(w)'
  BY DEF HeldAfter
<1>1. /\ pc = "infer" /\ todo = {} /\ stack = <<>> /\ UNCHANGED <<calls, roots, pipeline>>
  BY DEF Inferred, WalkEnds, plan, inferred
<1>2. /\ Calls' = Calls /\ \A j : Children(j)' = Children(j)
      /\ NothingShared
  BY <1>1, PlanSame
<1>3. Inside /\ Visited /\ Walked
  BY <1>1, <1>2 DEF PassInv
<1>4. Settled = Calls
  <2>1. Settled \subseteq Calls /\ Range(stack) = {} /\ visited \in SUBSET Calls
    BY <1>1, <1>2, <1>3, SettledFacts DEF Range, TypeInv, TypeOK
  <2>2. ASSUME NEW v \in Calls PROVE v \in Settled
    <3>1. PICK r \in roots : v \in Below({r})
      BY <1>1, BelowSome
    <3>2. CASE r \in visited
      <4>1. Below({r}) \subseteq visited
        BY <2>1, <3>2, <1>3, BelowIn DEF Visited
      <4> QED BY <3>1, <4>1 DEF Settled
    <3>3. CASE r \notin visited
      BY <2>1, <3>1, <3>3, <1>1 DEF Settled, Behind
    <3> QED BY <3>2, <3>3
  <2> QED BY <2>1, <2>2
<1>5. /\ \A v \in Calls : pipeline[v] <= current /\ pipeline[v] \in Nat
      /\ \A p \in 1 .. current : \E w \in Calls : pipeline[w] = p /\ TakesOperation(w)
  BY <1>1, <1>2, <1>4, PlanFacts DEF HeldPass, TypeInv
<1>7. \A v \in Calls : pipeline[v] # 0 => pipeline[v] \in 1 .. current
  BY <1>5, PlanFacts DEF TypeInv, TypeOK
<1>6. \A v : TakesOperation(v)' <=> TakesOperation(v)
  BY <1>1, <1>2 DEF TakesOperation, ArgChildren
<1> QED BY <1>1, <1>2, <1>5, <1>6, <1>7

LEMMA HeldAfterStep ==
  ASSUME TypeInv, WireInv, PassInv, HeldPass, HeldAfter, [Next]_vars
  PROVE  HeldAfter'
<1>1. CASE Inferred
  BY <1>1, HeldInferred
<1>2. CASE pc' \notin {"finalize", "build", "run"}
  BY <1>2 DEF HeldAfter
<1>3. ASSUME UNCHANGED <<calls, roots, pipeline>>,
             pc' \in {"finalize", "build", "run"} => pc \in {"finalize", "build", "run"}
      PROVE  HeldAfter'
  <2>1. Calls' = Calls /\ (NothingShared' <=> NothingShared) /\ \A v : TakesOperation(v)' <=> TakesOperation(v)
    BY <1>3, PlanSame DEF TakesOperation, ArgChildren
  <2> QED BY <2>1, <1>3 DEF HeldAfter
<1>4. CASE Finalized \/ Built \/ NextRoot \/ Descend \/ UNCHANGED vars
  BY <1>3, <1>4 DEF Finalized, Built, NextRoot, Descend, vars, plan, inferred
<1>5. CASE \E k \in Calls : Construct(k) \/ RunCall(k)
  BY <1>3, <1>5 DEF Construct, CanVisit, RunCall, plan, inferred
<1>6. CASE Finalize
  BY <1>3, <1>6 DEF Finalize, Raise, plan, inferred
<1>7. ASSUME Next, ~ Inferred, ~ Finalize, ~ Finalized, ~ Built, ~ NextRoot, ~ Descend,
             \A k \in Calls : ~ Construct(k) /\ ~ RunCall(k)
      PROVE  pc' \notin {"finalize", "build", "run"}
  BY <1>7, OnlyTheyFollow
<1> QED BY <1>1, <1>2, <1>4, <1>5, <1>6, <1>7

LEMMA HoldingHolds == Spec => [](HeldPass /\ HeldAfter)
<1>1. Init => HeldPass /\ HeldAfter
  BY DEF Init, HeldPass, HeldAfter
<1>2. TypeInv /\ TypeInv' /\ WireInv /\ PassInv /\ RootInv /\ GenericInv
        /\ HeldPass /\ HeldAfter /\ [Next]_vars => (HeldPass /\ HeldAfter)'
  BY HeldStep, HeldAfterStep
<1> QED BY <1>1, <1>2, TypesHold, WiringHolds, PassesHold, RootsHold, GenericsHold, PTL DEF Spec

\* infer_locally counts a pipeline up only at a call that takes a child's result
\* (dag.py:295-323), whatever was left by evaluations that raised: each pipeline
\* but the first has one, which its program runs on the operation (dag.py:413).
THEOREM BreaksAreAtResults == Spec => []BreaksAtResults
<1>1. HeldAfter => BreaksAtResults
  BY DEF HeldAfter, BreaksAtResults
<1> QED BY <1>1, HoldingHolds, PTL

-----------------------------------------------------------------------------
(***************************************************************************)
(* What a return takes: every step is one nearer to it, and there is one.  *)
(***************************************************************************)

\* The walk is inside of calls above one another that it has yet to visit.
StackInv ==
  /\ \A i \in DOMAIN stack : stack[i] \notin visited
  /\ \A i, h \in DOMAIN stack : i < h => stack[i] < stack[h]

\* The calls on the stack are numbers, its head the first.
LEMMA StackFacts ==
  ASSUME TypeInv
  PROVE  /\ stack \in Seq(Calls) /\ Len(stack) \in Nat /\ DOMAIN stack = 1 .. Len(stack)
         /\ \A h \in 1 .. Len(stack) : stack[h] \in Calls /\ stack[h] \in Nat
         /\ stack # <<>> => 1 \in 1 .. Len(stack) /\ Head(stack) = stack[1]
<1>1. stack \in Seq(Calls) /\ Calls \subseteq Nat
  BY PlanFacts DEF TypeInv, TypeOK
<1>2. \A h \in 1 .. Len(stack) : stack[h] \in Calls
  BY <1>1
<1>3. Len(stack) \in Nat /\ DOMAIN stack = 1 .. Len(stack)
  BY <1>1
<1>4. stack # <<>> => 1 \in 1 .. Len(stack) /\ Head(stack) = stack[1]
  BY <1>1
<1> QED BY <1>1, <1>2, <1>3, <1>4

LEMMA StackStep ==
  ASSUME TypeInv, StackInv, [Next]_vars
  PROVE  StackInv'
<1>1. /\ stack \in Seq(Calls) /\ Len(stack) \in Nat /\ DOMAIN stack = 1 .. Len(stack)
      /\ \A h \in 1 .. Len(stack) : stack[h] \in Calls /\ stack[h] \in Nat
      /\ stack # <<>> => 1 \in 1 .. Len(stack) /\ Head(stack) = stack[1]
      /\ StagesOK /\ TypeOK
  BY StackFacts DEF TypeInv
<1>2. CASE stack' = <<>>
  BY <1>2 DEF StackInv
<1>3. CASE UNCHANGED <<stack, visited>>
  BY <1>3 DEF StackInv
<1>4. CASE NextRoot
  <2>1. PICK r : stack' = <<r>> /\ visited' = {}
    BY <1>4 DEF NextRoot
  <2> QED BY <2>1 DEF StackInv
<1>5. CASE Descend
  <2>1. PICK k \in Calls : k = Head(stack) /\ k = stack[1]
    BY <1>1, <1>5 DEF Descend
  <2>2. PICK i \in DOMAIN calls[k].children :
          calls[k].children[i] \notin visited /\ stack' = <<calls[k].children[i]>> \o stack
    BY <1>5, <2>1 DEF Descend
  <2>3. PICK j : j = calls[k].children[i]
    OBVIOUS
  <2>4. j \in Nat /\ j < k /\ k \in Nat /\ j \notin visited
    <3>1. j \in Children(k) /\ j \notin visited
      BY <2>2, <2>3 DEF Children, Range
    <3>2. k \in Nat /\ Children(k) \subseteq 1 .. k - 1
      BY <1>1, <1>5, <2>1 DEF Descend, TypeOK
    <3> QED BY <3>1, <3>2
  <2>5. /\ Len(stack') = Len(stack) + 1 /\ DOMAIN stack' = 1 .. Len(stack) + 1
        /\ stack'[1] = j /\ \A h \in 2 .. Len(stack) + 1 : stack'[h] = stack[h - 1]
    BY <1>1, <2>2, <2>3
  <2>6. \A h \in 1 .. Len(stack) : j < stack[h]
    <3> SUFFICES ASSUME NEW h \in 1 .. Len(stack), h # 1 PROVE j < stack[h]
      BY <2>1, <2>4
    <3>1. 1 \in DOMAIN stack /\ h \in DOMAIN stack /\ 1 < h
      BY <1>1
    <3>2. k < stack[h]
      BY <2>1, <3>1 DEF StackInv
    <3>3. stack[h] \in Nat /\ k \in Nat
      BY <1>1, <2>4
    <3> QED BY <2>4, <3>2, <3>3
  <2>7. UNCHANGED visited
    BY <1>5 DEF Descend
  <2>8. ASSUME NEW h \in DOMAIN stack' PROVE stack'[h] \notin visited'
    <3>1. CASE h = 1
      BY <3>1, <2>4, <2>5, <2>7
    <3>2. CASE h # 1
      <4>1. h - 1 \in DOMAIN stack /\ stack'[h] = stack[h - 1]
        BY <3>2, <1>1, <2>5
      <4> QED BY <4>1, <2>7 DEF StackInv
    <3> QED BY <3>1, <3>2
  <2>9. ASSUME NEW g \in DOMAIN stack', NEW h \in DOMAIN stack', g < h PROVE stack'[g] < stack'[h]
    <3>1. h \in 2 .. Len(stack) + 1 /\ h - 1 \in DOMAIN stack /\ stack'[h] = stack[h - 1]
      BY <1>1, <2>5, <2>9
    <3>2. CASE g = 1
      BY <3>1, <3>2, <1>1, <2>4, <2>5, <2>6
    <3>3. CASE g # 1
      <4>1. g - 1 \in DOMAIN stack /\ stack'[g] = stack[g - 1] /\ g - 1 < h - 1
        BY <3>1, <3>3, <1>1, <2>5, <2>9
      <4> QED BY <3>1, <4>1 DEF StackInv
    <3> QED BY <3>2, <3>3
  <2> QED BY <2>8, <2>9 DEF StackInv
<1>6. ASSUME stack # <<>>, stack' = Tail(stack), visited' = visited \cup {Head(stack)}
      PROVE  StackInv'
  <2>1. /\ DOMAIN stack' = 1 .. Len(stack) - 1 /\ Head(stack) = stack[1]
        /\ \A h \in 1 .. Len(stack) - 1 : stack'[h] = stack[h + 1]
    BY <1>1, <1>6
  <2>2. ASSUME NEW h \in DOMAIN stack' PROVE stack'[h] \notin visited'
    <3>1. /\ h + 1 \in DOMAIN stack /\ 1 \in DOMAIN stack /\ 1 < h + 1 /\ stack'[h] = stack[h + 1]
      BY <1>1, <1>6, <2>1
    <3>2. stack[1] < stack[h + 1] /\ stack[h + 1] \notin visited
      BY <3>1 DEF StackInv
    <3>3. stack[1] \in Nat /\ stack[h + 1] \in Nat
      BY <3>1, <1>1
    <3>4. stack[h + 1] # stack[1]
      BY <3>2, <3>3
    <3> QED BY <1>6, <2>1, <3>1, <3>2, <3>4
  <2>3. ASSUME NEW g \in DOMAIN stack', NEW h \in DOMAIN stack', g < h PROVE stack'[g] < stack'[h]
    <3>1. g + 1 \in DOMAIN stack /\ h + 1 \in DOMAIN stack /\ g + 1 < h + 1
      BY <1>1, <2>1, <2>3
    <3> QED BY <2>1, <2>3, <3>1 DEF StackInv
  <2> QED BY <2>2, <2>3 DEF StackInv
<1>7. CASE Join \/ (\E l \in links : Break(l)) \/ (\E k \in Calls : Construct(k))
  BY <1>6, <1>7 DEF Join, Break, Construct, CanVisit, Visit, TypeInv, StagesOK
<1>8. CASE (\E k \in Calls : Infer(k)) \/ (\E l \in links : Sync(l))
  BY <1>3, <1>8 DEF Infer, Sync, walk
<1>9. CASE Wire \/ Wired \/ Inferred \/ InferAgain \/ Finalized \/ Built \/ Evaluate
  BY <1>1, <1>2, <1>9 DEF Wire, Wired, Inferred, InferAgain, Finalized, Built, Evaluate, WalkEnds,
     StagesOK
<1>10. CASE Finalize
  BY <1>1, <1>2, <1>10 DEF Finalize, Raise, StagesOK
<1>11. CASE (\E k \in Calls : ConstructRaises(k)) \/ RunRaises
  BY <1>2, <1>11 DEF ConstructRaises, RunRaises, Raise
<1>12. CASE (\E k \in Calls : RunCall(k)) \/ Clear
  BY <1>3, <1>12 DEF RunCall, Clear, walk
<1>13. ASSUME NEW f \in Functions, NEW args \in Arguments(f), Register(f, args) PROVE StackInv'
  <2>1. UNCHANGED stack /\ pc = "open"
    BY <1>13, Zenon DEF Register
  <2> QED BY <1>1, <1>2, <2>1 DEF StagesOK
<1>14. CASE UNCHANGED vars
  BY <1>3, <1>14 DEF vars, walk
<1> QED BY <1>4, <1>5, <1>7, <1>8, <1>9, <1>10, <1>11, <1>12, <1>13, <1>14 DEF Next, Step

\* A type is not inferred only where the signature is generic, or None.
OpenInv ==
  \A k \in Calls : \A i \in DOMAIN types[k] :
    types[k][i] = None => i \in generic[k] \/ Signature[calls[k].function][i] = None

\* A position that got a type keeps what it had of it.
LEMMA OpenStays ==
  ASSUME TypeInv, OpenInv, Calls' = Calls, UNCHANGED generic,
         \A k \in Calls : calls'[k].function = calls[k].function,
         \A k \in Calls : DOMAIN types'[k] = DOMAIN types[k] /\ Stays(k)
  PROVE  OpenInv'
BY DEF OpenInv, Stays

\* A sync gives one position of one call a type, or none.
LEMMA SyncDomains ==
  ASSUME TypeInv, NEW l \in links, Sync(l)
  PROVE  \A k \in Calls : DOMAIN types'[k] = DOMAIN types[k]
<1>1. DOMAIN types = Calls
  BY PlanFacts DEF TypeInv
<1>2. \/ types' = [types EXCEPT ![Head(stack)][l[1]] = Its(l)]
      \/ types' = [types EXCEPT ![l[2]][l[3]] = Mine(l)]
      \/ types' = types
  BY DEF Sync
<1> QED BY <1>1, <1>2

LEMMA OpenStep ==
  ASSUME TypeInv, TypeInv', OpenInv, [Next]_vars
  PROVE  OpenInv'
<1>1. DOMAIN types = Calls /\ DOMAIN types' = Calls'
  BY PlanFacts DEF TypeInv, TypeOK, Calls
<1>2. CASE UNCHANGED <<calls, types, generic>>
  BY <1>2 DEF OpenInv, Calls
<1>3. ASSUME NEW f \in Functions, NEW args \in Arguments(f), Register(f, args) PROVE OpenInv'
  <2> DEFINE new == [function |-> f, args |-> args, children |-> <<>>]
             ts == [i \in 1 .. Len(Signature[f]) |->
                      IF Signature[f][i] \in Generics \/ Signature[f][i] = None THEN None
                      ELSE <<Signature[f][i], "new">>]
             gs == {i \in 1 .. Len(Signature[f]) : Signature[f][i] \in Generics}
  <2>1. /\ calls' = Append(calls, new) /\ generic' = Append(generic, gs)
        /\ types' = Append(types, ts)
    BY <1>3, Zenon DEF Register
  <2>2. PICK n \in Nat : n = Len(calls) + 1
    BY PlanFacts DEF TypeInv
  <2>3. calls \in Seq(Annotated) /\ generic \in Seq(SUBSET Nat) /\ types \in Seq(Seq(InferredTypes))
        /\ Len(generic) = Len(calls) /\ Len(types) = Len(calls)
    BY DEF TypeInv, TypeOK
  <2>4. /\ new.function = f /\ DOMAIN ts = 1 .. Len(Signature[f])
        /\ \A i \in DOMAIN ts : ts[i] = None => i \in gs \/ Signature[f][i] = None
    <3>1. ASSUME NEW i \in 1 .. Len(Signature[f]), Signature[f][i] # None, Signature[f][i] \notin Generics
          PROVE  <<Signature[f][i], "new">> # None
      <4>1. Signature[f][i] \in Types
        BY <3>1, SignatureAssumption
      <4>2. <<Signature[f][i], "new">> \in Types \X {"new", "kept", "merged", "ranged"}
        BY <4>1
      <4> QED BY <4>2, SignatureAssumption
    <3> QED BY <3>1
  <2> HIDE DEF new, gs, ts
  <2>5. /\ Len(calls') = n /\ calls'[n] = new /\ \A k \in 1 .. n - 1 : calls'[k] = calls[k]
        /\ generic'[n] = gs /\ \A k \in 1 .. n - 1 : generic'[k] = generic[k]
        /\ types'[n] = ts /\ \A k \in 1 .. n - 1 : types'[k] = types[k]
    BY <2>1, <2>2, <2>3
  <2>6. Calls' = Calls \cup {n} /\ Calls = 1 .. n - 1
    BY <2>2, <2>5 DEF Calls
  <2> SUFFICES ASSUME NEW k \in Calls', NEW i \in DOMAIN types'[k], types'[k][i] = None
               PROVE  i \in generic'[k] \/ Signature[calls'[k].function][i] = None
    BY DEF OpenInv
  <2>7. CASE k = n
    BY <2>4, <2>5, <2>7
  <2>8. CASE k \in Calls
    BY <2>5, <2>6, <2>8 DEF OpenInv
  <2> QED BY <2>6, <2>7, <2>8
<1>4. CASE Wire
  <2>1. PICK n : n = Len(calls)
    OBVIOUS
  <2>2. /\ Calls' = Calls /\ UNCHANGED inferred /\ \A i \in Calls : i # n => calls'[i] = calls[i]
    BY <1>4, <2>1, WireFacts
  <2>3. \A i \in Calls : calls'[i].function = calls[i].function
    BY <1>4, <2>1, WireFacts
  <2> QED BY <2>2, <2>3 DEF OpenInv, inferred
<1>5. ASSUME NEW l \in links, Sync(l) PROVE OpenInv'
  <2>1. UNCHANGED <<calls, generic>> /\ Calls' = Calls
    BY <1>5 DEF Sync, plan, Calls
  <2>2. \A k \in Calls : Stays(k)
    BY <1>5, SyncStays
  <2>3. \A k \in Calls : DOMAIN types'[k] = DOMAIN types[k]
    BY <1>5, SyncDomains
  <2> QED BY <2>1, <2>2, <2>3, OpenStays
<1>6. ASSUME NEW k \in Calls, UNCHANGED <<calls, generic>>, types' = [types EXCEPT ![k] = Marked(k)]
      PROVE  OpenInv'
  <2>1. Calls' = Calls
    BY <1>6 DEF Calls
  <2>2. \A j \in Calls : Stays(j)
    BY <1>6, MarkedStays
  <2>3. \A j \in Calls : DOMAIN types'[j] = DOMAIN types[j]
    BY <1>1, <1>6, MarkedFacts DEF TypeInv
  <2> QED BY <1>6, <2>1, <2>2, <2>3, OpenStays
<1>7. CASE Finalize
  <2>1. PICK j \in Calls : j = First
    BY <1>7, FirstFacts DEF Finalize, TypeInv, TypeOK, StagesOK
  <2>2. UNCHANGED <<calls, types>> /\ Calls' = Calls
    BY <1>7 DEF Finalize, Raise, plan, inferred, Calls
  <2>3. generic' = generic \/ generic' = [generic EXCEPT ![j] = Final(j)]
    BY <1>7, <2>1 DEF Finalize, inferred
  <2>4. ASSUME NEW i \in generic[j], types[j][i] = None PROVE i \in Final(j)
    BY <2>4 DEF Final
  <2>5. DOMAIN generic = Calls
    BY PlanFacts DEF TypeInv
  <2> SUFFICES ASSUME NEW k \in Calls, NEW i \in DOMAIN types[k], types[k][i] = None
               PROVE  i \in generic'[k] \/ Signature[calls[k].function][i] = None
    BY <2>2 DEF OpenInv
  <2>6. i \in generic[k] \/ Signature[calls[k].function][i] = None
    BY DEF OpenInv
  <2> QED BY <2>3, <2>4, <2>5, <2>6
<1>8. CASE Clear
  <2>1. Calls' = {}
    BY <1>8 DEF Clear, Calls
  <2> QED BY <2>1 DEF OpenInv
<1>9. CASE \E k \in Calls : Construct(k) \/ ConstructRaises(k)
  BY <1>2, <1>6, <1>9 DEF Construct, ConstructRaises, Raise, plan
<1>10. CASE RunRaises
  <2>1. UNCHANGED <<calls, generic>> /\ Calls' = Calls
    BY <1>10 DEF RunRaises, Raise, plan, Calls
  <2> QED BY <2>1, <1>10, RangedStays, OpenStays
<1>11. CASE \/ Wired \/ Evaluate \/ NextRoot \/ Descend \/ InferAgain \/ Inferred \/ Finalized
            \/ Built \/ Join \/ UNCHANGED vars
  BY <1>2, <1>11 DEF Wired, Evaluate, NextRoot, Descend, InferAgain, Inferred, Finalized, Built,
     Join, vars, plan, inferred
<1>12. CASE (\E k \in Calls : Infer(k) \/ RunCall(k)) \/ (\E l \in links : Break(l))
  BY <1>2, <1>12 DEF Infer, RunCall, Break, plan, inferred
<1> QED BY <1>3, <1>4, <1>5, <1>7, <1>8, <1>9, <1>10, <1>11, <1>12 DEF Next, Step

-----------------------------------------------------------------------------
(***************************************************************************)
(* What is counted is finite.                                              *)
(***************************************************************************)

LEMMA PartOfRange ==
  ASSUME NEW n \in Nat, NEW S, S \subseteq 1 .. n
  PROVE  IsFiniteSet(S)
<1>1. IsFiniteSet(1 .. n)
  BY FS_Interval
<1> QED BY <1>1, FS_Subset

LEMMA FiniteTriples ==
  ASSUME NEW S, NEW T, NEW U, IsFiniteSet(S), IsFiniteSet(T), IsFiniteSet(U)
  PROVE  IsFiniteSet(S \X T \X U)
<1> DEFINE P == S \X T
           Q == P \X U
           f == [q \in Q |-> <<q[1][1], q[1][2], q[2]>>]
<1>1. IsFiniteSet(P)
  BY FS_Product
<1>2. IsFiniteSet(Q)
  <2> HIDE DEF P
  <2> QED BY <1>1, FS_Product
<1>3. f \in [Q -> S \X T \X U]
  OBVIOUS
<1>4. ASSUME NEW t \in S \X T \X U PROVE \E q \in Q : f[q] = t
  <2>1. <<<<t[1], t[2]>>, t[3]>> \in Q
    OBVIOUS
  <2>2. f[<<<<t[1], t[2]>>, t[3]>>] = t
    BY <2>1
  <2> QED BY <2>1, <2>2
<1>5. f \in Surjection(Q, S \X T \X U)
  <2> HIDE DEF f, Q
  <2> QED BY <1>3, <1>4 DEF Surjection
<1> HIDE DEF f, Q
<1> QED BY <1>2, <1>5, FS_Surjection

\* A call has finitely many links.
LEMMA LinksFinite ==
  ASSUME TypeInv, NEW k \in Calls
  PROVE  IsFiniteSet(Links(k))
<1>1. calls[k].args \in Seq(Values \cup Nat) /\ Arity(k) \in Nat
  BY PlanFacts DEF TypeInv, Annotated, Arity
<1>2. types[k] \in Seq(InferredTypes) /\ generic[k] \subseteq 1 .. Len(types[k]) /\ Len(types[k]) \in Nat
  BY PlanFacts DEF TypeInv, TypeOK
<1>3. IsFiniteSet(ArgLinks(k))
  <2> DEFINE D == {i \in 1 .. Arity(k) : calls[k].args[i] \in Children(k)}
             f == [i \in D |-> <<i, calls[k].args[i], Result(calls[k].args[i])>>]
  <2>1. IsFiniteSet(D)
    <3>1. D \subseteq 1 .. Arity(k)
      OBVIOUS
    <3> HIDE DEF D
    <3> QED BY <1>1, <3>1, PartOfRange
  <2>2. f \in Surjection(D, ArgLinks(k))
    BY DEF Surjection, ArgLinks
  <2> QED BY <2>1, <2>2, FS_Surjection
<1>4. IsFiniteSet(InnerLinks(k))
  <2>1. IsFiniteSet(generic[k]) /\ IsFiniteSet({k})
    BY <1>2, PartOfRange, FS_Singleton
  <2>2. IsFiniteSet(generic[k] \X {k} \X generic[k])
    BY <2>1, FiniteTriples
  <2> QED BY <2>2, FS_Subset DEF InnerLinks
<1> QED BY <1>3, <1>4, FS_Union DEF Links

FiniteInv == IsFiniteSet(links)

LEMMA FiniteStep ==
  ASSUME TypeInv, FiniteInv, [Next]_vars
  PROVE  FiniteInv'
<1>1. ASSUME links' \subseteq links PROVE FiniteInv'
  BY <1>1, FS_Subset DEF FiniteInv
<1>2. CASE \E k \in Calls : Infer(k)
  BY <1>2, LinksFinite DEF Infer, FiniteInv
<1>3. CASE \E l \in links : Sync(l) \/ Break(l)
  BY <1>1, <1>3 DEF Sync, Break
<1>4. ASSUME NEW f \in Functions, NEW args \in Arguments(f), Register(f, args) PROVE links' = links
  BY <1>4, Zenon DEF Register
<1>5. CASE \/ Wire \/ Wired \/ Evaluate \/ NextRoot \/ Descend \/ InferAgain \/ Inferred \/ Finalized
           \/ Built \/ RunRaises \/ Join \/ Finalize \/ Clear \/ UNCHANGED vars
  BY <1>1, <1>5 DEF Wire, Wired, Evaluate, NextRoot, Descend, InferAgain, Inferred, Finalized, Built,
     RunRaises, Raise, Join, Finalize, Clear, vars, inferred
<1>6. CASE \E k \in Calls : Construct(k) \/ ConstructRaises(k) \/ RunCall(k)
  BY <1>1, <1>6 DEF Construct, ConstructRaises, Raise, RunCall, inferred
<1> QED BY <1>1, <1>2, <1>3, <1>4, <1>5, <1>6 DEF Next, Step

\* What the measure of a return rests on.
NearInv == TypeInv /\ WireInv /\ GenericInv /\ StackInv /\ OpenInv /\ FiniteInv

LEMMA NearHolds == Spec => []NearInv
<1>1. Init => StackInv /\ OpenInv /\ FiniteInv
  <2>1. Init => stack = <<>> /\ Calls = {} /\ links = {}
    BY DEF Init, Calls
  <2> QED BY <2>1, FS_EmptySet DEF StackInv, OpenInv, FiniteInv
<1>2. TypeInv /\ TypeInv' /\ StackInv /\ OpenInv /\ FiniteInv /\ [Next]_vars
        => (StackInv /\ OpenInv /\ FiniteInv)'
  BY StackStep, OpenStep, FiniteStep
<1> QED BY <1>1, <1>2, TypesHold, WiringHolds, GenericsHold, PTL DEF Spec, NearInv

-----------------------------------------------------------------------------
(***************************************************************************)
(* How far a return is.                                                    *)
(***************************************************************************)

\* The positions whose types are not inferred.
Unknown == UNION {{k} \X {i \in DOMAIN types[k] : types[k][i] = None} : k \in Calls}

\* The stages until register or evaluate_dag returns.
StagesLeft ==
  CASE pc \in {"infer", "sync"} -> 4
    [] pc = "finalize"          -> 3
    [] pc = "build"             -> 2
    [] pc \in {"wire", "run"}   -> 1
    [] pc = "open"              -> 0

\* How far down a walk from the bottom is; syncing comes after all that is below.
Place == IF stack = <<>> THEN 2 * Len(calls) + 2
         ELSE 2 * Head(stack) + (IF pc = "sync" THEN 0 ELSE 1)

\* The set S has fewer elements than T.
Fewer(S, T) == Cardinality(S) < Cardinality(T)

\* One of these has become less, and none before it more.
Nearer ==
  \/ StagesLeft' < StagesLeft
  \/ UNCHANGED StagesLeft /\ Fewer(Unknown', Unknown)
  \/ UNCHANGED <<StagesLeft, Unknown>> /\ changed /\ ~ changed'
  \/ UNCHANGED <<StagesLeft, Unknown, changed>> /\ Fewer(todo', todo)
  \/ /\ UNCHANGED <<StagesLeft, Unknown, changed, todo>>
     /\ Fewer(Calls' \ visited', Calls \ visited)
  \/ /\ UNCHANGED <<StagesLeft, Unknown, changed, todo, Calls, visited>>
     /\ Len(queue') < Len(queue)
  \/ /\ UNCHANGED <<StagesLeft, Unknown, changed, todo, Calls, visited, queue>>
     /\ Place' < Place
  \/ /\ UNCHANGED <<StagesLeft, Unknown, changed, todo, Calls, visited, queue, Place>>
     /\ Fewer(links', links)
  \/ /\ UNCHANGED <<StagesLeft, Unknown, changed, todo, Calls, visited, queue, Place, links>>
     /\ Fewer(Remaining', Remaining)

\* A part of a finite set that is not all of it has fewer elements.
LEMMA FewerLeft ==
  ASSUME NEW S, NEW T, IsFiniteSet(T), S \subseteq T, S # T
  PROVE  Fewer(S, T)
<1>1. IsFiniteSet(S) /\ Cardinality(S) <= Cardinality(T) /\ Cardinality(T) # Cardinality(S)
  BY FS_Subset
<1>2. Cardinality(S) \in Nat /\ Cardinality(T) \in Nat
  BY <1>1, FS_CardinalityType
<1> QED BY <1>1, <1>2 DEF Fewer

LEMMA CallsFinite ==
  ASSUME TypeInv
  PROVE  /\ IsFiniteSet(Calls) /\ IsFiniteSet(todo) /\ IsFiniteSet(Calls \ visited)
         /\ IsFiniteSet(Remaining)
<1>0. Len(calls) \in Int
  BY PlanFacts DEF TypeInv
<1>1. IsFiniteSet(Calls)
  BY <1>0, FS_Interval DEF Calls
<1>2. todo \subseteq roots /\ roots \subseteq Calls /\ built \in Seq(Calls)
  BY DEF TypeInv, TypeOK
<1>3. Range(built) \subseteq Calls
  BY <1>2 DEF Range
<1>4. todo \subseteq Calls /\ Remaining \subseteq Calls
  BY <1>2, <1>3 DEF Remaining
<1> QED BY <1>1, <1>4, FS_Subset

LEMMA UnknownFinite ==
  ASSUME TypeInv
  PROVE  IsFiniteSet(Unknown)
<1> DEFINE none(k) == {k} \X {i \in DOMAIN types[k] : types[k][i] = None}
           f == [k \in Calls |-> none(k)]
           all == {none(k) : k \in Calls}
<1>1. ASSUME NEW k \in Calls PROVE IsFiniteSet(none(k))
  <2>1. DOMAIN types[k] = 1 .. Len(types[k]) /\ Len(types[k]) \in Nat
    BY PlanFacts DEF TypeInv
  <2>2. IsFiniteSet({i \in DOMAIN types[k] : types[k][i] = None}) /\ IsFiniteSet({k})
    <3> DEFINE D == {i \in DOMAIN types[k] : types[k][i] = None}
    <3>1. D \subseteq 1 .. Len(types[k])
      BY <2>1
    <3> HIDE DEF D
    <3>2. IsFiniteSet(D)
      BY <2>1, <3>1, PartOfRange
    <3> QED BY <3>2, FS_Singleton DEF D
  <2> QED BY <2>2, FS_Product
<1>2. IsFiniteSet(all)
  <2>1. f \in Surjection(Calls, all)
    BY DEF Surjection
  <2> HIDE DEF f, all, none
  <2> QED BY <2>1, CallsFinite, FS_Surjection
<1>3. \A T \in all : IsFiniteSet(T)
  BY <1>1
<1>4. Unknown = UNION all
  BY DEF Unknown
<1> HIDE DEF all
<1> QED BY <1>2, <1>3, <1>4, FS_UNION

\* No type becomes None.
LEMMA UnknownShrinks ==
  ASSUME TypeInv, Calls' = Calls,
         \A k \in Calls : DOMAIN types'[k] = DOMAIN types[k] /\ Stays(k)
  PROVE  /\ Unknown' \subseteq Unknown
         /\ UNCHANGED Unknown \/ Fewer(Unknown', Unknown)
<1>1. ASSUME NEW p \in Unknown' PROVE p \in Unknown
  <2>1. PICK k \in Calls : p \in {k} \X {i \in DOMAIN types'[k] : types'[k][i] = None}
    BY <1>1 DEF Unknown
  <2>2. p \in {k} \X {i \in DOMAIN types[k] : types[k][i] = None}
    BY <2>1 DEF Stays
  <2> QED BY <2>2 DEF Unknown
<1> QED BY <1>1, UnknownFinite, FewerLeft

\* Nothing is inferred.
LEMMA UnknownSame ==
  ASSUME UNCHANGED types, Calls' = Calls
  PROVE  UNCHANGED Unknown
BY DEF Unknown

\* The walks from the top: a root, a call not visited, or an edge is taken.
LEMMA TopNearer ==
  ASSUME TypeInv, Wire \/ Finalize
  PROVE  Nearer
<1>1. CASE Finalize /\ Raise
  <2>1. pc = "finalize" /\ pc' = "open"
    BY <1>1 DEF Finalize, Raise
  <2> QED BY <2>1 DEF Nearer, StagesLeft
<1>2. CASE ~ (Finalize /\ Raise)
  <2>1. /\ pc \in {"wire", "finalize"} /\ ~ WalkEnds /\ UNCHANGED <<pc, changed, types, stack>>
        /\ stack = <<>> /\ queue \in Seq(Calls) /\ todo \subseteq Calls /\ Calls \subseteq Nat
        /\ visited \subseteq Calls
    BY <1>2, PlanFacts DEF Wire, Finalize, inferred, TypeInv, TypeOK, StagesOK
  <2>2. /\ todo' = Taken(First)
        /\ \/ First \in visited /\ visited' = visited /\ queue' = Rest
           \/ First \notin visited /\ visited' = visited \cup {First}
    <3>1. CASE Wire
      <4>1. /\ todo' = Taken(First) /\ visited' = visited \cup {First}
            /\ First \in visited => queue' = Rest
        BY <3>1 DEF Wire
      <4> QED BY <4>1
    <3>2. CASE Finalize
      BY <1>2, <3>2 DEF Finalize
    <3> QED BY <3>1, <3>2
  <2>3. Calls' = Calls
    <3>1. CASE Wire
      <4>1. PICK n : n = Len(calls)
        OBVIOUS
      <4> QED BY <3>1, <4>1, WireFacts
    <3>2. CASE Finalize
      BY <3>2 DEF Finalize, Raise, plan, Calls
    <3> QED BY <3>1, <3>2
  <2>4. UNCHANGED <<StagesLeft, Unknown>>
    BY <2>1, <2>3, UnknownSame DEF StagesLeft
  <2>5. CASE todo # {}
    <3>1. First \in todo /\ todo' = todo \ {First}
      BY <2>1, <2>2, <2>5, MinInSet DEF First, Taken
    <3>2. Fewer(todo', todo)
      BY <3>1, CallsFinite, FewerLeft
    <3> QED BY <2>1, <2>4, <3>2 DEF Nearer
  <2>6. CASE todo = {}
    <3>1. todo' = todo /\ queue # <<>> /\ First = Head(queue) /\ Rest = Tail(queue) /\ First \in Calls
      BY <2>1, <2>2, <2>6 DEF WalkEnds, First, Taken, Rest
    <3>2. CASE First \notin visited
      <4>1. Fewer(Calls' \ visited', Calls \ visited)
        BY <2>2, <2>3, <3>1, <3>2, CallsFinite, FewerLeft
      <4> QED BY <2>1, <2>4, <3>1, <4>1 DEF Nearer
    <3>3. CASE First \in visited
      <4>1. Len(queue') < Len(queue)
        BY <2>1, <2>2, <3>1, <3>3
      <4> QED BY <2>1, <2>2, <2>3, <2>4, <3>1, <3>3, <4>1 DEF Nearer
    <3> QED BY <3>2, <3>3
  <2> QED BY <2>5, <2>6
<1> QED BY <1>1, <1>2

\* A stage ends, or an exception ends them all.
LEMMA StageNearer ==
  ASSUME \/ Wired \/ Inferred \/ Finalized \/ Built \/ Clear \/ RunRaises
         \/ \E k \in Calls : ConstructRaises(k)
  PROVE  Nearer
<1>1. StagesLeft' < StagesLeft
  BY DEF Wired, Inferred, Finalized, Built, Clear, RunRaises, ConstructRaises, Raise, StagesLeft
<1> QED BY <1>1 DEF Nearer

LEMMA AgainNearer ==
  ASSUME TypeInv, InferAgain
  PROVE  Nearer
<1>1. UNCHANGED <<calls, types, pc>> /\ changed /\ ~ changed'
  BY DEF InferAgain, plan
<1>2. UNCHANGED <<StagesLeft, Unknown>>
  BY <1>1, UnknownSame DEF StagesLeft, Calls
<1> QED BY <1>1, <1>2 DEF Nearer

LEMMA NextRootNearer ==
  ASSUME TypeInv, NextRoot
  PROVE  Nearer
<1>1. UNCHANGED <<calls, types, pc, changed>> /\ todo # {} /\ todo \subseteq Nat
  BY PlanFacts DEF NextRoot, plan, inferred, TypeInv, TypeOK
<1>2. UNCHANGED <<StagesLeft, Unknown>>
  BY <1>1, UnknownSame DEF StagesLeft, Calls
<1>3. Min(todo) \in todo /\ todo' = todo \ {Min(todo)}
  BY <1>1, MinInSet DEF NextRoot
<1>4. Fewer(todo', todo)
  BY <1>3, CallsFinite, FewerLeft
<1> QED BY <1>1, <1>2, <1>4 DEF Nearer

\* The walk from the bottom goes down, and then begins with a call.
LEMMA DownNearer ==
  ASSUME TypeInv, Descend \/ \E k \in Calls : Infer(k)
  PROVE  Nearer
<1>1. UNCHANGED <<calls, types, changed, todo, visited, queue>> /\ stack # <<>>
  BY DEF Descend, Infer, CanVisit, plan, inferred, walk
<1>2. Head(stack) \in Calls /\ Head(stack) \in Nat /\ stack \in Seq(Calls)
  BY <1>1, HeadAndTail, PlanFacts DEF TypeInv, TypeOK
<1>3. UNCHANGED <<StagesLeft, Unknown, Calls>>
  <2>1. StagesLeft' = StagesLeft
    BY DEF Descend, Infer, StagesLeft
  <2> QED BY <1>1, <2>1, UnknownSame DEF Calls
<1>4. Place' < Place
  <2>1. CASE \E k \in Calls : Infer(k)
    <3>1. pc = "infer" /\ pc' = "sync" /\ stack' = stack
      BY <2>1 DEF Infer, walk
    <3> QED BY <1>1, <1>2, <3>1 DEF Place
  <2>2. CASE Descend
    <3>1. PICK j \in Children(Head(stack)) : stack' = <<j>> \o stack /\ pc' = pc
      BY <2>2 DEF Descend, Children, Range
    <3>2. j \in Nat /\ j < Head(stack) /\ Head(stack) \in Nat
      <4>1. Children(Head(stack)) \subseteq 1 .. Head(stack) - 1
        BY <1>2 DEF TypeInv, TypeOK
      <4> QED BY <1>2, <3>1, <4>1
    <3>3. stack' # <<>> /\ Head(stack') = j
      BY <1>2, <3>1
    <3>4. pc # "sync" /\ pc' # "sync"
      BY <2>2, <3>1 DEF Descend
    <3> QED BY <1>1, <3>2, <3>3, <3>4 DEF Place
  <2> QED BY <2>1, <2>2
<1> QED BY <1>1, <1>3, <1>4 DEF Nearer

\* A call on the stack was not visited, and now is.
LEMMA VisitNearer ==
  ASSUME TypeInv, StackInv, Join \/ \E l \in links : Break(l)
  PROVE  Nearer
<1>1. /\ UNCHANGED <<calls, types, changed, todo>> /\ stack # <<>>
      /\ visited' = visited \cup {Head(stack)}
      /\ UNCHANGED <<StagesLeft, Unknown, Calls>>
  <2>1. /\ UNCHANGED <<calls, types, changed, todo>> /\ pc = "sync" /\ pc' = "infer"
        /\ visited' = visited \cup {Head(stack)}
    BY DEF Join, Break, Visit, plan
  <2> QED BY <2>1, UnknownSame DEF StagesLeft, Calls, TypeInv, StagesOK
<1>2. Head(stack) \in Calls /\ Head(stack) \notin visited
  BY <1>1, StackFacts DEF StackInv
<1>3. Fewer(Calls' \ visited', Calls \ visited)
  BY <1>1, <1>2, CallsFinite, FewerLeft
<1> QED BY <1>1, <1>3 DEF Nearer

LEMMA ConstructNearer ==
  ASSUME TypeInv, StackInv, NEW k \in Calls, Construct(k)
  PROVE  Nearer
<1>1. /\ UNCHANGED <<calls, changed, todo, pc>> /\ stack # <<>> /\ k = Head(stack)
      /\ visited' = visited \cup {Head(stack)} /\ UNCHANGED <<StagesLeft, Calls>>
      /\ UNCHANGED types \/ types' = [types EXCEPT ![k] = Marked(k)]
  BY DEF Construct, Visit, CanVisit, plan, StagesLeft, Calls
<1>2. k \notin visited
  BY <1>1, StackFacts DEF StackInv
<1>3. Fewer(Calls' \ visited', Calls \ visited)
  BY <1>1, <1>2, CallsFinite, FewerLeft
<1>4. UNCHANGED Unknown \/ Fewer(Unknown', Unknown)
  <2>1. CASE UNCHANGED types
    BY <1>1, <2>1, UnknownSame
  <2>2. CASE types' = [types EXCEPT ![k] = Marked(k)]
    <3>1. \A j \in Calls : Stays(j)
      BY <2>2, MarkedStays
    <3>2. DOMAIN types = Calls
      BY PlanFacts DEF TypeInv
    <3>3. \A j \in Calls : DOMAIN types'[j] = DOMAIN types[j]
      BY <2>2, <3>2, MarkedFacts DEF TypeInv
    <3> QED BY <1>1, <3>1, <3>3, UnknownShrinks
  <2> QED BY <1>1, <2>1, <2>2
<1> QED BY <1>1, <1>3, <1>4 DEF Nearer

LEMMA RunNearer ==
  ASSUME TypeInv, NEW k \in Calls, RunCall(k)
  PROVE  Nearer
<1>1. /\ UNCHANGED <<calls, types, changed, todo, visited, queue, stack, links, built, pc>>
      /\ k \in Remaining /\ ran' = Append(ran, k)
  BY DEF RunCall, plan, inferred, walk
<1>2. UNCHANGED <<StagesLeft, Unknown, Calls, Place>>
  <2>1. UNCHANGED <<StagesLeft, Calls, Place>>
    BY <1>1 DEF StagesLeft, Calls, Place
  <2> QED BY <1>1, <2>1, UnknownSame
<1>3. Range(ran') = Range(ran) \cup {k}
  BY <1>1, AppendRange DEF TypeInv, TypeOK
<1>4. Remaining' = Remaining \ {k}
  BY <1>1, <1>3 DEF Remaining
<1>5. Fewer(Remaining', Remaining)
  BY <1>1, <1>4, CallsFinite, FewerLeft
<1> QED BY <1>1, <1>2, <1>5 DEF Nearer

\* A link whose types are both not inferred, and that changes nothing, is that
\* of a generic argument with the result of a function that returns nothing.
LEMMA NothingPassed ==
  ASSUME TypeInv, GenericInv, OpenInv, pc = "sync", NEW l \in links,
         Mine(l) = None, Its(l) = None, ~ IsOpen(l)
  PROVE  PassesNothing
<1>1. PICK k \in Calls : k = Head(stack)
  BY HeadAndTail DEF TypeInv, TypeOK, StagesOK
<1>2. l \in Links(k) /\ l[1] \in DOMAIN types[k] /\ l[2] \in Calls /\ l[3] \in DOMAIN types[l[2]]
  BY <1>1 DEF GenericInv, LinksOfHead, TypeInv, LinksOK, IsLink
<1>3. types[k][l[1]] = None /\ types[l[2]][l[3]] = None /\ l[3] \notin generic[l[2]]
  BY <1>1 DEF Mine, Its, IsOpen
<1>4. l \in ArgLinks(k)
  BY <1>2, <1>3 DEF Links, InnerLinks
<1>5. PICK i \in 1 .. Arity(k) :
        calls[k].args[i] \in Children(k) /\ l = <<i, calls[k].args[i], Result(calls[k].args[i])>>
  BY <1>4 DEF ArgLinks
<1>6. PICK j \in Calls : j = calls[k].args[i] /\ l[1] = i /\ l[2] = j /\ l[3] = Result(j)
  BY <1>2, <1>5
<1>7. calls[k].function \in Functions /\ calls[j].function \in Functions
  BY PlanFacts DEF TypeInv, Annotated
<1>8. i \in generic[k]
  <2>1. i \in generic[k] \/ Signature[calls[k].function][i] = None
    BY <1>2, <1>3, <1>6 DEF OpenInv
  <2>2. Arity(k) = Len(Signature[calls[k].function]) - 1
    BY DEF TypeInv, TypeOK, Arity
  <2> QED BY <1>7, <2>1, <2>2, SignatureAssumption
<1>9. Signature[calls[j].function][Len(Signature[calls[j].function])] = None
  <2>1. Signature[calls[j].function][Result(j)] = None
    BY <1>2, <1>3, <1>6 DEF OpenInv
  <2>2. Result(j) = Len(Signature[calls[j].function])
    BY DEF TypeInv, TypeOK, Result
  <2> QED BY <2>1, <2>2
<1>10. i <= Arity(k)
  <2>1. Arity(k) \in Nat
    BY PlanFacts DEF TypeInv, Annotated, Arity
  <2> QED BY <2>1
<1> QED BY <1>5, <1>6, <1>8, <1>9, <1>10 DEF PassesNothing

\* A type is inferred, or a link synced without one, or nothing is passed.
LEMMA SyncNearer ==
  ASSUME TypeInv, GenericInv, OpenInv, FiniteInv, NEW l \in links, Sync(l)
  PROVE  Nearer \/ PassesNothing
<1>1. /\ UNCHANGED <<calls, pc, todo, queue, stack, visited>> /\ pc = "sync"
      /\ links' = links \ {l}
  BY DEF Sync, plan, walk
<1>2. UNCHANGED <<StagesLeft, Calls, Place>>
  BY <1>1 DEF StagesLeft, Calls, Place
<1>3. PICK k \in Calls : k = Head(stack)
  BY <1>1, HeadAndTail DEF TypeInv, TypeOK, StagesOK
<1>4. /\ l[1] \in DOMAIN types[k] /\ l[2] \in Calls /\ l[3] \in DOMAIN types[l[2]]
      /\ DOMAIN types = Calls
  BY <1>1, <1>3, PlanFacts DEF TypeInv, LinksOK, IsLink
<1>5. CASE UNCHANGED <<types, changed>>
  <2>1. Fewer(links', links)
    BY <1>1, FewerLeft DEF FiniteInv
  <2>2. UNCHANGED Unknown
    BY <1>2, <1>5, UnknownSame
  <2> QED BY <1>1, <1>2, <1>5, <2>1, <2>2 DEF Nearer
<1>6. ASSUME NEW j \in Calls, NEW i \in DOMAIN types[j], types[j][i] = None, types'[j][i] # None
      PROVE  Nearer
  <2>1. UNCHANGED Unknown \/ Fewer(Unknown', Unknown)
    BY <1>2, SyncStays, SyncDomains, UnknownShrinks
  <2>2. <<j, i>> \in Unknown
    BY <1>6 DEF Unknown
  <2>3. <<j, i>> \notin Unknown'
    BY <1>6 DEF Unknown
  <2> QED BY <1>2, <2>1, <2>2, <2>3 DEF Nearer
<1>7. CASE Mine(l) = None /\ Its(l) # None
  <2>1. types' = [types EXCEPT ![k][l[1]] = Its(l)]
    BY <1>3, <1>7 DEF Sync
  <2>2. types'[k][l[1]] # None /\ types[k][l[1]] = None
    BY <1>3, <1>4, <1>7, <2>1 DEF Mine
  <2> QED BY <1>4, <1>6, <2>2
<1>8. CASE Mine(l) # None /\ Its(l) = None /\ IsOpen(l)
  <2>1. types' = [types EXCEPT ![l[2]][l[3]] = Mine(l)]
    BY <1>8 DEF Sync
  <2>2. types'[l[2]][l[3]] # None /\ types[l[2]][l[3]] = None
    BY <1>4, <1>8, <2>1 DEF Its
  <2> QED BY <1>4, <1>6, <2>2
<1>9. CASE Mine(l) = None /\ Its(l) = None /\ ~ IsOpen(l)
  BY <1>1, <1>9, NothingPassed
<1> QED BY <1>5, <1>7, <1>8, <1>9 DEF Sync

\* How far register and evaluate_dag are from their return, in all they do: a
\* stage that begins, a type that is inferred, the pass that changed one over, a
\* root that is walked, a call visited, an edge of the plan taken, a link synced,
\* a call run.  A pass can change the types without an end only where a generic
\* argument is the result of a function that returns nothing (dag.py:227-272,
\* 285-327, 398-420).
THEOREM EveryStepNears == Spec => [][Step => Nearer \/ (pc = "sync" /\ PassesNothing)]_vars
<1>1. NearInv /\ [Next]_vars => [Step => Nearer \/ (pc = "sync" /\ PassesNothing)]_vars
  <2> SUFFICES ASSUME NearInv, Step PROVE Nearer \/ (pc = "sync" /\ PassesNothing)
    OBVIOUS
  <2> USE DEF NearInv
  <2>1. CASE Wire \/ Finalize
    BY <2>1, TopNearer
  <2>2. CASE \/ Wired \/ Inferred \/ Finalized \/ Built \/ Clear \/ RunRaises
             \/ \E k \in Calls : ConstructRaises(k)
    BY <2>2, StageNearer
  <2>3. CASE NextRoot \/ InferAgain
    BY <2>3, NextRootNearer, AgainNearer
  <2>4. CASE Descend \/ \E k \in Calls : Infer(k)
    BY <2>4, DownNearer
  <2>5. CASE Join \/ \E l \in links : Break(l)
    BY <2>5, VisitNearer
  <2>6. CASE \E l \in links : Sync(l)
    BY <2>6, SyncNearer DEF Sync
  <2>7. CASE \E k \in Calls : Construct(k) \/ RunCall(k)
    BY <2>7, ConstructNearer, RunNearer
  <2> QED BY <2>1, <2>2, <2>3, <2>4, <2>5, <2>6, <2>7 DEF Step
<1> QED BY <1>1, NearHolds, PTL DEF Spec

-----------------------------------------------------------------------------
(***************************************************************************)
(* There is a next step.                                                   *)
(***************************************************************************)

\* What the steps look for is there: the next child or none left, the next link,
\* the next call of the programs.
GoesOn ==
  /\ pc \in {"infer", "build"} /\ stack = <<>> => todo # {} \/ WalkEnds
  /\ pc \in {"infer", "build"} /\ stack # <<>> =>
       LET next == calls[Head(stack)].children
       IN  \/ CanVisit(Head(stack))
           \/ \E i \in DOMAIN next :
                next[i] \notin visited /\ \A h \in 1 .. i - 1 : next[h] \in visited
  /\ pc = "sync" => links = {} \/ \E l \in links : IsNextLink(l)
  /\ pc = "run" => Remaining = {} \/ \E k \in Remaining : IsNext(k)

\* Of the children not visited, the first.
LEMMA NextChild ==
  ASSUME TypeInv, stack # <<>>, ~ CanVisit(Head(stack)), NEW next, next = calls[Head(stack)].children
  PROVE  \E i \in DOMAIN next : next[i] \notin visited /\ \A h \in 1 .. i - 1 : next[h] \in visited
<1>1. PICK k \in Calls : k = Head(stack)
  BY HeadAndTail DEF TypeInv, TypeOK
<1>2. next \in Seq(Calls) /\ Len(next) \in Nat /\ DOMAIN next = 1 .. Len(next)
  BY <1>1, PlanFacts DEF TypeInv
<1> DEFINE left == {i \in DOMAIN next : next[i] \notin visited}
<1>3. left # {}
  BY <1>1 DEF CanVisit, Children, Range
<1>4. left \subseteq Nat
  BY <1>2
<1>5. PICK i \in left : \A h \in left : i <= h
  <2> HIDE DEF left
  <2> QED BY <1>3, <1>4, LeastOf
<1>6. ASSUME NEW h \in 1 .. i - 1 PROVE next[h] \in visited
  <2>1. h \in DOMAIN next /\ ~ (i <= h)
    BY <1>2
  <2> QED BY <2>1, <1>5
<1> QED BY <1>6

\* Of the links to children, or if there is none of the others, the first.
LEMMA NextLink ==
  ASSUME TypeInv, pc = "sync", links # {}
  PROVE  \E l \in links : IsNextLink(l)
<1>1. PICK k \in Calls : k = Head(stack)
  BY HeadAndTail DEF TypeInv, TypeOK, StagesOK
<1>2. \A l \in links : l[1] \in Nat /\ l[3] \in Nat
  <2>1. \A j \in Calls : DOMAIN types[j] \subseteq Nat
    BY PlanFacts DEF TypeInv
  <2> QED BY <1>1, <2>1 DEF TypeInv, LinksOK, IsLink
<1>3. PICK first \in SUBSET links :
        /\ first # {}
        /\ \A l \in first, m \in first : (l[2] = k) <=> (m[2] = k)
        /\ \A l \in first, m \in links \ first : l[2] # k /\ m[2] = k
  <2>1. CASE \E l \in links : l[2] # k
    <3> WITNESS {l \in links : l[2] # k} \in SUBSET links
    <3> QED BY <2>1
  <2>2. CASE \A l \in links : l[2] = k
    <3> WITNESS links \in SUBSET links
    <3> QED BY <2>2
  <2> QED BY <2>1, <2>2
<1>4. PICK a \in {l[1] : l \in first} : \A b \in {l[1] : l \in first} : a <= b
  <2>1. {l[1] : l \in first} \subseteq Nat /\ {l[1] : l \in first} # {}
    BY <1>2, <1>3
  <2> QED BY <2>1, LeastOf
<1>5. PICK c \in {l[3] : l \in {m \in first : m[1] = a}} :
        \A d \in {l[3] : l \in {m \in first : m[1] = a}} : c <= d
  <2>1. {l[3] : l \in {m \in first : m[1] = a}} \subseteq Nat /\ {l[3] : l \in {m \in first : m[1] = a}} # {}
    BY <1>2, <1>4
  <2> QED BY <2>1, LeastOf
<1>6. PICK l \in first : l[1] = a /\ l[3] = c
  BY <1>5
<1>7. ASSUME NEW m \in links PROVE Precedes(l, m, k)
  <2>1. CASE m \notin first
    BY <1>3, <2>1 DEF Precedes
  <2>2. CASE m \in first
    <3>1. l[1] <= m[1] /\ (m[1] = l[1] => l[3] <= m[3])
      BY <1>4, <1>5, <1>6, <2>2
    <3>2. l[1] \in Nat /\ m[1] \in Nat /\ ((l[2] = k) <=> (m[2] = k))
      BY <1>2, <1>3, <2>2
    <3> QED BY <3>1, <3>2 DEF Precedes
  <2> QED BY <2>1, <2>2
<1> QED BY <1>1, <1>6, <1>7 DEF IsNextLink

\* Of the calls of the first program that has any left, the one built first.
LEMMA NextCall ==
  ASSUME TypeInv, Remaining # {}
  PROVE  \E k \in Remaining : IsNext(k)
<1>1. /\ built \in Seq(Calls) /\ Len(built) \in Nat /\ DOMAIN built = 1 .. Len(built)
      /\ Remaining \subseteq Calls /\ \A k \in Calls : pipeline[k] \in Nat
  BY PlanFacts DEF TypeInv, TypeOK, Remaining, Range
<1>2. PICK p \in {pipeline[k] : k \in Remaining} : \A q \in {pipeline[k] : k \in Remaining} : p <= q
  <2>1. {pipeline[k] : k \in Remaining} \subseteq Nat /\ {pipeline[k] : k \in Remaining} # {}
    BY <1>1
  <2> QED BY <2>1, LeastOf
<1> DEFINE at == {i \in DOMAIN built : built[i] \in Remaining /\ pipeline[built[i]] = p}
<1>3. PICK i \in at : \A h \in at : i <= h
  <2>1. at # {}
    BY <1>2 DEF Remaining, Range
  <2>2. at \subseteq Nat
    BY <1>1
  <2> HIDE DEF at
  <2> QED BY <2>1, <2>2, LeastOf
<1>4. ASSUME NEW h \in DOMAIN built, built[h] \in Remaining
      PROVE  pipeline[built[i]] < pipeline[built[h]] \/ (pipeline[built[i]] = pipeline[built[h]] /\ i <= h)
  <2>1. p <= pipeline[built[h]] /\ pipeline[built[i]] = p /\ p \in Nat /\ pipeline[built[h]] \in Nat
    BY <1>1, <1>2, <1>3, <1>4
  <2>2. pipeline[built[h]] = p => i <= h
    BY <1>3, <1>4
  <2> QED BY <2>1, <2>2
<1>5. i \in DOMAIN built /\ built[i] \in Remaining
  OBVIOUS
<1> QED BY <1>4, <1>5 DEF IsNext

\* No stage of register and evaluate_dag is left without a step, for any plan:
\* the walks find their way, the links have an order, and so have the calls of
\* the programs (dag.py:227-272, 289-307, 405-410).
THEOREM EveryStageGoesOn == Spec => []GoesOn
<1>1. TypeInv => GoesOn
  <2>1. ASSUME TypeInv, pc \in {"infer", "build"}, stack = <<>> PROVE todo # {} \/ WalkEnds
    BY <2>1 DEF TypeInv, StagesOK, WalkEnds
  <2> QED BY <2>1, NextChild, NextLink, NextCall DEF GoesOn
<1> QED BY <1>1, TypesHold, PTL

=============================================================================
