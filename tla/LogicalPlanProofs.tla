-------------------------- MODULE LogicalPlanProofs --------------------------
(***************************************************************************)
(* The invariants of LogicalPlan, for all functions, signatures, values    *)
(* and bounds.                                                             *)
(***************************************************************************)
EXTENDS LogicalPlan, TLAPS, WellFoundedInduction

-----------------------------------------------------------------------------
(***************************************************************************)
(* Sequences and least elements.                                           *)
(***************************************************************************)

\* What is in a sequence that is not empty.
LEMMA HeadAndTail ==
  ASSUME NEW S, NEW s \in Seq(S), s # <<>>
  PROVE  /\ Head(s) \in S /\ Tail(s) \in Seq(S)
         /\ Range(s) = {Head(s)} \cup Range(Tail(s))
<1>1. Len(s) \in Nat /\ Len(s) >= 1 /\ Len(Tail(s)) = Len(s) - 1
  OBVIOUS
<1>2. /\ DOMAIN Tail(s) = 1 .. Len(s) - 1
      /\ \A i \in 1 .. Len(s) - 1 : Tail(s)[i] = s[i + 1]
  OBVIOUS
<1>3. Range(s) \subseteq {Head(s)} \cup Range(Tail(s))
  <2> SUFFICES ASSUME NEW i \in 1 .. Len(s) PROVE s[i] = Head(s) \/ s[i] \in Range(Tail(s))
    BY DEF Range
  <2>1. CASE i = 1
    BY <2>1
  <2>2. CASE i # 1
    <3>1. i - 1 \in 1 .. Len(s) - 1 /\ Tail(s)[i - 1] = s[i]
      BY <1>1, <1>2, <2>2
    <3> QED BY <3>1, <1>2 DEF Range
  <2> QED BY <2>1, <2>2
<1>4. Range(Tail(s)) \subseteq Range(s)
  <2> SUFFICES ASSUME NEW i \in 1 .. Len(s) - 1 PROVE Tail(s)[i] \in Range(s)
    BY <1>2 DEF Range
  <2> QED BY <1>1, <1>2 DEF Range
<1> QED BY <1>1, <1>3, <1>4 DEF Range

\* What is in a sequence that got one more element.
LEMMA AppendRange ==
  ASSUME NEW S, NEW s \in Seq(S), NEW e
  PROVE  Range(Append(s, e)) = Range(s) \cup {e}
<1>1. Len(Append(s, e)) = Len(s) + 1 /\ Len(s) \in Nat
  OBVIOUS
<1>2. \A i \in 1 .. Len(s) + 1 : Append(s, e)[i] = IF i = Len(s) + 1 THEN e ELSE s[i]
  OBVIOUS
<1>3. DOMAIN Append(s, e) = 1 .. Len(s) + 1 /\ DOMAIN s = 1 .. Len(s)
  OBVIOUS
<1>4. Range(Append(s, e)) \subseteq Range(s) \cup {e}
  BY <1>1, <1>2, <1>3 DEF Range
<1>5. e \in Range(Append(s, e))
  <2>1. Append(s, e)[Len(s) + 1] = e /\ Len(s) + 1 \in 1 .. Len(s) + 1
    BY <1>1, <1>2
  <2> QED BY <2>1, <1>3 DEF Range
<1>6. Range(s) \subseteq Range(Append(s, e))
  <2> SUFFICES ASSUME NEW i \in 1 .. Len(s) PROVE s[i] \in Range(Append(s, e))
    BY <1>3 DEF Range
  <2>1. Append(s, e)[i] = s[i] /\ i \in 1 .. Len(s) + 1
    BY <1>1, <1>2
  <2> QED BY <2>1, <1>3 DEF Range
<1> QED BY <1>4, <1>5, <1>6

\* The elements of a sequence that got one more.
LEMMA AppendFacts ==
  ASSUME NEW S, NEW s \in Seq(S), NEW e \in S
  PROVE  /\ Append(s, e) \in Seq(S) /\ Append(s, e) # <<>>
         /\ Len(s) \in Nat /\ Len(Append(s, e)) = Len(s) + 1
         /\ DOMAIN Append(s, e) = 1 .. Len(s) + 1 /\ DOMAIN s = 1 .. Len(s)
         /\ Append(s, e)[Len(s) + 1] = e
         /\ \A i \in 1 .. Len(s) : Append(s, e)[i] = s[i]
  OBVIOUS

\* A function on 1 .. n is a sequence of n elements.
LEMMA FunctionIsSeq ==
  ASSUME NEW S, NEW n \in Nat, NEW t \in [1 .. n -> S]
  PROVE  t \in Seq(S) /\ Len(t) = n /\ DOMAIN t = 1 .. n
  OBVIOUS

\* A sequence is one of the elements it has.
LEMMA SeqOfRange ==
  ASSUME NEW S, NEW T, NEW s \in Seq(S), \A i \in DOMAIN s : s[i] \in T
  PROVE  s \in Seq(T)
<1>1. Len(s) \in Nat /\ DOMAIN s = 1 .. Len(s)
  OBVIOUS
<1>2. \A i \in 1 .. Len(s) : s[i] \in T
  BY <1>1 DEF Range
<1>3. s \in [1 .. Len(s) -> T]
  BY <1>1, <1>2
<1>4. PICK n \in Nat : n = Len(s)
  BY <1>1
<1>5. s \in [1 .. n -> T]
  BY <1>3, <1>4
<1> QED BY <1>4, <1>5, FunctionIsSeq

\* A sequence with one element replaced.
LEMMA ExceptSeq ==
  ASSUME NEW S, NEW s \in Seq(S), NEW k \in 1 .. Len(s), NEW e \in S
  PROVE  [s EXCEPT ![k] = e] \in Seq(S) /\ Len([s EXCEPT ![k] = e]) = Len(s)
<1> DEFINE t == [s EXCEPT ![k] = e]
<1>1. Len(s) \in Nat /\ s \in [1 .. Len(s) -> S]
  OBVIOUS
<1>2. t \in [1 .. Len(s) -> S]
  BY <1>1
<1> HIDE DEF t
<1>3. t \in Seq(S) /\ Len(t) = Len(s)
  BY <1>1, <1>2, FunctionIsSeq
<1> QED BY <1>3 DEF t

\* What is in two sequences, one after the other.
LEMMA ConcatRange ==
  ASSUME NEW S, NEW s \in Seq(S), NEW t \in Seq(S)
  PROVE  /\ s \o t \in Seq(S)
         /\ Range(s \o t) = Range(s) \cup Range(t)
<1>1. Len(s \o t) = Len(s) + Len(t) /\ Len(s) \in Nat /\ Len(t) \in Nat
  OBVIOUS
<1>2. \A i \in 1 .. Len(s) + Len(t) :
        (s \o t)[i] = IF i <= Len(s) THEN s[i] ELSE t[i - Len(s)]
  OBVIOUS
<1>3. /\ DOMAIN (s \o t) = 1 .. Len(s) + Len(t)
      /\ DOMAIN s = 1 .. Len(s) /\ DOMAIN t = 1 .. Len(t)
  OBVIOUS
<1>4. Range(s \o t) \subseteq Range(s) \cup Range(t)
  <2> SUFFICES ASSUME NEW i \in 1 .. Len(s) + Len(t)
               PROVE  (s \o t)[i] \in Range(s) \cup Range(t)
    BY <1>3 DEF Range
  <2>1. CASE i <= Len(s)
    BY <2>1, <1>1, <1>2, <1>3 DEF Range
  <2>2. CASE ~ (i <= Len(s))
    <3>1. i - Len(s) \in 1 .. Len(t) /\ (s \o t)[i] = t[i - Len(s)]
      BY <2>2, <1>1, <1>2
    <3> QED BY <3>1, <1>3 DEF Range
  <2> QED BY <2>1, <2>2
<1>5. Range(s) \subseteq Range(s \o t)
  <2> SUFFICES ASSUME NEW i \in 1 .. Len(s) PROVE s[i] \in Range(s \o t)
    BY <1>3 DEF Range
  <2>1. (s \o t)[i] = s[i] /\ i \in 1 .. Len(s) + Len(t)
    BY <1>1, <1>2
  <2> QED BY <2>1, <1>3 DEF Range
<1>6. Range(t) \subseteq Range(s \o t)
  <2> SUFFICES ASSUME NEW i \in 1 .. Len(t) PROVE t[i] \in Range(s \o t)
    BY <1>3 DEF Range
  <2>1. Len(s) + i \in 1 .. Len(s) + Len(t) /\ (s \o t)[Len(s) + i] = t[i]
    BY <1>1, <1>2
  <2> QED BY <2>1, <1>3 DEF Range
<1> QED BY <1>4, <1>5, <1>6

\* A set of numbers that is not empty has a least one.
LEMMA LeastOf ==
  ASSUME NEW S, S \subseteq Nat, S # {}
  PROVE  \E m \in S : \A y \in S : m <= y
<1> DEFINE R == {p \in Nat \X Nat : p[1] < p[2]}
<1>1. IsWellFoundedOn(R, Nat)
  BY NatLessThanWellFounded DEF OpToRel
<1>2. \E m \in S : \A y \in S : ~ (<<y, m>> \in R)
  <2> HIDE DEF R
  <2> QED BY <1>1, WFMin
<1>3. PICK m \in S : \A y \in S : ~ (<<y, m>> \in R)
  BY <1>2
<1>4. ASSUME NEW y \in S PROVE m <= y
  <2>1. y \in Nat /\ m \in Nat
    OBVIOUS
  <2>2. y < m => <<y, m>> \in R
    BY <2>1
  <2> HIDE DEF R
  <2>3. ~ (y < m)
    BY <1>3, <2>2
  <2> QED BY <2>1, <2>3
<1> QED BY <1>4

LEMMA MinInSet ==
  ASSUME NEW S, S \subseteq Nat, S # {}
  PROVE  Min(S) \in S
  BY LeastOf DEF Min

-----------------------------------------------------------------------------
(***************************************************************************)
(* Types.                                                                  *)
(***************************************************************************)

\* What is empty outside the stages that use it, and what a call is wired to.
StagesOK ==
  /\ pc \notin {"infer", "sync", "build"} => stack = <<>>
  /\ pc = "sync" => stack # <<>>
  /\ pc \notin {"wire", "finalize"} => queue = <<>>
  /\ pc \in {"open", "run"} => todo = {} /\ visited = {}
  /\ pc \notin {"build", "run"} => built = <<>>
  /\ pc # "run" => ran = <<>>
  /\ pc = "wire" =>
       /\ calls # <<>>
       /\ roots \subseteq 1 .. Len(calls) - 1
       /\ visited \subseteq 1 .. Len(calls) - 1
       /\ queue \in Seq(1 .. Len(calls) - 1)

\* The links of the call that is visited are positions of calls.
IsLink(l) ==
  /\ l[1] \in DOMAIN types[Head(stack)]
  /\ l[2] \in Calls /\ l[3] \in DOMAIN types[l[2]]

LinksOK == pc = "sync" => \A l \in links : IsLink(l)

TypeInv == TypeOK /\ StagesOK /\ LinksOK

\* The calls of a plan, their types and pipelines.
LEMMA PlanFacts ==
  ASSUME TypeOK
  PROVE  /\ Len(calls) \in Nat /\ Calls \subseteq Nat
         /\ DOMAIN calls = Calls /\ DOMAIN types = Calls
         /\ DOMAIN generic = Calls /\ DOMAIN pipeline = Calls
         /\ \A k \in Calls :
              /\ calls[k] \in Annotated /\ pipeline[k] \in Nat
              /\ calls[k].children \in Seq(Calls) /\ Children(k) \subseteq Calls
              /\ types[k] \in Seq(InferredTypes)
              /\ DOMAIN types[k] = 1 .. Len(types[k]) /\ Len(types[k]) \in Nat
<1>0. /\ calls \in Seq(Annotated) /\ types \in Seq(Seq(InferredTypes))
      /\ generic \in Seq(SUBSET Nat) /\ pipeline \in Seq(Nat)
      /\ Len(types) = Len(calls) /\ Len(generic) = Len(calls) /\ Len(pipeline) = Len(calls)
      /\ \A k \in Calls : Children(k) \subseteq 1 .. k - 1
  BY DEF TypeOK
<1>1. /\ Len(calls) \in Nat /\ DOMAIN calls = 1 .. Len(calls)
      /\ DOMAIN types = 1 .. Len(types) /\ DOMAIN generic = 1 .. Len(generic)
      /\ DOMAIN pipeline = 1 .. Len(pipeline)
  BY <1>0
<1>2. \A k \in Calls : calls[k] \in Annotated /\ pipeline[k] \in Nat /\ types[k] \in Seq(InferredTypes)
  BY <1>0, <1>1 DEF Calls
<1>3. ASSUME NEW k \in Calls
      PROVE  calls[k].children \in Seq(Calls) /\ Children(k) \subseteq Calls
  <2>1. Children(k) \subseteq Calls
    BY <1>0, <1>1 DEF Calls
  <2>2. calls[k].children \in Seq(Nat)
    BY <1>2 DEF Annotated
  <2>3. \A i \in 1 .. Len(calls[k].children) : calls[k].children[i] \in Calls
    BY <2>1, <2>2 DEF Children, Range
  <2> QED BY <2>1, <2>2, <2>3
<1>4. \A k \in Calls : DOMAIN types[k] = 1 .. Len(types[k]) /\ Len(types[k]) \in Nat
  BY <1>2
<1> QED BY <1>0, <1>1, <1>2, <1>3, <1>4 DEF Calls

\* Where a walk from the top goes next, and what is left of it.
LEMMA FirstFacts ==
  ASSUME TypeOK, stack = <<>>, ~ WalkEnds, NEW S, queue \in Seq(S), todo \subseteq S
  PROVE  /\ First \in S /\ First \in Calls
         /\ Taken(First) \subseteq todo /\ Rest \in Seq(S) /\ Rest \in Seq(Calls)
         /\ todo \cup Range(queue) = {First} \cup Taken(First) \cup Range(Rest)
<1> USE DEF TypeOK
<1>1. CASE todo # {}
  <2>1. todo \subseteq Nat
    BY PlanFacts
  <2>2. First = Min(todo) /\ First \in todo /\ Rest = queue /\ Taken(First) = todo \ {First}
    BY <1>1, <2>1, MinInSet DEF First, Rest, Taken
  <2> QED BY <2>2
<1>2. CASE todo = {}
  <2>1. queue # <<>>
    BY <1>2 DEF WalkEnds
  <2>2. First = Head(queue) /\ Rest = Tail(queue) /\ Taken(First) = todo
    BY <1>2 DEF First, Rest, Taken
  <2>3. queue \in Seq(Calls)
    OBVIOUS
  <2>4. /\ Head(queue) \in S /\ Tail(queue) \in Seq(S)
        /\ Range(queue) = {Head(queue)} \cup Range(Tail(queue))
    BY <2>1, HeadAndTail
  <2>5. Head(queue) \in Calls /\ Tail(queue) \in Seq(Calls)
    BY <2>1, <2>3, HeadAndTail
  <2> QED BY <2>2, <2>4, <2>5
<1> QED BY <1>1, <1>2

\* TypeOK in parts: the plan, the walk, the rest.
CallOK(k) ==
  /\ Len(calls[k].args) = Len(Signature[calls[k].function]) - 1
  /\ Range(calls[k].args) \subseteq Values \cup 1 .. k - 1
  /\ Children(k) \subseteq 1 .. k - 1
  /\ Len(types[k]) = Len(Signature[calls[k].function])
  /\ generic[k] \subseteq DOMAIN types[k]

PlanOK ==
  /\ calls \in Seq(Annotated)
  /\ types \in Seq(Seq(InferredTypes)) /\ Len(types) = Len(calls)
  /\ generic \in Seq(SUBSET Nat) /\ Len(generic) = Len(calls)
  /\ pipeline \in Seq(Nat) /\ Len(pipeline) = Len(calls)
  /\ \A k \in Calls : CallOK(k)

WalkOK ==
  /\ roots \subseteq Calls /\ todo \subseteq roots /\ visited \subseteq Calls
  /\ queue \in Seq(Calls) /\ stack \in Seq(Calls)

RestOK ==
  /\ pc \in Stages
  /\ built \in Seq(Calls) /\ ran \in Seq(Calls)
  /\ changed \in BOOLEAN /\ current \in Nat /\ raises \in Nat

LEMMA TypeParts == TypeOK <=> PlanOK /\ WalkOK /\ RestOK
  BY DEF TypeOK, PlanOK, WalkOK, RestOK, CallOK

LEMMA TypePartsPrime == TypeOK' <=> PlanOK' /\ WalkOK' /\ RestOK'
  BY DEF TypeOK, PlanOK, WalkOK, RestOK, CallOK

\* One call's types are replaced, position by position.
LEMMA TypesEdit ==
  ASSUME TypeOK, NEW k \in Calls, NEW t \in Seq(InferredTypes), Len(t) = Len(types[k]),
         types' = [types EXCEPT ![k] = t], UNCHANGED <<calls, generic, pipeline>>
  PROVE  PlanOK' /\ \A j \in Calls : DOMAIN types'[j] = DOMAIN types[j]
<1>1. PlanOK /\ DOMAIN types = Calls /\ DOMAIN t = DOMAIN types[k]
  BY TypeParts, PlanFacts
<1>2. types' \in Seq(Seq(InferredTypes)) /\ Len(types') = Len(types)
  BY <1>1 DEF PlanOK
<1>3. \A j \in Calls : Len(types'[j]) = Len(types[j]) /\ DOMAIN types'[j] = DOMAIN types[j]
  BY <1>1
<1>4. ASSUME NEW j \in Calls' PROVE CallOK(j)'
  <2>1. j \in Calls /\ CallOK(j)
    BY <1>1 DEF PlanOK, Calls
  <2>2. Children(j)' = Children(j)
    BY DEF Children
  <2> QED BY <2>1, <2>2, <1>3 DEF CallOK
<1> QED BY <1>1, <1>2, <1>3, <1>4 DEF PlanOK

\* The same for the pipeline of a call.
LEMMA PipelineEdit ==
  ASSUME TypeOK, NEW k \in Calls, NEW p \in Nat,
         pipeline' = [pipeline EXCEPT ![k] = p], UNCHANGED <<calls, types, generic>>
  PROVE  PlanOK'
<1>1. PlanOK /\ DOMAIN pipeline = Calls
  BY TypeParts, PlanFacts
<1>2. pipeline' \in Seq(Nat) /\ Len(pipeline') = Len(pipeline)
  BY <1>1 DEF PlanOK
<1>3. ASSUME NEW j \in Calls' PROVE CallOK(j)'
  <2>1. j \in Calls /\ CallOK(j)
    BY <1>1 DEF PlanOK, Calls
  <2> QED BY <2>1 DEF CallOK, Children
<1> QED BY <1>1, <1>2, <1>3 DEF PlanOK

\* A step that leaves calls, types and pipelines as they are.
LEMMA PlanStays ==
  ASSUME TypeOK, UNCHANGED <<calls, types, generic, pipeline>>
  PROVE  PlanOK'
<1>1. PlanOK
  BY TypeParts
<1>2. ASSUME NEW j \in Calls' PROVE CallOK(j)'
  <2>1. j \in Calls /\ CallOK(j)
    BY <1>1 DEF PlanOK, Calls
  <2> QED BY <2>1 DEF CallOK, Children
<1> QED BY <1>1, <1>2 DEF PlanOK

\* register gives the call its place, its types and no children.
LEMMA RegisterTypes ==
  ASSUME TypeInv, NEW f \in Functions, NEW args \in Arguments(f), Register(f, args)
  PROVE  TypeInv'
<1> DEFINE new == [function |-> f, args |-> args, children |-> <<>>]
           ts == [i \in 1 .. Len(Signature[f]) |->
                    IF Signature[f][i] \in Generics \/ Signature[f][i] = None THEN None
                    ELSE <<Signature[f][i], "new">>]
           gs == {i \in 1 .. Len(Signature[f]) : Signature[f][i] \in Generics}
<1>1. TypeOK /\ PlanOK /\ WalkOK /\ RestOK /\ StagesOK /\ Len(calls) \in Nat
  BY TypeParts, PlanFacts DEF TypeInv
<1>17. PICK n \in Nat : n = Len(calls) + 1
  BY <1>1
<1>2. /\ Signature[f] \in Seq(Types \cup Generics \cup {None})
      /\ Len(Signature[f]) \in Nat \ {0}
  BY SignatureAssumption
<1>3. /\ calls' = Append(calls, new) /\ types' = Append(types, ts)
      /\ generic' = Append(generic, gs) /\ pipeline' = Append(pipeline, 0)
      /\ pc = "open" /\ pc' = "wire" /\ todo' = roots /\ queue' = <<>> /\ visited' = {}
      /\ UNCHANGED <<roots, stack, changed, current, links, built, ran, raises>>
  BY Zenon DEF Register
<1>4. ts \in Seq(InferredTypes) /\ Len(ts) = Len(Signature[f]) /\ gs \subseteq DOMAIN ts
  <2>1. \A i \in 1 .. Len(Signature[f]) : ts[i] \in InferredTypes
    BY <1>2 DEF InferredTypes
  <2>2. ts \in [1 .. Len(Signature[f]) -> InferredTypes]
    BY <2>1
  <2> HIDE DEF ts
  <2>3. ts \in Seq(InferredTypes) /\ Len(ts) = Len(Signature[f]) /\ DOMAIN ts = 1 .. Len(Signature[f])
    BY <2>2, <1>2, FunctionIsSeq
  <2> QED BY <2>3
<1>5. /\ args \in Seq(Values \cup Nat) /\ Len(args) = Len(Signature[f]) - 1
      /\ Range(args) \subseteq Values \cup 1 .. n - 1
  BY <1>1, <1>2, <1>17 DEF Arguments, Calls, Range
<1>6. new \in Annotated
  BY <1>5 DEF Annotated
<1> HIDE DEF ts, gs, new
<1>7. /\ calls' \in Seq(Annotated) /\ Len(calls') = n /\ calls' # <<>>
      /\ calls'[n] = new /\ \A k \in Calls : calls'[k] = calls[k]
  BY <1>1, <1>3, <1>6, <1>17, AppendFacts DEF PlanOK, Calls
<1>13. /\ types' \in Seq(Seq(InferredTypes)) /\ Len(types') = n
       /\ types'[n] = ts /\ \A k \in Calls : types'[k] = types[k]
  BY <1>1, <1>3, <1>4, <1>17, AppendFacts DEF PlanOK, Calls
<1>14. /\ generic' \in Seq(SUBSET Nat) /\ Len(generic') = n
       /\ generic'[n] = gs /\ \A k \in Calls : generic'[k] = generic[k]
  <2>1. gs \in SUBSET Nat
    BY DEF gs
  <2> QED BY <2>1, <1>1, <1>3, <1>17, AppendFacts DEF PlanOK, Calls
<1>15. pipeline' \in Seq(Nat) /\ Len(pipeline') = n
  BY <1>1, <1>3, <1>17, AppendFacts DEF PlanOK
<1>16. Calls' = Calls \cup {n} /\ n \in Nat \ {0} /\ n - 1 = Len(calls)
  BY <1>1, <1>7, <1>17 DEF Calls
<1>8. PlanOK'
  <2>4. ASSUME NEW k \in Calls PROVE CallOK(k)'
    <3>1. CallOK(k)
      BY <1>1 DEF PlanOK
    <3> QED BY <3>1, <1>7, <1>13, <1>14 DEF CallOK, Children
  <2>5. CallOK(n)'
    <3>1. /\ calls'[n].args = args /\ calls'[n].children = <<>> /\ calls'[n].function = f
      BY <1>7 DEF new
    <3>2. Children(n)' = {}
      <4>1. Range(<<>>) = {}
        BY DEF Range
      <4> QED BY <3>1, <4>1 DEF Children
    <3> QED BY <3>1, <3>2, <1>4, <1>5, <1>13, <1>14 DEF CallOK
  <2> QED BY <2>4, <2>5, <1>7, <1>13, <1>14, <1>15, <1>16 DEF PlanOK
<1>9. WalkOK' /\ RestOK'
  BY <1>1, <1>3, <1>16 DEF WalkOK, RestOK, Stages, StagesOK
<1>10. StagesOK'
  <2>1. calls' # <<>> /\ Len(calls') - 1 = Len(calls)
    BY <1>7, <1>16
  <2> QED BY <2>1, <1>1, <1>3 DEF StagesOK, WalkOK, Calls
<1>11. LinksOK'
  BY <1>3 DEF LinksOK
<1> QED BY <1>8, <1>9, <1>10, <1>11, TypePartsPrime DEF TypeInv

\* A call with other children.
LEMMA RecordEdit ==
  ASSUME NEW r \in Annotated, NEW j
  PROVE  [r EXCEPT !.children = Append(@, j)] =
           [function |-> r.function, args |-> r.args, children |-> Append(r.children, j)]
<1>1. PICK f \in Functions, a \in Seq(Values \cup Nat), c \in Seq(Nat) :
        r = [function |-> f, args |-> a, children |-> c]
  BY DEF Annotated
<1>2. r.function = f /\ r.args = a /\ r.children = c
  BY <1>1
<1>3. [r EXCEPT !.children = Append(@, j)] = [r EXCEPT !.children = Append(c, j)]
  BY <1>2
<1>4. ASSUME NEW d PROVE [r EXCEPT !.children = d] = [function |-> f, args |-> a, children |-> d]
  BY <1>1
<1> QED BY <1>2, <1>3, <1>4

\* A call gets one more child.
LEMMA ChildEdit ==
  ASSUME TypeOK, NEW k \in Calls, NEW j \in 1 .. k - 1,
         calls' = [calls EXCEPT ![k].children = Append(@, j)],
         UNCHANGED <<types, generic, pipeline>>
  PROVE  /\ PlanOK' /\ Calls' = Calls /\ Len(calls') = Len(calls)
         /\ Children(k)' = Children(k) \cup {j}
         /\ \A i \in Calls : i # k => calls'[i] = calls[i]
         /\ \A i \in Calls : calls'[i].args = calls[i].args /\ calls'[i].function = calls[i].function
<1> DEFINE new == [function |-> calls[k].function, args |-> calls[k].args,
                   children |-> Append(calls[k].children, j)]
<1>1. PlanOK /\ DOMAIN calls = Calls /\ calls[k] \in Annotated /\ j \in Nat /\ k \in Nat
  BY TypeParts, PlanFacts
<1>2. calls' = [calls EXCEPT ![k] = new]
  <2>1. PICK r : r = calls[k] /\ r \in Annotated
    BY <1>1
  <2>2. [r EXCEPT !.children = Append(@, j)] =
          [function |-> r.function, args |-> r.args, children |-> Append(r.children, j)]
    BY <2>1, RecordEdit
  <2>3. calls' = [calls EXCEPT ![k] = [r EXCEPT !.children = Append(@, j)]]
    BY <2>1, Zenon
  <2>4. [r EXCEPT !.children = Append(@, j)] = new
    BY <2>1, <2>2, Zenon
  <2> QED BY <2>3, <2>4, Zenon
<1>3. Append(calls[k].children, j) \in Seq(Nat)
  BY <1>1, AppendFacts DEF Annotated
<1>4. new \in Annotated /\ new.args = calls[k].args /\ new.function = calls[k].function
      /\ new.children = Append(calls[k].children, j)
  BY <1>1, <1>3 DEF Annotated
<1> HIDE DEF new
<1>5. calls' \in Seq(Annotated) /\ Len(calls') = Len(calls)
  <2>1. calls \in Seq(Annotated) /\ k \in 1 .. Len(calls) /\ new \in Annotated
    BY <1>1, <1>4 DEF PlanOK, Calls
  <2>2. [calls EXCEPT ![k] = new] \in Seq(Annotated) /\ Len([calls EXCEPT ![k] = new]) = Len(calls)
    BY <2>1, ExceptSeq, Zenon
  <2> QED BY <2>2, <1>2, Zenon
<1>6. Calls' = Calls
  BY <1>5 DEF Calls
<1>7. /\ calls'[k] = new
      /\ \A i \in Calls : i # k => calls'[i] = calls[i]
  BY <1>1, <1>2
<1>8. Children(k)' = Children(k) \cup {j}
  <2>1. calls[k].children \in Seq(Nat)
    BY <1>1 DEF Annotated
  <2>2. Range(new.children) = Range(calls[k].children) \cup {j}
    BY <2>1, <1>4, AppendRange
  <2> QED BY <2>2, <1>7 DEF Children
<1>9. ASSUME NEW i \in Calls PROVE CallOK(i)'
  <2>1. CallOK(i)
    BY <1>1 DEF PlanOK
  <2>2. CASE i # k
    BY <2>1, <2>2, <1>7 DEF CallOK, Children
  <2>3. CASE i = k
    BY <2>1, <2>3, <1>4, <1>7, <1>8 DEF CallOK
  <2> QED BY <2>2, <2>3
<1> QED BY <1>1, <1>4, <1>5, <1>6, <1>7, <1>8, <1>9 DEF PlanOK

\* What Wire does: the first call of the walk is done with, becomes a child, or
\* its children are walked.
LEMMA WireFacts ==
  ASSUME TypeInv, Wire, NEW n, n = Len(calls)
  PROVE  /\ pc = "wire" /\ n \in Calls /\ n \in Nat /\ Calls' = Calls /\ Len(calls') = n
         /\ UNCHANGED <<roots, inferred, pc, stack, built, ran, raises>>
         /\ First \in 1 .. n - 1
         /\ visited' = visited \cup {First} /\ todo' \subseteq todo
         /\ queue' \in Seq(1 .. n - 1)
         /\ PlanOK'
         /\ \A i \in Calls : i # n => calls'[i] = calls[i]
         /\ \A i \in Calls : calls'[i].args = calls[i].args /\ calls'[i].function = calls[i].function
         /\ Children(n) \subseteq Children(n)'
         /\ todo \cup Range(queue) \subseteq {First} \cup todo' \cup Range(queue')
         /\ \/ First \in visited /\ calls' = calls
            \/ DependencyOf(First, n) /\ Children(n)' = Children(n) \cup {First}
            \/ ~ DependencyOf(First, n) /\ Children(First) \subseteq Range(queue') /\ calls' = calls
<1>1. /\ pc = "wire" /\ ~ WalkEnds /\ stack = <<>> /\ TypeOK /\ StagesOK
      /\ UNCHANGED <<roots, inferred, pc, stack, built, ran, raises>>
  BY DEF Wire, TypeInv, StagesOK
<1>2. /\ n \in Nat /\ n \in Calls /\ todo \subseteq 1 .. n - 1 /\ queue \in Seq(1 .. n - 1)
      /\ todo \subseteq roots
  <2>1. Len(calls) \in Nat /\ calls \in Seq(Annotated) /\ calls # <<>>
    BY <1>1, PlanFacts DEF TypeOK, StagesOK
  <2>2. Len(calls) > 0
    BY <2>1
  <2>3. n \in Nat /\ n \in Calls
    BY <2>1, <2>2 DEF Calls
  <2>4. roots \subseteq 1 .. n - 1 /\ queue \in Seq(1 .. n - 1)
    BY <1>1 DEF StagesOK
  <2>5. todo \subseteq roots
    BY <1>1 DEF TypeOK
  <2> QED BY <2>3, <2>4, <2>5
<1>3. /\ First \in 1 .. n - 1 /\ First \in Calls
      /\ Taken(First) \subseteq todo /\ Rest \in Seq(1 .. n - 1)
      /\ todo \cup Range(queue) = {First} \cup Taken(First) \cup Range(Rest)
  BY <1>1, <1>2, FirstFacts
<1>4. /\ todo' = Taken(First) /\ visited' = visited \cup {First}
      /\ \/ First \in visited /\ queue' = Rest /\ calls' = calls
         \/ /\ First \notin visited /\ DependencyOf(First, n)
            /\ calls' = [calls EXCEPT ![n].children = Append(@, First)] /\ queue' = Rest
         \/ /\ First \notin visited /\ ~ DependencyOf(First, n)
            /\ queue' = Rest \o calls[First].children /\ calls' = calls
  BY DEF Wire
<1>5. UNCHANGED <<types, generic, pipeline>>
  BY <1>1 DEF inferred
<1>6. CASE First \in visited /\ queue' = Rest /\ calls' = calls
  <2>1. PlanOK' /\ Calls' = Calls /\ Children(n)' = Children(n)
    BY <1>1, <1>5, <1>6, PlanStays DEF Calls, Children
  <2> QED BY <2>1, <1>1, <1>2, <1>3, <1>4, <1>6
<1>7. CASE /\ First \notin visited /\ DependencyOf(First, n)
           /\ calls' = [calls EXCEPT ![n].children = Append(@, First)] /\ queue' = Rest
  <2>1. /\ PlanOK' /\ Calls' = Calls /\ Len(calls') = n
        /\ Children(n)' = Children(n) \cup {First}
        /\ \A i \in Calls : i # n => calls'[i] = calls[i]
        /\ \A i \in Calls : calls'[i].args = calls[i].args /\ calls'[i].function = calls[i].function
    BY <1>1, <1>2, <1>3, <1>5, <1>7, ChildEdit
  <2> QED BY <2>1, <1>1, <1>2, <1>3, <1>4, <1>7
<1>8. CASE /\ First \notin visited /\ ~ DependencyOf(First, n)
           /\ queue' = Rest \o calls[First].children /\ calls' = calls
  <2>1. PlanOK' /\ Calls' = Calls /\ Children(n)' = Children(n)
    BY <1>1, <1>5, <1>8, PlanStays DEF Calls, Children
  <2>2. calls[First].children \in Seq(1 .. n - 1)
    <3>1. calls[First].children \in Seq(Calls) /\ Children(First) \subseteq 1 .. First - 1
      BY <1>1, <1>3, PlanFacts DEF TypeOK
    <3>2. Children(First) \subseteq 1 .. n - 1
      BY <3>1, <1>2, <1>3
    <3> QED BY <3>1, <3>2, SeqOfRange DEF Children
  <2>3. queue' \in Seq(1 .. n - 1) /\ Range(queue') = Range(Rest) \cup Children(First)
    BY <2>2, <1>3, <1>8, ConcatRange DEF Children
  <2> QED BY <2>1, <2>3, <1>1, <1>2, <1>3, <1>4, <1>8
<1> QED BY <1>4, <1>6, <1>7, <1>8

\* A step keeps the types, if it does part by part.
LEMMA TypeInvFrom ==
  ASSUME PlanOK', WalkOK', RestOK', StagesOK', LinksOK'
  PROVE  TypeInv'
  BY TypePartsPrime DEF TypeInv

LEMMA WireTypes == ASSUME TypeInv, Wire PROVE TypeInv'
<1>1. PICK n : n = Len(calls)
  OBVIOUS
<1>2. /\ pc = "wire" /\ n \in Calls /\ n \in Nat /\ Calls' = Calls /\ Len(calls') = n
      /\ UNCHANGED <<roots, inferred, pc, stack, built, ran, raises>>
      /\ First \in 1 .. n - 1
      /\ visited' = visited \cup {First} /\ todo' \subseteq todo
      /\ queue' \in Seq(1 .. n - 1)
      /\ PlanOK'
  BY <1>1, WireFacts
<1>3. WalkOK /\ RestOK /\ StagesOK
  BY TypeParts DEF TypeInv
<1>4. queue' \in Seq(Calls)
  <2>1. DOMAIN queue' = 1 .. Len(queue') /\ \A i \in 1 .. Len(queue') : queue'[i] \in 1 .. n - 1
    BY <1>2
  <2>2. 1 .. n - 1 \subseteq Calls
    BY <1>1, <1>2 DEF Calls
  <2> QED BY <1>2, <2>1, <2>2, SeqOfRange
<1>5. WalkOK'
  BY <1>1, <1>2, <1>3, <1>4 DEF WalkOK, Calls
<1>6. RestOK'
  BY <1>2, <1>3 DEF RestOK, inferred
<1>7. StagesOK'
  <2>1. calls' # <<>>
    BY <1>2
  <2>2. visited \cup {First} \subseteq 1 .. n - 1 /\ roots \subseteq 1 .. n - 1
    BY <1>1, <1>2, <1>3 DEF StagesOK
  <2> QED BY <2>1, <2>2, <1>2, <1>3 DEF StagesOK
<1>8. LinksOK'
  BY <1>2 DEF LinksOK
<1> QED BY <1>2, <1>5, <1>6, <1>7, <1>8, TypeInvFrom

\* The steps that go from one stage to another, or begin and end a walk.
LEMMA StageTypes ==
  ASSUME TypeInv, Wired \/ Evaluate \/ NextRoot \/ InferAgain \/ Inferred \/ Finalized \/ Built
  PROVE  TypeInv'
<1>1. PlanOK /\ WalkOK /\ RestOK /\ StagesOK /\ Calls \subseteq Nat /\ Len(calls) \in Nat
  BY TypeParts, PlanFacts DEF TypeInv
<1>2. UNCHANGED <<calls, types, generic, pipeline, links, built, ran, raises>> /\ Calls' = Calls
  BY DEF Wired, Evaluate, NextRoot, InferAgain, Inferred, Finalized, Built, inferred, plan, Calls
<1>3. PlanOK'
  BY <1>2, PlanStays DEF TypeInv
<1>4. WalkOK'
  <2>1. CASE Wired
    <3>1. Len(calls) \in Calls
      BY <2>1, <1>1 DEF Wired, StagesOK, Calls, PlanOK
    <3> QED BY <2>1, <3>1, <1>1, <1>2 DEF Wired, WalkOK, WalkEnds
  <2>2. CASE NextRoot
    <3>1. Min(todo) \in todo
      BY <2>2, <1>1, MinInSet DEF NextRoot, WalkOK
    <3>2. PICK m \in Calls : m = Min(todo)
      BY <3>1, <1>1 DEF WalkOK
    <3>3. stack' = <<m>> /\ todo' \subseteq todo /\ visited' = {} /\ UNCHANGED <<roots, queue>>
      BY <2>2, <3>2 DEF NextRoot, plan
    <3> QED BY <3>3, <1>1, <1>2 DEF WalkOK
  <2>3. CASE Evaluate \/ InferAgain \/ Inferred \/ Finalized \/ Built
    BY <2>3, <1>1, <1>2 DEF Evaluate, InferAgain, Inferred, Finalized, Built, WalkOK, plan
  <2> QED BY <2>1, <2>2, <2>3
<1>5. RestOK'
  <2>1. pc' \in Stages
    BY DEF Wired, Evaluate, NextRoot, InferAgain, Inferred, Finalized, Built, Stages
  <2>2. changed' \in {FALSE, changed} /\ current' \in {0, current}
    BY DEF Wired, Evaluate, NextRoot, InferAgain, Inferred, Finalized, Built, inferred
  <2>3. changed' \in BOOLEAN /\ current' \in Nat
    <3>1. changed \in BOOLEAN /\ current \in Nat
      BY <1>1 DEF RestOK
    <3>2. (changed' = FALSE \/ changed' = changed) /\ (current' = 0 \/ current' = current)
      BY <2>2, Zenon
    <3>3. 0 \in Nat
      OBVIOUS
    <3> QED BY <3>1, <3>2, <3>3, Zenon
  <2>4. built' \in Seq(Calls') /\ ran' \in Seq(Calls') /\ raises' \in Nat
    BY <1>1, <1>2 DEF RestOK
  <2> QED BY <2>1, <2>3, <2>4, Zenon DEF RestOK
<1>6. StagesOK'
  BY <1>1, <1>2 DEF Wired, Evaluate, NextRoot, InferAgain, Inferred, Finalized, Built,
                    StagesOK, WalkEnds, plan
<1>7. LinksOK'
  BY DEF Wired, Evaluate, NextRoot, InferAgain, Inferred, Finalized, Built, LinksOK
<1> QED BY <1>3, <1>4, <1>5, <1>6, <1>7, TypeInvFrom

\* The walk goes to a child.
LEMMA DescendTypes == ASSUME TypeInv, Descend PROVE TypeInv'
<1>1. TypeOK /\ WalkOK /\ RestOK /\ StagesOK
  BY TypeParts DEF TypeInv
<1>2. Head(stack) \in Calls
  BY <1>1, HeadAndTail DEF Descend, WalkOK
<1>3. PICK i \in DOMAIN calls[Head(stack)].children :
        stack' = <<calls[Head(stack)].children[i]>> \o stack
  BY DEF Descend
<1>4. PICK j \in Calls : j = calls[Head(stack)].children[i]
  <2>1. calls[Head(stack)].children \in Seq(Calls)
    BY <1>1, <1>2, PlanFacts
  <2> QED BY <1>3, <2>1
<1>5. stack' \in Seq(Calls) /\ stack' # <<>>
  <2>1. stack \in Seq(Calls) /\ <<j>> \in Seq(Calls)
    BY <1>1 DEF WalkOK
  <2>2. Len(<<j>> \o stack) = 1 + Len(stack) /\ <<j>> \o stack \in Seq(Calls) /\ Len(stack) \in Nat
    BY <2>1
  <2> QED BY <2>2, <1>3, <1>4
<1>6. UNCHANGED <<calls, roots, types, generic, pipeline, pc, todo, queue, visited,
                  changed, current, built, ran, raises>> /\ Calls' = Calls
  BY DEF Descend, plan, inferred, Calls
<1>7. PlanOK'
  BY <1>1, <1>6, PlanStays
<1> QED BY <1>1, <1>5, <1>6, <1>7, TypeInvFrom DEF WalkOK, RestOK, StagesOK, LinksOK, Descend

\* The links of a call are positions of calls.
LEMMA LinksFacts ==
  ASSUME TypeOK, NEW k \in Calls, NEW l \in Links(k)
  PROVE  l[1] \in DOMAIN types[k] /\ l[2] \in Calls /\ l[3] \in DOMAIN types[l[2]]
<1>1. \A j \in Calls : CallOK(j) /\ Result(j) \in DOMAIN types[j] /\ Children(j) \subseteq Calls
  <2> TAKE j \in Calls
  <2>1. CallOK(j) /\ calls[j] \in Annotated /\ types[j] \in Seq(InferredTypes) /\ Children(j) \subseteq Calls
    BY TypeParts, PlanFacts DEF PlanOK
  <2>2. calls[j].function \in Functions
    BY <2>1 DEF Annotated
  <2>3. Len(Signature[calls[j].function]) \in Nat \ {0}
    BY <2>2, SignatureAssumption
  <2>4. Len(types[j]) \in Nat \ {0}
    BY <2>1, <2>3 DEF CallOK
  <2> QED BY <2>1, <2>4 DEF Result
<1>2. CASE l \in ArgLinks(k)
  <2>1. PICK i \in 1 .. Arity(k) :
          /\ calls[k].args[i] \in Children(k)
          /\ l = <<i, calls[k].args[i], Result(calls[k].args[i])>>
    BY <1>2 DEF ArgLinks
  <2>2. Arity(k) = Len(types[k]) - 1 /\ Len(types[k]) \in Nat /\ DOMAIN types[k] = 1 .. Len(types[k])
    BY <1>1, PlanFacts DEF CallOK, Arity
  <2>3. i \in DOMAIN types[k]
    BY <2>2
  <2>4. calls[k].args[i] \in Calls
    BY <1>1, <2>1
  <2> QED BY <2>1, <2>3, <2>4, <1>1
<1>3. CASE l \in InnerLinks(k)
  <2>1. l \in generic[k] \X {k} \X generic[k]
    BY <1>3 DEF InnerLinks
  <2> QED BY <2>1, <1>1 DEF CallOK
<1> QED BY <1>2, <1>3 DEF Links

LEMMA InferTypes == ASSUME TypeInv, NEW k \in Calls, Infer(k) PROVE TypeInv'
<1>1. TypeOK /\ WalkOK /\ RestOK /\ StagesOK
  BY TypeParts DEF TypeInv
<1>2. UNCHANGED <<calls, roots, types, generic, pipeline, stack, todo, queue, visited,
                  changed, current, built, ran, raises>> /\ Calls' = Calls
  BY DEF Infer, plan, walk, Calls
<1>3. PlanOK'
  BY <1>1, <1>2, PlanStays
<1>4. pc = "infer" /\ pc' = "sync" /\ k = Head(stack) /\ stack # <<>> /\ links' = Links(k)
  BY DEF Infer, CanVisit
<1>5. LinksOK'
  BY <1>1, <1>2, <1>4, LinksFacts DEF LinksOK, IsLink
<1> QED BY <1>1, <1>2, <1>3, <1>4, <1>5, TypeInvFrom DEF WalkOK, RestOK, StagesOK, Stages

\* One position of a call's types is replaced.
LEMMA PositionEdit ==
  ASSUME TypeOK, NEW k \in Calls, NEW i \in DOMAIN types[k], NEW t \in InferredTypes,
         types' = [types EXCEPT ![k][i] = t], UNCHANGED <<calls, generic, pipeline>>
  PROVE  PlanOK' /\ \A j \in Calls : DOMAIN types'[j] = DOMAIN types[j]
<1>1. types[k] \in Seq(InferredTypes) /\ DOMAIN types[k] = 1 .. Len(types[k])
  BY PlanFacts
<1>2. PICK s \in Seq(InferredTypes) : s = types[k]
  BY <1>1
<1>3. PICK u : u = [s EXCEPT ![i] = t]
  OBVIOUS
<1>4. u \in Seq(InferredTypes) /\ Len(u) = Len(s)
  BY <1>1, <1>2, <1>3, ExceptSeq
<1>5. types' = [types EXCEPT ![k] = u]
  BY <1>2, <1>3
<1> QED BY <1>2, <1>4, <1>5, TypesEdit

LEMMA SyncTypes == ASSUME TypeInv, NEW l \in links, Sync(l) PROVE TypeInv'
<1>1. TypeOK /\ WalkOK /\ RestOK /\ StagesOK /\ LinksOK
  BY TypeParts DEF TypeInv
<1>2. UNCHANGED <<calls, roots, generic, pipeline, current, pc, stack, todo, queue, visited,
                  built, ran, raises>> /\ Calls' = Calls
      /\ pc = "sync" /\ links' \subseteq links /\ changed' \in {TRUE, changed}
  BY DEF Sync, plan, walk, Calls
<1>3. PICK k \in Calls : k = Head(stack)
  BY <1>1, <1>2, HeadAndTail DEF WalkOK, StagesOK
<1>4. l[1] \in DOMAIN types[k] /\ l[2] \in Calls /\ l[3] \in DOMAIN types[l[2]]
  BY <1>1, <1>2, <1>3 DEF LinksOK, IsLink
<1>5. Mine(l) \in InferredTypes /\ Its(l) \in InferredTypes
  <2>1. types[k] \in Seq(InferredTypes) /\ types[l[2]] \in Seq(InferredTypes)
    BY <1>1, <1>4, PlanFacts
  <2> QED BY <2>1, <1>3, <1>4 DEF Mine, Its
<1>6. \/ types' = [types EXCEPT ![k][l[1]] = Its(l)]
      \/ types' = [types EXCEPT ![l[2]][l[3]] = Mine(l)]
      \/ types' = types
  BY <1>3 DEF Sync
<1>7. PlanOK' /\ \A j \in Calls : DOMAIN types'[j] = DOMAIN types[j]
  <2>1. CASE types' = types
    BY <2>1, <1>1, <1>2, PlanStays
  <2>2. CASE types' = [types EXCEPT ![k][l[1]] = Its(l)]
    BY <2>2, <1>1, <1>2, <1>4, <1>5, PositionEdit
  <2>3. CASE types' = [types EXCEPT ![l[2]][l[3]] = Mine(l)]
    BY <2>3, <1>1, <1>2, <1>4, <1>5, PositionEdit
  <2> QED BY <1>6, <2>1, <2>2, <2>3
<1>8. LinksOK'
  <2> SUFFICES ASSUME NEW m \in links' PROVE IsLink(m)'
    BY DEF LinksOK
  <2>1. IsLink(m)
    BY <1>1, <1>2 DEF LinksOK
  <2> QED BY <2>1, <1>2, <1>3, <1>7 DEF IsLink
<1> QED BY <1>1, <1>2, <1>7, <1>8, TypeInvFrom DEF WalkOK, RestOK, StagesOK

\* A call is visited: it joins the current pipeline or begins one.
LEMMA VisitTypes ==
  ASSUME TypeInv, Join \/ \E l \in links : Break(l)
  PROVE  TypeInv'
<1>1. TypeOK /\ WalkOK /\ RestOK /\ StagesOK
  BY TypeParts DEF TypeInv
<1>2. UNCHANGED <<calls, roots, types, generic, changed, todo, queue, built, ran, raises>>
      /\ Calls' = Calls /\ pc = "sync" /\ pc' = "infer"
      /\ stack' = Tail(stack) /\ visited' = visited \cup {Head(stack)}
      /\ current' \in {current, current + 1}
      /\ pipeline' = [pipeline EXCEPT ![Head(stack)] = current']
  BY DEF Join, Break, Visit, plan, Calls
<1>3. PICK k \in Calls : k = Head(stack)
  BY <1>1, <1>2, HeadAndTail DEF WalkOK, StagesOK
<1>4. Tail(stack) \in Seq(Calls)
  BY <1>1, <1>2, HeadAndTail DEF WalkOK, StagesOK
<1>5. current' \in Nat
  BY <1>1, <1>2 DEF RestOK
<1>6. PlanOK'
  BY <1>1, <1>2, <1>3, <1>5, PipelineEdit
<1> QED BY <1>1, <1>2, <1>3, <1>4, <1>5, <1>6, TypeInvFrom DEF WalkOK, RestOK, StagesOK, LinksOK, Stages

\* An exception ends the walk.
LEMMA RaiseTypes ==
  ASSUME TypeInv, Raise, PlanOK'
  PROVE  TypeInv'
<1>1. WalkOK /\ RestOK
  BY TypeParts DEF TypeInv
<1>2. /\ UNCHANGED <<calls, roots>> /\ Calls' = Calls
      /\ pc' = "open" /\ raises' = raises + 1
      /\ todo' = {} /\ queue' = <<>> /\ stack' = <<>> /\ visited' = {}
      /\ changed' = FALSE /\ current' = 0 /\ built' = <<>> /\ ran' = <<>>
  BY DEF Raise, plan, Calls
<1>3. WalkOK'
  BY <1>1, <1>2 DEF WalkOK
<1>4. RestOK'
  <2>1. raises' \in Nat /\ built' \in Seq(Calls') /\ ran' \in Seq(Calls') /\ current' \in Nat
    BY <1>1, <1>2 DEF RestOK
  <2>2. pc' \in Stages /\ changed' \in BOOLEAN
    BY <1>2 DEF Stages
  <2> QED BY <2>1, <2>2 DEF RestOK
<1>5. StagesOK' /\ LinksOK'
  BY <1>2 DEF StagesOK, LinksOK
<1> QED BY <1>3, <1>4, <1>5, TypeInvFrom

LEMMA FinalizeTypes == ASSUME TypeInv, Finalize PROVE TypeInv'
<1>1. TypeOK /\ PlanOK /\ WalkOK /\ RestOK /\ StagesOK
  BY TypeParts DEF TypeInv
<1>2. pc = "finalize" /\ ~ WalkEnds /\ stack = <<>>
  BY <1>1 DEF Finalize, StagesOK
<1>3. PICK j \in Calls : j = First
  BY <1>1, <1>2, FirstFacts DEF WalkOK
<1>4. Taken(j) \subseteq todo /\ Rest \in Seq(Calls)
  BY <1>1, <1>2, <1>3, FirstFacts DEF WalkOK
<1>5. Final(j) \subseteq generic[j]
  BY DEF Final
<1>6. ASSUME generic' = [generic EXCEPT ![j] = Final(j)], UNCHANGED <<calls, types, pipeline>>
      PROVE  PlanOK'
  <2>1. generic[j] \in SUBSET Nat /\ generic \in Seq(SUBSET Nat) /\ j \in 1 .. Len(generic)
    BY <1>1 DEF PlanOK, Calls
  <2>2. PICK g \in SUBSET Nat : g = Final(j)
    BY <1>5, <2>1
  <2>3. generic' \in Seq(SUBSET Nat) /\ Len(generic') = Len(generic)
    BY <2>1, <2>2, <1>6, ExceptSeq
  <2>4. ASSUME NEW k \in Calls' PROVE CallOK(k)'
    <3>1. k \in Calls /\ CallOK(k) /\ generic'[k] \subseteq generic[k]
      BY <1>1, <1>5, <1>6, <2>1 DEF PlanOK, Calls
    <3> QED BY <3>1, <1>6 DEF CallOK, Children
  <2>5. /\ calls' \in Seq(Annotated)
        /\ types' \in Seq(Seq(InferredTypes)) /\ Len(types') = Len(calls')
        /\ pipeline' \in Seq(Nat) /\ Len(pipeline') = Len(calls')
        /\ Len(generic) = Len(calls')
    BY <1>1, <1>6 DEF PlanOK
  <2> QED BY <2>3, <2>4, <2>5 DEF PlanOK
<1>7. CASE Raise /\ UNCHANGED types /\ generic' = [generic EXCEPT ![j] = Final(j)]
  BY <1>6, <1>7, RaiseTypes DEF Raise, plan
<1>8. CASE /\ todo' = Taken(j) /\ queue' = Rest \o calls[j].children
           /\ visited' = visited \cup {j} /\ generic' = [generic EXCEPT ![j] = Final(j)]
           /\ UNCHANGED <<plan, types, pipeline, changed, current, links,
                          pc, stack, built, ran, raises>>
  <2>1. UNCHANGED <<calls, roots, pc, stack, changed, current, links, built, ran, raises>>
        /\ Calls' = Calls
    BY <1>8 DEF plan, Calls
  <2>2. queue' \in Seq(Calls)
    BY <1>1, <1>4, <1>8, PlanFacts, ConcatRange
  <2>3. PlanOK'
    BY <1>6, <1>8 DEF plan
  <2>4. WalkOK'
    BY <1>1, <1>4, <1>8, <2>1, <2>2 DEF WalkOK
  <2>5. RestOK'
    BY <1>1, <2>1 DEF RestOK
  <2>6. StagesOK' /\ LinksOK'
    BY <1>1, <1>2, <2>1 DEF StagesOK, LinksOK
  <2> QED BY <2>3, <2>4, <2>5, <2>6, TypeInvFrom
<1>9. CASE /\ todo' = Taken(j) /\ queue' = Rest
           /\ UNCHANGED <<plan, inferred, pc, stack, visited, built, ran, raises>>
  <2>1. UNCHANGED <<calls, roots, types, generic, pipeline, pc, stack, visited,
                    changed, current, links, built, ran, raises>>
        /\ Calls' = Calls
    BY <1>9 DEF plan, inferred, Calls
  <2>2. PlanOK'
    BY <2>1, <1>1, PlanStays
  <2> QED BY <1>1, <1>2, <1>4, <1>9, <2>1, <2>2, TypeInvFrom
          DEF WalkOK, RestOK, StagesOK, LinksOK
<1> QED BY <1>3, <1>7, <1>8, <1>9 DEF Finalize

\* The types that got an attribute.
LEMMA MarkFacts ==
  ASSUME TypeOK, NEW k \in Calls, NEW i \in DOMAIN types[k], types[k][i] # None,
         NEW mark \in {"kept", "merged", "ranged"}
  PROVE  <<types[k][i][1], mark>> \in InferredTypes
<1>1. types[k][i] \in InferredTypes
  <2>1. types[k] \in Seq(InferredTypes) /\ DOMAIN types[k] = 1 .. Len(types[k])
    BY PlanFacts
  <2> QED BY <2>1
<1>2. types[k][i][1] \in Types
  BY <1>1 DEF InferredTypes
<1> QED BY <1>2 DEF InferredTypes

LEMMA MarkedFacts ==
  ASSUME TypeOK, NEW k \in Calls
  PROVE  /\ Marked(k) \in Seq(InferredTypes) /\ Len(Marked(k)) = Len(types[k])
         /\ DOMAIN Marked(k) = DOMAIN types[k]
<1>1. PICK n \in Nat : n = Len(types[k])
  BY PlanFacts
<1>2. DOMAIN types[k] = 1 .. n /\ types[k] \in Seq(InferredTypes)
  BY <1>1, PlanFacts
<1>3. Marked(k) \in [1 .. n -> InferredTypes]
  <2>1. \A i \in 1 .. n : types[k][i] \in InferredTypes
    BY <1>2
  <2>2. \A i \in 1 .. n : types[k][i] # None =>
          \A mark \in {"merged", "kept"} : <<types[k][i][1], mark>> \in InferredTypes
    BY <1>2, MarkFacts
  <2> QED BY <1>2, <2>1, <2>2 DEF Marked, Splits
<1> QED BY <1>1, <1>2, <1>3, FunctionIsSeq

LEMMA RangedFacts ==
  ASSUME TypeOK, NEW k \in Calls
  PROVE  /\ Ranged(k) \in Seq(InferredTypes) /\ Len(Ranged(k)) = Len(types[k])
         /\ DOMAIN Ranged(k) = DOMAIN types[k]
<1>1. PICK n \in Nat : n = Len(types[k])
  BY PlanFacts
<1>2. DOMAIN types[k] = 1 .. n /\ types[k] \in Seq(InferredTypes)
  BY <1>1, PlanFacts
<1>3. Ranged(k) \in [1 .. n -> InferredTypes]
  <2>1. \A i \in 1 .. n : types[k][i] \in InferredTypes
    BY <1>2
  <2>2. \A i \in 1 .. n : types[k][i] # None => <<types[k][i][1], "ranged">> \in InferredTypes
    BY <1>2, MarkFacts
  <2> QED BY <1>2, <2>1, <2>2 DEF Ranged, Splits
<1> QED BY <1>1, <1>2, <1>3, FunctionIsSeq

\* The types a program that was run without other processes leaves.
RangedIn(here, k) == IF pipeline[k] \in here THEN Ranged(k) ELSE types[k]

LEMMA RangedTypes ==
  ASSUME TypeOK, NEW here, types' = [k \in Calls |-> RangedIn(here, k)],
         UNCHANGED <<calls, generic, pipeline>>
  PROVE  PlanOK' /\ \A j \in Calls : DOMAIN types'[j] = DOMAIN types[j]
<1>1. PlanOK /\ DOMAIN types = Calls /\ Calls = 1 .. Len(calls) /\ Len(calls) \in Nat
  BY TypeParts, PlanFacts DEF Calls
<1>2. \A j \in Calls : /\ types'[j] \in Seq(InferredTypes) /\ Len(types'[j]) = Len(types[j])
                       /\ DOMAIN types'[j] = DOMAIN types[j]
  BY RangedFacts, PlanFacts DEF RangedIn
<1>3. types' \in Seq(Seq(InferredTypes)) /\ Len(types') = Len(types)
  <2>1. types' \in [1 .. Len(calls) -> Seq(InferredTypes)]
    BY <1>1, <1>2
  <2> QED BY <2>1, <1>1, FunctionIsSeq DEF PlanOK
<1>4. ASSUME NEW j \in Calls' PROVE CallOK(j)'
  <2>1. j \in Calls /\ CallOK(j)
    BY <1>1 DEF PlanOK, Calls
  <2>2. Children(j)' = Children(j)
    BY DEF Children
  <2> QED BY <2>1, <2>2, <1>2 DEF CallOK
<1> QED BY <1>1, <1>2, <1>3, <1>4 DEF PlanOK

LEMMA ConstructTypes ==
  ASSUME TypeInv, NEW k \in Calls, Construct(k)
  PROVE  TypeInv'
<1>1. TypeOK /\ WalkOK /\ RestOK /\ StagesOK
  BY TypeParts DEF TypeInv
<1>2. UNCHANGED <<calls, roots, generic, pipeline, changed, current, links, pc,
                  todo, queue, ran, raises>> /\ Calls' = Calls
      /\ pc = "build" /\ stack # <<>>
      /\ stack' = Tail(stack) /\ visited' = visited \cup {k}
  BY DEF Construct, CanVisit, Visit, plan, Calls
<1>3. Tail(stack) \in Seq(Calls)
  BY <1>1, <1>2, HeadAndTail DEF WalkOK
<1>4. CASE UNCHANGED <<types, built>>
  <2>1. PlanOK'
    BY <1>1, <1>2, <1>4, PlanStays
  <2> QED BY <1>1, <1>2, <1>3, <1>4, <2>1, TypeInvFrom DEF WalkOK, RestOK, StagesOK, LinksOK
<1>5. CASE types' = [types EXCEPT ![k] = Marked(k)] /\ built' = Append(built, k)
  <2>1. PlanOK'
    BY <1>1, <1>2, <1>5, MarkedFacts, TypesEdit
  <2>2. built' \in Seq(Calls)
    BY <1>1, <1>5, AppendFacts DEF RestOK
  <2> QED BY <1>1, <1>2, <1>3, <2>1, <2>2, TypeInvFrom DEF WalkOK, RestOK, StagesOK, LinksOK
<1> QED BY <1>4, <1>5 DEF Construct

LEMMA RaisingTypes ==
  ASSUME TypeInv, (\E k \in Calls : ConstructRaises(k)) \/ RunRaises
  PROVE  TypeInv'
<1>1. TypeOK
  BY TypeParts DEF TypeInv
<1>2. Raise /\ UNCHANGED <<calls, pipeline, generic>>
  BY DEF ConstructRaises, RunRaises, Raise, plan
<1>3. PlanOK'
  <2>1. CASE \E k \in Calls : ConstructRaises(k)
    <3>1. PICK k \in Calls : types' = [types EXCEPT ![k] = Marked(k)]
      BY <2>1 DEF ConstructRaises
    <3> QED BY <3>1, <1>1, <1>2, MarkedFacts, TypesEdit
  <2>2. CASE RunRaises
    <3>1. PICK here : types' = [k \in Calls |-> RangedIn(here, k)]
      BY <2>2 DEF RunRaises, RangedIn
    <3> QED BY <3>1, <1>1, <1>2, RangedTypes
  <2> QED BY <2>1, <2>2
<1> QED BY <1>2, <1>3, RaiseTypes

LEMMA RunTypes ==
  ASSUME TypeInv, NEW k \in Calls, RunCall(k)
  PROVE  TypeInv'
<1>1. TypeOK /\ WalkOK /\ RestOK /\ StagesOK
  BY TypeParts DEF TypeInv
<1>2. UNCHANGED <<calls, roots, types, generic, pipeline, changed, current, links, pc,
                  todo, queue, stack, visited, built, raises>> /\ Calls' = Calls
      /\ pc = "run" /\ ran' = Append(ran, k)
  BY DEF RunCall, plan, inferred, walk, Calls
<1>3. PlanOK'
  BY <1>1, <1>2, PlanStays
<1>4. ran' \in Seq(Calls)
  BY <1>1, <1>2, AppendFacts DEF RestOK
<1>5. WalkOK'
  BY <1>1, <1>2 DEF WalkOK
<1>6. RestOK'
  BY <1>1, <1>2, <1>4 DEF RestOK
<1>7. StagesOK' /\ LinksOK'
  BY <1>1, <1>2 DEF StagesOK, LinksOK
<1> QED BY <1>3, <1>5, <1>6, <1>7, TypeInvFrom

LEMMA ClearTypes == ASSUME TypeInv, Clear PROVE TypeInv'
<1>1. TypeOK /\ WalkOK /\ RestOK /\ StagesOK
  BY TypeParts DEF TypeInv
<1>2. /\ calls' = <<>> /\ roots' = {} /\ types' = <<>> /\ generic' = <<>> /\ pipeline' = <<>>
      /\ pc = "run" /\ pc' = "open" /\ changed' = FALSE /\ current' = 0
      /\ built' = <<>> /\ ran' = <<>>
      /\ UNCHANGED <<todo, queue, stack, visited, links, raises>>
  BY DEF Clear, walk
<1>3. Calls' = {}
  BY <1>2 DEF Calls
<1>4. PlanOK'
  BY <1>2, <1>3 DEF PlanOK
<1>5. todo' = {} /\ visited' = {} /\ queue' = <<>> /\ stack' = <<>>
  BY <1>1, <1>2 DEF StagesOK
<1>6. WalkOK'
  BY <1>2, <1>5 DEF WalkOK
<1>7. RestOK'
  <2>1. raises' \in Nat /\ built' \in Seq(Calls') /\ ran' \in Seq(Calls') /\ current' \in Nat
    BY <1>1, <1>2 DEF RestOK
  <2>2. pc' \in Stages /\ changed' \in BOOLEAN
    BY <1>2 DEF Stages
  <2> QED BY <2>1, <2>2 DEF RestOK
<1>8. StagesOK' /\ LinksOK'
  BY <1>2, <1>5 DEF StagesOK, LinksOK
<1> QED BY <1>4, <1>6, <1>7, <1>8, TypeInvFrom

LEMMA InitTypes == Init => TypeInv
<1> SUFFICES ASSUME Init PROVE TypeInv
  OBVIOUS
<1>1. Calls = {}
  BY DEF Init, Calls
<1>2. PlanOK
  BY <1>1 DEF Init, PlanOK
<1>3. WalkOK
  BY DEF Init, WalkOK
<1>4. RestOK
  <2>1. raises \in Nat /\ built \in Seq(Calls) /\ ran \in Seq(Calls) /\ current \in Nat
    BY DEF Init
  <2>2. pc \in Stages /\ changed \in BOOLEAN
    BY DEF Init, Stages
  <2> QED BY <2>1, <2>2 DEF RestOK
<1>5. StagesOK /\ LinksOK
  BY DEF Init, StagesOK, LinksOK
<1> QED BY <1>2, <1>3, <1>4, <1>5, TypeParts DEF TypeInv

\* Every step keeps the types, one lemma per kind of step.
LEMMA TypeStep == ASSUME TypeInv, [Next]_vars PROVE TypeInv'
<1>1. CASE UNCHANGED vars
  <2>1. UNCHANGED <<calls, types, generic, pipeline>> /\ Calls' = Calls
    BY <1>1 DEF vars, plan, inferred, Calls
  <2>2. PlanOK' /\ WalkOK /\ RestOK /\ StagesOK /\ LinksOK
    BY <2>1, PlanStays, TypeParts DEF TypeInv
  <2>3. UNCHANGED <<roots, pc, todo, queue, stack, visited, changed, current, links, built, ran, raises>>
    BY <1>1 DEF vars, plan, inferred, walk
  <2>4. WalkOK' /\ StagesOK'
    BY <2>1, <2>2, <2>3 DEF WalkOK, StagesOK
  <2>5. RestOK'
    BY <2>1, <2>2, <2>3 DEF RestOK
  <2>6. LinksOK'
    BY <2>1, <2>2, <2>3 DEF LinksOK, IsLink
  <2> QED BY <2>2, <2>4, <2>5, <2>6, TypeInvFrom
<1>2. CASE \E f \in Functions : \E args \in Arguments(f) : Register(f, args)
  BY <1>2, RegisterTypes
<1>3. CASE Evaluate
  BY <1>3, StageTypes
<1>4. CASE Step
  <2>1. CASE Wire
    BY <2>1, WireTypes
  <2>2. CASE Wired \/ NextRoot \/ InferAgain \/ Inferred \/ Finalized \/ Built
    BY <2>2, StageTypes
  <2>3. CASE Descend
    BY <2>3, DescendTypes
  <2>4. CASE \E k \in Calls : Infer(k)
    BY <2>4, InferTypes
  <2>5. CASE \E l \in links : Sync(l)
    BY <2>5, SyncTypes
  <2>6. CASE Join \/ \E l \in links : Break(l)
    BY <2>6, VisitTypes
  <2>7. CASE Finalize
    BY <2>7, FinalizeTypes
  <2>8. CASE \E k \in Calls : Construct(k)
    BY <2>8, ConstructTypes
  <2>9. CASE (\E k \in Calls : ConstructRaises(k)) \/ RunRaises
    BY <2>9, RaisingTypes
  <2>10. CASE \E k \in Calls : RunCall(k)
    BY <2>10, RunTypes
  <2>11. CASE Clear
    BY <2>11, ClearTypes
  <2> QED BY <1>4, <2>1, <2>2, <2>3, <2>4, <2>5, <2>6, <2>7, <2>8, <2>9, <2>10, <2>11, Zenon DEF Step
<1> QED BY <1>1, <1>2, <1>3, <1>4 DEF Next

LEMMA TypesHold == Spec => []TypeInv
<1>1. Init => TypeInv
  BY InitTypes
<1>2. TypeInv /\ [Next]_vars => TypeInv'
  BY TypeStep
<1> QED BY <1>1, <1>2, PTL DEF Spec

\* The variables have their types (dag.py, LogicalPlan and evaluate_dag): what a
\* walk has yet to take, its queue and the interpreter's stack hold calls of the
\* plan, and a call takes earlier ones only.
THEOREM TypeCorrect == Spec => []TypeOK
<1>1. TypeInv => TypeOK
  BY DEF TypeInv
<1> QED BY <1>1, TypesHold, PTL

-----------------------------------------------------------------------------
(***************************************************************************)
(* Wiring.                                                                 *)
(***************************************************************************)

\* The calls that are wired: all but the one that is being wired.
Old == IF pc = "wire" THEN 1 .. Len(calls) - 1 ELSE Calls

\* Every call is below a root.
RootsAbove == \A C \in SUBSET Old : roots \subseteq C /\ Closed(C) => Old \subseteq C

\* Every call is above what it depends on.
AboveDependencies ==
  \A k \in Old : \A j \in 1 .. k - 1 : DependencyOf(j, k) =>
    \A C \in SUBSET Old : k \in C /\ Closed(C) => j \in C

\* The walk has been at the roots, or will be; a dependency it was at has become
\* a child, and below another it has been, or will be.
WalkWires ==
  pc = "wire" =>
    /\ roots \subseteq visited \cup todo \cup Range(queue)
    /\ \A v \in visited :
         IF DependencyOf(v, Len(calls)) THEN v \in Children(Len(calls))
         ELSE Children(v) \subseteq visited \cup todo \cup Range(queue)

WireInv == RootsAbove /\ AboveDependencies /\ WalkWires

\* What is wired stays so while nothing but the last call changes.
LEMMA OldStays ==
  ASSUME RootsAbove, AboveDependencies, Old' = Old, UNCHANGED roots,
         Old \subseteq Nat, \A k \in Old : 1 .. k - 1 \subseteq Old,
         \A k \in Old : Children(k)' = Children(k),
         \A k \in Old : calls'[k].args = calls[k].args /\ calls'[k].function = calls[k].function
  PROVE  RootsAbove' /\ AboveDependencies'
<1>1. \A C \in SUBSET Old : Closed(C)' <=> Closed(C)
  BY DEF Closed
<1>2. \A k \in Old : \A j \in 1 .. k - 1 : DependencyOf(j, k)' <=> DependencyOf(j, k)
  BY DEF DependencyOf
<1>3. RootsAbove'
  BY <1>1 DEF RootsAbove
<1>4. AboveDependencies'
  BY <1>1, <1>2 DEF AboveDependencies
<1> QED BY <1>3, <1>4

LEMMA RegisterWires ==
  ASSUME TypeInv, TypeInv', WireInv, NEW f \in Functions, NEW args \in Arguments(f), Register(f, args)
  PROVE  WireInv'
<1>1. /\ pc = "open" /\ pc' = "wire" /\ UNCHANGED roots /\ todo' = roots /\ visited' = {}
      /\ calls' = Append(calls, [function |-> f, args |-> args, children |-> <<>>])
  BY DEF Register
<1>2. Len(calls) \in Nat /\ calls \in Seq(Annotated)
  BY PlanFacts DEF TypeInv, TypeOK
<1>3. Len(calls') = Len(calls) + 1 /\ \A k \in Calls : calls'[k] = calls[k]
  BY <1>1, <1>2 DEF Calls
<1>4. Old' = Old /\ Old = Calls
  BY <1>1, <1>2, <1>3 DEF Old, Calls
<1>5. \A k \in Old : Children(k)' = Children(k) /\ calls'[k] = calls[k]
  BY <1>3, <1>4 DEF Children
<1>6. Old \subseteq Nat /\ \A k \in Old : 1 .. k - 1 \subseteq Old
  BY <1>2, <1>4 DEF Calls
<1>7. RootsAbove' /\ AboveDependencies'
  BY <1>1, <1>4, <1>5, <1>6, OldStays DEF WireInv
<1>8. WalkWires'
  BY <1>1 DEF WalkWires
<1> QED BY <1>7, <1>8 DEF WireInv

LEMMA WireWires ==
  ASSUME TypeInv, WireInv, Wire
  PROVE  WireInv'
<1>1. PICK n : n = Len(calls)
  OBVIOUS
<1>2. /\ pc = "wire" /\ n \in Calls /\ n \in Nat /\ Calls' = Calls /\ Len(calls') = n
      /\ UNCHANGED <<roots, inferred, pc, stack, built, ran, raises>>
      /\ First \in 1 .. n - 1
      /\ visited' = visited \cup {First}
      /\ \A i \in Calls : i # n => calls'[i] = calls[i]
      /\ \A i \in Calls : calls'[i].args = calls[i].args /\ calls'[i].function = calls[i].function
      /\ Children(n) \subseteq Children(n)'
      /\ todo \cup Range(queue) \subseteq {First} \cup todo' \cup Range(queue')
      /\ \/ First \in visited /\ calls' = calls
         \/ DependencyOf(First, n) /\ First \in Children(n)'
         \/ ~ DependencyOf(First, n) /\ Children(First) \subseteq Range(queue') /\ calls' = calls
  BY <1>1, WireFacts
<1>3. Old' = 1 .. n - 1 /\ Old = 1 .. n - 1 /\ Old \subseteq Calls /\ n \notin Old
  BY <1>1, <1>2 DEF Old, Calls
<1>4. \A k \in Old : Children(k)' = Children(k) /\ calls'[k] = calls[k]
  BY <1>2, <1>3 DEF Children
<1>5. Old \subseteq Nat /\ \A k \in Old : 1 .. k - 1 \subseteq Old
  BY <1>2, <1>3
<1>6. RootsAbove' /\ AboveDependencies'
  BY <1>2, <1>3, <1>4, <1>5, OldStays DEF WireInv
<1>7. /\ roots \subseteq visited \cup todo \cup Range(queue) /\ visited \subseteq 1 .. n - 1
      /\ \A v \in visited :
           IF DependencyOf(v, n) THEN v \in Children(n)
           ELSE Children(v) \subseteq visited \cup todo \cup Range(queue)
  BY <1>1, <1>2 DEF WireInv, WalkWires, TypeInv, StagesOK
<1>8. \A v \in 1 .. n - 1 : DependencyOf(v, n)' <=> DependencyOf(v, n)
  <2> TAKE v \in 1 .. n - 1
  <2>1. v \in Calls /\ n \in Calls
    BY <1>2, <1>3
  <2> QED BY <2>1, <1>2 DEF DependencyOf
<1>9. roots' \subseteq visited' \cup todo' \cup Range(queue')
  BY <1>2, <1>7
<1>10. ASSUME NEW v \in visited'
       PROVE  IF DependencyOf(v, n)' THEN v \in Children(n)'
              ELSE Children(v)' \subseteq visited' \cup todo' \cup Range(queue')
  <2>1. v \in 1 .. n - 1 /\ Children(v)' = Children(v)
    BY <1>2, <1>3, <1>4, <1>7
  <2>2. CASE v \in visited
    BY <2>1, <2>2, <1>2, <1>7, <1>8
  <2>3. CASE v \notin visited
    <3>1. v = First
      BY <2>3, <1>2
    <3> QED BY <2>1, <2>3, <3>1, <1>2, <1>8
  <2> QED BY <2>2, <2>3
<1>11. WalkWires'
  BY <1>2, <1>9, <1>10 DEF WalkWires
<1> QED BY <1>6, <1>11 DEF WireInv

\* The walk is over: below what the new call was not given for a child is nothing
\* that it depends on, and a closed set that has the call has them all.
LEMMA WiredWires ==
  ASSUME TypeInv, WireInv, Wired
  PROVE  WireInv'
<1>1. PICK n : n = Len(calls)
  OBVIOUS
<1>2. /\ pc = "wire" /\ todo = {} /\ queue = <<>> /\ pc' = "open"
      /\ roots' = {r \in roots : ~ DependencyOf(r, n)} \cup {n}
      /\ UNCHANGED calls /\ Calls' = Calls
  BY <1>1 DEF Wired, WalkEnds, Calls
<1>3. n \in Nat /\ n \in Calls /\ Calls = 1 .. n /\ Old = 1 .. n - 1 /\ Old' = 1 .. n
  <2>1. Len(calls) \in Nat /\ calls # <<>> /\ calls \in Seq(Annotated)
    BY <1>2, PlanFacts DEF TypeInv, TypeOK, StagesOK
  <2>2. Len(calls) > 0
    BY <2>1
  <2> QED BY <2>1, <2>2, <1>1, <1>2 DEF Calls, Old
<1>4. \A k \in Calls : Children(k) \subseteq 1 .. k - 1
  BY DEF TypeInv, TypeOK
<1>5. /\ roots \subseteq visited /\ visited \subseteq 1 .. n - 1
      /\ \A v \in visited :
           IF DependencyOf(v, n) THEN v \in Children(n) ELSE Children(v) \subseteq visited
  <2>1. Range(queue) = {}
    BY <1>2 DEF Range
  <2> QED BY <2>1, <1>1, <1>2 DEF WireInv, WalkWires, TypeInv, StagesOK
<1>6. /\ \A C : Closed(C)' <=> Closed(C)
      /\ \A j, k : DependencyOf(j, k)' <=> DependencyOf(j, k)
  BY <1>2 DEF Closed, Children, DependencyOf
<1>7. ASSUME NEW C \in SUBSET Calls, Closed(C)
      PROVE  Closed(C \ {n}) /\ C \ {n} \in SUBSET Old
  <2>1. C \ {n} \in SUBSET Old
    BY <1>3
  <2>2. ASSUME NEW k \in C \ {n} PROVE Children(k) \subseteq C \ {n}
    <3>1. Children(k) \subseteq C /\ Children(k) \subseteq 1 .. k - 1 /\ k \in 1 .. n - 1
      BY <1>3, <1>4, <1>7, <2>1 DEF Closed
    <3> QED BY <3>1, <1>3
  <2> QED BY <2>1, <2>2 DEF Closed
<1>8. RootsAbove'
  <2> SUFFICES ASSUME NEW C \in SUBSET Calls, roots' \subseteq C, Closed(C)
               PROVE  Calls \subseteq C
    BY <1>3, <1>6 DEF RootsAbove
  <2>1. n \in C /\ Children(n) \subseteq C
    BY <1>2, <1>3 DEF Closed
  <2>2. roots \subseteq C \ {n}
    <3> SUFFICES ASSUME NEW r \in roots PROVE r \in C \ {n}
      OBVIOUS
    <3>1. r \in visited /\ r # n
      BY <1>3, <1>5
    <3> QED BY <3>1, <2>1, <1>2, <1>5
  <2>3. Old \subseteq C \ {n}
    BY <2>2, <1>7 DEF WireInv, RootsAbove
  <2> QED BY <2>1, <2>3, <1>3
<1>9. AboveDependencies'
  <2> SUFFICES ASSUME NEW k \in Calls, NEW j \in 1 .. k - 1, DependencyOf(j, k),
                      NEW C \in SUBSET Calls, k \in C, Closed(C)
               PROVE  j \in C
    BY <1>3, <1>6 DEF AboveDependencies
  <2>1. CASE k # n
    <3>1. k \in Old /\ k \in C \ {n}
      BY <2>1, <1>3
    <3>2. j \in C \ {n}
      BY <3>1, <1>7 DEF WireInv, AboveDependencies
    <3> QED BY <3>2
  <2>2. CASE k = n
    <3> DEFINE W == {v \in visited : ~ DependencyOf(v, n)}
               D == (C \ {n}) \cup W
    <3>1. Children(n) \subseteq C \ {n}
      <4>1. Children(n) \subseteq C /\ Children(n) \subseteq 1 .. n - 1
        BY <2>2, <1>3, <1>4 DEF Closed
      <4> QED BY <4>1, <1>3
    <3>2. \A v \in visited : v \in D
      BY <3>1, <1>5
    <3>3. Closed(D)
      <4>1. ASSUME NEW v \in C \ {n} PROVE Children(v) \subseteq D
        BY <4>1, <1>7 DEF Closed
      <4>2. ASSUME NEW v \in W PROVE Children(v) \subseteq D
        <5>1. Children(v) \subseteq visited
          BY <1>5
        <5> HIDE DEF D
        <5> QED BY <5>1, <3>2
      <4> QED BY <4>1, <4>2 DEF Closed
    <3>4. D \in SUBSET Old /\ roots \subseteq D
      <4>1. roots \subseteq D
        <5> HIDE DEF D
        <5> QED BY <3>2, <1>5
      <4>2. D \in SUBSET Old
        BY <1>3, <1>5, <1>7
      <4> QED BY <4>1, <4>2
    <3>5. Old \subseteq D
      <4> HIDE DEF D
      <4> QED BY <3>3, <3>4 DEF WireInv, RootsAbove
    <3>6. j \in Old /\ j \notin W
      BY <2>2, <1>3
    <3> QED BY <3>5, <3>6
  <2> QED BY <2>1, <2>2
<1>10. WalkWires'
  BY <1>2 DEF WalkWires
<1> QED BY <1>8, <1>9, <1>10 DEF WireInv

\* The steps of an evaluation.
LEMMA OthersWire ==
  ASSUME TypeInv, WireInv, UNCHANGED <<calls, roots>>, pc # "wire", pc' # "wire"
  PROVE  WireInv'
<1>1. Old' = Old /\ \A k : Children(k)' = Children(k)
  BY DEF Old, Calls, Children
<1>2. Old \subseteq Nat /\ \A k \in Old : 1 .. k - 1 \subseteq Old
  <2>1. Len(calls) \in Nat
    BY PlanFacts DEF TypeInv
  <2> QED BY <2>1 DEF Old, Calls
<1>3. RootsAbove' /\ AboveDependencies'
  BY <1>1, <1>2, OldStays DEF WireInv
<1> QED BY <1>3 DEF WireInv, WalkWires

LEMMA WireStep ==
  ASSUME TypeInv, WireInv, [Next]_vars, TypeInv'
  PROVE  WireInv'
<1>1. CASE \E f \in Functions : \E args \in Arguments(f) : Register(f, args)
  BY <1>1, RegisterWires
<1>2. CASE Wire
  BY <1>2, WireWires
<1>3. CASE Wired
  BY <1>3, WiredWires
<1>4. CASE Clear
  <2>1. calls' = <<>> /\ pc' = "open"
    BY <1>4 DEF Clear
  <2>2. Old' = {}
    BY <2>1 DEF Old, Calls
  <2> QED BY <2>1, <2>2 DEF WireInv, RootsAbove, AboveDependencies, WalkWires
<1>5. CASE UNCHANGED vars
  <2>1. UNCHANGED <<calls, roots, pc, todo, visited, queue>>
    BY <1>5 DEF vars, plan, walk
  <2>2. WalkWires'
    BY <2>1 DEF WireInv, WalkWires, DependencyOf, Children
  <2>3. Old' = Old /\ \A C : Closed(C)' <=> Closed(C)
    BY <2>1 DEF Old, Calls, Closed, Children
  <2>4. RootsAbove'
    BY <2>1, <2>3 DEF WireInv, RootsAbove
  <2>5. \A j, k : DependencyOf(j, k)' <=> DependencyOf(j, k)
    BY <2>1 DEF DependencyOf
  <2>6. AboveDependencies'
    BY <2>3, <2>5 DEF WireInv, AboveDependencies
  <2> QED BY <2>2, <2>4, <2>6 DEF WireInv
<1>6. ASSUME Evaluate \/ Step, ~ Wire, ~ Wired, ~ Clear
      PROVE  UNCHANGED <<calls, roots>> /\ pc # "wire" /\ pc' # "wire"
  <2>1. CASE Evaluate \/ NextRoot \/ Descend \/ Join \/ InferAgain \/ Inferred \/ Finalized \/ Built
    BY <2>1 DEF Evaluate, NextRoot, Descend, Join, InferAgain, Inferred, Finalized, Built, plan
  <2>2. CASE \E l \in links : Sync(l) \/ Break(l)
    BY <2>2 DEF Sync, Break, plan
  <2>3. CASE \E k \in Calls : Infer(k) \/ Construct(k) \/ ConstructRaises(k) \/ RunCall(k)
    BY <2>3 DEF Infer, Construct, ConstructRaises, RunCall, Raise, plan
  <2>4. CASE Finalize \/ RunRaises
    BY <2>4 DEF Finalize, RunRaises, Raise, plan
  <2> QED BY <1>6, <2>1, <2>2, <2>3, <2>4 DEF Step
<1> QED BY <1>1, <1>2, <1>3, <1>4, <1>5, <1>6, OthersWire DEF Next

LEMMA WiringHolds == Spec => []WireInv
<1>1. Init => WireInv
  <2> SUFFICES ASSUME Init PROVE WireInv
    OBVIOUS
  <2>1. Old = {} /\ pc = "open"
    BY DEF Init, Old, Calls
  <2> QED BY <2>1 DEF WireInv, RootsAbove, AboveDependencies, WalkWires
<1>2. TypeInv /\ WireInv /\ [Next]_vars /\ TypeInv' => WireInv'
  BY WireStep
<1> QED BY <1>1, <1>2, TypesHold, PTL DEF Spec

\* register looks for the highest dependencies only (dag.py:202-225); still every
\* call is below a root, and above all that it depends on.
THEOREM EveryDependencyIsBelow == Spec => []DependenciesBelow
<1>1. WireInv /\ TypeInv => DependenciesBelow
  <2> SUFFICES ASSUME WireInv, TypeInv, pc # "wire" PROVE
        /\ Below(roots) = Calls
        /\ \A k \in Calls : \A j \in 1 .. k - 1 : DependencyOf(j, k) => j \in Below({k})
    BY DEF DependenciesBelow
  <2>1. Old = Calls /\ Len(calls) \in Nat
    BY PlanFacts DEF Old, TypeInv
  <2>2. Below(roots) = Calls
    BY <2>1 DEF Below, WireInv, RootsAbove
  <2>3. \A k \in Calls : 1 .. k - 1 \subseteq Calls
    BY <2>1 DEF Calls
  <2>4. ASSUME NEW k \in Calls, NEW j \in 1 .. k - 1, DependencyOf(j, k) PROVE j \in Below({k})
    BY <2>1, <2>3, <2>4 DEF Below, WireInv, AboveDependencies
  <2> QED BY <2>2, <2>4
<1> QED BY <1>1, WiringHolds, TypesHold, PTL

-----------------------------------------------------------------------------
(***************************************************************************)
(* Building and running.                                                   *)
(***************************************************************************)

\* The calls below a call that is built are built before it.
ChildrenFirst ==
  \A i \in DOMAIN built : \A j \in Children(built[i]) : \E h \in 1 .. i - 1 : built[h] = j

\* The walk of a root has built what it visited, and goes on to the others.
WalkBuilds ==
  pc = "build" => /\ visited \subseteq Range(built)
                  /\ roots \subseteq todo \cup Range(stack) \cup Range(built)

BuildInv ==
  /\ ChildrenFirst /\ IsInjective(built) /\ WalkBuilds
  /\ pc = "run" => Range(built) = Calls

\* One more call is built, or run.
LEMMA AppendInjective ==
  ASSUME NEW S, NEW s \in Seq(S), NEW e \in S, \A i \in DOMAIN s : s[i] # e,
         \A i, h \in DOMAIN s : s[i] = s[h] => i = h
  PROVE  \A i, h \in DOMAIN Append(s, e) : Append(s, e)[i] = Append(s, e)[h] => i = h
<1>1. /\ Len(s) \in Nat
      /\ DOMAIN Append(s, e) = 1 .. Len(s) + 1 /\ DOMAIN s = 1 .. Len(s)
      /\ Append(s, e)[Len(s) + 1] = e
      /\ \A i \in 1 .. Len(s) : Append(s, e)[i] = s[i]
  BY AppendFacts
<1>2. \A i, h \in 1 .. Len(s) : s[i] = s[h] => i = h
  BY <1>1
<1>3. \A i \in 1 .. Len(s) : s[i] # e
  BY <1>1
<1> SUFFICES ASSUME NEW i \in 1 .. Len(s) + 1, NEW h \in 1 .. Len(s) + 1,
                    Append(s, e)[i] = Append(s, e)[h]
             PROVE  i = h
  BY <1>1
<1>4. CASE i \in 1 .. Len(s) /\ h \in 1 .. Len(s)
  BY <1>1, <1>2, <1>4
<1>5. CASE i = Len(s) + 1
  BY <1>1, <1>3, <1>5
<1>6. CASE h = Len(s) + 1
  BY <1>1, <1>3, <1>6
<1> QED BY <1>1, <1>4, <1>5, <1>6

LEMMA ConstructBuilds ==
  ASSUME TypeInv, BuildInv, NEW k \in Calls, Construct(k)
  PROVE  BuildInv'
<1>1. /\ pc = "build" /\ pc' = "build" /\ UNCHANGED <<calls, roots, todo>>
      /\ stack # <<>> /\ k = Head(stack) /\ Children(k) \subseteq visited
      /\ stack' = Tail(stack) /\ visited' = visited \cup {k}
      /\ built \in Seq(Calls) /\ stack \in Seq(Calls) /\ Calls' = Calls
  BY DEF Construct, CanVisit, Visit, plan, TypeInv, TypeOK, Calls
<1>2. Range(stack) = {k} \cup Range(stack')
  BY <1>1, HeadAndTail
<1>3. \A j : Children(j)' = Children(j)
  BY <1>1 DEF Children
<1>4. CASE k \in Range(built) /\ UNCHANGED built
  BY <1>1, <1>2, <1>3, <1>4 DEF BuildInv, ChildrenFirst, WalkBuilds
<1>5. CASE k \notin Range(built) /\ built' = Append(built, k)
  <2>1. /\ Len(built) \in Nat
        /\ DOMAIN built' = 1 .. Len(built) + 1 /\ DOMAIN built = 1 .. Len(built)
        /\ built'[Len(built) + 1] = k
        /\ \A i \in 1 .. Len(built) : built'[i] = built[i]
    BY <1>1, <1>5, AppendFacts
  <2>2. Range(built') = Range(built) \cup {k}
    BY <1>1, <1>5, AppendRange
  <2>3. IsInjective(built')
    <3>1. \A i \in DOMAIN built : built[i] # k
      BY <1>5 DEF Range
    <3>2. \A i, h \in DOMAIN built : built[i] = built[h] => i = h
      BY DEF BuildInv, IsInjective
    <3> QED BY <3>1, <3>2, <1>1, <1>5, AppendInjective DEF IsInjective
  <2>4. WalkBuilds'
    BY <1>1, <1>2, <2>2 DEF BuildInv, WalkBuilds
  <2>5. ChildrenFirst'
    <3> SUFFICES ASSUME NEW i \in 1 .. Len(built) + 1, NEW j \in Children(built'[i])
                 PROVE  \E h \in 1 .. i - 1 : built'[h] = j
      BY <1>3, <2>1 DEF ChildrenFirst
    <3>1. CASE i \in 1 .. Len(built)
      <4>1. PICK h \in 1 .. i - 1 : built[h] = j
        BY <2>1, <3>1 DEF BuildInv, ChildrenFirst
      <4>2. h \in 1 .. Len(built)
        BY <2>1, <3>1
      <4> QED BY <2>1, <4>1, <4>2
    <3>2. CASE i = Len(built) + 1
      <4>1. j \in Range(built)
        BY <1>1, <2>1, <3>2 DEF BuildInv, WalkBuilds
      <4>2. PICK h \in 1 .. Len(built) : built[h] = j
        BY <2>1, <4>1 DEF Range
      <4> QED BY <2>1, <3>2, <4>2
    <3> QED BY <2>1, <3>1, <3>2
  <2> QED BY <1>1, <2>3, <2>4, <2>5 DEF BuildInv
<1> QED BY <1>4, <1>5 DEF Construct

\* The walks are over: what is built has the roots and is closed, so it is all.
LEMMA BuiltBuilds ==
  ASSUME TypeInv, WireInv, BuildInv, Built
  PROVE  BuildInv'
<1>1. /\ pc = "build" /\ pc' = "run" /\ todo = {} /\ stack = <<>>
      /\ UNCHANGED <<calls, built>> /\ built \in Seq(Calls) /\ Calls' = Calls
  BY DEF Built, WalkEnds, plan, TypeInv, TypeOK, Calls
<1>2. Range(built) \subseteq Calls
  BY <1>1 DEF Range
<1>3. roots \subseteq Range(built)
  <2>1. Range(stack) = {}
    BY <1>1 DEF Range
  <2> QED BY <1>1, <2>1 DEF BuildInv, WalkBuilds
<1>4. Closed(Range(built))
  <2> SUFFICES ASSUME NEW i \in DOMAIN built, NEW j \in Children(built[i]) PROVE j \in Range(built)
    BY DEF Closed, Range
  <2>1. PICK h \in 1 .. i - 1 : built[h] = j
    BY DEF BuildInv, ChildrenFirst
  <2>2. h \in DOMAIN built
    BY <1>1
  <2> QED BY <2>1, <2>2 DEF Range
<1>5. Range(built) = Calls
  <2>1. Old = Calls
    BY <1>1 DEF Old
  <2> QED BY <2>1, <1>2, <1>3, <1>4 DEF WireInv, RootsAbove
<1> QED BY <1>1, <1>5 DEF BuildInv, ChildrenFirst, WalkBuilds, Children

\* The other steps of the walk.
LEMMA WalkStepBuilds ==
  ASSUME TypeInv, BuildInv, NextRoot \/ Descend
  PROVE  BuildInv'
<1>1. UNCHANGED <<calls, roots, pc, built>> /\ Calls' = Calls
      /\ pc \in {"infer", "build"} /\ stack \in Seq(Calls)
  BY DEF NextRoot, Descend, plan, Calls, TypeInv, TypeOK
<1>2. CASE NextRoot
  <2>1. PICK m : m = Min(todo)
    OBVIOUS
  <2>2. stack = <<>> /\ stack' = <<m>> /\ todo' = todo \ {m} /\ visited' = {}
    BY <1>2, <2>1 DEF NextRoot
  <2>3. Range(stack) = {} /\ Range(stack') = {m}
    BY <2>2 DEF Range
  <2>4. WalkBuilds'
    BY <1>1, <2>2, <2>3 DEF BuildInv, WalkBuilds
  <2> QED BY <1>1, <2>4 DEF BuildInv, ChildrenFirst, Children
<1>3. CASE Descend
  <2>1. PICK i \in DOMAIN calls[Head(stack)].children :
          stack' = <<calls[Head(stack)].children[i]>> \o stack
    BY <1>3 DEF Descend
  <2>2. stack # <<>> /\ UNCHANGED <<todo, visited>>
    BY <1>3 DEF Descend
  <2>3. Head(stack) \in Calls
    BY <1>1, <2>2, HeadAndTail
  <2>4. PICK j \in Calls : j = calls[Head(stack)].children[i]
    <3>1. calls[Head(stack)].children \in Seq(Calls)
      BY <2>3, PlanFacts DEF TypeInv
    <3> QED BY <2>1, <3>1
  <2>5. Range(stack) \subseteq Range(stack')
    <3>1. <<j>> \in Seq(Calls)
      OBVIOUS
    <3> QED BY <1>1, <2>1, <2>4, <3>1, ConcatRange
  <2>6. WalkBuilds'
    BY <1>1, <2>2, <2>5 DEF BuildInv, WalkBuilds
  <2> QED BY <1>1, <2>6 DEF BuildInv, ChildrenFirst, Children
<1> QED BY <1>2, <1>3

LEMMA BuildStep ==
  ASSUME TypeInv, TypeInv', WireInv, BuildInv, [Next]_vars
  PROVE  BuildInv'
<1>1. CASE \E k \in Calls : Construct(k)
  BY <1>1, ConstructBuilds
<1>2. CASE Built
  BY <1>2, BuiltBuilds
<1>3. CASE NextRoot \/ Descend
  BY <1>3, WalkStepBuilds
<1>4. CASE pc' \notin {"build", "run"}
  <2>1. built' = <<>>
    BY <1>4 DEF TypeInv, StagesOK
  <2> QED BY <1>4, <2>1 DEF BuildInv, ChildrenFirst, WalkBuilds, IsInjective
<1>5. CASE Finalized
  <2>1. built = <<>> /\ UNCHANGED built /\ pc' = "build" /\ visited' = {} /\ todo' = roots
        /\ UNCHANGED roots
    BY <1>5 DEF Finalized, plan, TypeInv, StagesOK
  <2> QED BY <2>1 DEF BuildInv, ChildrenFirst, WalkBuilds, IsInjective
<1>6. CASE UNCHANGED <<calls, roots, pc, todo, stack, visited, built>>
  BY <1>6 DEF BuildInv, ChildrenFirst, WalkBuilds, Children, Calls
<1>7. ASSUME NEW k \in Calls, RunCall(k) PROVE BuildInv'
  BY <1>6, <1>7 DEF RunCall, plan, walk
<1>8. CASE UNCHANGED vars
  BY <1>6, <1>8 DEF vars, plan, walk
<1>9. ASSUME Next, \A k \in Calls : ~ Construct(k) /\ ~ RunCall(k),
             ~ Built, ~ NextRoot, ~ Descend, ~ Finalized
      PROVE  pc' \notin {"build", "run"}
  <2>1. ASSUME NEW f \in Functions, NEW args \in Arguments(f), Register(f, args) PROVE pc' = "wire"
    BY <2>1 DEF Register
  <2>2. CASE Evaluate \/ Join \/ InferAgain \/ Inferred \/ Wire \/ Wired
    BY <2>2 DEF Evaluate, Join, InferAgain, Inferred, Wire, Wired
  <2>3. CASE \E l \in links : Sync(l) \/ Break(l)
    BY <2>3 DEF Sync, Break
  <2>4. CASE (\E k \in Calls : Infer(k) \/ ConstructRaises(k)) \/ RunRaises \/ Clear
    BY <2>4 DEF Infer, ConstructRaises, RunRaises, Raise, Clear
  <2>5. CASE Finalize
    BY <2>5 DEF Finalize, Raise
  <2> QED BY <1>9, <2>1, <2>2, <2>3, <2>4, <2>5 DEF Next, Step
<1> QED BY <1>1, <1>2, <1>3, <1>4, <1>5, <1>7, <1>8, <1>9

LEMMA BuildingHolds == Spec => []BuildInv
<1>1. Init => BuildInv
  BY DEF Init, BuildInv, ChildrenFirst, WalkBuilds, IsInjective
<1>2. TypeInv /\ TypeInv' /\ WireInv /\ BuildInv /\ [Next]_vars => BuildInv'
  BY BuildStep
<1> QED BY <1>1, <1>2, TypesHold, WiringHolds, PTL DEF Spec

\* to_vm walks every root with a set of visited calls of its own (dag.py:334-379);
\* still a call is built once, after all that is below it, and none is left out.
THEOREM EveryCallIsBuiltOnce == Spec => []BuiltInOrder
<1>1. BuildInv => BuiltInOrder
  BY DEF BuildInv, ChildrenFirst, BuiltInOrder
<1> QED BY <1>1, BuildingHolds, PTL

\* Nothing but a call that runs, and the end of the building, leads to the stage.
LEMMA OnlyTheyRun ==
  ASSUME Next, \A k \in Calls : ~ RunCall(k), ~ Built
  PROVE  pc' # "run"
<1>1. ASSUME NEW f \in Functions, NEW args \in Arguments(f), Register(f, args) PROVE pc' = "wire"
  BY <1>1 DEF Register
<1>2. CASE Evaluate \/ Join \/ InferAgain \/ Inferred \/ Wire \/ Wired \/ Finalized
  BY <1>2 DEF Evaluate, Join, InferAgain, Inferred, Wire, Wired, Finalized
<1>3. CASE \E l \in links : Sync(l) \/ Break(l)
  BY <1>3 DEF Sync, Break
<1>4. CASE (\E k \in Calls : Infer(k) \/ Construct(k) \/ ConstructRaises(k)) \/ RunRaises \/ Clear
  BY <1>4 DEF Infer, Construct, CanVisit, ConstructRaises, RunRaises, Raise, Clear
<1>5. CASE Finalize \/ NextRoot \/ Descend
  BY <1>5 DEF Finalize, Raise, NextRoot, Descend
<1> QED BY <1>1, <1>2, <1>3, <1>4, <1>5 DEF Next, Step

\* No call runs twice in an evaluation.
LEMMA RunningHolds == Spec => []IsInjective(ran)
<1>1. Init => IsInjective(ran)
  BY DEF Init, IsInjective
<1>2. TypeInv /\ TypeInv' /\ IsInjective(ran) /\ [Next]_vars => IsInjective(ran)'
  <2> SUFFICES ASSUME TypeInv, TypeInv', IsInjective(ran), [Next]_vars PROVE IsInjective(ran')
    OBVIOUS
  <2>1. CASE pc' # "run"
    BY <2>1 DEF TypeInv, StagesOK, IsInjective
  <2>2. CASE UNCHANGED ran
    BY <2>2
  <2>3. ASSUME NEW k \in Calls, RunCall(k) PROVE IsInjective(ran')
    <3>1. ran' = Append(ran, k) /\ k \notin Range(ran) /\ ran \in Seq(Calls)
      BY <2>3 DEF RunCall, Remaining, TypeInv, TypeOK
    <3>2. \A i \in DOMAIN ran : ran[i] # k
      BY <3>1 DEF Range
    <3>3. \A i, h \in DOMAIN ran : ran[i] = ran[h] => i = h
      BY DEF IsInjective
    <3> QED BY <3>1, <3>2, <3>3, AppendInjective DEF IsInjective
  <2>4. CASE Built \/ UNCHANGED vars
    BY <2>2, <2>4 DEF Built, vars
  <2>5. ASSUME Next, \A k \in Calls : ~ RunCall(k), ~ Built PROVE pc' # "run"
    BY <2>5, OnlyTheyRun
  <2> QED BY <2>1, <2>3, <2>4, <2>5
<1> QED BY <1>1, <1>2, TypesHold, PTL DEF Spec

\* Only clear forgets calls.
LEMMA OnlyClear ==
  ASSUME TypeInv, Next, calls # <<>>, calls' = <<>>
  PROVE  Clear
<1>1. ASSUME NEW f \in Functions, NEW args \in Arguments(f), Register(f, args) PROVE FALSE
  <2>1. calls \in Seq(Annotated)
    BY DEF TypeInv, TypeOK
  <2>2. PICK c : calls' = Append(calls, c)
    BY <1>1 DEF Register
  <2>3. Len(calls') = Len(calls) + 1 /\ Len(calls) \in Nat
    BY <2>1, <2>2
  <2> QED BY <2>3
<1>2. CASE Wire
  <2>1. PICK n : n = Len(calls)
    OBVIOUS
  <2>2. Len(calls') = n /\ n \in Calls /\ n \in Nat
    BY <1>2, <2>1, WireFacts
  <2> QED BY <2>1, <2>2 DEF Calls
<1>3. ASSUME Evaluate \/ Step, ~ Clear, ~ Wire PROVE calls' = calls
  <2>1. CASE Evaluate \/ Wired \/ NextRoot \/ Descend \/ Join \/ InferAgain \/ Inferred \/ Finalized \/ Built
    BY <2>1 DEF Evaluate, Wired, NextRoot, Descend, Join, InferAgain, Inferred, Finalized, Built, plan
  <2>2. CASE \E l \in links : Sync(l) \/ Break(l)
    BY <2>2 DEF Sync, Break, plan
  <2>3. CASE \E k \in Calls : Infer(k) \/ Construct(k) \/ ConstructRaises(k) \/ RunCall(k)
    BY <2>3 DEF Infer, Construct, ConstructRaises, RunCall, Raise, plan
  <2>4. CASE Finalize \/ RunRaises
    BY <2>4 DEF Finalize, RunRaises, Raise, plan
  <2> QED BY <1>3, <2>1, <2>2, <2>3, <2>4 DEF Step
<1> QED BY <1>1, <1>2, <1>3 DEF Next

\* When it does, all of them have run.
LEMMA AllRan ==
  ASSUME TypeInv, BuildInv, Clear
  PROVE  pc = "run" /\ Range(ran) = Calls
<1>1. pc = "run" /\ Range(built) \subseteq Range(ran) /\ ran \in Seq(Calls)
  BY DEF Clear, Remaining, TypeInv, TypeOK
<1>2. Range(ran) \subseteq Calls
  BY <1>1 DEF Range
<1> QED BY <1>1, <1>2 DEF BuildInv

\* The plan is forgotten when all its calls have run, each once (dag.py:398-420).
THEOREM NothingIsForgotten == Spec => ClearedWhenRun
<1>1. TypeInv /\ BuildInv /\ IsInjective(ran) /\ [Next]_vars =>
        [calls # <<>> /\ calls' = <<>> => Range(ran) = Calls /\ IsInjective(ran)]_vars
  BY OnlyClear, AllRan
<1> QED BY <1>1, TypesHold, BuildingHolds, RunningHolds, PTL DEF Spec, ClearedWhenRun

=============================================================================
