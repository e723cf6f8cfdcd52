---------------------------- MODULE LogicalPlan ----------------------------
(***************************************************************************)
(* LogicalPlan and evaluate_dag (python/pycomposer/pycomposer/dag.py) with *)
(* the types of split_types.py: a program calls annotated functions, each  *)
(* call is wired below the plan, and an evaluation infers split types,     *)
(* divides the calls into pipelines, builds a program of each and runs     *)
(* them.                                                                   *)
(*                                                                         *)
(* A type inferred is a pair: the split type and a mark, which stands for  *)
(* the attributes that an evaluation sets on it and that the comparison of *)
(* types sees: mutable, set when the programs are built (kept or merged),  *)
(* and range_end, set when one runs in the process of its caller (ranged). *)
(* Only arguments are given a range_end, and types are compared with those *)
(* of results then, which have none: its value does not matter.            *)
(*                                                                         *)
(* An Operation is the number of its call in the plan; an argument is a    *)
(* value or such a number.  A client passes results of the plan at hand    *)
(* only (its _output is what it passes of an earlier one), and leaves      *)
(* dontsend alone.  Keyword arguments are further arguments here.  The     *)
(* split types of the arguments come first in a signature, that of the     *)
(* result last; None is a type not inferred yet (_concrete) and the result *)
(* type of a function that returns nothing, as in the code.  Recursive     *)
(* walks are taken step by step, with the interpreter's stack as a         *)
(* variable.                                                               *)
(***************************************************************************)
EXTENDS Integers, Sequences, FiniteSets, FiniteSetsExt, SequencesExt

CONSTANTS
  Values,      \* what a program passes that is no result of a call
  Functions,   \* the annotated functions
  Signature,   \* of each function its split types, that of the result last
  Mutates,     \* of each function the arguments it updates in place (mut)
  Types,       \* the concrete split types
  Generics,    \* the names of generic split types
  None,        \* no type
  MaxCalls,    \* bounds the calls of a plan
  MaxRaises    \* bounds the evaluations that raise

ASSUME SignatureAssumption ==
  /\ MaxCalls \in Nat /\ MaxRaises \in Nat
  /\ None \notin Types \cup Generics /\ Types \cap Generics = {}
  /\ None \notin Types \X {"new", "kept", "merged", "ranged"}
  /\ Values \cap 1 .. MaxCalls = {}
  /\ Signature \in [Functions -> Seq(Types \cup Generics \cup {None})]
  /\ Mutates \in [Functions -> SUBSET Nat]
  /\ \A f \in Functions :
       /\ Signature[f] # <<>>
       /\ Mutates[f] \subseteq 1 .. Len(Signature[f]) - 1
       /\ \A i \in 1 .. Len(Signature[f]) - 1 : Signature[f][i] # None

VARIABLES
  calls,      \* the calls of the plan: function, arguments, children
  roots,      \* LogicalPlan.roots; their order is that of registration
  types,      \* of each call the split types of its annotation
  generic,    \* of each call the positions that hold a generic type still
  pipeline,   \* of each call its pipeline
  pc,         \* the stage of the registration or the evaluation
  todo,       \* the roots a walk has yet to take
  queue,      \* the queue of a walk from the top
  stack,      \* the calls a walk from the bottom is inside of
  visited,    \* the calls a walk has visited
  changed,    \* whether the pass of the inference changed a type
  current,    \* the last pipeline of the pass
  links,      \* the links infer_locally has yet to sync
  built,      \* the calls of the programs, in the order they were built
  ran,        \* the calls the evaluation has run
  raises      \* the evaluations that raised

plan == <<calls, roots>>
walk == <<todo, queue, stack, visited>>
inferred == <<types, generic, pipeline, changed, current, links>>
vars == <<plan, inferred, pc, walk, built, ran, raises>>

Calls   == 1 .. Len(calls)
Arity(k) == Len(calls[k].args)
Children(k) == Range(calls[k].children)

Init ==
  /\ calls = <<>> /\ types = <<>> /\ generic = <<>> /\ pipeline = <<>>
  /\ roots = {} /\ pc = "open"
  /\ todo = {} /\ queue = <<>> /\ stack = <<>> /\ visited = {}
  /\ changed = FALSE /\ current = 0 /\ links = {}
  /\ built = <<>> /\ ran = <<>>
  /\ raises = 0

-----------------------------------------------------------------------------
(***************************************************************************)
(* LogicalPlan.register.                                                   *)
(***************************************************************************)

\* Call k takes the result of j, or a value that j updates in place.
DependencyOf(j, k) ==
  \/ j \in Range(calls[k].args)
  \/ \E i \in Mutates[calls[j].function] : calls[j].args[i] \in Range(calls[k].args)

\* The decorated function: a new call, and a walk of the plan to wire it.
Register(f, args) ==
  /\ pc = "open" /\ Len(calls) < MaxCalls
  /\ calls' = Append(calls, [function |-> f, args |-> args, children |-> <<>>])
  /\ LET Is(i) == Signature[f][i] \in Generics
     IN  /\ types' = Append(types, [i \in 1 .. Len(Signature[f]) |->
                                      IF Is(i) \/ Signature[f][i] = None THEN None
                                      ELSE <<Signature[f][i], "new">>])
         /\ generic' = Append(generic, {i \in 1 .. Len(Signature[f]) : Is(i)})
  /\ pipeline' = Append(pipeline, 0)
  /\ pc' = "wire" /\ todo' = roots /\ queue' = <<>> /\ visited' = {}
  /\ UNCHANGED <<roots, stack, changed, current, links, built, ran, raises>>

\* A walk from the top takes the roots first, then children in order of
\* discovery: the rest of the walk after it took j.
Taken(j) == IF todo # {} THEN todo \ {j} ELSE todo
Rest == IF todo # {} THEN queue ELSE Tail(queue)
First == IF todo # {} THEN Min(todo) ELSE Head(queue)
WalkEnds == todo = {} /\ queue = <<>> /\ stack = <<>>

\* Mistaken: only the roots are looked at.
WireRoots ==
  /\ pc = "wire" /\ ~ WalkEnds
  /\ todo' = Taken(First) /\ visited' = visited \cup {First} /\ queue' = Rest
  /\ calls' = IF DependencyOf(First, Len(calls))
              THEN [calls EXCEPT ![Len(calls)].children = Append(@, First)] ELSE calls
  /\ UNCHANGED <<roots, inferred, pc, stack, built, ran, raises>>

\* wire: a dependency becomes a child, else its children are walked.
Wire ==
  /\ pc = "wire" /\ ~ WalkEnds
  /\ LET j == First
         k == Len(calls)
     IN  /\ todo' = Taken(j)
         /\ visited' = visited \cup {j}
         /\ \/ /\ j \in visited
               /\ queue' = Rest /\ UNCHANGED calls
            \/ /\ j \notin visited /\ DependencyOf(j, k)
               /\ calls' = [calls EXCEPT ![k].children = Append(@, j)]
               /\ queue' = Rest
            \/ /\ j \notin visited /\ ~ DependencyOf(j, k)
               /\ queue' = Rest \o calls[j].children
               /\ UNCHANGED calls
  /\ UNCHANGED <<roots, inferred, pc, stack, built, ran, raises>>

\* The roots that are no dependencies stay roots, and the new call is one.
Wired ==
  /\ pc = "wire" /\ WalkEnds
  /\ roots' = {r \in roots : ~ DependencyOf(r, Len(calls))} \cup {Len(calls)}
  /\ pc' = "open" /\ visited' = {}
  /\ UNCHANGED <<calls, inferred, todo, queue, stack, built, ran, raises>>

-----------------------------------------------------------------------------
(***************************************************************************)
(* evaluate_dag: infer_types.                                              *)
(***************************************************************************)

\* evaluate(), of a plan whose evaluation did not raise too often.
Evaluate ==
  /\ pc = "open" /\ calls # <<>> /\ raises < MaxRaises
  /\ pc' = "infer" /\ todo' = roots /\ visited' = {}
  /\ changed' = FALSE /\ current' = 0
  /\ UNCHANGED <<plan, types, generic, pipeline, links, queue, stack, built, ran, raises>>

\* _walk_bottomup returns from all children of k, and visits k.
CanVisit(k) ==
  /\ stack # <<>> /\ k = Head(stack)
  /\ Children(k) \subseteq visited

\* Mistaken: the roots are a set, walked in any order.
NextRootOfAny ==
  /\ pc \in {"infer", "build"} /\ stack = <<>>
  /\ \E r \in todo : stack' = <<r>> /\ todo' = todo \ {r}
  /\ visited' = {}
  /\ UNCHANGED <<plan, inferred, pc, queue, built, ran, raises>>

\* Each root is walked with a set of visited calls of its own.
NextRoot ==
  /\ pc \in {"infer", "build"} /\ stack = <<>> /\ todo # {}
  /\ stack' = <<Min(todo)>> /\ todo' = todo \ {Min(todo)} /\ visited' = {}
  /\ UNCHANGED <<plan, inferred, pc, queue, built, ran, raises>>

\* _walk_bottomup calls itself for the next child.
Descend ==
  /\ pc \in {"infer", "build"} /\ stack # <<>>
  /\ LET next == calls[Head(stack)].children
     IN  \E i \in DOMAIN next :
           /\ next[i] \notin visited
           /\ \A h \in 1 .. i - 1 : next[h] \in visited
           /\ stack' = <<next[i]>> \o stack
  /\ UNCHANGED <<plan, inferred, pc, todo, queue, visited, built, ran, raises>>

\* What infer_locally syncs of call k, position i of k with position h of call j
\* as <<i, j, h>>: its arguments with the results of children, then its generic
\* types with those of the same name.
Result(j) == Len(types[j])

ArgLinks(k) ==
  {<<i, calls[k].args[i], Result(calls[k].args[i])>> :
     i \in {i \in 1 .. Arity(k) : calls[k].args[i] \in Children(k)}}

InnerLinks(k) ==
  LET names == Signature[calls[k].function]
  IN  {link \in generic[k] \X {k} \X generic[k] :
         link[1] # link[3] /\ names[link[1]] = names[link[3]]}

\* Mistaken: generic types of one name are not synced.
LinksToChildren(k) == ArgLinks(k)

Links(k) == ArgLinks(k) \cup InnerLinks(k)

\* The order in which they are synced.
Precedes(l, m, k) ==
  \/ l[2] # k /\ m[2] = k
  \/ /\ (l[2] = k) <=> (m[2] = k)
     /\ l[1] < m[1] \/ (l[1] = m[1] /\ l[3] <= m[3])

\* infer_locally begins with call k.
Infer(k) ==
  /\ pc = "infer" /\ CanVisit(k)
  /\ pc' = "sync" /\ links' = Links(k)
  /\ UNCHANGED <<plan, types, generic, pipeline, changed, current, walk, built, ran, raises>>

\* The next link, and the types it links.
IsNextLink(l) == l \in links /\ \A m \in links : Precedes(l, m, Head(stack))
Mine(l)   == types[Head(stack)][l[1]]
Its(l)    == types[l[2]][l[3]]
IsOpen(l) == l[3] \in generic[l[2]]

\* Mistaken: a type that was inferred is replaced.
SyncOver(l) ==
  /\ pc = "sync" /\ IsNextLink(l) /\ Mine(l) # Its(l)
  /\ types' = [types EXCEPT ![Head(stack)][l[1]] = Its(l)]
  /\ changed' = TRUE /\ links' = links \ {l}
  /\ UNCHANGED <<plan, generic, pipeline, current, pc, walk, built, ran, raises>>

\* _sync: a type not inferred becomes the other; a generic type that is synced
\* with the None of a function that returns nothing takes it, and is as before.
Sync(l) ==
  /\ pc = "sync" /\ IsNextLink(l)
  /\ \/ /\ Mine(l) = None /\ (Its(l) # None \/ ~ IsOpen(l))
        /\ types' = [types EXCEPT ![Head(stack)][l[1]] = Its(l)]
        /\ changed' = TRUE
     \/ /\ Mine(l) # None /\ Its(l) = None /\ IsOpen(l)
        /\ types' = [types EXCEPT ![l[2]][l[3]] = Mine(l)]
        /\ changed' = TRUE
     \/ /\ Mine(l) = Its(l) /\ (Its(l) # None \/ IsOpen(l))
        /\ UNCHANGED <<types, changed>>
  /\ links' = links \ {l}
  /\ UNCHANGED <<plan, generic, pipeline, current, pc, walk, built, ran, raises>>

Visit(k) == stack' = Tail(stack) /\ visited' = visited \cup {k}

\* The call has become one of the current pipeline.
Join ==
  /\ pc = "sync" /\ links = {}
  /\ pipeline' = [pipeline EXCEPT ![Head(stack)] = current]
  /\ pc' = "infer" /\ Visit(Head(stack))
  /\ UNCHANGED <<plan, types, generic, changed, current, links, todo, queue, built, ran, raises>>

\* A SplitTypeError: the call begins a pipeline, its other links are left.
Break(l) ==
  /\ pc = "sync" /\ IsNextLink(l)
  /\ Mine(l) # Its(l) /\ Mine(l) # None /\ (Its(l) # None \/ ~ IsOpen(l))
  /\ current' = current + 1
  /\ pipeline' = [pipeline EXCEPT ![Head(stack)] = current']
  /\ pc' = "infer" /\ links' = {} /\ Visit(Head(stack))
  /\ UNCHANGED <<plan, types, generic, changed, todo, queue, built, ran, raises>>

\* Mistaken: changed is not reset.
InferAgainUnreset ==
  /\ pc = "infer" /\ WalkEnds /\ changed
  /\ todo' = roots /\ visited' = {} /\ current' = 0
  /\ UNCHANGED <<plan, types, generic, pipeline, changed, links, pc, queue, stack, built, ran, raises>>

\* Mistaken: the number of the last pipeline is not reset.
InferAgainInLastPipeline ==
  /\ pc = "infer" /\ WalkEnds /\ changed
  /\ todo' = roots /\ visited' = {} /\ changed' = FALSE
  /\ UNCHANGED <<plan, types, generic, pipeline, links, current, pc, queue, stack, built, ran, raises>>

\* A pass that changed a type is followed by another.
InferAgain ==
  /\ pc = "infer" /\ WalkEnds /\ changed
  /\ todo' = roots /\ visited' = {} /\ changed' = FALSE /\ current' = 0
  /\ UNCHANGED <<plan, types, generic, pipeline, links, pc, queue, stack, built, ran, raises>>

Inferred ==
  /\ pc = "infer" /\ WalkEnds /\ ~ changed
  /\ pc' = "finalize" /\ todo' = roots /\ visited' = {}
  /\ UNCHANGED <<plan, inferred, queue, stack, built, ran, raises>>

\* An exception leaves evaluate_dag: the plan stays as it is.
Raise ==
  /\ pc' = "open" /\ raises' = raises + 1
  /\ todo' = {} /\ queue' = <<>> /\ stack' = <<>> /\ visited' = {}
  /\ changed' = FALSE /\ current' = 0 /\ built' = <<>> /\ ran' = <<>>
  /\ UNCHANGED <<plan, pipeline, links>>

\* finalize: types replace the generic ones, those of the arguments first.
Final(k) ==
  LET missing == {i \in generic[k] : types[k][i] = None}
  IN  IF missing = {} THEN {}
      ELSE IF missing = {Result(k)} THEN {Result(k)} ELSE generic[k]

Finalize ==
  /\ pc = "finalize" /\ ~ WalkEnds
  /\ LET j == First
     IN  \/ /\ j \notin visited
            /\ generic' = [generic EXCEPT ![j] = Final(j)]
            /\ IF Final(j) # {} THEN Raise /\ UNCHANGED types
               ELSE /\ todo' = Taken(j) /\ queue' = Rest \o calls[j].children
                    /\ visited' = visited \cup {j}
                    /\ UNCHANGED <<plan, types, pipeline, changed, current, links,
                                   pc, stack, built, ran, raises>>
         \/ /\ j \in visited
            /\ todo' = Taken(j) /\ queue' = Rest
            /\ UNCHANGED <<plan, inferred, pc, stack, visited, built, ran, raises>>

-----------------------------------------------------------------------------
(***************************************************************************)
(* evaluate_dag: to_vm, the programs and commit.                           *)
(***************************************************************************)

Finalized ==
  /\ pc = "finalize" /\ WalkEnds
  /\ pc' = "build" /\ todo' = roots /\ visited' = {}
  /\ UNCHANGED <<plan, inferred, queue, stack, built, ran, raises>>

\* The calls built before k.
BuiltBefore(k) ==
  {built[i] : i \in {i \in DOMAIN built : \A h \in 1 .. i : built[h] # k}}

\* The argument has a number in the VM of its pipeline already.
HasNumber(k, i) ==
  \/ \E h \in 1 .. i - 1 : calls[k].args[h] = calls[k].args[i]
  \/ \E j \in BuiltBefore(k) :
       /\ pipeline[j] = pipeline[k]
       /\ calls[k].args[i] \in Range(calls[j].args) \cup {j}

\* The arguments that the program of k splits for it.
Splits(k) == {i \in 1 .. Arity(k) : types[k][i] # None /\ ~ HasNumber(k, i)}

\* The attribute mutable, set on the types the arguments of k are split by and
\* on the type of its result.
Marked(k) ==
  [i \in DOMAIN types[k] |->
     IF i \in Splits(k) /\ types[k][i][2] # "ranged"
     THEN <<types[k][i][1], IF i \in Mutates[calls[k].function] THEN "merged" ELSE "kept">>
     ELSE IF i = Result(k) /\ types[k][i] # None THEN <<types[k][i][1], "merged">>
     ELSE types[k][i]]

\* set_range_end, on the types the arguments of k are split by.
Ranged(k) ==
  [i \in DOMAIN types[k] |->
     IF i \in Splits(k) THEN <<types[k][i][1], "ranged">> ELSE types[k][i]]

\* Mistaken: a call is added for every root above it.
ConstructAgain(k) ==
  /\ pc = "build" /\ CanVisit(k)
  /\ types' = [types EXCEPT ![k] = Marked(k)]
  /\ types[k][Result(k)] # None
  /\ Visit(k) /\ built' = Append(built, k)
  /\ UNCHANGED <<plan, generic, pipeline, changed, current, links, pc, todo, queue, ran, raises>>

\* construct: a call is added to the program of its pipeline, once.
Construct(k) ==
  /\ pc = "build" /\ CanVisit(k)
  /\ \/ /\ k \in Range(built) /\ UNCHANGED <<types, built>>
     \/ /\ k \notin Range(built) /\ types[k][Result(k)] # None
        /\ types' = [types EXCEPT ![k] = Marked(k)]
        /\ built' = Append(built, k)
  /\ Visit(k)
  /\ UNCHANGED <<plan, generic, pipeline, changed, current, links, pc, todo, queue, ran, raises>>

\* The result type None has no attributes: setattr raises.
ConstructRaises(k) ==
  /\ pc = "build" /\ CanVisit(k)
  /\ k \notin Range(built) /\ types[k][Result(k)] = None
  /\ types' = [types EXCEPT ![k] = Marked(k)]
  /\ Raise /\ UNCHANGED generic

Built ==
  /\ pc = "build" /\ WalkEnds
  /\ pc' = "run" /\ visited' = {}
  /\ UNCHANGED <<plan, inferred, todo, queue, stack, built, ran, raises>>

Remaining == Range(built) \ Range(ran)

\* Mistaken: the calls run as the walk from the top finds them.
IsNextFromTop(k) == \E i \in DOMAIN built :
  /\ built[i] = k
  /\ \A h \in DOMAIN built : built[h] \in Remaining =>
       \/ pipeline[k] < pipeline[built[h]]
       \/ pipeline[k] = pipeline[built[h]] /\ h <= i

\* The programs run by their numbers, the calls of one as they were built.
IsNext(k) == \E i \in DOMAIN built :
  /\ built[i] = k
  /\ \A h \in DOMAIN built : built[h] \in Remaining =>
       \/ pipeline[k] < pipeline[built[h]]
       \/ pipeline[k] = pipeline[built[h]] /\ i <= h

\* The Call instruction of the program that runs.  What it takes of an earlier
\* program is the operation, not its result.
RunCall(k) ==
  /\ pc = "run" /\ k \in Remaining /\ IsNext(k)
  /\ ran' = Append(ran, k)
  /\ UNCHANGED <<plan, inferred, pc, walk, built, raises>>

\* The programs that ran, and the one that runs.
Begun == {pipeline[k] : k \in {k \in Range(built) : k \in Remaining => IsNext(k)}}

\* Driver.run raises: for an operation it has to split, or what a library raises.
\* Any of the programs may have been run without other processes.
RunRaises ==
  /\ pc = "run" /\ Remaining # {}
  /\ \E here \in SUBSET Begun :
       types' = [k \in Calls |-> IF pipeline[k] \in here THEN Ranged(k) ELSE types[k]]
  /\ Raise /\ UNCHANGED generic

\* Mistaken: the roots are kept.
ClearCalls ==
  /\ pc = "run" /\ Remaining = {}
  /\ calls' = <<>> /\ types' = <<>> /\ generic' = <<>> /\ pipeline' = <<>>
  /\ pc' = "open" /\ changed' = FALSE /\ current' = 0
  /\ built' = <<>> /\ ran' = <<>>
  /\ UNCHANGED <<roots, walk, links, raises>>

\* Mistaken: the plan is cleared after the first program.
ClearEarly ==
  /\ pc = "run" /\ ran # <<>> /\ \A k \in Remaining : pipeline[k] # pipeline[ran[1]]
  /\ calls' = <<>> /\ roots' = {} /\ types' = <<>> /\ generic' = <<>> /\ pipeline' = <<>>
  /\ pc' = "open" /\ changed' = FALSE /\ current' = 0
  /\ built' = <<>> /\ ran' = <<>>
  /\ UNCHANGED <<walk, links, raises>>

\* LogicalPlan.clear.
Clear ==
  /\ pc = "run" /\ Remaining = {}
  /\ calls' = <<>> /\ roots' = {} /\ types' = <<>> /\ generic' = <<>> /\ pipeline' = <<>>
  /\ pc' = "open" /\ changed' = FALSE /\ current' = 0
  /\ built' = <<>> /\ ran' = <<>>
  /\ UNCHANGED <<walk, links, raises>>

-----------------------------------------------------------------------------
Arguments(f) == [1 .. Len(Signature[f]) - 1 -> Values \cup Calls]

\* What the code does by itself once it was called.
Step ==
  \/ Wire \/ Wired
  \/ NextRoot \/ Descend
  \/ (\E k \in Calls : Infer(k)) \/ (\E l \in links : Sync(l) \/ Break(l)) \/ Join
  \/ InferAgain \/ Inferred
  \/ Finalize \/ Finalized
  \/ (\E k \in Calls : Construct(k) \/ ConstructRaises(k)) \/ Built
  \/ (\E k \in Calls : RunCall(k)) \/ RunRaises \/ Clear

Next ==
  \/ \E f \in Functions : \E args \in Arguments(f) : Register(f, args)
  \/ Evaluate
  \/ Step

\* The one thread of the program goes on with what it was called for.
Spec     == Init /\ [][Next]_vars
FairSpec == Spec /\ WF_vars(Step)

-----------------------------------------------------------------------------
(***************************************************************************)
(* Properties.                                                             *)
(***************************************************************************)

\* The calls that are below a set of calls in the plan: those in every set of
\* calls that has them and the children of its own.
Closed(S) == \A k \in S : Children(k) \subseteq S
Below(S)  == {j \in Calls : \A C \in SUBSET Calls : S \subseteq C /\ Closed(C) => j \in C}

Stages == {"open", "wire", "infer", "sync", "finalize", "build", "run"}

InferredTypes == {None} \cup (Types \X {"new", "kept", "merged", "ranged"})

Annotated == [function : Functions, args : Seq(Values \cup Nat), children : Seq(Nat)]

\* The types of the variables: calls have earlier ones as arguments and
\* children, and one split type for each position of the signature.
TypeOK ==
  /\ calls \in Seq(Annotated)
  /\ types \in Seq(Seq(InferredTypes)) /\ Len(types) = Len(calls)
  /\ generic \in Seq(SUBSET Nat) /\ Len(generic) = Len(calls)
  /\ pipeline \in Seq(Nat) /\ Len(pipeline) = Len(calls)
  /\ \A k \in Calls :
       /\ Len(calls[k].args) = Len(Signature[calls[k].function]) - 1
       /\ Range(calls[k].args) \subseteq Values \cup 1 .. k - 1
       /\ Children(k) \subseteq 1 .. k - 1
       /\ Len(types[k]) = Len(Signature[calls[k].function])
       /\ generic[k] \subseteq DOMAIN types[k]
  /\ pc \in Stages
  /\ roots \subseteq Calls /\ todo \subseteq roots /\ visited \subseteq Calls
  /\ queue \in Seq(Calls) /\ stack \in Seq(Calls)
  /\ built \in Seq(Calls) /\ ran \in Seq(Calls)
  /\ changed \in BOOLEAN /\ current \in Nat /\ raises \in Nat

\* register wires "the highest dependency" only; still every call is below a
\* root, and every call is above all that it depends on.
DependenciesBelow ==
  pc # "wire" =>
    /\ Below(roots) = Calls
    /\ \A k \in Calls : \A j \in 1 .. k - 1 : DependencyOf(j, k) => j \in Below({k})

\* to_vm walks every root anew; still a call is built once, after all below it,
\* and none is left out.
BuiltInOrder ==
  /\ \A i \in DOMAIN built : \A j \in Children(built[i]) :
       \E h \in 1 .. i - 1 : built[h] = j
  /\ IsInjective(built)
  /\ pc = "run" => Range(built) = Calls

\* No call is below two roots.
NothingShared ==
  \A r, q \in roots : r # q => Below({r}) \cap Below({q}) = {}

\* What the code says of itself: "The plan is evaluated from leaves to the root."
LeavesFirst ==
  \A i \in DOMAIN ran : \A j \in Children(ran[i]) : \E h \in 1 .. i - 1 : ran[h] = j

\* Through the pipelines, too, a call runs after its children, if roots share
\* nothing.  (A call below two roots is visited for each, and the last gives it
\* its pipeline, which may be after that of a call above it.)
RunsInOrder == NothingShared => LeavesFirst

\* What the inference promises a call: its arguments have the types of the
\* results they are, generic types of one name are the same, or it begins a
\* pipeline above those of its children.  (An argument that is no child, being
\* below one, is not looked at.)
Agrees(k) ==
  /\ \A i \in 1 .. Arity(k) :
       calls[k].args[i] \in Children(k) =>
         types[k][i] = types[calls[k].args[i]][Result(calls[k].args[i])]
  /\ \A i, h \in DOMAIN types[k] :
       LET names == Signature[calls[k].function]
       IN  raises = 0 /\ names[i] \in Generics /\ names[i] = names[h] => types[k][i] = types[k][h]

LinksAgree ==
  pc = "finalize" /\ NothingShared =>
    \A k \in Calls : Agrees(k) \/ \A j \in Children(k) : pipeline[j] < pipeline[k]

\* The inference never takes back what it inferred: the passes go towards a
\* fixed point, over evaluations that raise too.
TypesStay ==
  [][\A k \in Calls : \A i \in DOMAIN types[k] :
       types[k][i] # None /\ calls' # <<>> => types'[k][i] # None /\ types'[k][i][1] = types[k][i][1]]_vars

\* The plan is forgotten only when all its calls have run, each once.
ClearedWhenRun ==
  [][calls # <<>> /\ calls' = <<>> => Range(ran) = Calls /\ IsInjective(ran)]_vars

\* A call that takes the result of a child of an earlier pipeline is run on the
\* operation, or raises: "We need to update vm.values in the remaining programs"
\* (dag.py:413); and commit then replaces the result (dag.py:389).
TakesOperation(k) ==
  \E j \in Children(k) \cap Range(calls[k].args) : pipeline[j] < pipeline[k]

\* No pipeline but the first is without such a call: the inference begins one at
\* the result of a child only, whatever the evaluations that raised left.
BreaksAtResults ==
  pc = "run" /\ NothingShared =>
    \A k \in Calls : pipeline[k] # 0 =>
      \E c \in Calls : pipeline[c] = pipeline[k] /\ TakesOperation(c)

\* A generic argument that is the result of a function that returns nothing.
PassesNothing ==
  \E k \in Calls : \E i \in generic[k] :
    /\ i <= Arity(k) /\ calls[k].args[i] \in Children(k)
    /\ LET f == calls[calls[k].args[i]].function IN Signature[f][Len(Signature[f])] = None

\* register and evaluate_dag return or raise, unless a generic argument is
\* nothing: it is inferred anew in every pass.
Returns == (pc # "open") ~> (pc = "open" \/ PassesNothing)

\* Roots run in the order in which they were registered, through any pipelines
\* and evaluations that raised: a call that reads a value and that no other call
\* is above has read it before a later one updates it.  (register orders a call
\* after those that update what it takes, never after those that read what it
\* updates: with a call above it, which is a root of its own, a reader may run
\* too late.)
RootsInOrder ==
  \A i \in DOMAIN ran : \A r \in roots :
    ran[i] \in roots /\ r < ran[i] => \E h \in 1 .. i - 1 : ran[h] = r

=============================================================================
