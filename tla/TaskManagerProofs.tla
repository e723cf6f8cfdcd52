-------------------------- MODULE TaskManagerProofs --------------------------
(***************************************************************************)
(* The invariants of TaskManager, for all values, functions, rules and     *)
(* bounds, and that it does what DeferredCalls promises a client that      *)
(* keeps the rules.                                                        *)
(***************************************************************************)
EXTENDS TaskManager, TLAPS, SequenceTheorems, WellFoundedInduction

\* The properties are inductive together: that bytes have one id needs that
\* ids are registered below nextId and that handles are numbers below
\* future_offset, and that a future is of one call that it was a new id.
Inductive ==
  /\ TypeOK
  /\ OneIdPerValue
  /\ FuturesArePending

\* A sequence of elements of a set is one of elements of a larger set.
LEMMA SeqMonotone ==
  ASSUME NEW S, NEW T, S \subseteq T, NEW s \in Seq(S)
  PROVE  s \in Seq(T)
  OBVIOUS

\* The arguments of a call are a sequence as long as its parameters.
LEMMA ArgsAreSeq ==
  ASSUME NEW f \in Functions, NEW args \in [DOMAIN Params[f] -> Values \cup Handles]
  PROVE  /\ args \in Seq(Values \cup Handles)
         /\ DOMAIN args = 1 .. Len(args) /\ Len(args) \in Nat
         /\ DOMAIN args = DOMAIN Params[f]
  BY ClientAssumption

\* What registered bytes are known as, and where new bytes go.
LEMMA IdInFacts ==
  ASSUME NEW f \in Functions, NEW args \in [DOMAIN Params[f] -> Values \cup Handles],
         NEW i \in DOMAIN args
  PROVE  /\ Known(args[i]) # {} => /\ IdIn(args, args[i]) \in DOMAIN arguments
                                   /\ arguments[IdIn(args, args[i])] = args[i]
         /\ Known(args[i]) = {} =>
              /\ Place(args, args[i]) \in DOMAIN args
              /\ args[Place(args, args[i])] = args[i]
              /\ IdIn(args, args[i]) = nextId + Place(args, args[i])
  BY DEF IdIn, Place, Known

\* The arguments after a call: the old, the handle, and the new.
LEMMA ArgumentsWithFacts ==
  ASSUME TypeOK, NEW f \in Functions, NEW args \in [DOMAIN Params[f] -> Values \cup Handles]
  PROVE  /\ DOMAIN ArgumentsWith(f, args) =
              DOMAIN arguments \cup NewIds(args) \cup FutureIds(f)
         /\ \A id \in DOMAIN arguments : ArgumentsWith(f, args)[id] = arguments[id]
         /\ \A id \in FutureIds(f) :
              /\ id = nextId /\ id \notin DOMAIN arguments
              /\ ArgumentsWith(f, args)[id] = future_offset
         /\ \A id \in NewIds(args) : \E i \in DOMAIN args :
              /\ Known(args[i]) = {}
              /\ id = IdIn(args, args[i])
              /\ id \in nextId + 1 .. nextId + Len(args)
              /\ id \notin DOMAIN arguments
              /\ ArgumentsWith(f, args)[id] = args[i]
<1> DEFINE after == ArgumentsWith(f, args)
<1>1. /\ DOMAIN after = DOMAIN arguments \cup NewIds(args) \cup FutureIds(f)
      /\ \A id \in DOMAIN arguments : after[id] = arguments[id]
  BY DEF ArgumentsWith
<1>2. nextId \in Nat \ {0} /\ DOMAIN arguments \subseteq 1 .. nextId - 1
  BY DEF TypeOK
<1>3. nextId \notin DOMAIN arguments
  BY <1>2
<1>4. ASSUME NEW id \in FutureIds(f)
      PROVE  /\ id = nextId /\ id \notin DOMAIN arguments
             /\ after[id] = future_offset
  BY <1>3, <1>4 DEF FutureIds, ArgumentsWith
<1>5. ASSUME NEW id \in NewIds(args)
      PROVE  \E i \in DOMAIN args :
               /\ Known(args[i]) = {}
               /\ id = IdIn(args, args[i])
               /\ id \in nextId + 1 .. nextId + Len(args)
               /\ id \notin DOMAIN arguments
               /\ after[id] = args[i]
  <2>1. PICK i \in DOMAIN args : Known(args[i]) = {} /\ id = IdIn(args, args[i])
    BY DEF NewIds, New
  <2>2. /\ Place(args, args[i]) \in DOMAIN args
        /\ args[Place(args, args[i])] = args[i]
        /\ id = nextId + Place(args, args[i])
    BY <2>1, IdInFacts
  <2> DEFINE p == Place(args, args[i])
  <2>3. p \in 1 .. Len(args) /\ Len(args) \in Nat
    BY <2>2, ArgsAreSeq
  <2>4. /\ id \in nextId + 1 .. nextId + Len(args)
        /\ id \notin DOMAIN arguments
        /\ id # nextId /\ id - nextId = p
    <3> HIDE DEF p
    <3> QED BY <1>2, <2>2, <2>3 DEF p
  <2>5. after[id] = args[id - nextId]
    BY <2>4 DEF ArgumentsWith
  <2> QED BY <2>1, <2>2, <2>4, <2>5
<1> QED BY <1>1, <1>4, <1>5

\* A call's arguments have ids afterwards.
LEMMA IdInRegistered ==
  ASSUME NEW f \in Functions, NEW args \in [DOMAIN Params[f] -> Values \cup Handles]
  PROVE  [i \in DOMAIN args |-> IdIn(args, args[i])]
           \in Seq(DOMAIN ArgumentsWith(f, args))
<1> DEFINE ids == [i \in DOMAIN args |-> IdIn(args, args[i])]
           D == DOMAIN ArgumentsWith(f, args)
<1>1. D = DOMAIN arguments \cup NewIds(args) \cup FutureIds(f)
  BY DEF ArgumentsWith
<1>2. \A i \in DOMAIN args : IdIn(args, args[i]) \in D
  <2> TAKE i \in DOMAIN args
  <2>1. CASE Known(args[i]) # {}
    BY <2>1, <1>1, IdInFacts
  <2>2. CASE Known(args[i]) = {}
    BY <2>2, <1>1 DEF NewIds, New
  <2> QED BY <2>1, <2>2
<1>3. ids \in [1 .. Len(args) -> D] /\ Len(args) \in Nat
  BY <1>2, ArgsAreSeq
<1> HIDE DEF ids, D
<1> QED BY <1>3 DEF ids, D

LEMMA InitInductive == Init => Inductive
<1> SUFFICES ASSUME Init PROVE Inductive
  OBVIOUS
<1>1. TypeOK
  BY DEF Init, TypeOK
<1>2. OneIdPerValue /\ FuturesArePending
  BY DEF Init, OneIdPerValue, FuturesArePending
<1> QED BY <1>1, <1>2 DEF Inductive

\* What is registered: a sequence of tasks with registered ids.
LEMMA TaskFacts ==
  ASSUME TypeOK
  PROVE  /\ Len(tasks) \in Nat /\ DOMAIN tasks = 1 .. Len(tasks)
         /\ \A k \in DOMAIN tasks :
              /\ tasks[k].function \in Functions
              /\ tasks[k].arguments \in Seq(DOMAIN arguments)
              /\ tasks[k].future \in DOMAIN arguments \cup {NoFuture}
              /\ DOMAIN tasks[k].arguments = DOMAIN Params[tasks[k].function]
<1> DEFINE Task == [function : Functions, arguments : Seq(DOMAIN arguments),
                    future : DOMAIN arguments \cup {NoFuture}]
<1>1. /\ tasks \in Seq(Task)
      /\ \A k \in DOMAIN tasks : DOMAIN tasks[k].arguments = DOMAIN Params[tasks[k].function]
  BY DEF TypeOK
<1>2. \A t \in Task : /\ t.function \in Functions
                      /\ t.arguments \in Seq(DOMAIN arguments)
                      /\ t.future \in DOMAIN arguments \cup {NoFuture}
  OBVIOUS
<1>3. /\ Len(tasks) \in Nat /\ DOMAIN tasks = 1 .. Len(tasks)
      /\ \A k \in DOMAIN tasks : tasks[k] \in Task
  <2> HIDE DEF Task
  <2> QED BY <1>1
<1> QED BY <1>1, <1>2, <1>3

\* The task that a call adds.
TaskOf(f, args) == [function  |-> f,
                    arguments |-> [i \in DOMAIN args |-> IdIn(args, args[i])],
                    future    |-> IF f \in Returns THEN nextId ELSE NoFuture]

\* What register_task does to the tasks.
LEMMA RegisterTasks ==
  ASSUME TypeOK, NEW f \in Functions,
         NEW args \in [DOMAIN Params[f] -> Values \cup Handles],
         Register(f, args)
  PROVE  /\ tasks' = Append(tasks, TaskOf(f, args))
         /\ DOMAIN tasks' = DOMAIN tasks \cup {Len(tasks) + 1}
         /\ Len(tasks) + 1 \notin DOMAIN tasks
         /\ \A k \in DOMAIN tasks : tasks'[k] = tasks[k]
         /\ tasks'[Len(tasks) + 1] = TaskOf(f, args)
<1>1. tasks' = Append(tasks, TaskOf(f, args))
  BY DEF Register, TaskOf
<1> DEFINE Task == [function : Functions, arguments : Seq(DOMAIN arguments),
                    future : DOMAIN arguments \cup {NoFuture}]
<1>2. tasks \in Seq(Task) /\ Len(tasks) \in Nat
  BY DEF TypeOK
<1> HIDE DEF Task
<1> QED BY <1>1, <1>2

\* What register_task does to ids.
LEMMA RegisterIds ==
  ASSUME TypeOK, NEW f \in Functions,
         NEW args \in [DOMAIN Params[f] -> Values \cup Handles],
         Register(f, args)
  PROVE  /\ DOMAIN arguments' = DOMAIN arguments \cup NewIds(args) \cup FutureIds(f)
         /\ nextId \notin DOMAIN arguments /\ NoFuture \notin DOMAIN arguments
         /\ \A id \in DOMAIN arguments :
              /\ arguments'[id] = arguments[id]
              /\ arguments[id] \in Values \cup Handles
              /\ id \in Known(arguments[id])
         /\ \A id \in FutureIds(f) : arguments'[id] = future_offset
         /\ \A id \in NewIds(args) : \E i \in DOMAIN args :
              /\ Known(args[i]) = {} /\ id = IdIn(args, args[i])
              /\ id \in nextId + 1 .. nextId + Len(args)
              /\ arguments'[id] = args[i]
         /\ \A i \in DOMAIN args :
              /\ IdIn(args, args[i]) \in DOMAIN arguments \cup NewIds(args)
              /\ IdIn(args, args[i]) # nextId
              /\ arguments'[IdIn(args, args[i])] = args[i]
<1> DEFINE D == DOMAIN arguments
<1>1. DOMAIN arguments' = D \cup NewIds(args) \cup FutureIds(f)
  BY DEF Register, ArgumentsWith
<1>2. nextId \in Nat \ {0} /\ nextId \notin D /\ NoFuture \notin D
  BY DEF TypeOK, NoFuture
<1>3. /\ \A id \in D : /\ arguments'[id] = arguments[id]
                       /\ arguments[id] \in Values \cup Handles
                       /\ id \in Known(arguments[id])
      /\ \A id \in FutureIds(f) : arguments'[id] = future_offset
      /\ \A id \in NewIds(args) : \E i \in DOMAIN args :
           /\ Known(args[i]) = {} /\ id = IdIn(args, args[i])
           /\ id \in nextId + 1 .. nextId + Len(args)
           /\ arguments'[id] = args[i]
  <2>1. arguments' = ArgumentsWith(f, args)
    BY DEF Register
  <2>2. \A id \in D : arguments[id] \in Values \cup Handles /\ id \in Known(arguments[id])
    BY DEF TypeOK, Known
  <2> DEFINE after == ArgumentsWith(f, args)
  <2>4. /\ \A id \in D : after[id] = arguments[id]
        /\ \A id \in FutureIds(f) : after[id] = future_offset
        /\ \A id \in NewIds(args) : \E i \in DOMAIN args :
             /\ Known(args[i]) = {} /\ id = IdIn(args, args[i])
             /\ id \in nextId + 1 .. nextId + Len(args)
             /\ after[id] = args[i]
    <3>1. /\ DOMAIN after = D \cup NewIds(args) \cup FutureIds(f)
          /\ \A id \in D : after[id] = arguments[id]
          /\ \A id \in FutureIds(f) :
               /\ id = nextId /\ id \notin D
               /\ after[id] = future_offset
          /\ \A id \in NewIds(args) : \E i \in DOMAIN args :
               /\ Known(args[i]) = {}
               /\ id = IdIn(args, args[i])
               /\ id \in nextId + 1 .. nextId + Len(args)
               /\ id \notin D
               /\ after[id] = args[i]
      BY ArgumentsWithFacts
    <3> HIDE DEF after
    <3> QED BY <3>1
  <2>5. after = arguments'
    BY <2>1
  <2> HIDE DEF after
  <2> QED BY <2>2, <2>4, <2>5
<1>4. ASSUME NEW i \in DOMAIN args
      PROVE  /\ IdIn(args, args[i]) \in D \cup NewIds(args)
             /\ IdIn(args, args[i]) # nextId
             /\ arguments'[IdIn(args, args[i])] = args[i]
  <2>1. CASE Known(args[i]) # {}
    BY <1>2, <1>3, <2>1, IdInFacts
  <2>2. CASE Known(args[i]) = {}
    <3> DEFINE id == IdIn(args, args[i])
               p  == Place(args, args[i])
    <3>1. id \in NewIds(args)
      BY <2>2 DEF NewIds, New
    <3>2. p \in DOMAIN args /\ args[p] = args[i] /\ id = nextId + p
      BY <2>2, IdInFacts
    <3>3. p \in Nat \ {0} /\ Len(args) \in Nat
      BY <3>2, ArgsAreSeq
    <3>4. PICK j \in DOMAIN args : /\ Known(args[j]) = {} /\ id = IdIn(args, args[j])
                                   /\ arguments'[id] = args[j]
      <4> HIDE DEF id
      <4> QED BY <1>3, <3>1
    <3>5. Place(args, args[j]) = p
      <4>1. id = nextId + Place(args, args[j]) /\ Place(args, args[j]) \in DOMAIN args
        BY <3>4, IdInFacts
      <4>2. Place(args, args[j]) \in Nat
        BY <4>1, ArgsAreSeq
      <4> HIDE DEF id, p
      <4> QED BY <1>2, <3>2, <3>3, <4>1, <4>2
    <3>6. args[j] = args[i]
      BY <3>2, <3>4, <3>5, IdInFacts
    <3>7. id # nextId
      <4> HIDE DEF id, p
      <4> QED BY <1>2, <3>2, <3>3
    <3> HIDE DEF id, p
    <3> QED BY <3>1, <3>4, <3>6, <3>7 DEF id
  <2> QED BY <2>1, <2>2
<1> HIDE DEF D
<1> QED BY <1>1, <1>2, <1>3, <1>4 DEF D

\* A call's step.
LEMMA RegisterInductive ==
  ASSUME Inductive, NEW f \in Functions,
         NEW args \in [DOMAIN Params[f] -> Values \cup Handles],
         Register(f, args)
  PROVE  Inductive'
<1> DEFINE task == TaskOf(f, args)
           D == DOMAIN arguments
<1>0. TypeOK /\ OneIdPerValue /\ FuturesArePending
  BY DEF Inductive
<1>1. /\ tasks' = Append(tasks, task)
      /\ arguments' = ArgumentsWith(f, args)
      /\ futures' = futures \cup FutureIds(f)
      /\ nextId' = IF f \in Returns \/ New(args) # {} THEN nextId + Len(args) + 1 ELSE nextId
      /\ future_offset' = IF f \in Returns THEN future_offset + 1 ELSE future_offset
      /\ outputs' = outputs /\ status' = status /\ written' = written
  BY DEF Register, TaskOf
<1>2. /\ nextId \in Nat \ {0} /\ future_offset \in Nat /\ Len(args) \in Nat
      /\ D \subseteq 1 .. nextId - 1
      /\ 0 \notin D /\ nextId \notin D
  BY <1>0, ArgsAreSeq DEF TypeOK
<1>3. DOMAIN arguments' = D \cup NewIds(args) \cup FutureIds(f)
  BY <1>1 DEF ArgumentsWith
<1>4. /\ \A id \in FutureIds(f) : f \in Returns /\ id = nextId
      /\ f \in Returns => FutureIds(f) = {nextId}
      /\ f \notin Returns => FutureIds(f) = {}
  BY DEF FutureIds
<1>5. Handles \subseteq Handles'
  BY <1>1, <1>2 DEF Handles
<1>9. /\ \A id \in D : /\ arguments'[id] = arguments[id]
                       /\ arguments[id] \in Values \cup Handles
                       /\ id \in Known(arguments[id])
      /\ \A id \in FutureIds(f) : arguments'[id] = future_offset
      /\ \A id \in NewIds(args) : \E i \in DOMAIN args :
           /\ Known(args[i]) = {} /\ id = IdIn(args, args[i])
           /\ id \in nextId + 1 .. nextId + Len(args)
           /\ arguments'[id] = args[i]
  BY <1>0, RegisterIds
<1>6. TypeOK'
  <2>1. nextId' \in Nat \ {0} /\ future_offset' \in Nat
    BY <1>1, <1>2
  <2>2. \A id \in NewIds(args) : New(args) # {} /\ id \in nextId + 1 .. nextId + Len(args)
    BY <1>9 DEF NewIds
  <2>3. DOMAIN arguments' \subseteq 1 .. nextId' - 1
    BY <1>1, <1>2, <1>3, <1>4, <2>2
  <2>4. \A id \in DOMAIN arguments' : arguments'[id] \in Values \cup Handles'
    <3> TAKE id \in DOMAIN arguments'
    <3>1. CASE id \in D
      BY <3>1, <1>5, <1>9
    <3>2. CASE id \in FutureIds(f)
      <4>1. arguments'[id] = future_offset /\ future_offset' = future_offset + 1
        BY <3>2, <1>1, <1>4, <1>9
      <4> QED BY <4>1, <1>2 DEF Handles
    <3>3. CASE id \in NewIds(args)
      BY <3>3, <1>5, <1>9
    <3> QED BY <1>3, <3>1, <3>2, <3>3
  <2> DEFINE Task(ids) == [function : Functions, arguments : Seq(ids),
                           future : ids \cup {NoFuture}]
  <2>5. tasks' \in Seq(Task(DOMAIN arguments'))
    <3>1. tasks \in Seq(Task(D))
      BY <1>0 DEF TypeOK
    <3>2. \A s \in Seq(D) : s \in Seq(DOMAIN arguments')
      BY <1>3, SeqMonotone
    <3>3. Task(D) \subseteq Task(DOMAIN arguments')
      BY <1>3, <3>2
    <3>4. tasks \in Seq(Task(DOMAIN arguments'))
      BY <3>1, <3>3, SeqMonotone
    <3>5. task.arguments \in Seq(DOMAIN arguments')
      BY <1>1, IdInRegistered DEF TaskOf
    <3>6. task.future \in DOMAIN arguments' \cup {NoFuture}
      BY <1>3, <1>4 DEF TaskOf
    <3>7. task \in Task(DOMAIN arguments')
      BY <3>5, <3>6 DEF TaskOf
    <3> HIDE DEF task, Task
    <3> QED BY <1>1, <3>4, <3>7
  <2>6. \A k \in DOMAIN tasks' :
          DOMAIN tasks'[k].arguments = DOMAIN Params[tasks'[k].function]
    <3>1. DOMAIN task.arguments = DOMAIN Params[task.function]
      BY ArgsAreSeq DEF TaskOf
    <3> HIDE DEF task
    <3>2. \A k \in DOMAIN tasks' :
            tasks'[k] = task \/ (k \in DOMAIN tasks /\ tasks'[k] = tasks[k])
      BY <1>0, RegisterTasks DEF task
    <3>3. \A k \in DOMAIN tasks :
            DOMAIN tasks[k].arguments = DOMAIN Params[tasks[k].function]
      BY <1>0, TaskFacts
    <3>4. ASSUME NEW k \in DOMAIN tasks'
          PROVE  DOMAIN tasks'[k].arguments = DOMAIN Params[tasks'[k].function]
      <4>1. CASE tasks'[k] = task
        BY <3>1, <4>1
      <4>2. CASE k \in DOMAIN tasks /\ tasks'[k] = tasks[k]
        BY <3>3, <4>2
      <4> QED BY <3>2, <4>1, <4>2
    <3> QED BY <3>4
  <2>7. futures' \subseteq DOMAIN arguments' /\ DOMAIN outputs' \subseteq DOMAIN arguments'
    BY <1>0, <1>1, <1>3 DEF TypeOK
  <2>8. /\ \A id \in DOMAIN outputs' : outputs'[id] \in Locations
        /\ status' \in {"running", "panicked", "crashed"}
        /\ written' \subseteq Locations \X (Values \cup Handles')
    BY <1>0, <1>1, <1>5 DEF TypeOK
  <2> QED BY <2>1, <2>3, <2>4, <2>5, <2>6, <2>7, <2>8 DEF TypeOK
<1>7. OneIdPerValue'
  <2> SUFFICES ASSUME NEW id \in DOMAIN arguments', NEW other \in DOMAIN arguments',
                      arguments'[id] = arguments'[other]
               PROVE  id = other
    BY DEF OneIdPerValue
  <2>4. future_offset \notin Values \cup Handles
    BY <1>2, ClientAssumption DEF Handles
  <2>5. \A k \in NewIds(args) : arguments'[k] \in Values \cup Handles
    BY <1>9
  <2>6. CASE id \in D
    <3>1. CASE other \in D
      BY <1>0, <1>9, <2>6, <3>1 DEF OneIdPerValue
    <3>2. CASE other \in FutureIds(f)
      BY <1>9, <2>4, <2>6, <3>2
    <3>3. CASE other \in NewIds(args)
      BY <1>9, <2>6, <3>3
    <3> QED BY <1>3, <3>1, <3>2, <3>3
  <2>7. CASE id \in FutureIds(f)
    BY <1>3, <1>4, <1>9, <2>4, <2>5, <2>7
  <2>8. CASE id \in NewIds(args)
    <3>1. CASE other \in D
      BY <1>9, <2>8, <3>1
    <3>2. CASE other \in FutureIds(f)
      BY <1>9, <2>4, <2>5, <2>8, <3>2
    <3>3. CASE other \in NewIds(args)
      BY <1>9, <2>8, <3>3
    <3> QED BY <1>3, <3>1, <3>2, <3>3
  <2> QED BY <1>3, <2>6, <2>7, <2>8
<1>8. FuturesArePending'
  <2>1. \A k \in DOMAIN tasks : tasks[k].future \in D \cup {NoFuture}
    BY <1>0, TaskFacts
  <2>2. task.future = IF f \in Returns THEN nextId ELSE NoFuture
    BY DEF TaskOf
  <2> HIDE DEF task
  <2>3. /\ DOMAIN tasks' = DOMAIN tasks \cup {Len(tasks) + 1}
        /\ \A k \in DOMAIN tasks : tasks'[k] = tasks[k]
        /\ tasks'[Len(tasks) + 1] = task
    BY <1>0, RegisterTasks DEF task
  <2>4. futures' = {tasks'[k].future : k \in DOMAIN tasks'} \ {NoFuture}
    <3>1. {task.future} \ {NoFuture} = FutureIds(f)
      BY <1>2, <2>2 DEF FutureIds, NoFuture
    <3>2. {tasks'[k].future : k \in DOMAIN tasks'} =
            {tasks[k].future : k \in DOMAIN tasks} \cup {task.future}
      BY <2>3
    <3> QED BY <1>0, <1>1, <3>1, <3>2 DEF FuturesArePending
  <2>5. ASSUME NEW j \in DOMAIN tasks', NEW k \in DOMAIN tasks',
               tasks'[j].future = tasks'[k].future, tasks'[j].future # NoFuture
        PROVE  j = k
    <3>1. task.future # NoFuture => task.future \notin D
      BY <1>2, <2>2
    <3> QED BY <1>0, <2>1, <2>3, <2>5, <3>1 DEF FuturesArePending
  <2> QED BY <2>4, <2>5 DEF FuturesArePending
<1> QED BY <1>6, <1>7, <1>8 DEF Inductive

\* An emitted value's step.
LEMMA RegisterOutputInductive ==
  ASSUME Inductive, NEW location \in Locations, NEW bytes \in Values \cup Handles,
         RegisterOutput(location, bytes)
  PROVE  Inductive'
<1> DEFINE id == IF Known(bytes) # {} THEN CHOOSE k \in Known(bytes) : TRUE ELSE nextId
           D  == DOMAIN arguments
<1> USE DEF Inductive
<1>1. /\ arguments' = [k \in D \cup {id} |-> IF k = id THEN bytes ELSE arguments[k]]
      /\ outputs' = [k \in DOMAIN outputs \cup {id} |-> IF k = id THEN location ELSE outputs[k]]
      /\ nextId' = IF id = nextId THEN nextId + 1 ELSE nextId
      /\ tasks' = tasks /\ futures' = futures /\ future_offset' = future_offset
      /\ status' = status /\ written' = written
  BY DEF RegisterOutput
<1>2. /\ nextId \in Nat \ {0} /\ D \subseteq 1 .. nextId - 1 /\ nextId \notin D
      /\ \A k \in D : arguments[k] \in Values \cup Handles
  BY DEF TypeOK
<1>3. \/ id \in D /\ arguments[id] = bytes
      \/ id = nextId /\ \A k \in D : arguments[k] # bytes
  <2>1. CASE Known(bytes) # {}
    <3>1. id \in Known(bytes)
      BY <2>1
    <3> QED BY <3>1 DEF Known
  <2>2. CASE Known(bytes) = {}
    BY <2>2 DEF Known
  <2> QED BY <2>1, <2>2
<1> HIDE DEF id
<1>4. /\ D \subseteq DOMAIN arguments'
      /\ DOMAIN arguments' = D \cup {id}
      /\ \A k \in D : arguments'[k] = arguments[k]
      /\ arguments'[id] = bytes
  BY <1>1, <1>2, <1>3
<1>5. Handles' = Handles
  BY <1>1 DEF Handles
<1>6. TypeOK'
  <2>1. /\ nextId' \in Nat \ {0} /\ future_offset' \in Nat
        /\ DOMAIN arguments' \subseteq 1 .. nextId' - 1
    BY <1>1, <1>2, <1>3, <1>4 DEF TypeOK
  <2>2. \A k \in DOMAIN arguments' : arguments'[k] \in Values \cup Handles'
    BY <1>2, <1>4, <1>5
  <2>3. tasks' \in Seq([function : Functions, arguments : Seq(DOMAIN arguments'),
                        future : DOMAIN arguments' \cup {NoFuture}])
    <3> DEFINE Task(ids) == [function : Functions, arguments : Seq(ids),
                             future : ids \cup {NoFuture}]
    <3>1. tasks \in Seq(Task(D))
      BY DEF TypeOK
    <3>2. \A s \in Seq(D) : s \in Seq(DOMAIN arguments')
      BY <1>4, SeqMonotone
    <3>3. Task(D) \subseteq Task(DOMAIN arguments')
      BY <1>4, <3>2
    <3>4. tasks \in Seq(Task(DOMAIN arguments'))
      BY <3>1, <3>3, SeqMonotone
    <3> QED BY <1>1, <3>4
  <2>4. \A k \in DOMAIN tasks' :
          DOMAIN tasks'[k].arguments = DOMAIN Params[tasks'[k].function]
    BY <1>1 DEF TypeOK
  <2>5. futures' \subseteq DOMAIN arguments' /\ DOMAIN outputs' \subseteq DOMAIN arguments'
    BY <1>1, <1>4 DEF TypeOK
  <2>6. /\ \A k \in DOMAIN outputs' : outputs'[k] \in Locations
        /\ status' \in {"running", "panicked", "crashed"}
        /\ written' \subseteq Locations \X (Values \cup Handles')
    BY <1>1, <1>5 DEF TypeOK
  <2> QED BY <2>1, <2>2, <2>3, <2>4, <2>5, <2>6 DEF TypeOK
<1>7. OneIdPerValue'
  BY <1>3, <1>4 DEF OneIdPerValue
<1>8. FuturesArePending'
  BY <1>1 DEF FuturesArePending
<1> QED BY <1>6, <1>7, <1>8

\* An execution's step, also one that dies.
LEMMA ExecuteInductive == Inductive /\ (Execute \/ ExecuteDies) => Inductive'
<1> SUFFICES ASSUME Inductive, Execute \/ ExecuteDies PROVE Inductive'
  OBVIOUS
<1>1. CASE Execute
  <2>1. /\ tasks' = <<>> /\ futures' = {} /\ outputs' = <<>>
        /\ arguments' = arguments /\ nextId' = nextId /\ future_offset' = future_offset
        /\ status' = status
        /\ written' = {<<outputs[id], arguments[id]>> : id \in DOMAIN outputs}
    BY <1>1 DEF Execute
  <2>2. Handles' = Handles
    BY <2>1 DEF Handles
  <2>3. written' \subseteq Locations \X (Values \cup Handles')
    BY <2>1, <2>2 DEF Inductive, TypeOK
  <2>4. TypeOK'
    BY <2>1, <2>2, <2>3 DEF Inductive, TypeOK
  <2>5. OneIdPerValue' /\ FuturesArePending'
    BY <2>1 DEF Inductive, OneIdPerValue, FuturesArePending
  <2> QED BY <2>4, <2>5 DEF Inductive
<1>2. CASE ExecuteDies
  <2>1. /\ UNCHANGED <<tasks, arguments, futures, outputs, nextId, future_offset, written>>
        /\ status' \in {"panicked", "crashed"}
    BY <1>2 DEF ExecuteDies
  <2>2. Handles' = Handles
    BY <2>1 DEF Handles
  <2> QED BY <2>1, <2>2 DEF Inductive, TypeOK, OneIdPerValue, FuturesArePending
<1> QED BY <1>1, <1>2

\* The inductive invariant holds in every behaviour.
THEOREM InductiveInvariant == Spec => []Inductive
<1>1. Init => Inductive
  BY InitInductive
<1>2. Inductive /\ [Next]_vars => Inductive'
  <2> SUFFICES ASSUME Inductive, [Next]_vars PROVE Inductive'
    OBVIOUS
  <2>1. CASE UNCHANGED vars
    <3>1. Handles' = Handles
      BY <2>1 DEF vars, Handles
    <3> QED BY <2>1, <3>1 DEF vars, Inductive, TypeOK, OneIdPerValue, FuturesArePending
  <2>2. ASSUME NEW f \in Functions, NEW args \in [DOMAIN Params[f] -> Values \cup Handles],
               Register(f, args)
        PROVE  Inductive'
    BY <2>2, RegisterInductive
  <2>3. ASSUME NEW location \in Locations, NEW bytes \in Values \cup Handles,
               RegisterOutput(location, bytes)
        PROVE  Inductive'
    BY <2>3, RegisterOutputInductive
  <2>4. CASE Execute \/ ExecuteDies
    BY <2>4, ExecuteInductive
  <2> QED BY <2>1, <2>2, <2>3, <2>4 DEF Next
<1> QED BY <1>1, <1>2, PTL DEF Spec

\* The variables have their types, whatever the client registers.
THEOREM TypeCorrect == Spec => []TypeOK
<1>1. Inductive => TypeOK
  BY DEF Inductive
<1> QED BY <1>1, InductiveInvariant, PTL

\* Equal bytes have one id for ever, of handles too, for any client.
THEOREM OneId == Spec => []OneIdPerValue
<1>1. Inductive => OneIdPerValue
  BY DEF Inductive
<1> QED BY <1>1, InductiveInvariant, PTL

\* The futures are those of the registered calls.
THEOREM NoStaleFuture == Spec => []FuturesArePending
<1>1. Inductive => FuturesArePending
  BY DEF Inductive
<1> QED BY <1>1, InductiveInvariant, PTL

-----------------------------------------------------------------------------
(***************************************************************************)
(* TaskManager implements DeferredCalls.                                   *)
(***************************************************************************)

AllRules == {"handles", "kinds", "emits"}

\* A handle among the arguments is that of a task before, so that it is never
\* split; the bytes of a future are a handle; every output has a buffer.
HandlesWait ==
  \A k \in DOMAIN tasks : \A i \in DOMAIN tasks[k].arguments :
    arguments[tasks[k].arguments[i]] \in Nat =>
      \E j \in 1 .. k - 1 : tasks[j].future = tasks[k].arguments[i]

FuturesAreHandles == \A id \in futures : arguments[id] \in Nat

RulesInductive == Inductive /\ HandlesWait /\ FuturesAreHandles /\ Buffered

-----------------------------------------------------------------------------

LEMMA LeastNat ==
  ASSUME NEW T, T \subseteq Nat, T # {}
  PROVE  \E m \in T : \A n \in T : m <= n
<1> DEFINE R == {ss \in Nat \X Nat : ss[1] < ss[2]}
<1>1. IsWellFoundedOn(R, Nat)
  BY NatLessThanWellFounded DEF OpToRel
<1>2. \E m \in T : \A n \in T : ~ (<<n, m>> \in R)
  <2> HIDE DEF R
  <2> QED BY <1>1, WFMin
<1>3. PICK m \in T : \A n \in T : ~ (<<n, m>> \in R)
  BY <1>2
<1>4. ASSUME NEW n \in T PROVE m <= n
  <2>1. n \in Nat /\ m \in Nat
    OBVIOUS
  <2>2. n < m => <<n, m>> \in R
    BY <2>1
  <2> HIDE DEF R
  <2>3. ~ (n < m)
    BY <1>3, <2>2
  <2> QED BY <2>1, <2>3
<1> QED BY <1>4

\* Of any uses of an id, one is the first.
LEMMA FirstOfUses ==
  ASSUME NEW U, U \subseteq Nat \X Nat, U # {}
  PROVE  \E use \in U : \A other \in U : NotAfter(use, other)
<1> DEFINE Ks == {use[1] : use \in U}
<1>1. PICK k \in Ks : \A n \in Ks : k <= n
  <2>1. Ks \subseteq Nat /\ Ks # {}
    OBVIOUS
  <2> HIDE DEF Ks
  <2> QED BY <2>1, LeastNat
<1> DEFINE Is == {use[2] : use \in {v \in U : v[1] = k}}
<1>2. PICK i \in Is : \A n \in Is : i <= n
  <2>1. Is \subseteq Nat /\ Is # {}
    OBVIOUS
  <2> HIDE DEF Is
  <2> QED BY <2>1, LeastNat
<1>3. PICK use \in U : use[1] = k /\ use[2] = i
  OBVIOUS
<1>4. ASSUME NEW other \in U PROVE NotAfter(use, other)
  <2>1. k \in Nat /\ i \in Nat /\ other[1] \in Nat /\ other[2] \in Nat
    BY <1>3
  <2>2. k <= other[1]
    BY <1>1
  <2>3. other[1] = k => i <= other[2]
    BY <1>2
  <2> QED BY <1>3, <2>1, <2>2, <2>3 DEF NotAfter
<1> QED BY <1>4

\* The uses of an id, told by place.
LEMMA UsesFacts ==
  ASSUME TypeOK, NEW id
  PROVE  /\ Uses(id) \subseteq Nat \X Nat
         /\ \A use \in Uses(id) :
              /\ use[1] \in DOMAIN tasks /\ use[2] \in DOMAIN tasks[use[1]].arguments
              /\ tasks[use[1]].arguments[use[2]] = id
              /\ use = <<use[1], use[2]>>
         /\ \A k \in DOMAIN tasks : \A i \in DOMAIN tasks[k].arguments :
              tasks[k].arguments[i] = id => <<k, i>> \in Uses(id)
<1>1. \A k \in DOMAIN tasks : k \in Nat /\ DOMAIN tasks[k].arguments \subseteq Nat
  BY TaskFacts
<1> QED BY <1>1 DEF Uses

-----------------------------------------------------------------------------
(***************************************************************************)
(* A call.                                                                 *)
(***************************************************************************)

\* The uses of an id after a call: those before, and those of the call.
LEMMA UsesAfterRegister ==
  ASSUME Inductive, NEW f \in Functions,
         NEW args \in [DOMAIN Params[f] -> Values \cup Handles],
         Register(f, args), NEW id
  PROVE  /\ Uses(id) \subseteq Uses(id)'
         /\ Uses(id)' \subseteq Nat \X Nat
         /\ \A use \in Uses(id)' :
              \/ use \in Uses(id)
              \/ /\ use[1] = Len(tasks) + 1 /\ use[2] \in DOMAIN args
                 /\ IdIn(args, args[use[2]]) = id
         /\ \A i \in DOMAIN args :
              IdIn(args, args[i]) = id => <<Len(tasks) + 1, i>> \in Uses(id)'
         /\ \A use \in Uses(id) : Kind(use)' = Kind(use)
         /\ \A use : use[1] = Len(tasks) + 1 => Kind(use)' = Params[f][use[2]]
<1>0. PICK n : n = Len(tasks) + 1
  OBVIOUS
<1>1. TypeOK /\ TypeOK'
  BY RegisterInductive DEF Inductive
<1>2. /\ DOMAIN tasks' = DOMAIN tasks \cup {n} /\ n \notin DOMAIN tasks
      /\ \A k \in DOMAIN tasks : tasks'[k] = tasks[k]
      /\ tasks'[n] = TaskOf(f, args)
  BY <1>0, <1>1, RegisterTasks
<1>3. /\ Len(tasks) \in Nat /\ DOMAIN tasks = 1 .. Len(tasks)
      /\ \A k \in DOMAIN tasks : DOMAIN tasks[k].arguments \subseteq Nat
  BY <1>1, TaskFacts
<1>4. /\ DOMAIN tasks'[n].arguments = DOMAIN args /\ DOMAIN args \subseteq Nat
      /\ \A i \in DOMAIN args : tasks'[n].arguments[i] = IdIn(args, args[i])
      /\ tasks'[n].function = f
  BY <1>2, ArgsAreSeq DEF TaskOf
<1>5. Uses(id)' = {use \in (DOMAIN tasks') \X (UNION {DOMAIN tasks'[k].arguments : k \in DOMAIN tasks'}) :
               /\ use[2] \in DOMAIN tasks'[use[1]].arguments
               /\ tasks'[use[1]].arguments[use[2]] = id}
  BY DEF Uses
<1>6. Uses(id) \subseteq Uses(id)'
  BY <1>2, <1>5 DEF Uses
<1>7. Uses(id)' \subseteq Nat \X Nat
  BY <1>0, <1>2, <1>3, <1>4, <1>5
<1>8. ASSUME NEW use \in Uses(id)'
      PROVE  \/ use \in Uses(id)
             \/ use[1] = n /\ use[2] \in DOMAIN args /\ IdIn(args, args[use[2]]) = id
  <2>1. use[1] = n \/ use[1] \in DOMAIN tasks
    BY <1>2, <1>5
  <2>2. CASE use[1] = n
    BY <1>4, <1>5, <2>2
  <2>3. CASE use[1] \in DOMAIN tasks
    <3>1. use = <<use[1], use[2]>> /\ tasks'[use[1]] = tasks[use[1]]
      BY <1>2, <1>5, <2>3
    <3>2. use[2] \in DOMAIN tasks[use[1]].arguments /\ tasks[use[1]].arguments[use[2]] = id
      BY <1>5, <3>1
    <3> QED BY <1>1, <2>3, <3>1, <3>2, UsesFacts
  <2> QED BY <2>1, <2>2, <2>3
<1>9. \A i \in DOMAIN args : IdIn(args, args[i]) = id => <<n, i>> \in Uses(id)'
  BY <1>2, <1>4, <1>5
<1>10. ASSUME NEW use \in Uses(id) PROVE Kind(use)' = Kind(use)
  <2>1. tasks'[use[1]] = tasks[use[1]]
    BY <1>1, <1>2, UsesFacts
  <2> QED BY <2>1 DEF Kind
<1>11. \A use : use[1] = n => Kind(use)' = Params[f][use[2]]
  BY <1>4 DEF Kind
<1> QED BY <1>0, <1>6, <1>7, <1>8, <1>9, <1>10, <1>11

\* A call changes nothing for the calls before it.
LEMMA ReceivesBefore ==
  ASSUME Inductive, NEW f \in Functions,
         NEW args \in [DOMAIN Params[f] -> Values \cup Handles],
         Register(f, args),
         NEW k \in DOMAIN tasks, NEW id, NEW i \in DOMAIN tasks[k].arguments,
         id = tasks[k].arguments[i]
  PROVE  Receives(k, id)' = Receives(k, id)
<1>1. TypeOK
  BY DEF Inductive
<1>2. /\ k \in Nat /\ k <= Len(tasks) /\ Len(tasks) \in Nat
      /\ i \in Nat /\ id \in DOMAIN arguments
      /\ DOMAIN tasks = 1 .. Len(tasks)
  BY <1>1, TaskFacts
<1>3. <<k, i>> \in Uses(id)
  BY <1>1, UsesFacts
<1>4. /\ Uses(id) \subseteq Uses(id)'
      /\ Uses(id)' \subseteq Nat \X Nat
      /\ \A use \in Uses(id)' : use \in Uses(id) \/ use[1] = Len(tasks) + 1
      /\ \A use \in Uses(id) : Kind(use)' = Kind(use)
  BY UsesAfterRegister
<1>5. \A use \in Uses(id) : use[1] \in Nat /\ use[1] <= Len(tasks)
  BY <1>1, <1>2, UsesFacts
<1>6. FirstUses(id)' = {use \in Uses(id)' : \A other \in Uses(id)' : NotAfter(use, other)}
  BY DEF FirstUses, NotAfter
<1>7. ASSUME NEW use \in FirstUses(id) PROVE use \in FirstUses(id)'
  <2>1. use \in Uses(id) /\ \A other \in Uses(id) : NotAfter(use, other)
    BY DEF FirstUses
  <2>2. \A other \in Uses(id)' : other[1] = Len(tasks) + 1 => NotAfter(use, other)
    BY <1>2, <1>5, <2>1 DEF NotAfter
  <2> QED BY <1>4, <1>6, <2>1, <2>2
<1>8. ASSUME NEW use \in FirstUses(id)' PROVE use \in FirstUses(id)
  <2>1. use \in Uses(id)' /\ \A other \in Uses(id)' : NotAfter(use, other)
    BY <1>6
  <2>2. NotAfter(use, <<k, i>>)
    BY <1>3, <1>4, <2>1
  <2>3. use[1] # Len(tasks) + 1
    BY <1>2, <2>2 DEF NotAfter
  <2>4. use \in Uses(id)
    BY <1>4, <2>1, <2>3
  <2> QED BY <1>4, <2>1, <2>4 DEF FirstUses
<1>9. FirstUses(id)' = FirstUses(id)
  BY <1>7, <1>8
<1>10. id \in futures' <=> id \in futures
  BY <1>1, <1>2, RegisterIds DEF Register, FutureIds
<1>11. id \in Inputs /\ id \in Inputs'
  <2>1. id \in DOMAIN arguments'
    BY <1>1, <1>2, RegisterIds
  <2>2. Uses(id) # {} /\ Uses(id)' # {}
    BY <1>3, <1>4
  <2> QED BY <1>2, <2>1, <2>2 DEF Inputs
<1>12. id \in Split' <=> id \in Split
  <2>1. \A use \in FirstUses(id) : Kind(use)' = Kind(use)
    BY <1>4 DEF FirstUses
  <2>2. id \in Split' <=> id \in Inputs' \ futures' /\ \E use \in FirstUses(id)' : Kind(use)' = "split"
    BY DEF Split
  <2>3. id \in Split <=> id \in Inputs \ futures /\ \E use \in FirstUses(id) : Kind(use) = "split"
    BY DEF Split
  <2> QED BY <1>9, <1>10, <1>11, <2>1, <2>2, <2>3
<1>13. arguments'[id] = arguments[id]
  BY <1>1, <1>2, RegisterIds
<1>14. \A j \in 1 .. k - 1 : tasks'[j] = tasks[j]
  BY <1>1, <1>2, RegisterTasks
<1>15. (\E j \in 1 .. k - 1 : tasks'[j].future = id) <=> (\E j \in 1 .. k - 1 : tasks[j].future = id)
  BY <1>14
<1>16. Receives(k, id)' =
         IF \E j \in 1 .. k - 1 : tasks'[j].future = id THEN <<"result", arguments'[id]>>
         ELSE IF id \in Split' THEN <<"pieces", arguments'[id]>>
         ELSE <<"whole", arguments'[id]>>
  BY DEF Receives
<1> QED BY <1>12, <1>13, <1>15, <1>16 DEF Receives

\* A call that keeps the rules receives what it is given.
LEMMA ReceivesOwn ==
  ASSUME RulesInductive, Rules = AllRules, NEW f \in Functions,
         NEW args \in [DOMAIN Params[f] -> Values \cup Handles],
         Register(f, args),
         NEW n, n = Len(tasks) + 1, NEW id, NEW i \in DOMAIN args,
         id = IdIn(args, args[i])
  PROVE  Receives(n, id)' = Promise!Means(f, i, args[i])
<1>1. TypeOK /\ Inductive /\ OneIdPerValue /\ FuturesArePending /\ FuturesAreHandles
  BY DEF RulesInductive, Inductive
<1>2. /\ arguments'[id] = args[i] /\ id # nextId /\ id # NoFuture
      /\ id \in DOMAIN arguments \cup NewIds(args)
      /\ DOMAIN arguments' = DOMAIN arguments \cup NewIds(args) \cup FutureIds(f)
      /\ \A k \in DOMAIN arguments : arguments'[k] = arguments[k]
      /\ nextId \notin DOMAIN arguments
  <2>1. \A k \in NewIds(args) : k \in nextId + 1 .. nextId + Len(args)
    BY <1>1, RegisterIds
  <2>2. NoFuture \notin NewIds(args)
    <3>1. nextId \in Nat \ {0} /\ Len(args) \in Nat
      BY <1>1, ArgsAreSeq DEF TypeOK
    <3> QED BY <2>1, <3>1 DEF NoFuture
  <2>3. /\ DOMAIN arguments' = DOMAIN arguments \cup NewIds(args) \cup FutureIds(f)
        /\ nextId \notin DOMAIN arguments /\ NoFuture \notin DOMAIN arguments
        /\ \A k \in DOMAIN arguments : arguments'[k] = arguments[k]
    BY <1>1, RegisterIds
  <2>4. /\ IdIn(args, args[i]) \in DOMAIN arguments \cup NewIds(args)
        /\ IdIn(args, args[i]) # nextId
        /\ arguments'[IdIn(args, args[i])] = args[i]
    BY <1>1, RegisterIds
  <2> QED BY <2>2, <2>3, <2>4
<1>3. /\ Len(tasks) \in Nat /\ DOMAIN tasks = 1 .. Len(tasks) /\ 1 .. n - 1 = DOMAIN tasks
      /\ \A j \in DOMAIN tasks : tasks'[j] = tasks[j]
  BY <1>1, TaskFacts, RegisterTasks
<1>4. /\ \A j \in DOMAIN args : KeepsHandles(args[j])
      /\ KeepsKinds(f, args)
      /\ futures' = futures \cup FutureIds(f)
  BY DEF Register
<1>5. Receives(n, id)' =
        IF \E j \in 1 .. n - 1 : tasks'[j].future = id THEN <<"result", arguments'[id]>>
        ELSE IF id \in Split' THEN <<"pieces", arguments'[id]>>
        ELSE <<"whole", arguments'[id]>>
  BY DEF Receives
<1>6. CASE args[i] \in Nat
  <2>1. PICK j \in DOMAIN tasks : tasks[j].future # NoFuture /\ arguments[tasks[j].future] = args[i]
    BY <1>4, <1>6 DEF KeepsHandles, AllRules
  <2>2. tasks[j].future \in DOMAIN arguments
    BY <1>1, <2>1, TaskFacts
  <2>3. id \in DOMAIN arguments /\ arguments[id] = args[i]
    <3>1. Known(args[i]) # {}
      BY <2>1, <2>2 DEF Known
    <3> QED BY <3>1, IdInFacts
  <2>4. tasks[j].future = id
    BY <1>1, <2>1, <2>2, <2>3 DEF OneIdPerValue
  <2>5. Receives(n, id)' = <<"result", args[i]>>
    BY <1>2, <1>3, <1>5, <2>1, <2>4
  <2> QED BY <1>6, <2>5 DEF Promise!Means
<1>7. CASE args[i] \in Values
  <2>0. args[i] \notin Nat
    BY <1>7, ClientAssumption
  <2>1. id \notin futures
    <3>1. id \in futures => id \in DOMAIN arguments /\ arguments[id] \in Nat
      BY <1>1 DEF TypeOK, FuturesAreHandles
    <3> QED BY <1>2, <2>0, <3>1
  <2>2. ~ \E j \in 1 .. n - 1 : tasks'[j].future = id
    <3>1. \A j \in DOMAIN tasks : tasks[j].future = id => id \in futures
      BY <1>1, <1>2 DEF FuturesArePending
    <3> QED BY <1>3, <2>1, <3>1
  <2>3. id \notin futures'
    BY <1>2, <1>4, <2>1 DEF FutureIds
  <2>4. /\ Uses(id)' \subseteq Nat \X Nat /\ <<n, i>> \in Uses(id)'
        /\ \A use \in Uses(id)' :
             \/ use \in Uses(id)
             \/ /\ use[1] = n /\ use[2] \in DOMAIN args
                /\ IdIn(args, args[use[2]]) = id
        /\ \A use \in Uses(id) : Kind(use)' = Kind(use)
        /\ \A use : use[1] = n => Kind(use)' = Params[f][use[2]]
    BY <1>1, UsesAfterRegister
  <2>5. ASSUME NEW use \in Uses(id)' PROVE Kind(use)' = Params[f][i]
    <3>1. /\ \A j \in DOMAIN args : args[j] = args[i] => Params[f][j] = Params[f][i]
          /\ \A k \in Known(args[i]) : \A other \in Uses(k) : Kind(other) = Params[f][i]
      BY <1>4, <1>7 DEF KeepsKinds, AllRules
    <3>2. CASE use \in Uses(id)
      <4>1. id \in DOMAIN arguments
        BY <1>1, <3>2, UsesFacts, TaskFacts
      <4>2. id \in Known(args[i])
        BY <1>2, <4>1 DEF Known
      <4> QED BY <2>4, <3>1, <3>2, <4>2
    <3>3. CASE use[1] = n /\ use[2] \in DOMAIN args /\ IdIn(args, args[use[2]]) = id
      <4>1. args[use[2]] = args[i]
        BY <1>1, <1>2, <3>3, RegisterIds
      <4> QED BY <2>4, <3>1, <3>3, <4>1
    <3> QED BY <2>4, <3>2, <3>3
  <2>6. PICK first \in Uses(id)' : \A other \in Uses(id)' : NotAfter(first, other)
    BY <2>4, FirstOfUses
  <2>7. FirstUses(id)' = {use \in Uses(id)' : \A other \in Uses(id)' : NotAfter(use, other)}
    BY DEF FirstUses, NotAfter
  <2>8. id \in Split' <=> id \in Inputs' \ futures' /\ \E use \in FirstUses(id)' : Kind(use)' = "split"
    BY DEF Split
  <2>9. id \in Inputs'
    BY <1>2, <2>4 DEF Inputs
  <2>10. id \in Split' <=> Params[f][i] = "split"
    BY <2>3, <2>5, <2>6, <2>7, <2>8, <2>9
  <2> QED BY <1>2, <1>5, <2>0, <2>2, <2>10 DEF Promise!Means
<1> QED BY <1>6, <1>7 DEF Handles

\* What is promised of the registered calls, and of the outputs.
Pending == [k \in DOMAIN tasks |->
             [function  |-> tasks[k].function,
              arguments |-> [i \in DOMAIN tasks[k].arguments |->
                              Receives(k, tasks[k].arguments[i])],
              handle    |-> IF tasks[k].future = NoFuture THEN {}
                            ELSE {arguments[tasks[k].future]}]]

Emitted == {<<outputs[id], arguments[id]>> : id \in DOMAIN outputs}

\* The handles that stand for the result of a call.
LEMMA Standing ==
  ASSUME NEW value, Rules = AllRules, KeepsHandles(value)
  PROVE  Promise!Stands(value)
<1> SUFFICES ASSUME value \in Nat
             PROVE  \E k \in DOMAIN Pending : value \in Pending[k].handle
  BY DEF Promise!Stands, Pending
<1>1. PICK k \in DOMAIN tasks : tasks[k].future # NoFuture /\ arguments[tasks[k].future] = value
  BY DEF KeepsHandles, AllRules
<1>2. k \in DOMAIN Pending /\ Pending[k].handle = {value}
  BY <1>1 DEF Pending
<1> QED BY <1>2

LEMMA AppendByPlace ==
  ASSUME NEW S, NEW s \in Seq(S), NEW e
  PROVE  Append(s, e) = [k \in 1 .. Len(s) + 1 |-> IF k <= Len(s) THEN s[k] ELSE e]
<1> DEFINE T == S \cup {e}
           a == Append(s, e)
<1>1. s \in Seq(T)
  BY SeqMonotone
<1>2. /\ a \in Seq(T) /\ Len(a) = Len(s) + 1
      /\ \A k \in 1 .. Len(s) : a[k] = s[k]
      /\ a[Len(s) + 1] = e
  <2> HIDE DEF T
  <2>1. e \in T
    BY DEF T
  <2> QED BY <1>1, <2>1, AppendProperties
<1>3. Len(s) \in Nat
  OBVIOUS
<1> HIDE DEF a, T
<1>4. a = [k \in 1 .. Len(a) |-> a[k]]
  BY <1>2
<1>5. \A k \in 1 .. Len(s) + 1 : a[k] = IF k <= Len(s) THEN s[k] ELSE e
  BY <1>2, <1>3
<1> QED BY <1>2, <1>4, <1>5 DEF a

\* The calls after a call: those before, and the new.
LEMMA PendingAfterRegister ==
  ASSUME RulesInductive, Rules = AllRules, NEW f \in Functions,
         NEW args \in [DOMAIN Params[f] -> Values \cup Handles],
         Register(f, args)
  PROVE  Pending' = Append(Pending,
           [function  |-> f,
            arguments |-> [i \in DOMAIN args |-> Promise!Means(f, i, args[i])],
            handle    |-> IF f \in Returns THEN {future_offset} ELSE {}])
<1> DEFINE call == [function  |-> f,
                    arguments |-> [i \in DOMAIN args |-> Promise!Means(f, i, args[i])],
                    handle    |-> IF f \in Returns THEN {future_offset} ELSE {}]
<1>0. PICK n : n = Len(tasks) + 1
  OBVIOUS
<1>1. Inductive /\ TypeOK
  BY DEF RulesInductive, Inductive
<1>2. /\ DOMAIN tasks' = DOMAIN tasks \cup {n} /\ n \notin DOMAIN tasks
      /\ \A k \in DOMAIN tasks : tasks'[k] = tasks[k]
      /\ tasks'[n] = TaskOf(f, args)
  BY <1>0, <1>1, RegisterTasks
<1>3. /\ Len(tasks) \in Nat /\ DOMAIN tasks = 1 .. Len(tasks)
      /\ \A k \in DOMAIN tasks : tasks[k].future \in DOMAIN arguments \cup {NoFuture}
  BY <1>1, TaskFacts
<1> DEFINE Entry(k) == [function  |-> tasks'[k].function,
                        arguments |-> [i \in DOMAIN tasks'[k].arguments |->
                                        Receives(k, tasks[k].arguments[i])'],
                        handle    |-> IF tasks'[k].future = NoFuture THEN {}
                                      ELSE {arguments'[tasks'[k].future]}]
<1>4. Pending' = [k \in DOMAIN tasks' |-> Entry(k)]
  BY DEF Pending
<1>5. ASSUME NEW k \in DOMAIN tasks PROVE Entry(k) = Pending[k]
  <2>1. tasks'[k] = tasks[k]
    BY <1>2
  <2>2. ASSUME NEW i \in DOMAIN tasks[k].arguments
        PROVE  Receives(k, tasks[k].arguments[i])' = Receives(k, tasks[k].arguments[i])
    <3>1. PICK id : id = tasks[k].arguments[i]
      OBVIOUS
    <3>2. Receives(k, id)' = Receives(k, id)
      BY <1>1, <3>1, ReceivesBefore
    <3>3. (tasks[k].arguments[i])' = id
      BY <2>1, <3>1
    <3>4. Receives(k, tasks[k].arguments[i])' = Receives(k, id)'
      BY <3>3 DEF Receives
    <3> QED BY <3>1, <3>2, <3>4
  <2>3. tasks[k].future # NoFuture => arguments'[tasks[k].future] = arguments[tasks[k].future]
    BY <1>1, <1>3, RegisterIds
  <2> QED BY <2>1, <2>2, <2>3 DEF Pending
<1>6. Entry(n) = call
  <2>1. /\ tasks'[n].function = f /\ DOMAIN tasks'[n].arguments = DOMAIN args
        /\ \A i \in DOMAIN args : tasks'[n].arguments[i] = IdIn(args, args[i])
        /\ tasks'[n].future = IF f \in Returns THEN nextId ELSE NoFuture
    BY <1>2 DEF TaskOf
  <2>2. ASSUME NEW i \in DOMAIN args
        PROVE  Receives(n, tasks[n].arguments[i])' = Promise!Means(f, i, args[i])
    <3>1. PICK id : id = IdIn(args, args[i])
      OBVIOUS
    <3>2. Receives(n, id)' = Promise!Means(f, i, args[i])
      BY <1>0, <3>1, ReceivesOwn
    <3>3. (tasks[n].arguments[i])' = id
      BY <2>1, <3>1
    <3>4. Receives(n, tasks[n].arguments[i])' = Receives(n, id)'
      BY <3>3 DEF Receives
    <3> QED BY <3>2, <3>4
  <2>3. f \in Returns => /\ nextId # NoFuture /\ nextId \in FutureIds(f)
                         /\ arguments'[nextId] = future_offset
    BY <1>1, RegisterIds DEF FutureIds, TypeOK, NoFuture
  <2>4. (IF tasks'[n].future = NoFuture THEN {} ELSE {arguments'[tasks'[n].future]})
          = (IF f \in Returns THEN {future_offset} ELSE {})
    BY <2>1, <2>3
  <2>5. [i \in DOMAIN tasks'[n].arguments |-> Receives(n, tasks[n].arguments[i])']
          = [i \in DOMAIN args |-> Promise!Means(f, i, args[i])]
    BY <2>1, <2>2
  <2> QED BY <2>1, <2>4, <2>5
<1> HIDE DEF Entry, call
<1>7. /\ Pending \in Seq({Pending[k] : k \in DOMAIN tasks})
      /\ Len(Pending) = Len(tasks) /\ DOMAIN Pending = DOMAIN tasks
  <2>1. DOMAIN Pending = 1 .. Len(tasks)
    BY <1>3 DEF Pending
  <2>2. Pending \in [1 .. Len(tasks) -> {Pending[k] : k \in DOMAIN tasks}]
    BY <1>3, <2>1 DEF Pending
  <2> QED BY <1>3, <2>1, <2>2
<1>8. Pending' = [k \in 1 .. Len(Pending) + 1 |-> IF k <= Len(Pending) THEN Pending[k] ELSE call]
  <2>1. DOMAIN tasks' = 1 .. Len(Pending) + 1
    BY <1>0, <1>2, <1>3, <1>7
  <2>2. ASSUME NEW k \in 1 .. Len(Pending) + 1
        PROVE  Entry(k) = IF k <= Len(Pending) THEN Pending[k] ELSE call
    BY <1>0, <1>3, <1>5, <1>6, <1>7
  <2> QED BY <1>4, <2>1, <2>2
<1>9. Pending' = Append(Pending, call)
  BY <1>7, <1>8, AppendByPlace
<1> QED BY <1>9 DEF call

\* A call whose handles stand for waiting calls comes after these.
LEMMA RegisterKeepsHandles ==
  ASSUME Inductive, HandlesWait, "handles" \in Rules, NEW f \in Functions,
         NEW args \in [DOMAIN Params[f] -> Values \cup Handles],
         Register(f, args)
  PROVE  HandlesWait'
<1>0. PICK n : n = Len(tasks) + 1
  OBVIOUS
<1>1. TypeOK /\ OneIdPerValue
  BY DEF Inductive
<1>2. /\ DOMAIN tasks' = DOMAIN tasks \cup {n}
      /\ \A k \in DOMAIN tasks : tasks'[k] = tasks[k]
      /\ tasks'[n] = TaskOf(f, args)
  BY <1>0, <1>1, RegisterTasks
<1>3. /\ Len(tasks) \in Nat /\ DOMAIN tasks = 1 .. Len(tasks) /\ 1 .. n - 1 = DOMAIN tasks
      /\ \A k \in DOMAIN tasks :
           /\ tasks[k].future \in DOMAIN arguments \cup {NoFuture}
           /\ \A i \in DOMAIN tasks[k].arguments : tasks[k].arguments[i] \in DOMAIN arguments
  BY <1>0, <1>1, TaskFacts
<1>4. /\ \A id \in DOMAIN arguments : arguments'[id] = arguments[id]
      /\ \A i \in DOMAIN args : arguments'[IdIn(args, args[i])] = args[i]
  BY <1>1, RegisterIds
<1>5. \A i \in DOMAIN args : KeepsHandles(args[i])
  BY DEF Register
<1> SUFFICES ASSUME NEW k \in DOMAIN tasks', NEW i \in DOMAIN tasks'[k].arguments,
                    arguments'[tasks'[k].arguments[i]] \in Nat
             PROVE  \E j \in 1 .. k - 1 : tasks'[j].future = tasks'[k].arguments[i]
  BY DEF HandlesWait
<1>6. CASE k \in DOMAIN tasks
  <2>1. /\ tasks'[k] = tasks[k] /\ \A j \in 1 .. k - 1 : tasks'[j] = tasks[j]
        /\ arguments[tasks[k].arguments[i]] \in Nat
    BY <1>2, <1>3, <1>4, <1>6
  <2> QED BY <1>6, <2>1 DEF HandlesWait
<1>7. CASE k = n
  <2>1. i \in DOMAIN args /\ tasks'[k].arguments[i] = IdIn(args, args[i])
    BY <1>2, <1>7 DEF TaskOf
  <2>2. args[i] \in Nat
    BY <1>4, <2>1
  <2>3. PICK j \in DOMAIN tasks : tasks[j].future # NoFuture /\ arguments[tasks[j].future] = args[i]
    BY <1>5, <2>1, <2>2 DEF KeepsHandles
  <2>4. tasks[j].future \in DOMAIN arguments
    BY <1>3, <2>3
  <2>5. Known(args[i]) # {}
    BY <2>3, <2>4 DEF Known
  <2>6. IdIn(args, args[i]) = tasks[j].future
    BY <1>1, <2>1, <2>3, <2>4, <2>5, IdInFacts DEF OneIdPerValue
  <2> QED BY <1>2, <1>3, <1>7, <2>1, <2>3, <2>6
<1> QED BY <1>2, <1>6, <1>7

LEMMA RegisterKeepsRules ==
  ASSUME RulesInductive, Rules = AllRules, NEW f \in Functions,
         NEW args \in [DOMAIN Params[f] -> Values \cup Handles],
         Register(f, args)
  PROVE  RulesInductive'
<1>1. /\ Inductive /\ TypeOK
      /\ HandlesWait /\ FuturesAreHandles /\ Buffered
  BY DEF RulesInductive, Inductive
<1>2. /\ \A id \in DOMAIN arguments : arguments'[id] = arguments[id]
      /\ DOMAIN arguments \subseteq DOMAIN arguments'
      /\ \A id \in FutureIds(f) : arguments'[id] = future_offset
  BY <1>1, RegisterIds
<1>3. futures' = futures \cup FutureIds(f) /\ outputs' = outputs
  BY DEF Register
<1>4. HandlesWait'
  BY <1>1, RegisterKeepsHandles DEF AllRules
<1>5. FuturesAreHandles'
  <2>1. futures \subseteq DOMAIN arguments /\ future_offset \in Nat
    BY <1>1 DEF TypeOK
  <2> QED BY <1>1, <1>2, <1>3, <2>1 DEF FuturesAreHandles
<1>6. Buffered'
  <2>1. \A id \in Inputs : id \in Inputs'
    <3> TAKE id \in Inputs
    <3>1. Uses(id) \subseteq Uses(id)'
      BY <1>1, UsesAfterRegister
    <3> QED BY <1>2, <3>1 DEF Inputs
  <2> QED BY <1>1, <1>3, <2>1 DEF Buffered
<1>7. Inductive'
  BY <1>1, RegisterInductive
<1> QED BY <1>4, <1>5, <1>6, <1>7 DEF RulesInductive

LEMMA RegisterImplements ==
  ASSUME RulesInductive, Rules = AllRules, NEW f \in Functions,
         NEW args \in [DOMAIN Params[f] -> Values \cup Handles],
         Register(f, args)
  PROVE  Promise!Next
<1>1. TypeOK
  BY DEF RulesInductive, Inductive
<1>2. /\ status = "running" /\ status' = status /\ written' = written
      /\ outputs' = outputs
      /\ future_offset' = IF f \in Returns THEN future_offset + 1 ELSE future_offset
      /\ \A i \in DOMAIN args : KeepsHandles(args[i])
  BY DEF Register
<1>3. \A i \in DOMAIN args : Promise!Stands(args[i])
  BY <1>2, Standing
<1>4. Emitted' = Emitted
  <2>1. \A id \in DOMAIN outputs : arguments'[id] = arguments[id]
    BY <1>1, RegisterIds DEF TypeOK
  <2> QED BY <1>2, <2>1 DEF Emitted
<1>5. Promise!Call(f, args)
  BY <1>2, <1>3, <1>4, PendingAfterRegister DEF Promise!Call, Pending, Emitted
<1> QED BY <1>5 DEF Promise!Next, Handles

-----------------------------------------------------------------------------
(***************************************************************************)
(* An emitted value.                                                       *)
(***************************************************************************)

LEMMA RegisterOutputEffect ==
  ASSUME RulesInductive, Rules = AllRules,
         NEW location \in Locations, NEW bytes \in Values \cup Handles,
         RegisterOutput(location, bytes)
  PROVE  /\ DOMAIN arguments' = DOMAIN arguments
         /\ \A id \in DOMAIN arguments : arguments'[id] = arguments[id]
         /\ tasks' = tasks /\ futures' = futures /\ future_offset' = future_offset
         /\ status' = status /\ written' = written
         /\ \E id \in Inputs \cup futures :
              /\ id \in DOMAIN arguments /\ arguments[id] = bytes
              /\ DOMAIN outputs' = DOMAIN outputs \cup {id}
              /\ outputs'[id] = location
              /\ \A k \in DOMAIN outputs : outputs'[k] = outputs[k]
<1>1. TypeOK /\ OneIdPerValue
  BY DEF RulesInductive, Inductive
<1>2. /\ KeepsEmits(location, bytes)
      /\ tasks' = tasks /\ futures' = futures /\ future_offset' = future_offset
      /\ status' = status /\ written' = written
  BY DEF RegisterOutput
<1>3. PICK id \in Known(bytes) : id \in Inputs \cup futures
  BY <1>2 DEF KeepsEmits, AllRules
<1>4. id \in DOMAIN arguments /\ arguments[id] = bytes
  BY <1>3 DEF Known
<1>5. id = IF Known(bytes) # {} THEN CHOOSE k \in Known(bytes) : TRUE ELSE nextId
  BY <1>1, <1>3, <1>4 DEF OneIdPerValue, Known
<1>6. /\ arguments' = [k \in DOMAIN arguments \cup {id} |-> IF k = id THEN bytes ELSE arguments[k]]
      /\ outputs' = [k \in DOMAIN outputs \cup {id} |-> IF k = id THEN location ELSE outputs[k]]
  BY <1>5 DEF RegisterOutput
<1>7. \A k \in DOMAIN outputs : (outputs[k] = location) <=> (arguments[k] = bytes)
  BY <1>2 DEF KeepsEmits, AllRules
<1>8. \A k \in DOMAIN outputs : outputs'[k] = outputs[k]
  BY <1>4, <1>6, <1>7
<1> QED BY <1>2, <1>3, <1>4, <1>6, <1>8

LEMMA RegisterOutputKeepsRules ==
  ASSUME RulesInductive, Rules = AllRules,
         NEW location \in Locations, NEW bytes \in Values \cup Handles,
         RegisterOutput(location, bytes)
  PROVE  RulesInductive'
<1>1. /\ Inductive /\ TypeOK /\ HandlesWait /\ FuturesAreHandles /\ Buffered
  BY DEF RulesInductive, Inductive
<1>2. /\ DOMAIN arguments' = DOMAIN arguments
      /\ \A id \in DOMAIN arguments : arguments'[id] = arguments[id]
      /\ tasks' = tasks /\ futures' = futures
      /\ \E id \in Inputs \cup futures : DOMAIN outputs' = DOMAIN outputs \cup {id}
  BY RegisterOutputEffect
<1>3. \A k \in DOMAIN tasks : \A i \in DOMAIN tasks[k].arguments :
        tasks[k].arguments[i] \in DOMAIN arguments
  BY <1>1, TaskFacts
<1>4. HandlesWait'
  BY <1>1, <1>2, <1>3 DEF HandlesWait
<1>5. FuturesAreHandles'
  BY <1>1, <1>2 DEF FuturesAreHandles, TypeOK
<1>6. Buffered'
  <2>1. Inputs' = Inputs
    BY <1>2 DEF Inputs, Uses
  <2> QED BY <1>1, <1>2, <2>1 DEF Buffered
<1>7. Inductive'
  BY <1>1, RegisterOutputInductive
<1> QED BY <1>4, <1>5, <1>6, <1>7 DEF RulesInductive

LEMMA RegisterOutputImplements ==
  ASSUME RulesInductive, Rules = AllRules,
         NEW location \in Locations, NEW bytes \in Values \cup Handles,
         RegisterOutput(location, bytes)
  PROVE  Promise!Next
<1>1. TypeOK
  BY DEF RulesInductive, Inductive
<1>2. /\ DOMAIN arguments' = DOMAIN arguments
      /\ \A id \in DOMAIN arguments : arguments'[id] = arguments[id]
      /\ tasks' = tasks /\ futures' = futures /\ future_offset' = future_offset
      /\ status' = status /\ written' = written
  BY RegisterOutputEffect
<1>3. PICK id \in DOMAIN arguments :
        /\ arguments[id] = bytes
        /\ DOMAIN outputs' = DOMAIN outputs \cup {id}
        /\ outputs'[id] = location
        /\ \A k \in DOMAIN outputs : outputs'[k] = outputs[k]
  BY RegisterOutputEffect
<1>4. Emitted' = Emitted \cup {<<location, bytes>>}
  <2>1. \A k \in DOMAIN outputs : arguments'[k] = arguments[k] /\ outputs'[k] = outputs[k]
    BY <1>1, <1>2, <1>3 DEF TypeOK
  <2>2. arguments'[id] = bytes
    BY <1>2, <1>3
  <2>3. Emitted' = {<<outputs'[k], arguments'[k]>> : k \in DOMAIN outputs \cup {id}}
    BY <1>3 DEF Emitted
  <2> QED BY <1>3, <2>1, <2>2, <2>3 DEF Emitted
<1>5. Pending' = Pending
  <2>1. Split' = Split
    BY <1>2 DEF Split, Inputs, FirstUses, Uses, NotAfter, Kind
  <2>2. ASSUME NEW k \in DOMAIN tasks, NEW i \in DOMAIN tasks[k].arguments
        PROVE  Receives(k, tasks[k].arguments[i])' = Receives(k, tasks[k].arguments[i])
    <3>1. tasks[k].arguments[i] \in DOMAIN arguments
      BY <1>1, TaskFacts
    <3> QED BY <1>2, <2>1, <3>1 DEF Receives
  <2>3. \A k \in DOMAIN tasks : tasks[k].future # NoFuture =>
          arguments'[tasks[k].future] = arguments[tasks[k].future]
    BY <1>1, <1>2, TaskFacts
  <2> DEFINE Ids(k) == [i \in DOMAIN tasks'[k].arguments |-> Receives(k, tasks[k].arguments[i])']
             Handle(k) == IF tasks'[k].future = NoFuture THEN {}
                          ELSE {arguments'[tasks'[k].future]}
  <2>4. Pending' = [k \in DOMAIN tasks' |->
                     [function |-> tasks'[k].function, arguments |-> Ids(k), handle |-> Handle(k)]]
    BY DEF Pending
  <2>5. \A k \in DOMAIN tasks :
          /\ Ids(k) = [i \in DOMAIN tasks[k].arguments |-> Receives(k, tasks[k].arguments[i])]
          /\ Handle(k) = IF tasks[k].future = NoFuture THEN {}
                         ELSE {arguments[tasks[k].future]}
    BY <1>2, <2>2, <2>3
  <2> HIDE DEF Ids, Handle
  <2> QED BY <1>2, <2>4, <2>5 DEF Pending
<1>6. Promise!Emit(location, bytes)
  <2>1. status = "running" /\ KeepsHandles(bytes)
    BY DEF RegisterOutput
  <2>2. Promise!Stands(bytes)
    BY <2>1, Standing
  <2> QED BY <1>2, <1>4, <1>5, <2>1, <2>2 DEF Promise!Emit, Pending, Emitted
<1> QED BY <1>6 DEF Promise!Next, Handles

-----------------------------------------------------------------------------
(***************************************************************************)
(* An execution.                                                           *)
(***************************************************************************)

\* What is split are values, those of which calls are promised the pieces.
LEMMA PiecesAreOfSplit ==
  ASSUME RulesInductive
  PROVE  /\ \A id \in Split : arguments[id] \in Values
         /\ Promise!Pieces = {arguments[id] : id \in Split}
<1>1. /\ TypeOK /\ HandlesWait /\ FuturesArePending
  BY DEF RulesInductive, Inductive
<1>2. /\ Len(tasks) \in Nat /\ DOMAIN tasks = 1 .. Len(tasks)
      /\ \A k \in DOMAIN tasks : \A i \in DOMAIN tasks[k].arguments :
           tasks[k].arguments[i] \in DOMAIN arguments
      /\ NoFuture \notin DOMAIN arguments
  <2>1. NoFuture \notin DOMAIN arguments
    BY <1>1 DEF TypeOK, NoFuture
  <2> QED BY <1>1, <2>1, TaskFacts
<1>3. \A k \in DOMAIN tasks : tasks[k].future # NoFuture => tasks[k].future \in futures
  BY <1>1 DEF FuturesArePending
<1>4. ASSUME NEW id \in Split
      PROVE  /\ id \in DOMAIN arguments /\ id \notin futures
             /\ arguments[id] \in Values
             /\ \E k \in DOMAIN tasks : \E i \in DOMAIN tasks[k].arguments :
                  /\ tasks[k].arguments[i] = id
                  /\ Receives(k, id) = <<"pieces", arguments[id]>>
  <2>1. id \in DOMAIN arguments /\ id \notin futures /\ Uses(id) # {}
    BY DEF Split, Inputs
  <2>2. PICK k \in DOMAIN tasks : \E i \in DOMAIN tasks[k].arguments : tasks[k].arguments[i] = id
    BY <1>1, <2>1, UsesFacts
  <2>3. \A j \in 1 .. k - 1 : tasks[j].future # id
    BY <1>2, <1>3, <2>1
  <2>4. arguments[id] \notin Nat
    BY <1>1, <2>2, <2>3 DEF HandlesWait
  <2>5. arguments[id] \in Values
    BY <1>1, <2>1, <2>4 DEF TypeOK, Handles
  <2>6. Receives(k, id) = <<"pieces", arguments[id]>>
    BY <2>3 DEF Receives
  <2> QED BY <2>1, <2>2, <2>5, <2>6
<1>5. /\ DOMAIN Pending = DOMAIN tasks
      /\ \A k \in DOMAIN tasks :
           Pending[k].arguments = [i \in DOMAIN tasks[k].arguments |-> Receives(k, tasks[k].arguments[i])]
  BY DEF Pending
<1>6. Promise!Pieces = {w \in Values :
        \E k \in DOMAIN Pending : \E i \in DOMAIN Pending[k].arguments :
          Pending[k].arguments[i] = <<"pieces", w>>}
  BY DEF Promise!Pieces, Pending
<1>7. ASSUME NEW w \in Values, NEW k \in DOMAIN tasks, NEW i \in DOMAIN tasks[k].arguments,
             Receives(k, tasks[k].arguments[i]) = <<"pieces", w>>
      PROVE  tasks[k].arguments[i] \in Split /\ arguments[tasks[k].arguments[i]] = w
  BY <1>7 DEF Receives
<1>8. {w \in Values : \E k \in DOMAIN Pending : \E i \in DOMAIN Pending[k].arguments :
                        Pending[k].arguments[i] = <<"pieces", w>>}
        = {arguments[id] : id \in Split}
  <2>1. ASSUME NEW w \in Values, NEW k \in DOMAIN Pending, NEW i \in DOMAIN Pending[k].arguments,
               Pending[k].arguments[i] = <<"pieces", w>>
        PROVE  w \in {arguments[id] : id \in Split}
    <3>1. k \in DOMAIN tasks
      BY <1>5
    <3>2. /\ Pending[k].arguments = [j \in DOMAIN tasks[k].arguments |-> Receives(k, tasks[k].arguments[j])]
          /\ i \in DOMAIN tasks[k].arguments
      BY <1>5, <3>1
    <3>3. Receives(k, tasks[k].arguments[i]) = <<"pieces", w>>
      BY <2>1, <3>2
    <3>4. tasks[k].arguments[i] \in Split /\ arguments[tasks[k].arguments[i]] = w
      BY <1>7, <3>1, <3>2, <3>3
    <3> QED BY <3>4
  <2>2. ASSUME NEW id \in Split
        PROVE  /\ arguments[id] \in Values
               /\ \E k \in DOMAIN Pending : \E i \in DOMAIN Pending[k].arguments :
                    Pending[k].arguments[i] = <<"pieces", arguments[id]>>
    <3>1. PICK k \in DOMAIN tasks : \E i \in DOMAIN tasks[k].arguments :
            /\ tasks[k].arguments[i] = id
            /\ Receives(k, id) = <<"pieces", arguments[id]>>
      BY <1>4
    <3>2. PICK i \in DOMAIN tasks[k].arguments :
            /\ tasks[k].arguments[i] = id
            /\ Receives(k, id) = <<"pieces", arguments[id]>>
      BY <3>1
    <3>3. /\ Pending[k].arguments = [j \in DOMAIN tasks[k].arguments |-> Receives(k, tasks[k].arguments[j])]
          /\ k \in DOMAIN Pending
      BY <1>5
    <3>4. i \in DOMAIN Pending[k].arguments /\ Pending[k].arguments[i] = <<"pieces", arguments[id]>>
      BY <3>2, <3>3
    <3> QED BY <1>4, <3>3, <3>4
  <2> QED BY <2>1, <2>2
<1> QED BY <1>4, <1>6, <1>8

LEMMA ExecuteImplements ==
  RulesInductive /\ (Execute \/ ExecuteDies) => Promise!Next /\ RulesInductive'
<1> SUFFICES ASSUME RulesInductive, Execute \/ ExecuteDies
             PROVE  Promise!Next /\ RulesInductive'
  OBVIOUS
<1>1. Inductive /\ TypeOK /\ HandlesWait /\ FuturesAreHandles /\ Buffered
  BY DEF RulesInductive, Inductive
<1>2. /\ \A id \in Split : arguments[id] \in Values
      /\ Promise!Pieces = {arguments[id] : id \in Split}
  BY PiecesAreOfSplit
<1>3. ~ Crashes
  BY <1>2 DEF Crashes
<1>4. Counted <=> Promise!Counted
  <2> DEFINE counts == {Elements[w] : w \in Promise!Pieces}
  <2>1. counts = {Elements[arguments[id]] : id \in Split}
    BY <1>2
  <2>2. ASSUME Counted PROVE \E v \in Values : counts = {Elements[v]}
    <3>1. PICK id \in Split : \A other \in Split : Elements[arguments[other]] = Elements[arguments[id]]
      BY <2>2 DEF Counted
    <3>2. counts = {Elements[arguments[id]]}
      BY <2>1, <3>1
    <3> QED BY <1>2, <3>2
  <2>3. ASSUME NEW v \in Values, counts = {Elements[v]} PROVE Counted
    <3>1. \A id \in Split : Elements[arguments[id]] = Elements[v]
      BY <2>1, <2>3
    <3>2. Split # {}
      BY <2>1, <2>3
    <3> QED BY <3>1, <3>2 DEF Counted
  <2>4. Promise!Counted <=> \E v \in Values : counts = {Elements[v]}
    BY DEF Promise!Counted
  <2> QED BY <2>2, <2>3, <2>4
<1>5. Starved <=> Promise!Starved
  <2>1. DOMAIN outputs # {} <=> Emitted # {}
    BY DEF Emitted
  <2>2. (\E id \in Split : arguments[id] \in Scarce) <=> Promise!Pieces \cap Scarce # {}
    BY <1>2
  <2> QED BY <2>1, <2>2 DEF Starved, Promise!Starved, Emitted
<1>6. Pending # <<>>
  <2>1. tasks # <<>> /\ Len(tasks) \in Nat /\ DOMAIN tasks = 1 .. Len(tasks)
    BY <1>1, TaskFacts DEF Execute, ExecuteDies
  <2>2. tasks \in Seq([function : Functions, arguments : Seq(DOMAIN arguments),
                       future : DOMAIN arguments \cup {NoFuture}])
    BY <1>1 DEF TypeOK
  <2>3. Len(tasks) # 0
    BY <2>1, <2>2, EmptySeq
  <2>4. 1 \in DOMAIN Pending
    BY <2>1, <2>3 DEF Pending
  <2> QED BY <2>4
<1>7. Inductive'
  BY <1>1, ExecuteInductive
<1>8. CASE Execute
  <2>1. /\ status = "running" /\ status' = status
        /\ Counted /\ ~ Starved
        /\ written' = Emitted
        /\ tasks' = <<>> /\ futures' = {} /\ outputs' = <<>>
        /\ arguments' = arguments /\ future_offset' = future_offset
    BY <1>8 DEF Execute, Emitted
  <2>2. Emitted' = {}
    BY <2>1 DEF Emitted
  <2>3. Pending' = <<>>
    <3>1. DOMAIN tasks' = {}
      BY <2>1
    <3> QED BY <3>1 DEF Pending
  <2>4. Promise!Execute
    BY <1>4, <1>5, <1>6, <2>1, <2>2, <2>3 DEF Promise!Execute, Pending, Emitted
  <2>5. RulesInductive'
    <3>1. DOMAIN tasks' = {} /\ DOMAIN outputs' = {} /\ futures' = {}
      BY <2>1
    <3> QED BY <1>7, <3>1 DEF RulesInductive, HandlesWait, FuturesAreHandles, Buffered
  <2> QED BY <2>4, <2>5 DEF Promise!Next
<1>9. CASE ExecuteDies
  <2>1. /\ status = "running" /\ status' # "running"
        /\ ~ Counted \/ Starved
        /\ UNCHANGED <<tasks, arguments, futures, outputs, nextId, future_offset, written>>
    BY <1>1, <1>3, <1>9 DEF ExecuteDies
  <2>2. Pending' = Pending
    BY <2>1 DEF Pending, Receives, Split, Inputs, FirstUses, Uses, NotAfter, Kind
  <2>3. Emitted' = Emitted
    BY <2>1 DEF Emitted
  <2>4. Promise!Die
    BY <1>4, <1>5, <1>6, <2>1, <2>2, <2>3 DEF Promise!Die, Pending, Emitted
  <2>5. RulesInductive'
    BY <1>1, <1>7, <2>1 DEF RulesInductive, HandlesWait, FuturesAreHandles, Buffered, Inputs, Uses
  <2> QED BY <2>4, <2>5 DEF Promise!Next
<1> QED BY <1>8, <1>9

-----------------------------------------------------------------------------

LEMMA InitImplements == Init => RulesInductive /\ Promise!Init
<1> SUFFICES ASSUME Init PROVE RulesInductive /\ Promise!Init
  OBVIOUS
<1>1. DOMAIN tasks = {} /\ DOMAIN outputs = {} /\ futures = {}
  BY DEF Init
<1>2. RulesInductive
  BY <1>1, InitInductive DEF RulesInductive, HandlesWait, FuturesAreHandles, Buffered
<1>3. Pending = <<>>
  BY <1>1 DEF Pending
<1>4. Emitted = {}
  BY <1>1 DEF Emitted
<1>5. Promise!Init
  BY <1>3, <1>4 DEF Init, Promise!Init, Pending, Emitted
<1> QED BY <1>2, <1>5

LEMMA StepImplements ==
  ASSUME RulesInductive, Rules = AllRules, [Next]_vars
  PROVE  RulesInductive' /\ [Promise!Next]_(Promise!vars)
<1>1. ASSUME NEW f \in Functions, NEW args \in [DOMAIN Params[f] -> Values \cup Handles],
             Register(f, args)
      PROVE  RulesInductive' /\ Promise!Next
  BY <1>1, RegisterKeepsRules, RegisterImplements
<1>2. ASSUME NEW location \in Locations, NEW bytes \in Values \cup Handles,
             RegisterOutput(location, bytes)
      PROVE  RulesInductive' /\ Promise!Next
  BY <1>2, RegisterOutputKeepsRules, RegisterOutputImplements
<1>3. CASE Execute \/ ExecuteDies
  BY <1>3, ExecuteImplements
<1>4. CASE UNCHANGED vars
  <2>1. Pending' = Pending
    BY <1>4 DEF vars, Pending, Receives, Split, Inputs, FirstUses, Uses, NotAfter, Kind
  <2>2. Emitted' = Emitted
    BY <1>4 DEF vars, Emitted
  <2>3. UNCHANGED Promise!vars
    BY <1>4, <2>1, <2>2 DEF vars, Promise!vars, Pending, Emitted
  <2>4. Inductive'
    <3>1. Handles' = Handles
      BY <1>4 DEF vars, Handles
    <3> QED BY <1>4, <3>1 DEF vars, RulesInductive, Inductive, TypeOK, OneIdPerValue, FuturesArePending
  <2>5. RulesInductive'
    BY <1>4, <2>4 DEF vars, RulesInductive, HandlesWait, FuturesAreHandles, Buffered, Inputs, Uses
  <2> QED BY <2>3, <2>5
<1> QED BY <1>1, <1>2, <1>3, <1>4 DEF Next

\* Every behaviour of the task manager with a client that keeps the rules is
\* one of DeferredCalls: what it keeps of calls and outputs does what was
\* promised of them.
THEOREM TaskManagerImplementsDeferredCalls ==
  ASSUME Rules = AllRules
  PROVE  Spec => Implements
<1>1. Init => RulesInductive /\ Promise!Init
  BY InitImplements
<1>2. RulesInductive /\ [Next]_vars => RulesInductive' /\ [Promise!Next]_(Promise!vars)
  BY StepImplements
<1> QED BY <1>1, <1>2, PTL DEF Spec, Implements, Promise!Spec

-----------------------------------------------------------------------------
(***************************************************************************)
(* What each rule is for: what holds of a client that keeps it, whatever   *)
(* becomes of the others.                                                  *)
(***************************************************************************)

\* The waiting calls never pass a value both to be split and to be broadcast.
KindsAgree ==
  \A k, l \in DOMAIN tasks :
    \A i \in DOMAIN tasks[k].arguments, j \in DOMAIN tasks[l].arguments :
      tasks[k].arguments[i] = tasks[l].arguments[j]
      /\ arguments[tasks[k].arguments[i]] \in Values =>
        Params[tasks[k].function][i] = Params[tasks[l].function][j]

\* An emitted value keeps the tasks and the bytes they refer to.
LEMMA RegisterOutputKeeps ==
  ASSUME TypeOK, NEW location \in Locations, NEW bytes \in Values \cup Handles,
         RegisterOutput(location, bytes)
  PROVE  /\ tasks' = tasks /\ futures' = futures
         /\ DOMAIN arguments \subseteq DOMAIN arguments'
         /\ \A id \in DOMAIN arguments : arguments'[id] = arguments[id]
<1>1. PICK id : /\ Known(bytes) # {} => id \in Known(bytes)
                /\ Known(bytes) = {} => id = nextId
                /\ arguments' = [k \in DOMAIN arguments \cup {id} |->
                                   IF k = id THEN bytes ELSE arguments[k]]
  BY DEF RegisterOutput
<1>2. id \in DOMAIN arguments => arguments[id] = bytes
  BY <1>1 DEF Known, TypeOK
<1> QED BY <1>1, <1>2 DEF RegisterOutput

LEMMA KindsStep ==
  ASSUME Inductive, KindsAgree, "kinds" \in Rules, [Next]_vars
  PROVE  KindsAgree'
<1>0. TypeOK
  BY DEF Inductive
<1>1. ASSUME NEW f \in Functions, NEW args \in [DOMAIN Params[f] -> Values \cup Handles],
             Register(f, args)
      PROVE  KindsAgree'
  <2>0. PICK n : n = Len(tasks) + 1
    OBVIOUS
  <2>1. /\ DOMAIN tasks' = DOMAIN tasks \cup {n} /\ n \notin DOMAIN tasks
        /\ \A k \in DOMAIN tasks : tasks'[k] = tasks[k]
        /\ tasks'[n] = TaskOf(f, args)
    BY <1>0, <1>1, <2>0, RegisterTasks
  <2>2. /\ \A id \in DOMAIN arguments : arguments'[id] = arguments[id]
        /\ \A i \in DOMAIN args : arguments'[IdIn(args, args[i])] = args[i]
    BY <1>0, <1>1, RegisterIds
  <2>3. \A k \in DOMAIN tasks : \A i \in DOMAIN tasks[k].arguments :
          tasks[k].arguments[i] \in DOMAIN arguments
    BY <1>0, TaskFacts
  <2>4. /\ DOMAIN tasks'[n].arguments = DOMAIN args /\ tasks'[n].function = f
        /\ \A i \in DOMAIN args : tasks'[n].arguments[i] = IdIn(args, args[i])
    BY <2>1 DEF TaskOf
  <2>5. KeepsKinds(f, args)
    BY <1>1 DEF Register
  \* An argument of the call and one of a call before it.
  <2>6. ASSUME NEW l \in DOMAIN tasks, NEW j \in DOMAIN tasks[l].arguments,
               NEW i \in DOMAIN args, IdIn(args, args[i]) = tasks[l].arguments[j],
               args[i] \in Values
        PROVE  Params[f][i] = Params[tasks[l].function][j]
    <3> DEFINE id == tasks[l].arguments[j]
    <3>1. id \in Known(args[i])
      <4>1. id \in DOMAIN arguments /\ arguments'[id] = arguments[id] /\ arguments'[id] = args[i]
        BY <2>2, <2>3, <2>6
      <4> QED BY <4>1 DEF Known
    <3>2. <<l, j>> \in Uses(id)
      BY <1>0, UsesFacts
    <3>3. Kind(<<l, j>>) = Params[f][i]
      BY <2>5, <2>6, <3>1, <3>2 DEF KeepsKinds
    <3> QED BY <3>3 DEF Kind
  <2>7. ASSUME NEW i \in DOMAIN args, NEW j \in DOMAIN args,
               IdIn(args, args[i]) = IdIn(args, args[j]), args[i] \in Values
        PROVE  Params[f][i] = Params[f][j]
    <3>1. args[i] = args[j]
      BY <2>2, <2>7
    <3> QED BY <2>5, <2>7, <3>1 DEF KeepsKinds
  <2> SUFFICES ASSUME NEW k \in DOMAIN tasks', NEW l \in DOMAIN tasks',
                      NEW i \in DOMAIN tasks'[k].arguments,
                      NEW j \in DOMAIN tasks'[l].arguments,
                      tasks'[k].arguments[i] = tasks'[l].arguments[j],
                      arguments'[tasks'[k].arguments[i]] \in Values
               PROVE  Params[tasks'[k].function][i] = Params[tasks'[l].function][j]
    BY DEF KindsAgree
  <2>8. CASE k \in DOMAIN tasks /\ l \in DOMAIN tasks
    <3>1. /\ tasks'[k] = tasks[k] /\ tasks'[l] = tasks[l]
          /\ arguments[tasks[k].arguments[i]] \in Values
      BY <2>1, <2>2, <2>3, <2>8
    <3> QED BY <2>8, <3>1 DEF KindsAgree
  <2>9. CASE k = n /\ l \in DOMAIN tasks
    <3>1. i \in DOMAIN args /\ tasks'[l] = tasks[l] /\ args[i] \in Values
      BY <2>1, <2>2, <2>4, <2>9
    <3> QED BY <2>4, <2>6, <2>9, <3>1
  <2>10. CASE k \in DOMAIN tasks /\ l = n
    <3>1. j \in DOMAIN args /\ tasks'[k] = tasks[k] /\ args[j] \in Values
      BY <2>1, <2>2, <2>4, <2>10
    <3> QED BY <2>4, <2>6, <2>10, <3>1
  <2>11. CASE k = n /\ l = n
    <3>1. i \in DOMAIN args /\ j \in DOMAIN args /\ args[i] \in Values
      BY <2>2, <2>4, <2>11
    <3> QED BY <2>4, <2>7, <2>11, <3>1
  <2> QED BY <2>1, <2>8, <2>9, <2>10, <2>11
<1>2. ASSUME NEW location \in Locations, NEW bytes \in Values \cup Handles,
             RegisterOutput(location, bytes)
      PROVE  KindsAgree'
  <2>1. \A k \in DOMAIN tasks : \A i \in DOMAIN tasks[k].arguments :
          tasks[k].arguments[i] \in DOMAIN arguments
    BY <1>0, TaskFacts
  <2> QED BY <1>0, <1>2, <2>1, RegisterOutputKeeps DEF KindsAgree
<1>3. CASE Execute
  BY <1>3 DEF Execute, KindsAgree
<1>4. CASE ExecuteDies \/ UNCHANGED vars
  BY <1>4 DEF ExecuteDies, vars, KindsAgree
<1> QED BY <1>1, <1>2, <1>3, <1>4 DEF Next

LEMMA HandlesWaitStep ==
  ASSUME Inductive, HandlesWait, "handles" \in Rules, [Next]_vars
  PROVE  HandlesWait'
<1>0. TypeOK
  BY DEF Inductive
<1>1. ASSUME NEW f \in Functions, NEW args \in [DOMAIN Params[f] -> Values \cup Handles],
             Register(f, args)
      PROVE  HandlesWait'
  BY <1>1, RegisterKeepsHandles
<1>2. ASSUME NEW location \in Locations, NEW bytes \in Values \cup Handles,
             RegisterOutput(location, bytes)
      PROVE  HandlesWait'
  <2>1. \A k \in DOMAIN tasks : \A i \in DOMAIN tasks[k].arguments :
          tasks[k].arguments[i] \in DOMAIN arguments
    BY <1>0, TaskFacts
  <2> QED BY <1>0, <1>2, <2>1, RegisterOutputKeeps DEF HandlesWait
<1>3. CASE Execute
  BY <1>3 DEF Execute, HandlesWait
<1>4. CASE ExecuteDies \/ UNCHANGED vars
  BY <1>4 DEF ExecuteDies, vars, HandlesWait
<1> QED BY <1>1, <1>2, <1>3, <1>4 DEF Next

LEMMA HandlesAlwaysWait ==
  ASSUME "handles" \in Rules
  PROVE  Spec => []HandlesWait
<1>1. Init => HandlesWait
  BY DEF Init, HandlesWait
<1>2. Inductive /\ HandlesWait /\ [Next]_vars => HandlesWait'
  BY HandlesWaitStep
<1> QED BY <1>1, <1>2, InductiveInvariant, PTL DEF Spec

\* What is split is never the number of a handle, if handles are waited for.
LEMMA SplitsValues ==
  ASSUME Inductive, HandlesWait, NEW id \in Split
  PROVE  arguments[id] \in Values
<1>1. /\ TypeOK /\ id \in DOMAIN arguments /\ id \notin futures /\ Uses(id) # {}
      /\ futures = {tasks[k].future : k \in DOMAIN tasks} \ {NoFuture}
  BY DEF Inductive, FuturesArePending, Split, Inputs
<1>2. PICK use \in Uses(id) : TRUE
  BY <1>1
<1>3. /\ use[1] \in DOMAIN tasks /\ use[2] \in DOMAIN tasks[use[1]].arguments
      /\ tasks[use[1]].arguments[use[2]] = id
  BY <1>1, UsesFacts
<1>4. SUFFICES ASSUME arguments[id] \in Nat PROVE FALSE
  BY <1>1 DEF TypeOK, Handles
<1>5. PICK j \in 1 .. use[1] - 1 : tasks[j].future = id
  BY <1>3, <1>4 DEF HandlesWait
<1>6. j \in DOMAIN tasks /\ id # NoFuture
  BY <1>1, <1>3, <1>5, TaskFacts DEF TypeOK, NoFuture
<1> QED BY <1>1, <1>5, <1>6

\* A client that passes a handle only while its call waits is never crashed by a
\* splitter that takes a handle for a pointer, whatever else it does.
THEOREM NoHandleIsSplit ==
  ASSUME "handles" \in Rules
  PROVE  Spec => [](status # "crashed")
<1>1. Init => status # "crashed"
  BY DEF Init
<1>2. Inductive /\ HandlesWait /\ status # "crashed" /\ [Next]_vars => (status # "crashed")'
  <2> SUFFICES ASSUME Inductive, HandlesWait, status # "crashed", [Next]_vars
               PROVE  status' # "crashed"
    OBVIOUS
  <2>1. ~ Crashes
    BY SplitsValues DEF Crashes
  <2> QED BY <2>1 DEF Next, Register, RegisterOutput, Execute, ExecuteDies, vars
<1> QED BY <1>1, <1>2, InductiveInvariant, HandlesAlwaysWait, PTL DEF Spec

\* If it also passes no value in both ways, a broadcast argument has no splitter:
\* so it is as the comment says for such a client.
THEOREM BroadcastIsKept ==
  ASSUME {"handles", "kinds"} \subseteq Rules
  PROVE  Spec => []BroadcastIsWhole
<1>1. Init => KindsAgree
  BY DEF Init, KindsAgree
<1>2. Inductive /\ KindsAgree /\ [Next]_vars => KindsAgree'
  BY KindsStep
<1>3. Inductive /\ HandlesWait /\ KindsAgree => BroadcastIsWhole
  <2> SUFFICES ASSUME Inductive, HandlesWait, KindsAgree,
                      NEW k \in DOMAIN tasks, NEW i \in DOMAIN tasks[k].arguments,
                      Params[tasks[k].function][i] = "broadcast",
                      tasks[k].arguments[i] \in Split
               PROVE  FALSE
    BY DEF BroadcastIsWhole
  <2>1. arguments[tasks[k].arguments[i]] \in Values
    BY SplitsValues
  <2>2. PICK use \in Uses(tasks[k].arguments[i]) : Kind(use) = "split"
    BY DEF Split, FirstUses
  <2>3. /\ use[1] \in DOMAIN tasks /\ use[2] \in DOMAIN tasks[use[1]].arguments
        /\ tasks[use[1]].arguments[use[2]] = tasks[k].arguments[i]
    BY UsesFacts DEF Inductive
  <2>4. Params[tasks[use[1]].function][use[2]] = "broadcast"
    BY <2>1, <2>3 DEF KindsAgree
  <2> QED BY <2>2, <2>4 DEF Kind
<1>4. Spec => []HandlesWait
  BY HandlesAlwaysWait
<1> QED BY <1>1, <1>2, <1>3, <1>4, InductiveInvariant, PTL DEF Spec

\* The unwrap of an output's buffer never fails for a client that emits only what
\* a waiting call takes or returns.
THEOREM OutputsAreBuffered ==
  ASSUME "emits" \in Rules
  PROVE  Spec => []Buffered
<1>1. Init => Buffered
  BY DEF Init, Buffered
<1>2. ASSUME Inductive, Buffered, [Next]_vars PROVE Buffered'
  <2>0. TypeOK /\ OneIdPerValue
    BY <1>2 DEF Inductive
  <2>1. ASSUME NEW f \in Functions, NEW args \in [DOMAIN Params[f] -> Values \cup Handles],
               Register(f, args)
        PROVE  Buffered'
    <3>1. \A id \in Inputs : id \in Inputs'
      <4> TAKE id \in Inputs
      <4>1. Uses(id) \subseteq Uses(id)'
        BY <1>2, <2>1, UsesAfterRegister
      <4>2. id \in DOMAIN arguments'
        BY <2>0, <2>1, RegisterIds DEF Inputs
      <4> QED BY <4>1, <4>2 DEF Inputs
    <3> QED BY <1>2, <2>1, <3>1 DEF Buffered, Register
  <2>2. ASSUME NEW location \in Locations, NEW bytes \in Values \cup Handles,
               RegisterOutput(location, bytes)
        PROVE  Buffered'
    <3>1. PICK k \in Known(bytes) : k \in Inputs \cup futures
      BY <2>2 DEF RegisterOutput, KeepsEmits
    <3>2. \A id \in Known(bytes) : id = k
      BY <2>0, <3>1 DEF Known, OneIdPerValue
    <3>3. DOMAIN outputs' = DOMAIN outputs \cup {k}
      BY <2>2, <3>1, <3>2 DEF RegisterOutput
    <3>4. /\ tasks' = tasks /\ futures' = futures
          /\ DOMAIN arguments \subseteq DOMAIN arguments'
      BY <2>0, <2>2, RegisterOutputKeeps
    <3>5. Inputs \subseteq Inputs'
      BY <3>4 DEF Inputs, Uses
    <3> QED BY <1>2, <3>1, <3>3, <3>4, <3>5 DEF Buffered
  <2>3. CASE Execute
    BY <2>3 DEF Execute, Buffered
  <2>4. CASE ExecuteDies \/ UNCHANGED vars
    BY <1>2, <2>4 DEF ExecuteDies, vars, Buffered, Inputs, Uses
  <2> QED BY <1>2, <2>1, <2>2, <2>3, <2>4 DEF Next
<1> QED BY <1>1, <1>2, InductiveInvariant, PTL DEF Spec

\* So for such a client, whose handles wait as well, only two things end an
\* execution early: pieces that cannot be counted (tasks.rs:387, 393), and a
\* worker left without a piece of a value that is written back (602).
THEOREM OnlyPiecesKill ==
  ASSUME {"handles", "emits"} \subseteq Rules
  PROVE  Spec => [][status' # status => ~ Counted \/ Starved]_vars
<1>1. ASSUME Inductive, HandlesWait, Buffered, [Next]_vars
      PROVE  [status' # status => ~ Counted \/ Starved]_vars
  <2>1. ~ Crashes
    BY <1>1, SplitsValues DEF Crashes
  <2> QED BY <1>1, <2>1 DEF Next, Register, RegisterOutput, Execute, ExecuteDies, vars
<1>2. Spec => []HandlesWait /\ []Buffered
  BY HandlesAlwaysWait, OutputsAreBuffered
<1> QED BY <1>1, <1>2, InductiveInvariant, PTL DEF Spec

=============================================================================
