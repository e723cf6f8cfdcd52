---------------------------- MODULE DeferredCalls ----------------------------
(***************************************************************************)
(* What a client that registers calls is promised, whatever the runtime    *)
(* keeps of them: the next execution runs the registered calls in their    *)
(* order, each on what it was given - the pieces of a value, a whole value *)
(* or the result of an earlier call - and writes the values that were      *)
(* emitted, and no other, to the locations they were emitted from.  Only a *)
(* pipeline whose pieces cannot be counted kills the program, or one whose *)
(* pieces are too few for the workers if anything was emitted.             *)
(***************************************************************************)
EXTENDS Naturals, Sequences

CONSTANTS
  Values,      \* what a client passes, its handles aside, which are numbers
  Elements,    \* the number of items each value splits into
  Scarce,      \* the values whose items leave a worker without a piece
  Locations,   \* the client's variables
  Functions,   \* the annotated functions
  Params,      \* how each function takes its arguments, "split" or "broadcast"
  Returns      \* the functions that return a value

VARIABLES
  pending,     \* the registered calls, with the handles they gave out
  emitted,     \* the locations and values of the next execution's output
  handles,     \* the number of handles given out
  written,     \* the locations and values of the last execution's output
  alive        \* FALSE once the program has died

vars == <<pending, emitted, handles, written, alive>>

Init ==
  /\ pending = <<>> /\ emitted = {}
  /\ handles = 0
  /\ written = {}
  /\ alive = TRUE

\* What function f receives for a value in its place i.
Means(f, i, value) ==
  IF value \in Nat THEN <<"result", value>>
  ELSE IF Params[f][i] = "split" THEN <<"pieces", value>> ELSE <<"whole", value>>

\* A handle stands for the result of a call that waits to run.
Stands(value) == value \in Nat => \E k \in DOMAIN pending : value \in pending[k].handle

\* The values whose pieces the pending calls are to be run on.
Pieces == {w \in Values :
             \E k \in DOMAIN pending : \E i \in DOMAIN pending[k].arguments :
               pending[k].arguments[i] = <<"pieces", w>>}

\* They can be counted, and there are enough of them.
Counted == \E v \in Values : {Elements[w] : w \in Pieces} = {Elements[v]}
Starved == emitted # {} /\ Pieces \cap Scarce # {}

Call(f, values) ==
  /\ alive
  /\ \A i \in DOMAIN values : Stands(values[i])
  /\ pending' = Append(pending,
       [function  |-> f,
        arguments |-> [i \in DOMAIN values |-> Means(f, i, values[i])],
        handle    |-> IF f \in Returns THEN {handles} ELSE {}])
  /\ handles' = IF f \in Returns THEN handles + 1 ELSE handles
  /\ UNCHANGED <<emitted, written, alive>>

Emit(location, value) ==
  /\ alive
  /\ Stands(value)
  /\ emitted' = emitted \cup {<<location, value>>}
  /\ UNCHANGED <<pending, handles, written, alive>>

Execute ==
  /\ alive /\ pending # <<>>
  /\ Counted /\ ~ Starved
  /\ written' = emitted
  /\ pending' = <<>> /\ emitted' = {}
  /\ UNCHANGED <<handles, alive>>

Die ==
  /\ alive /\ pending # <<>>
  /\ ~ Counted \/ Starved
  /\ alive' = FALSE
  /\ UNCHANGED <<pending, emitted, handles, written>>

Next ==
  \/ \E f \in Functions :
       \E values \in [DOMAIN Params[f] -> Values \cup 0 .. handles - 1] :
         Call(f, values)
  \/ \E location \in Locations, value \in Values \cup 0 .. handles - 1 :
       Emit(location, value)
  \/ Execute
  \/ Die

Spec == Init /\ [][Next]_vars

=============================================================================
