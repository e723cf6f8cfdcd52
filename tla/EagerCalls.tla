----------------------------- MODULE EagerCalls -----------------------------
(***************************************************************************)
(* What the client of the annotated functions is promised: although the    *)
(* wrappers only register their calls, the program behaves as if every     *)
(* call ran where it stands.  A call updates the buffers it works on, and  *)
(* a read sees the calls made on its buffer so far, in their order.        *)
(***************************************************************************)
EXTENDS Naturals

CONSTANT Buffers

VARIABLES
  mapped,    \* the allocated buffers
  value,     \* the calls each buffer holds, and which of them were before which
  calls,     \* the number of calls made
  seen       \* what each read so far of the program was to see last

vars == <<mapped, value, calls, seen>>

\* The value of a buffer when it is allocated, and after one more call.
Fresh == [holds |-> {}, before |-> {}]

Called(v, call) == [holds  |-> v.holds \cup {call},
                    before |-> v.before \cup (v.holds \X {call})]

Init ==
  /\ mapped = {}
  /\ value = [b \in Buffers |-> Fresh]
  /\ calls = 0
  /\ seen = [b \in Buffers |-> Fresh]

Malloc(b) ==
  /\ b \notin mapped
  /\ mapped' = mapped \cup {b}
  /\ value' = [value EXCEPT ![b] = Fresh]
  /\ UNCHANGED <<calls, seen>>

Free(b) ==
  /\ b \in mapped
  /\ mapped' = mapped \ {b}
  /\ UNCHANGED <<value, calls, seen>>

Call(uses) ==
  /\ uses # {} /\ uses \subseteq mapped
  /\ calls' = calls + 1
  /\ value' = [b \in Buffers |->
                 IF b \in uses THEN Called(value[b], calls') ELSE value[b]]
  /\ UNCHANGED <<mapped, seen>>

Read(b) ==
  /\ b \in mapped
  /\ seen' = [seen EXCEPT ![b] = value[b]]
  /\ UNCHANGED <<mapped, value, calls>>

Next ==
  \/ \E b \in Buffers : Malloc(b) \/ Free(b) \/ Read(b)
  \/ \E uses \in SUBSET Buffers : Call(uses)

Spec == Init /\ [][Next]_vars

=============================================================================
