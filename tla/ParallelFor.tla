---------------------------- MODULE ParallelFor ----------------------------
(***************************************************************************)
(* What composer_evaluate promises of one execution of a pipeline, however *)
(* the runtime divides it among threads and batches: each task is applied  *)
(* to each item once, to an item only after the earlier tasks of the       *)
(* pipeline, and the value written back, if one was asked for, is made of  *)
(* all the items in their order.  The program may die instead; then        *)
(* nothing was written back.                                               *)
(***************************************************************************)
EXTENDS Integers

VARIABLES
  items,     \* the number of items the pipeline's values split into
  tasks,     \* the number of registered tasks
  emits,     \* a value is to be written back
  calls,     \* calls[t][i]: how often task t was applied to item i
  status,    \* "running", "done" or "panicked"
  output     \* the value written back: the items it holds, and the pairs of
             \* items of which the first is at a place before the second

vars == <<items, tasks, emits, calls, status, output>>

Items == 0 .. items - 1
Tasks == 1 .. tasks

Nothing    == [holds |-> {}, before |-> {}]
AllInOrder == [holds  |-> Items,
               before |-> {pair \in Items \X Items : pair[1] < pair[2]}]

Init ==
  /\ items \in Nat /\ tasks \in Nat \ {0} /\ emits \in BOOLEAN
  /\ calls = [t \in Tasks |-> [i \in Items |-> 0]]
  /\ status = "running"
  /\ output = Nothing

\* Task t may be applied to item i now: not yet, and not before its turn.
Ready(t, i) ==
  /\ calls[t][i] = 0
  /\ \A u \in 1 .. t - 1 : calls[u][i] = 1

\* One call of the task's function, on a batch of items.
Apply(t, batch) ==
  /\ status = "running"
  /\ batch # {}
  /\ \A i \in batch : Ready(t, i)
  /\ calls' = [calls EXCEPT ![t] =
                 [i \in Items |-> IF i \in batch THEN 1 ELSE @[i]]]
  /\ UNCHANGED <<items, tasks, emits, status, output>>

\* Every task was applied to every item: the result is written back.
Publish ==
  /\ status = "running"
  /\ \A t \in Tasks, i \in Items : calls[t][i] = 1
  /\ status' = "done"
  /\ output' = IF emits THEN AllInOrder ELSE Nothing
  /\ UNCHANGED <<items, tasks, emits, calls>>

\* A panic: the tasks stop and nothing is written back.
Abort ==
  /\ status = "running"
  /\ status' = "panicked"
  /\ UNCHANGED <<items, tasks, emits, calls, output>>

Next ==
  \/ \E t \in Tasks, batch \in SUBSET Items : Apply(t, batch)
  \/ Publish
  \/ Abort

Spec == Init /\ [][Next]_vars

=============================================================================
