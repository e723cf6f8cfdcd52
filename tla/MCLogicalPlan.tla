--------------------------- MODULE MCLogicalPlan ---------------------------
(***************************************************************************)
(* Instances of LogicalPlan: two split types (as of a frame and of its     *)
(* groups) and four functions, of which two are generic, one updates its   *)
(* argument in place and one returns nothing; for plans of more calls, one *)
(* value and the two functions of concrete types.                          *)
(***************************************************************************)
EXTENDS LogicalPlan, TLC

CONSTANTS x, y, frame, groups, A, none,
          group, merge, sort, log

Two == {x, y}
One == {x}

Concrete == {frame, groups}

Library == {group, merge, sort, log}

Annotations ==
  (group :> <<frame, groups>>) @@ (merge :> <<A, A, A>>) @@
  (sort :> <<frame, frame>>) @@ (log :> <<A, none>>)

Plain == {group, sort}

PlainAnnotations == [f \in Plain |-> Annotations[f]]

Updates == [f \in Functions |-> IF f = sort THEN {1} ELSE {}]

=============================================================================
