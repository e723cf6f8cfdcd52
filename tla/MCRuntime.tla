----------------------------- MODULE MCRuntime -----------------------------
(***************************************************************************)
(* Instances of Runtime: programs of one and of two threads.               *)
(***************************************************************************)
EXTENDS Runtime, TLC

CONSTANTS t1, t2, b1, b2

OneThread  == {t1}
TwoThreads == {t1, t2}
TwoBuffers == {b1, b2}

\* Every thread works on every buffer.
Shared == [t \in Threads |-> Buffers]

\* Each of two threads works on a buffer of its own, so that the program
\* itself has no race.
Own == (t1 :> {b1}) @@ (t2 :> {b2})

=============================================================================
