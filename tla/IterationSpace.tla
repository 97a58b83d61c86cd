--------------------------- MODULE IterationSpace ---------------------------
(***************************************************************************)
(* What a counted loop promises: it executes its body once for every       *)
(* member of its iteration space, in some order, and nothing else.         *)
(***************************************************************************)
EXTENDS Integers

VARIABLES space, \* the iterations to execute, fixed from the start
          done   \* the iterations executed so far

vars == <<space, done>>

Init == /\ space \subseteq Int
        /\ done = {}

Visit(i) == /\ i \in space \ done
            /\ done' = done \cup {i}
            /\ UNCHANGED space

Next == \E i \in space : Visit(i)

Spec == Init /\ [][Next]_vars

=============================================================================
