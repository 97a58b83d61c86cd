------------------------- MODULE CommutativityCheck -------------------------
(***************************************************************************)
(* What a harness promises: for arbitrary inputs, it decides whether the   *)
(* iterations of a function, run first to last and last to first from the  *)
(* same inputs, leave the same bytes in its outbound arguments.            *)
(*                                                                         *)
(* The function is external: Apply(kernel, i, args) is the contents of its *)
(* arguments after a call with the iterator i.  A byte that nothing        *)
(* initialised is Undef, and comparing it can give either answer.          *)
(***************************************************************************)
EXTENDS Integers, SequencesExt

CONSTANTS Bytes, Undef, Apply(_, _, _)

VARIABLES
  kernel,     \* the function
  iterations, \* how often it runs in each direction
  width,      \* the number of bytes compared, of each outbound argument
  input,      \* the contents of the arguments; <<>> until they are chosen
  verdict     \* "none", "returned" or "failed"

vars == <<kernel, iterations, width, input, verdict>>

Indices == [j \in 1 .. iterations |-> j - 1]

\* What the iterations make of the input, one after the other.
RunOver(indices) ==
  LET ran[m \in 0 .. Len(indices)] ==
        IF m = 0 THEN input ELSE Apply(kernel, indices[m], ran[m - 1])
  IN  ran[Len(indices)]

Forward  == RunOver(Indices)
Backward == RunOver(Reverse(Indices))

MayAgree(x, y)  == x = y \/ Undef \in {x, y}
MayDiffer(x, y) == x # y \/ Undef \in {x, y}

Init == /\ input = <<>>
        /\ verdict = "none"

ChooseInput == /\ input = <<>>
               /\ input' \in Seq(Seq(Bytes \cup {Undef})) \ {<<>>}
               /\ UNCHANGED <<kernel, iterations, width, verdict>>

Return == /\ input # <<>> /\ verdict = "none"
          /\ LET f == Forward  b == Backward
             IN  \A i \in DOMAIN width : \A j \in 1 .. width[i] : MayAgree(f[i][j], b[i][j])
          /\ verdict' = "returned"
          /\ UNCHANGED <<kernel, iterations, width, input>>

Fail == /\ input # <<>> /\ verdict = "none"
        /\ LET f == Forward  b == Backward
           IN  \E i \in DOMAIN width : \E j \in 1 .. width[i] : MayDiffer(f[i][j], b[i][j])
        /\ verdict' = "failed"
        /\ UNCHANGED <<kernel, iterations, width, input>>

Next == ChooseInput \/ Return \/ Fail

Spec == Init /\ [][Next]_vars

=============================================================================
