--------------------------- MODULE MCEncapsulation ---------------------------
(***************************************************************************)
(* Every kind of request encapsulateImpl can be given: declarations,       *)
(* functions without parameters, first parameters other than i64, all      *)
(* directions, zero-sized pointees, 0 to 3 iterations, too few and too     *)
(* many specifications, modules that already hold a runtime symbol, and a  *)
(* function that already has its harness; in the builds of Builds.         *)
(***************************************************************************)
EXTENDS SymbolicEncapsulation

CONSTANT Builds \* the values of NDEBUG

Type(p, n) == [ptr |-> p, size |-> n]

MCTypes == {Type(FALSE, 1), Type(FALSE, 2), Type(TRUE, 0), Type(TRUE, 1), Type(TRUE, 2)}

\* i64, a narrower and a wider integer, a pointer.
MCFirstTypes == {Type(FALSE, 2), Type(FALSE, 1), Type(FALSE, 3), Type(TRUE, 1)}

Spec(d, b) == [Direction |-> d, IteratorDependent |-> b]

MCSpecs == {Spec(d, b) : d \in 0 .. 3, b \in BOOLEAN}

Request(decl, params, specs, n, table, ndebug) ==
  [isDeclaration |-> decl, params |-> params, argSpecs |-> specs, iterations |-> n,
   syms |-> table, hasHarnessBody |-> FALSE, NDEBUG |-> ndebug]

\* The second call for the same function: its harness is already there.
Again(r) == [r EXCEPT !.syms = HarnessDecl, !.hasHarnessBody = TRUE]

\* The symbols a module may already have: the right runtime declarations, a
\* C prototype of memcmp, a user's function that took the harness's name.
MCSyms == {NoSymbols,
           HeapDecls,
           [memcmp |-> OtherTy],
           [memcpy |-> OtherTy],
           [symenc_F |-> OtherTy],
           [free |-> OtherTy]}

MCRequests ==
  {Request(FALSE, <<t1, t2>>, <<s1, s2>>, n, NoSymbols, ndebug) :
     ndebug \in Builds, t1 \in MCFirstTypes, t2 \in MCTypes, s1 \in MCSpecs, s2 \in MCSpecs, n \in 0 .. 3}
  \cup
  {Request(decl, params, specs, n, table, ndebug) :
     ndebug \in Builds, decl \in BOOLEAN, n \in {1, 3}, table \in MCSyms,
     params \in {<<>>, <<I64Type>>, <<I64Type, Type(TRUE, 1), Type(TRUE, 2)>>},
     specs \in {<<>>, <<Spec(1, FALSE), Spec(2, TRUE)>>,
                <<Spec(1, FALSE), Spec(3, TRUE), Spec(3, FALSE), Spec(2, FALSE)>>}}
  \cup
  {Again(Request(FALSE, <<I64Type, t>>, <<Spec(1, FALSE), s>>, 3, NoSymbols, ndebug)) :
     ndebug \in Builds, t \in MCTypes, s \in MCSpecs}

=============================================================================
