------------------------ MODULE MCModuleEncapsulation ------------------------
(***************************************************************************)
(* Modules of up to three functions in every order: functions that can be  *)
(* encapsulated, one that cannot, declarations, and functions that have    *)
(* the name of a harness, or of the harness of a harness.                  *)
(***************************************************************************)
EXTENDS ModuleEncapsulation

f   == <<"f", 0>>
g   == <<"g", 0>>
hf  == HarnessName(f)
hhf == HarnessName(hf)

Function(decl, params, type) ==
  [isDeclaration |-> decl, params |-> params, type |-> type, bodies |-> IF decl THEN 0 ELSE 1]

Pointer == [ptr |-> TRUE, size |-> 1]

MCFunctions(n) ==
  CASE n = f   -> {Function(decl, <<I64Type, Pointer>>, "void(i64,i8*)") : decl \in BOOLEAN}
    [] n = g   -> {Function(FALSE, <<I64Type>>, "void(i64)"), Function(FALSE, <<Pointer>>, "void(i8*)")}
    [] n = hf  -> {Function(decl, <<>>, HarnessTy) : decl \in BOOLEAN}
                  \cup {Function(FALSE, <<I64Type>>, "void(i64)")}
    [] n = hhf -> {Function(decl, <<>>, HarnessTy) : decl \in BOOLEAN}

MCLists == {l \in UNION {[1 .. k -> {f, g, hf, hhf}] : k \in 0 .. 3} : IsInjective(l)}

MCModules ==
  UNION {{[NDEBUG |-> ndebug, iterations |-> n, list |-> l, functions |-> funcs] :
            ndebug \in BOOLEAN, n \in {1, 2},
            funcs \in {t \in [ToSet(l) -> UNION {MCFunctions(n) : n \in ToSet(l)}] :
                         \A n \in ToSet(l) : t[n] \in MCFunctions(n)}} : l \in MCLists}

=============================================================================
