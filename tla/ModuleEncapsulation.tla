------------------------- MODULE ModuleEncapsulation -------------------------
(***************************************************************************)
(* SymbolicEncapsulation::encapsulate(Module&, N): a harness for every     *)
(* function of a module, by a walk along the list of functions that the    *)
(* calls of encapsulate make longer while it goes on                       *)
(* (lib/Transforms/SymbolicEncapsulation.cpp, lines 46 to 60).             *)
(*                                                                         *)
(* The functions that encapsulate declares (malloc, memcmp, ...) are kept  *)
(* apart, in 'runtime', as the walk passes declarations without effect;    *)
(* the module does not define them.                                        *)
(***************************************************************************)
EXTENDS SymbolicEncapsulation

CONSTANTS
  Modules,      \* the calls to consider: build, IterationsNum, functions and their order
  MaxPrefixes,  \* the most prefixes a name of an input has in front
  MaxFunctions  \* a cap on the list, which the program does not have

\* The list of a module has each of its functions once.
ASSUME ModulesAssumption ==
  /\ MaxPrefixes \in Nat
  /\ \A m \in Modules :
       /\ m.list \in Seq(DOMAIN m.functions)
       /\ DOMAIN m.functions = {m.list[i] : i \in DOMAIN m.list}
       /\ \A n \in DOMAIN m.functions : n[2] \in 0 .. MaxPrefixes

VARIABLES
  given,      \* what this call starts from; never changes
  list,       \* the names of the functions, in the order of the module
  functions,  \* the functions, by name
  runtime,    \* the symbols declared for the harnesses, and their types
  position,   \* where the walk is
  pc,         \* what the walk does next, or how it ended
  hasChanged  \* the result

walkVars == <<given, list, functions, runtime, position, pc, hasChanged>>

vars == <<buildVars, walkVars>>

Stopped == pc \in {"returned", "aborted", "undefined"}

WalkInit ==
  /\ given \in Modules
  /\ list = given.list
  /\ functions = given.functions
  /\ runtime = NoSymbols
  /\ position = 1
  /\ pc = "walk"
  /\ hasChanged = FALSE
  /\ Idle

\* encapsulate(func, IterationsNum), without specifications.
Visit ==
  /\ pc = "walk" /\ position <= Len(list)
  /\ Enter(RequestIn(functions, runtime, list[position], <<>>, given.iterations, given.NDEBUG))
  /\ pc' = "encapsulate"
  /\ UNCHANGED <<given, list, functions, runtime, position, hasChanged>>

Encapsulate == /\ pc = "encapsulate"
               /\ BuildNext
               /\ UNCHANGED walkVars

InFront(l, h) == IF h \in DOMAIN functions THEN l ELSE <<h>> \o l

\* getOrInsertFunction puts a new function at the end of the list.
AtEnd(l, h) == IF h \in DOMAIN functions THEN l ELSE Append(l, h)

AdvancedIfChanged(returned) == IF returned THEN position + 1 ELSE position

AdvancedPastHarness(returned) == IF returned THEN position + 2 ELSE position + 1

\* The walk goes on whatever encapsulate has returned.
Advanced(returned) == position + 1

EncapsulateReturns ==
  /\ pc = "encapsulate" /\ Ended
  /\ \/ /\ phase = "done"
        /\ Len(list) < MaxFunctions
        /\ hasChanged' = TRUE
        /\ functions' = WithHarness(functions, list[position])
        /\ list' = AtEnd(list, HarnessName(list[position]))
        /\ runtime' = Declared
        /\ position' = Advanced(TRUE)
        /\ pc' = "walk"
     \/ /\ phase = "declined"
        /\ position' = Advanced(FALSE)
        /\ pc' = "walk"
        /\ UNCHANGED <<list, functions, runtime, hasChanged>>
     \/ /\ phase \in {"aborted", "undefined"}
        /\ pc' = phase
        /\ UNCHANGED <<list, functions, runtime, position, hasChanged>>
  /\ UNCHANGED <<buildVars, given>>

EndOfModule ==
  /\ pc = "walk" /\ position > Len(list)
  /\ pc' = "returned"
  /\ UNCHANGED <<buildVars, given, list, functions, runtime, position, hasChanged>>

Next == Visit \/ Encapsulate \/ EncapsulateReturns \/ EndOfModule

Spec == WalkInit /\ [][Next]_vars

\* The walk is sequential code.
FairSpec == Spec /\ WF_vars(Next)

-----------------------------------------------------------------------------

\* Every variable has its type, and the list holds the functions of the module.
WalkTypeOK ==
  /\ pc \in {"walk", "encapsulate", "returned", "aborted", "undefined"}
  /\ hasChanged \in BOOLEAN
  /\ list \in Seq(DOMAIN functions)
  /\ DOMAIN functions = {list[i] : i \in DOMAIN list}
  /\ position \in 1 .. Len(list) + 1
  /\ pc = "encapsulate" => position <= Len(list)

\* encapsulate(Module&): each harness joins the list it is walking along and is
\* encapsulated in its turn, and so is the harness of the harness; so a module
\* that declares no function with the prefix in its name is never returned with
\* a change.
NeverReturnsChanged ==
  /\ pc = "returned"
  /\ \A n \in DOMAIN given.functions : n[2] > 0 => ~given.functions[n].isDeclaration
  => ~hasChanged /\ functions = given.functions

\* encapsulate(Module&): every function that the module came with and defines has
\* its harness when the walk returns.
EachHasHarness ==
  pc = "returned" =>
    \A n \in DOMAIN given.functions :
      ~given.functions[n].isDeclaration =>
        HarnessName(n) \in DOMAIN functions /\ ~functions[HarnessName(n)].isDeclaration

\* encapsulate(Module&): with assertions the walk comes to an end, be it by the
\* assertion that the first harness it visits fails.
DebugWalkEnds == ~given.NDEBUG ~> Stopped

=============================================================================
