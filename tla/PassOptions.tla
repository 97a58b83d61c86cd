------------------------------ MODULE PassOptions ------------------------------
(***************************************************************************)
(* The options of the pass (lib/Passes/PassCommandLineOptions.cpp), the    *)
(* parser of eph-argspec (Support/Utils/ArgSpecParser.hpp) and what the    *)
(* constructor of the pass makes of them.  The module has no state of its  *)
(* own: SymbolicEncapsulationPass keeps the options in a variable.         *)
(*                                                                         *)
(* LLVM's option library is external.  An option has a value, a number of  *)
(* occurrences and, once it has occurred, a position.  A command line, or  *)
(* the environment variable, is a sequence of occurrences of options.      *)
(***************************************************************************)
EXTENDS ArgSpec, SequencesExt

\* The value of an occurrence that the option's parser rejects.
CONSTANT Invalid

\* Their names without the prefix "eph-"; "force" stands for
\* "force-encapsulation", "whiteList" for "func-wl-file".
OptionNames == {"force", "iterations", "argspec", "report-prefix", "reports-dir",
                "argspec-json", "whiteList"}

\* The values before any occurrence; "", 0 and <<>> where cl::init is missing.
Initial ==
  [o \in OptionNames |-> CASE o = "force"         -> FALSE
                           [] o = "iterations"    -> 1
                           [] o = "argspec"       -> <<>>
                           [] o = "report-prefix" -> "lpc."
                           [] OTHER               -> ""]

\* The options that have a default in the sense of LLVM: a cl::init.
HaveDefault == {"force", "iterations", "report-prefix", "reports-dir"}

NoOptions == [accepted   |-> TRUE,
              value      |-> Initial,
              count      |-> [o \in OptionNames |-> 0],
              positioned |-> {}]

-----------------------------------------------------------------------------
(***************************************************************************)
(* parser<ArgSpec>.  A text is a word of letters, a colon and a character, *)
(* or is not; [0|1] is a set of three characters, '|' among them.          *)
(***************************************************************************)
Matches(text) == text.letters /\ text.flag \in {"0", "|", "1"}

DirectionOf == ("in" :> AD_Inbound) @@ ("out" :> AD_Outbound) @@ ("both" :> AD_Both)

\* Another word is inbound; strtoul of "|" is 0.
ParsedArgSpec(text) ==
  [Direction         |-> IF text.word \in DOMAIN DirectionOf THEN DirectionOf[text.word] ELSE AD_Inbound,
   IteratorDependent |-> text.flag = "1"]

\* eph-argspec is a list of comma-separated texts; all the others are scalars.
Valid(occ) == IF occ.name = "argspec" THEN \A i \in DOMAIN occ.value : Matches(occ.value[i])
                                      ELSE occ.value # Invalid

-----------------------------------------------------------------------------

\* One occurrence: an option that is no list may not occur twice.
Occur(opts, occ) ==
  IF opts.accepted /\ Valid(occ) /\ (occ.name = "argspec" \/ opts.count[occ.name] = 0)
  THEN [opts EXCEPT
          !.value[occ.name] = IF occ.name = "argspec"
                              THEN @ \o [i \in DOMAIN occ.value |-> ParsedArgSpec(occ.value[i])]
                              ELSE occ.value,
          !.count[occ.name] = @ + 1,
          !.positioned      = @ \cup {occ.name}]
  ELSE [opts EXCEPT !.accepted = FALSE]

\* Occurrences of options that there are.
AreOccurrences(occs) == \A i \in 1 .. Len(occs) : occs[i].name \in OptionNames

\* parsed[i] is what the first i occurrences make of the options.
ParseOptions(opts, occs) ==
  LET parsed[i \in 0 .. Len(occs)] == IF i = 0 THEN opts ELSE Occur(parsed[i - 1], occs[i])
  IN  parsed[Len(occs)]

NotReset(opts) == {opts}

\* cl::ResetAllOptionOccurrences: the occurrences are forgotten, the positions
\* are not.  Whether the values go back to the defaults, where there are any, is
\* a matter of LLVM's version.
Reset(opts) ==
  LET forgotten == [opts EXCEPT !.count = [o \in OptionNames |-> 0]]
  IN  {forgotten, [forgotten EXCEPT !.value = [o \in OptionNames |->
                     IF o \in HaveDefault THEN Initial[o] ELSE opts.value[o]]]}

\* SymbolicEncapsulationPass(): the options it can leave, given the environment.
Constructed(opts, environment) == {ParseOptions(o, environment) : o \in Reset(opts)}

=============================================================================
