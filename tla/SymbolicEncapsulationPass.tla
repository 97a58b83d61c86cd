---------------------- MODULE SymbolicEncapsulationPass ----------------------
(***************************************************************************)
(* The pass: it is looked up by its name and constructed, run(Module)      *)
(* selects functions, walks the directory of reports and encapsulates the  *)
(* functions they are about, and a pass manager is told of the result      *)
(* (lib/Transforms/Passes/SymbolicEncapsulationPass.cpp and                *)
(* lib/Passes/RegisterPasses.cpp).  A call of encapsulate is executed by   *)
(* the actions of SymbolicEncapsulation.                                   *)
(*                                                                         *)
(* The functions that encapsulate declares (malloc, memcmp, ...) are kept  *)
(* apart, in 'runtime'; the module does not define them.                   *)
(*                                                                         *)
(* The directory and the JSON parser are external: an entry of the         *)
(* directory is what the code can tell of it; ReportExchange reads one.    *)
(***************************************************************************)
EXTENDS SymbolicEncapsulation, PassOptions

CONSTANTS
  Runs,     \* the runs to consider: build, pass manager, options, module, files
  NoName    \* what a report without the key "func" names

\* Entries of the directory are examined, opened and parsed, or are not.  A
\* function has some number of bodies, and its parameters agree with its type.
\* A harness of the input is one of its functions, not a runtime symbol.  Options
\* of other passes are left out.
ASSUME RunsAssumption ==
  \A r \in Runs :
    /\ \A f \in DOMAIN r.reports : /\ r.reports[f].state \in {"cannot stat", "cannot open",
                                                              "malformed", "parsed"}
                                  /\ r.reports[f].argspecs \in Seq(Entries)
    /\ \A n \in DOMAIN r.functions :
         /\ n \in STRING \X Nat
         /\ r.functions[n].bodies \in Nat
         /\ r.functions[n].params \in Seq(Types)
         /\ r.functions[n].type = HarnessTy => r.functions[n].params = <<>>
    /\ "symenc_F" \notin DOMAIN r.runtime
    /\ Len(r.commandLine) \in Nat /\ AreOccurrences(r.commandLine)
    /\ Len(r.environment) \in Nat /\ AreOccurrences(r.environment)

VARIABLES
  given,      \* what this run starts from; never changes
  options,    \* the options of the pass
  functions,  \* the functions of the module, by name
  runtime,    \* the symbols declared for the harnesses, and their types
  pc,         \* what run does next, or how it ended
  workList,   \* the names of the selected functions
  unread,     \* the entries the directory iterator has yet to return
  file,       \* the entry being read
  specs,      \* the argument specifications read from it
  hasChanged, \* the result
  dirError,   \* TRUE when the iterator stopped with an error code
  preserved,  \* the analyses the pass manager may keep afterwards: "all" or "none"
  built       \* history: the harnesses made, in order

runVars == <<given, options, functions, runtime, pc, workList, unread, file, specs,
             hasChanged, dirError, preserved, built>>

vars == <<buildVars, runVars>>

Report == given.reports[file]

Stopped == pc \in {"unknown pass", "exited", "answered", "aborted", "undefined"}

-----------------------------------------------------------------------------

\* The program has parsed its command line, and has not ended over it.
RunInit ==
  /\ given \in Runs
  /\ options = ParseOptions(NoOptions, given.commandLine)
  /\ options.accepted
  /\ functions = given.functions
  /\ runtime = given.runtime
  /\ pc = "lookup"
  /\ workList = {}
  /\ unread = DOMAIN given.reports
  /\ file = 0
  /\ specs = <<>>
  /\ hasChanged = FALSE
  /\ dirError = FALSE
  /\ preserved = "all"
  /\ built = <<>>
  /\ Idle

PassName == "eph-encapsulate"

\* opt finds the legacy pass by its name, and so does parseModulePipeline the
\* new one; clang adds the legacy pass to every pipeline.
Lookup ==
  /\ pc = "lookup"
  /\ pc' = IF given.manager = "clang" \/ given.name = PassName THEN "construct" ELSE "unknown pass"
  /\ UNCHANGED <<buildVars, given, options, functions, runtime, workList, unread, file, specs,
                 hasChanged, dirError, preserved, built>>

\* SymbolicEncapsulationPass(), for the legacy pass within runOnModule.  An
\* environment that is not accepted makes LLVM's library end the program.
Construct ==
  /\ pc = "construct"
  /\ options' \in Constructed(options, given.environment)
  /\ pc' = IF options'.accepted THEN "run" ELSE "exited"
  /\ UNCHANGED <<buildVars, given, functions, runtime, workList, unread, file, specs,
                 hasChanged, dirError, preserved, built>>

\* JSONDescriptionFilename and EphippionReportsDir are not empty.
JSONGiven == options.value["argspec-json"] # ""
DirGiven  == options.value["reports-dir"] # ""
DirExists == DirGiven /\ options.value["reports-dir"] = given.directory

\* A white list is in force once its option has a position; a file that cannot
\* be read gives an empty one.
Admitted(f) == "whiteList" \in options.positioned => f \in given.whiteListed

Selected == {f \in DOMAIN functions : ~functions[f].isDeclaration /\ Admitted(f)}

SelectFunctions ==
  /\ pc = "run"
  /\ \/ /\ ~JSONGiven /\ ~DirGiven
        /\ pc' = "returned"
        /\ UNCHANGED workList
     \/ /\ JSONGiven \/ DirGiven
        /\ workList' = Selected
        /\ pc' = IF Selected # {} /\ DirExists THEN "nextEntry" ELSE "returned"
  /\ UNCHANGED <<buildVars, given, options, functions, runtime, unread, file, specs, hasChanged,
                 dirError, preserved, built>>

NoIncrement(f) == UNCHANGED unread

Increment(f) == unread' = unread \ {f}

\* An entry with another name, or that cannot be examined, is skipped.
Ignored(f) == \/ options.value["report-prefix"] \notin given.reports[f].named
              \/ given.reports[f].state = "cannot stat"

\* A file that cannot be opened is skipped.  The error of LLVM's JSON parser has no
\* error code that errorToErrorCode could give, which ends the program.
AfterReading(state) == CASE state = "cannot open" -> "nextEntry"
                         [] state = "malformed"   -> "aborted"
                         [] state = "parsed"      -> "findFunction"

ReadUncleared(f) == /\ file' = f
                    /\ pc' = AfterReading(given.reports[f].state)
                    /\ UNCHANGED specs

\* argSpecs.clear() and ReadJSONFromFile.
Read(f) == /\ specs' = <<>>
           /\ file' = f
           /\ pc' = AfterReading(given.reports[f].state)

\* One turn of the directory iterator, which has no order of its own, up to the
\* parsed report.
NextEntry ==
  /\ pc = "nextEntry"
  /\ \E f \in unread : /\ Increment(f)
                       /\ \/ Ignored(f) /\ UNCHANGED <<pc, file, specs>>
                          \/ ~Ignored(f) /\ Read(f)
  /\ UNCHANGED <<buildVars, given, options, functions, runtime, workList, hasChanged, dirError,
                 preserved, built>>

\* The iterator ends, or an error code ends the walk before all is read.
EndOfDirectory ==
  /\ pc = "nextEntry"
  /\ \/ /\ unread = {}
        /\ UNCHANGED dirError
     \/ /\ unread # {}
        /\ dirError' = TRUE
  /\ pc' = "returned"
  /\ UNCHANGED <<buildVars, given, options, functions, runtime, workList, unread, file, specs,
                 hasChanged, preserved, built>>

AnyFunction(F) == F \in DOMAIN functions

\* M.getFunction(name) is in the work list: the names are those of functions.
Found(F) == F \in workList

\* Only a function in the work list goes on.  The key itself is not checked for.
FindFunction ==
  /\ pc = "findFunction"
  /\ pc' = CASE Report.func = NoName      -> "undefined"
             [] Found(Report.func)        -> "decode"
             [] OTHER                     -> "nextEntry"
  /\ UNCHANGED <<buildVars, given, options, functions, runtime, workList, unread, file, specs,
                 hasChanged, dirError, preserved, built>>

\* The sequences fromJSON can make of a sequence of entries.
Decodings(es) ==
  {s \in [DOMAIN es -> UNION {FromJSON(es[i]) : i \in DOMAIN es}] :
     \A i \in DOMAIN es : s[i] \in FromJSON(es[i])}

\* "args" and "argspecs" are dereferenced unchecked; so is what fromJSON says.
Decode ==
  /\ pc = "decode"
  /\ \/ /\ ~Report.hasArgs
        /\ pc' = "undefined"
        /\ UNCHANGED specs
     \/ /\ Report.hasArgs
        /\ \E s \in Decodings(Report.argspecs) : specs' = specs \o s
        /\ pc' = "decide"
  /\ UNCHANGED <<buildVars, given, options, functions, runtime, workList, unread, file, hasChanged,
                 dirError, preserved, built>>

AnySpecs == specs # <<>>

AnyOnlyOutbound == \E i \in DOMAIN specs : isOnlyOutbound(specs[i].Direction)

Forced == options.value["force"]

requiresConditions == \E i \in DOMAIN specs : isOutbound(specs[i].Direction)

\* encapsulate(*F, IterationsNum, argSpecs), as the module is now.
RequestFor(F, table, funcs, argspecs) ==
  RequestIn(funcs, table, F, argspecs, options.value["iterations"], given.NDEBUG)

\* Without an outbound argument there is nothing to compare, and nothing is
\* done unless it is forced.
Decide ==
  /\ pc = "decide"
  /\ \/ /\ ~requiresConditions /\ ~Forced
        /\ pc' = "nextEntry"
        /\ UNCHANGED buildVars
     \/ /\ requiresConditions \/ Forced
        /\ pc' = "encapsulate"
        /\ Enter(RequestFor(Report.func, runtime, functions, specs))
  /\ UNCHANGED <<given, options, functions, runtime, workList, unread, file, specs, hasChanged,
                 dirError, preserved, built>>

Encapsulate == /\ pc = "encapsulate"
               /\ BuildNext
               /\ UNCHANGED runVars

AllChanged(returned) == hasChanged /\ returned

\* if (encapsulate(...)) hasChanged = true
Accumulated(returned) == hasChanged \/ returned

EncapsulateReturns ==
  /\ pc = "encapsulate" /\ Ended
  /\ pc' = IF phase \in {"done", "declined"} THEN "nextEntry" ELSE phase
  /\ runtime' = Declared
  /\ IF phase = "done"
     THEN /\ hasChanged' = Accumulated(TRUE)
          /\ functions' = WithHarness(functions, Report.func)
          /\ built' = Append(built, [func |-> Report.func, file |-> file, specs |-> specs])
     ELSE UNCHANGED <<hasChanged, functions, built>>
  /\ UNCHANGED <<buildVars, given, options, workList, unread, file, specs, dirError, preserved>>

\* run(Module, MAM) gives all() when the module has changed and none() when it
\* has not; the legacy pass says in any case that it preserves all.
Preserved == IF given.manager = "new" /\ ~hasChanged THEN "none" ELSE "all"

Answer == /\ pc = "returned"
          /\ pc' = "answered"
          /\ preserved' = Preserved
          /\ UNCHANGED <<buildVars, given, options, functions, runtime, workList, unread, file,
                         specs, hasChanged, dirError, built>>

Next == \/ Lookup \/ Construct \/ SelectFunctions \/ Answer
        \/ NextEntry \/ EndOfDirectory
        \/ FindFunction \/ Decode \/ Decide
        \/ Encapsulate \/ EncapsulateReturns

Spec == RunInit /\ [][Next]_vars

\* The pass is sequential code.
FairSpec == Spec /\ WF_vars(Next)

-----------------------------------------------------------------------------

\* Every variable has its type.
PassTypeOK ==
  /\ pc \in {"lookup", "unknown pass", "construct", "exited", "run", "nextEntry", "findFunction",
            "decode", "decide", "encapsulate", "returned", "answered", "aborted", "undefined"}
  /\ preserved \in {"all", "none"}
  /\ workList \subseteq DOMAIN functions
  /\ unread \subseteq DOMAIN given.reports
  /\ file \in DOMAIN given.reports \cup {0}
  /\ specs \in Seq(ArgSpecs)
  /\ hasChanged \in BOOLEAN /\ dirError \in BOOLEAN
  /\ built \in Seq([func : DOMAIN given.functions, file : DOMAIN given.reports,
                    specs : Seq(ArgSpecs)])

\* The command line or the environment names a white list.
WhiteListNamed ==
  \/ \E i \in 1 .. Len(given.commandLine) : given.commandLine[i].name = "whiteList"
  \/ \E i \in 1 .. Len(given.environment) : given.environment[i].name = "whiteList"

\* A function of the input that a report may have encapsulated.
Eligible(F) == /\ F \in DOMAIN given.functions /\ ~given.functions[F].isDeclaration
               /\ WhiteListNamed => F \in given.whiteListed

\* run: whatever the reports say, and although harnesses join the module while
\* they are read, only functions of the input that are defined are encapsulated,
\* and if there is a white list only those on it: an empty one, or one named on
\* the command line that the constructor has had forgotten, admits no others.
SelectedOnly == \A j \in DOMAIN built : Eligible(built[j].func)

\* run: the specifications of a harness all come from the one report that is
\* about its function; none are left from a report that was read before.
OneReport ==
  \A j \in DOMAIN built :
    LET r == given.reports[built[j].file]
    IN  built[j].func = r.func /\ built[j].specs \in Decodings(r.argspecs)

\* run and encapsulateImpl: a harness that was not forced goes from its loops to the
\* comparison of an argument, for the report that called for it has an outbound
\* one; unless the report has more entries than the function has parameters, as
\* the entry it was called for may then be about none.
UnforcedCompares ==
  pc = "encapsulate" /\ phase = "done" /\ ~Forced /\ Len(specs) <= NumParams =>
    \E i \in 1 .. NumParams : ir[B("se.start.teardown")] = <<Br(Cond(i))>>

\* run and its wrappers: run returns TRUE exactly when the module is not what it
\* was, and the pass manager then keeps every analysis it has of that module; it
\* may drop them only under the new pass manager and when nothing has changed.
ChangeReported ==
  /\ pc \in {"returned", "answered"} => (hasChanged <=> functions # given.functions)
  /\ pc = "answered" =>
       (preserved = "none" <=> given.manager = "new" /\ functions = given.functions)

\* SymbolicEncapsulationPass(): an option that the environment names has the
\* value it has there, though the command line may have named it too; and only an
\* environment that is wrong in itself ends the program.
EnvironmentDecides ==
  LET alone == ParseOptions(NoOptions, given.environment)
  IN  /\ pc = "exited" => ~alone.accepted
      /\ pc \notin {"lookup", "construct", "exited", "unknown pass"} =>
           /\ alone.accepted
           /\ \A o \in alone.positioned \ {"argspec"} : options.value[o] = alone.value[o]

\* A report that run is expected to act upon.
Relevant(r) ==
  /\ options.value["report-prefix"] \in r.named /\ r.state = "parsed"
  /\ Eligible(r.func)
  /\ Forced \/ \A s \in Decodings(r.argspecs) : \E i \in DOMAIN s : isOutbound(s[i].Direction)

\* run: unless reading the directory fails, every report that calls for a
\* harness has been acted upon, and no report twice.
EveryReportServed ==
  /\ pc = "returned" /\ DirExists /\ ~dirError =>
       \A f \in DOMAIN given.reports :
         Relevant(given.reports[f]) => \E j \in DOMAIN built : built[j].file = f
  /\ \A i, j \in DOMAIN built : built[i].file = built[j].file => i = j

\* encapsulateImpl: what it adds to the module for one function never gets in
\* the way of the first harness of another one.
StillSupported ==
  /\ pc = "encapsulate"
  /\ \A j \in DOMAIN built : built[j].func # Report.func
  /\ Supported(RequestFor(Report.func, given.runtime, given.functions, specs))
  => Supported(req)

\* PassCommandLineOptions.cpp says of eph-argspec-json "parse arg specs from
\* JSON file": a function that the file calls for has its harness in the end.
DescriptionFileServed ==
  pc = "returned" /\ JSONGiven /\ Relevant(given.described) =>
    \E j \in DOMAIN built : built[j].func = given.described.func

\* run, "skipping file: ... reason: could not read description file": a report that
\* cannot be read does not end the program.
UnreadableSkipped ==
  file # 0 /\ Report.state \in {"cannot open", "malformed"} => pc # "aborted"

\* run: it comes to an end.
Terminates == <>Stopped

=============================================================================
