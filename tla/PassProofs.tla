----------------------------- MODULE PassProofs -----------------------------
(***************************************************************************)
(* For every module, all options and every directory of reports: what the  *)
(* pass encapsulates, what from, and what it says of it in the end.        *)
(***************************************************************************)
EXTENDS SymbolicEncapsulationPass, BuilderProofs, SequenceLemmas

(***************************************************************************)
(* The inductive invariant.  A report is dealt with over several steps, so *)
(* what holds of the harnesses made has to be known of the report under    *)
(* way: 'Busy' is the part of the loop body after the file was read.       *)
(***************************************************************************)
Busy == pc \in {"findFunction", "decode", "decide", "encapsulate"}

\* The report under way, as far as it has come.
UnderWay ==
  /\ Busy => file \in DOMAIN given.reports \ unread
  /\ Busy => options.value["report-prefix"] \in Report.named /\ Report.state = "parsed"
  /\ pc \in {"decode", "decide", "encapsulate"} => Report.func \in workList
  /\ pc \in {"findFunction", "decode"} => specs = <<>>
  /\ pc \in {"decide", "encapsulate"} => specs \in Decodings(Report.argspecs)
  /\ pc = "encapsulate" =>
       /\ Forced \/ \E i \in DOMAIN specs : isOutbound(specs[i].Direction)
       /\ ~req.isDeclaration
       /\ phase # "declined"

\* The work list holds functions of the input, which stay defined.
WorkListSelected ==
  \A F \in workList : /\ F \in DOMAIN given.functions
                      /\ ~given.functions[F].isDeclaration
                      /\ Admitted(F)
                      /\ ~functions[F].isDeclaration

\* Up to the selection the options may change, so nothing may rest on them.
AtStart ==
  pc \in {"lookup", "unknown pass", "construct", "exited", "run"} =>
    /\ functions = given.functions
    /\ unread = DOMAIN given.reports
    /\ workList = {} /\ built = <<>>

\* What the pass manager has been told.
Told == pc = "answered" => preserved = Preserved

\* Functions only gain bodies, and one has when the result is TRUE.
Bodies ==
  /\ \A n \in DOMAIN functions : functions[n].bodies \in Nat
  /\ \A n \in DOMAIN given.functions : /\ n \in DOMAIN functions
                                       /\ given.functions[n].bodies <= functions[n].bodies
  /\ ~hasChanged => functions = given.functions
  /\ hasChanged => \E n \in DOMAIN functions :
       n \in DOMAIN given.functions => given.functions[n].bodies < functions[n].bodies

\* A file that made a harness is read, is not under way and made no other.
FilesUsedOnce ==
  /\ \A j \in DOMAIN built : built[j].file \notin unread
  /\ Busy => \A j \in DOMAIN built : built[j].file # file
  /\ \A i, j \in DOMAIN built : built[i].file = built[j].file => i = j

Served(f) == \E j \in DOMAIN built : built[j].file = f

\* What has been encapsulated, by the white list the options have.
AdmittedOnly ==
  \A j \in DOMAIN built : /\ built[j].func \in DOMAIN given.functions
                           /\ ~given.functions[built[j].func].isDeclaration
                           /\ Admitted(built[j].func)

\* A report that calls for a harness of a function in the work list.
CallsFor(r) ==
  /\ options.value["report-prefix"] \in r.named /\ r.state = "parsed"
  /\ r.func \in workList
  /\ Forced \/ \A s \in Decodings(r.argspecs) : \E i \in DOMAIN s : isOutbound(s[i].Direction)

\* No such report is passed over.
NonePassedOver ==
  pc \notin {"aborted", "undefined"} =>
    \A f \in DOMAIN given.reports :
      CallsFor(given.reports[f]) => f \in unread \/ (Busy /\ f = file) \/ Served(f)

\* The walk ends early only with an error code or without functions.
ReadAll == pc = "returned" /\ DirExists /\ ~dirError => unread = {} \/ workList = {}

PassInv == /\ given \in Runs
           /\ PassTypeOK
           /\ UnderWay
           /\ WorkListSelected
           /\ AtStart
           /\ Told
           /\ Bodies
           /\ FilesUsedOnce
           /\ NonePassedOver
           /\ ReadAll
           /\ AdmittedOnly
           /\ OneReport

(***************************************************************************)
(* What becomes of the module.  A function is as it was given, or is the   *)
(* harness of a function that has been encapsulated; a runtime symbol is   *)
(* as it was given, or is one that encapsulateImpl declares.               *)
(***************************************************************************)
IsMade(n) ==
  /\ \E j \in DOMAIN built : n = HarnessName(built[j].func)
  /\ n \in DOMAIN given.functions => given.functions[n].params = <<>>

ModuleInv ==
  /\ \A n \in DOMAIN functions :
       \/ n \in DOMAIN given.functions /\ functions[n] = given.functions[n]
       \/ IsMade(n)
  /\ Stems(runtime, given.runtime) /\ "symenc_F" \notin DOMAIN runtime
  /\ pc = "encapsulate" =>
       req = RequestFor(Report.func, runtime, functions, specs) /\ SymsInv

-----------------------------------------------------------------------------

\* fromJSON makes a specification of any entry.
LEMMA FromJSONType == ASSUME NEW e \in Entries PROVE FromJSON(e) \subseteq ArgSpecs
  <1>1. ASSUME NEW n \in Int PROVE n % 256 \in 0 .. 255
    BY <1>1
  <1>2. CASE e.complete
    BY <1>1, <1>2 DEF FromJSON, Entries, ArgSpecs, ArgDirection
  <1>3. CASE ~e.complete
    BY <1>3 DEF FromJSON, Uninitialised, ArgSpecs, ArgDirection
  <1> QED BY <1>2, <1>3

\* The decoding of a report is a sequence of specifications.
LEMMA DecodingsType ==
  ASSUME NEW es \in Seq(Entries), NEW s \in Decodings(es)
  PROVE  s \in Seq(ArgSpecs)
  <1>1. s \in [1 .. Len(es) -> UNION {FromJSON(es[i]) : i \in DOMAIN es}] /\ Len(es) \in Nat
    BY DEF Decodings
  <1>2. \A i \in 1 .. Len(es) : s[i] \in ArgSpecs
    BY FromJSONType DEF Decodings
  <1>3. s \in [1 .. Len(es) -> ArgSpecs]
    BY <1>1, <1>2
  <1> QED BY <1>1, <1>3


\* Which reports call for a harness depends on the input, the options and the work
\* list only.
LEMMA CallsForStable ==
  ASSUME UNCHANGED <<given, options, workList>>
  PROVE  /\ \A f \in DOMAIN given.reports :
              CallsFor(given.reports[f])' <=> CallsFor(given.reports[f])
         /\ DOMAIN given.reports' = DOMAIN given.reports
  BY DEF CallsFor, Decodings, Forced

\* Before anything is read, nothing is made.
LEMMA PassInvInit == RunInit => PassInv
  <1> SUFFICES ASSUME RunInit PROVE PassInv
    OBVIOUS
  <1>1. PassTypeOK /\ given \in Runs
    <2>1. \A S : <<>> \in Seq(S)
      OBVIOUS
    <2>2. specs \in Seq(ArgSpecs) /\ built \in Seq([func : DOMAIN given.functions,
                                                file : DOMAIN given.reports, specs : Seq(ArgSpecs)])
      BY <2>1 DEF RunInit
    <2> QED BY <2>2 DEF RunInit, PassTypeOK
  <1>2. UnderWay /\ WorkListSelected /\ AtStart /\ Told
    BY DEF RunInit, UnderWay, Forced, Busy, WorkListSelected, AtStart, Told, Preserved
  <1>3. Bodies
    <2>1. \A n \in DOMAIN given.functions : given.functions[n].bodies \in Nat
      BY RunsAssumption DEF RunInit
    <2>2. functions = given.functions /\ hasChanged = FALSE
      BY DEF RunInit
    <2> QED BY <2>1, <2>2 DEF Bodies
  <1>4. FilesUsedOnce /\ NonePassedOver /\ ReadAll
    BY DEF RunInit, FilesUsedOnce, NonePassedOver, ReadAll, DirExists, Busy
  <1>5. AdmittedOnly /\ OneReport
    BY DEF RunInit, AdmittedOnly, OneReport
  <1> QED BY <1>1, <1>2, <1>3, <1>4, <1>5 DEF PassInv

\* Before the selection only the options change, and nothing rests on them yet.
LEMMA LookupStep == PassInv /\ Lookup => PassInv'
  <1> SUFFICES ASSUME PassInv, Lookup PROVE PassInv'
    OBVIOUS
  <1> USE DEF PassInv
  <1>1. /\ pc = "lookup" /\ pc' \in {"construct", "unknown pass"}
        /\ UNCHANGED <<buildVars, given, options, functions, runtime, workList, unread, file, specs,
                       hasChanged, dirError, preserved, built>>
    BY DEF Lookup
  <1>2. PassTypeOK' /\ UnderWay' /\ AtStart' /\ Told'
    BY <1>1 DEF PassTypeOK, UnderWay, Forced, Busy, AtStart, Told
  <1>3. WorkListSelected' /\ Bodies' /\ FilesUsedOnce' /\ ReadAll'
    BY <1>1 DEF WorkListSelected, Bodies, FilesUsedOnce, Busy, ReadAll, AtStart
  <1>4. NonePassedOver'
    BY <1>1 DEF NonePassedOver, AtStart
  <1>5. built' = <<>>
    BY <1>1 DEF AtStart
  <1>6. AdmittedOnly' /\ OneReport'
    BY <1>5 DEF AdmittedOnly, OneReport
  <1> QED BY <1>1, <1>2, <1>3, <1>4, <1>6

LEMMA ConstructStep == PassInv /\ Construct => PassInv'
  <1> SUFFICES ASSUME PassInv, Construct PROVE PassInv'
    OBVIOUS
  <1> USE DEF PassInv
  <1>1. /\ pc = "construct" /\ pc' \in {"run", "exited"}
        /\ UNCHANGED <<buildVars, given, functions, runtime, workList, unread, file, specs,
                       hasChanged, dirError, preserved, built>>
    BY DEF Construct
  <1>2. PassTypeOK' /\ UnderWay' /\ AtStart' /\ Told'
    BY <1>1 DEF PassTypeOK, UnderWay, Forced, Busy, AtStart, Told
  <1>3. WorkListSelected' /\ Bodies' /\ FilesUsedOnce' /\ ReadAll'
    BY <1>1 DEF WorkListSelected, Bodies, FilesUsedOnce, Busy, ReadAll, AtStart
  <1>4. NonePassedOver'
    BY <1>1 DEF NonePassedOver, AtStart
  <1>5. AdmittedOnly' /\ OneReport'
    BY <1>1 DEF AdmittedOnly, OneReport, AtStart
  <1> QED BY <1>1, <1>2, <1>3, <1>4, <1>5

\* The answer changes nothing but what the pass manager knows.
LEMMA AnswerStep == PassInv /\ Answer => PassInv'
  <1> SUFFICES ASSUME PassInv, Answer PROVE PassInv'
    OBVIOUS
  <1> USE DEF PassInv, Answer
  <1>1. PassTypeOK' /\ UnderWay' /\ AtStart' /\ Told'
    BY DEF PassTypeOK, UnderWay, Forced, Busy, AtStart, Told, Preserved
  <1>2. WorkListSelected' /\ Bodies' /\ FilesUsedOnce' /\ ReadAll'
    BY DEF WorkListSelected, Admitted, Bodies, FilesUsedOnce, Busy, ReadAll
  <1>3. NonePassedOver'
    BY CallsForStable DEF NonePassedOver, Busy, Served
  <1>4. AdmittedOnly' /\ OneReport'
    BY DEF AdmittedOnly, OneReport, Admitted, Decodings, Forced
  <1> QED BY <1>1, <1>2, <1>3, <1>4

\* The selection fills the work list; all reports are still unread.
LEMMA SelectStep == PassInv /\ SelectFunctions => PassInv'
  <1> SUFFICES ASSUME PassInv, SelectFunctions PROVE PassInv'
    OBVIOUS
  <1> USE DEF PassInv, SelectFunctions
  <1>1. pc' \in {"returned", "nextEntry"} /\ workList' \in {workList, Selected}
    OBVIOUS
  <1>2. PassTypeOK' /\ given' \in Runs
    BY <1>1 DEF PassTypeOK, Selected
  <1>3. UnderWay' /\ AtStart' /\ Told'
    BY <1>1 DEF UnderWay, Forced, Busy, AtStart, Told, Preserved
  <1>4. WorkListSelected'
    BY <1>1 DEF WorkListSelected, Selected, AtStart, Told, Preserved, Admitted
  <1>5. Bodies' /\ FilesUsedOnce'
    BY <1>1 DEF Bodies, FilesUsedOnce, Busy
  <1>6. NonePassedOver'
    BY <1>1 DEF NonePassedOver, AtStart, Told, Preserved
  <1>7. ReadAll'
    BY DEF ReadAll, DirExists, DirGiven
  <1>8. AdmittedOnly' /\ OneReport'
    BY DEF AdmittedOnly, OneReport, Admitted, Decodings, Forced
  <1> QED BY <1>2, <1>3, <1>4, <1>5, <1>6, <1>7, <1>8

\* The entry that is read is either ignored, unreadable, or under way.
LEMMA NextEntryStep == PassInv /\ NextEntry => PassInv'
  <1> SUFFICES ASSUME PassInv, NextEntry PROVE PassInv'
    OBVIOUS
  <1> USE DEF PassInv
  <1>1. PICK f \in unread : /\ unread' = unread \ {f}
                            /\ \/ Ignored(f) /\ UNCHANGED <<pc, file, specs>>
                               \/ ~Ignored(f) /\ Read(f)
    BY DEF NextEntry, Increment
  <1>2. UNCHANGED <<buildVars, given, options, functions, runtime, workList, hasChanged, dirError, preserved, built>>
    BY DEF NextEntry
  <1>3. f \in DOMAIN given.reports
    BY DEF PassTypeOK
  <1>4. \/ pc' \in {"nextEntry", "aborted"}
        \/ pc' = "findFunction" /\ file' = f /\ specs' = <<>> /\ ~Ignored(f)
           /\ given.reports[f].state = "parsed"
    <2>1. given.reports[f].state \in {"cannot stat", "cannot open", "malformed", "parsed"}
      BY <1>3, RunsAssumption
    <2>2. CASE Ignored(f) /\ UNCHANGED <<pc, file, specs>>
      BY <2>2 DEF NextEntry
    <2>3. CASE ~Ignored(f) /\ Read(f)
      BY <2>1, <2>3 DEF Read, AfterReading, Ignored
    <2> QED BY <1>1, <2>2, <2>3
  <1>5. pc' = "nextEntry" => ~CallsFor(given.reports[f])
    BY <1>1, <1>3, RunsAssumption DEF CallsFor, Ignored, Read, AfterReading
  <1>6. PassTypeOK' /\ given' \in Runs
    <2>1. pc' \in {"nextEntry", "aborted", "findFunction"} /\ specs' \in Seq(ArgSpecs)
      <3>1. <<>> \in Seq(ArgSpecs)
        OBVIOUS
      <3> QED BY <1>1, <1>4, <3>1 DEF PassTypeOK, Read
    <2>2. file' \in DOMAIN given.reports \cup {0}
      BY <1>1, <1>3 DEF PassTypeOK, Read
    <2> QED BY <1>1, <1>2, <2>1, <2>2 DEF PassTypeOK
  <1>7. UnderWay'
    <2>1. CASE pc' \in {"nextEntry", "aborted"}
      BY <2>1 DEF UnderWay, Forced, Busy
    <2>2. CASE pc' = "findFunction" /\ file' = f /\ specs' = <<>> /\ ~Ignored(f)
               /\ given.reports[f].state = "parsed"
      BY <1>1, <1>2, <1>3, <2>2 DEF UnderWay, Forced, Busy, Ignored, Report
    <2> QED BY <1>4, <2>1, <2>2
  <1>8. WorkListSelected' /\ AtStart' /\ Told' /\ ReadAll'
    BY <1>2, <1>4 DEF WorkListSelected, Admitted, AtStart, Told, Preserved, ReadAll, DirExists, DirGiven
  <1>9. Bodies'
    BY <1>2 DEF Bodies
  <1>10. FilesUsedOnce'
    BY <1>1, <1>2, <1>4 DEF FilesUsedOnce, Busy
  <1>11. NonePassedOver'
    <2>1. pc = "nextEntry" /\ ~Busy
      BY DEF NextEntry, Busy
    <2> QED BY <1>1, <1>2, <1>4, <1>5, <2>1, CallsForStable DEF NonePassedOver, Busy, Served
  <1>12. AdmittedOnly' /\ OneReport'
    BY <1>2 DEF AdmittedOnly, OneReport, Admitted, Decodings, Forced
  <1> QED BY <1>6, <1>7, <1>8, <1>9, <1>10, <1>11, <1>12


\* The walk ends with everything read, or with an error code.
LEMMA EndOfDirectoryStep == PassInv /\ EndOfDirectory => PassInv'
  <1> SUFFICES ASSUME PassInv, EndOfDirectory PROVE PassInv'
    OBVIOUS
  <1> USE DEF PassInv, EndOfDirectory
  <1>1. PassTypeOK' /\ UnderWay' /\ AtStart' /\ Told'
    BY DEF PassTypeOK, UnderWay, Forced, AtStart, Told, Preserved, Busy
  <1>2. WorkListSelected' /\ Bodies' /\ FilesUsedOnce' /\ ReadAll'
    BY DEF WorkListSelected, Admitted, Bodies, FilesUsedOnce, Busy, ReadAll, DirExists, DirGiven
  <1>3. NonePassedOver'
    BY CallsForStable DEF NonePassedOver, Busy, Served
  <1>4. AdmittedOnly' /\ OneReport'
    BY DEF AdmittedOnly, OneReport, Admitted, Decodings, Forced
  <1> QED BY <1>1, <1>2, <1>3, <1>4

\* A report about any other function than a selected one calls for nothing.
LEMMA FindFunctionStep == PassInv /\ FindFunction => PassInv'
  <1> SUFFICES ASSUME PassInv, FindFunction PROVE PassInv'
    OBVIOUS
  <1> USE DEF PassInv, FindFunction
  <1>1. \/ pc' = "undefined"
        \/ pc' = "decode" /\ Report.func \in workList
        \/ pc' = "nextEntry" /\ Report.func \notin workList
    BY DEF Found
  <1>2. PassTypeOK' /\ UnderWay' /\ AtStart' /\ Told'
    BY <1>1 DEF PassTypeOK, UnderWay, Forced, AtStart, Told, Preserved, Busy, Report
  <1>3. WorkListSelected' /\ Bodies' /\ FilesUsedOnce' /\ ReadAll'
    BY <1>1 DEF WorkListSelected, Admitted, Bodies, FilesUsedOnce, Busy, ReadAll, DirExists, DirGiven
  <1>4. NonePassedOver'
    <2>1. pc' = "nextEntry" => ~CallsFor(given.reports[file])
      BY <1>1 DEF CallsFor, Report
    <2> QED BY <1>1, <2>1, CallsForStable DEF NonePassedOver, Busy, Served
  <1>5. AdmittedOnly' /\ OneReport'
    BY DEF AdmittedOnly, OneReport, Admitted, Decodings, Forced
  <1> QED BY <1>2, <1>3, <1>4, <1>5

\* The specifications are those of the report, as they were cleared before.
LEMMA DecodeStep == PassInv /\ Decode => PassInv'
  <1> SUFFICES ASSUME PassInv, Decode PROVE PassInv'
    OBVIOUS
  <1> USE DEF PassInv
  <1>1. UNCHANGED <<buildVars, given, options, functions, runtime, workList, unread, file, hasChanged,
                    dirError, preserved, built>> /\ pc = "decode"
    BY DEF Decode
  <1>2. \/ pc' = "undefined" /\ specs' = specs
        \/ pc' = "decide" /\ specs' \in Decodings(Report.argspecs)
    <2>1. Report.argspecs \in Seq(Entries) /\ specs = <<>>
      BY <1>1, RunsAssumption DEF UnderWay, Forced, Busy, Report
    <2>2. ASSUME NEW s \in Decodings(Report.argspecs) PROVE <<>> \o s = s
      <3>1. s \in Seq(ArgSpecs)
        BY <2>1, DecodingsType
      <3> QED BY <3>1
    <2> QED BY <2>1, <2>2 DEF Decode
  <1>3. specs' \in Seq(ArgSpecs)
    <2>1. Report.argspecs \in Seq(Entries)
      BY <1>1, RunsAssumption DEF UnderWay, Forced, Busy, Report
    <2> QED BY <1>2, <2>1, DecodingsType DEF PassTypeOK
  <1>4. PassTypeOK'
    BY <1>1, <1>2, <1>3 DEF PassTypeOK
  <1>5. UnderWay'
    BY <1>1, <1>2 DEF UnderWay, Forced, Busy, Report, Decodings
  <1> AtStart' /\ Told'
    BY <1>1, <1>2 DEF AtStart, Told
  <1>6. WorkListSelected' /\ Bodies' /\ FilesUsedOnce' /\ ReadAll'
    BY <1>1, <1>2 DEF WorkListSelected, Admitted, Bodies, FilesUsedOnce, Busy, ReadAll, DirExists, DirGiven
  <1>7. NonePassedOver'
    BY <1>1, <1>2, CallsForStable DEF NonePassedOver, Busy, Served
  <1>8. AdmittedOnly' /\ OneReport'
    BY <1>1 DEF AdmittedOnly, OneReport, Admitted, Decodings, Forced
  <1> QED BY <1>1, <1>4, <1>5, <1>6, <1>7, <1>8

\* A report that is dropped for its specifications calls for nothing; a function
\* that is encapsulated is defined.
LEMMA DecideStep == PassInv /\ Decide => PassInv'
  <1> SUFFICES ASSUME PassInv, Decide PROVE PassInv'
    OBVIOUS
  <1> USE DEF PassInv
  <1>1. /\ UNCHANGED <<given, options, functions, runtime, workList, unread, file, specs, hasChanged,
                       dirError, preserved, built>>
        /\ pc = "decide"
    BY DEF Decide
  <1>2. \/ pc' = "nextEntry" /\ ~requiresConditions /\ ~Forced
        \/ /\ pc' = "encapsulate" /\ (requiresConditions \/ Forced)
           /\ req' = RequestFor(Report.func, runtime, functions, specs)
           /\ phase' = "encapsulateImpl"
    BY DEF Decide, Enter
  <1>3. PassTypeOK' /\ AtStart' /\ Told'
    BY <1>1, <1>2 DEF PassTypeOK, AtStart, Told, Preserved
  <1>4. UnderWay'
    <2>1. pc' = "encapsulate" => ~req'.isDeclaration
      BY <1>1, <1>2 DEF UnderWay, Forced, WorkListSelected, RequestFor, RequestIn
    <2> QED BY <1>1, <1>2, <2>1 DEF UnderWay, Forced, Busy, Report, requiresConditions, Decodings
  <1>5. WorkListSelected' /\ Bodies' /\ FilesUsedOnce' /\ ReadAll'
    BY <1>1, <1>2 DEF WorkListSelected, Admitted, Bodies, FilesUsedOnce, Busy, ReadAll, DirExists, DirGiven
  <1>6. NonePassedOver'
    <2>1. pc' = "nextEntry" => ~CallsFor(given.reports[file])
      BY <1>1, <1>2 DEF UnderWay, Forced, CallsFor, requiresConditions, Report
    <2> QED BY <1>1, <1>2, <2>1, CallsForStable DEF NonePassedOver, Busy, Served
  <1>7. AdmittedOnly' /\ OneReport'
    BY <1>1 DEF AdmittedOnly, OneReport, Admitted, Decodings, Forced
  <1> QED BY <1>1, <1>3, <1>4, <1>5, <1>6, <1>7

\* While the harness is built, nothing else happens.
LEMMA EncapsulateStep == PassInv /\ Encapsulate => PassInv'
  <1> SUFFICES ASSUME PassInv, Encapsulate PROVE PassInv'
    OBVIOUS
  <1> USE DEF PassInv
  <1>1. UNCHANGED runVars /\ pc = "encapsulate" /\ BuildNext
    BY DEF Encapsulate
  <1>2. req' = req /\ phase' # "declined"
    BY <1>1, BuildKeepsRequest DEF UnderWay, Forced, Decided
  <1> USE DEF runVars
  <1>3. PassTypeOK' /\ AtStart' /\ Told'
    BY <1>1 DEF PassTypeOK, AtStart, Told, Preserved
  <1>4. UnderWay'
    BY <1>1, <1>2 DEF UnderWay, Forced, Busy, Report, Decodings
  <1>5. WorkListSelected' /\ Bodies' /\ FilesUsedOnce' /\ ReadAll'
    BY <1>1 DEF WorkListSelected, Admitted, Bodies, FilesUsedOnce, Busy, ReadAll, DirExists, DirGiven
  <1>6. NonePassedOver'
    BY <1>1, CallsForStable DEF NonePassedOver, Busy, Served
  <1>7. AdmittedOnly' /\ OneReport'
    BY <1>1 DEF AdmittedOnly, OneReport, Admitted, Decodings, Forced
  <1> QED BY <1>1, <1>3, <1>4, <1>5, <1>6, <1>7


\* The harness, if it was built, counts for the report under way.
LEMMA EncapsulateReturnsStep == PassInv /\ EncapsulateReturns => PassInv'
  <1> SUFFICES ASSUME PassInv, EncapsulateReturns PROVE PassInv'
    OBVIOUS
  <1> USE DEF PassInv
  <1> DEFINE F == Report.func
             harness == [func |-> F, file |-> file, specs |-> specs]
  <1>1. UNCHANGED <<buildVars, given, options, workList, unread, file, specs, dirError, preserved>> /\ pc = "encapsulate"
    BY DEF EncapsulateReturns
  <1>2. /\ F \in workList /\ F \in DOMAIN given.functions
        /\ file \in DOMAIN given.reports \ unread
        /\ specs \in Decodings(given.reports[file].argspecs)
        /\ phase # "declined"
    BY <1>1 DEF UnderWay, Forced, Busy, WorkListSelected, Report
  <1>3. CASE phase = "done"
    <2>1. pc' = "nextEntry" /\ hasChanged' /\ functions' = WithHarness(functions, F)
          /\ built' = Append(built, harness)
      BY <1>3 DEF EncapsulateReturns, Accumulated
    <2>2. harness \in [func : DOMAIN given.functions, file : DOMAIN given.reports,
                       specs : Seq(ArgSpecs)]
      BY <1>2 DEF PassTypeOK
    <2> built \in Seq([func : DOMAIN given.functions, file : DOMAIN given.reports,
                       specs : Seq(ArgSpecs)])
      BY DEF PassTypeOK
    <2>3. /\ built' \in Seq([func : DOMAIN given.functions, file : DOMAIN given.reports,
                             specs : Seq(ArgSpecs)])
          /\ DOMAIN built' = 1 .. (Len(built) + 1)
          /\ DOMAIN built = 1 .. Len(built)
          /\ Len(built) \in Nat
          /\ \A j \in DOMAIN built : built'[j] = built[j]
          /\ built'[Len(built) + 1] = harness
      BY <2>1, <2>2
    <2>4. \A j \in DOMAIN built' : (j \in DOMAIN built /\ built'[j] = built[j])
                                  \/ (j = Len(built) + 1 /\ built'[j] = harness)
      BY <2>3
    <2>5. /\ DOMAIN functions \subseteq DOMAIN functions'
          /\ \A n \in DOMAIN functions : n # HarnessName(F) => functions'[n] = functions[n]
          /\ HarnessName(F) \in DOMAIN functions'
          /\ functions'[HarnessName(F)].isDeclaration = FALSE
          /\ functions'[HarnessName(F)].bodies =
               (IF HarnessName(F) \in DOMAIN functions THEN functions[HarnessName(F)].bodies ELSE 0) + 1
          /\ DOMAIN functions' = DOMAIN functions \cup {HarnessName(F)}
      BY <2>1 DEF WithHarness
    <2>6. PassTypeOK'
      BY <1>1, <2>1, <2>3, <2>5 DEF PassTypeOK
    <2>7. UnderWay' /\ AtStart' /\ Told' /\ ReadAll'
      BY <1>1, <2>1 DEF UnderWay, Forced, Busy, AtStart, Told, Preserved, ReadAll, DirExists, DirGiven
    <2>8. WorkListSelected'
      BY <1>1, <2>5 DEF WorkListSelected, Admitted, PassTypeOK
    <2>9. Bodies'
      <3>1. \A n \in DOMAIN functions' : functions'[n].bodies \in Nat
        BY <2>5 DEF Bodies
      <3>2. \A n \in DOMAIN given.functions : /\ n \in DOMAIN functions'
                                             /\ given.functions[n].bodies \in Nat
        BY <2>5, RunsAssumption DEF Bodies
      <3>3. \A n \in DOMAIN given.functions : given.functions[n].bodies <= functions'[n].bodies
        BY <2>5, <3>1, <3>2 DEF Bodies
      <3>4. HarnessName(F) \in DOMAIN given.functions =>
              given.functions[HarnessName(F)].bodies < functions'[HarnessName(F)].bodies
        BY <2>5, <3>2 DEF Bodies
      <3> QED BY <1>1, <2>1, <2>5, <3>1, <3>2, <3>3, <3>4 DEF Bodies
    <2>10. FilesUsedOnce'
      <3>1. \A j \in DOMAIN built : built[j].file \notin unread /\ built[j].file # file
        BY <1>1 DEF FilesUsedOnce, Busy
      <3>2. ~Busy'
        BY <2>1 DEF Busy
      <3>3. \A i, j \in DOMAIN built : built[i].file = built[j].file => i = j
        BY DEF FilesUsedOnce
      <3>4. harness.file = file /\ file \notin unread
        BY <1>2
      <3>5. \A j \in DOMAIN built' : built'[j].file \notin unread
        BY <2>4, <3>1, <3>4
      <3>6. ASSUME NEW i \in DOMAIN built', NEW j \in DOMAIN built', built'[i].file = built'[j].file
            PROVE  i = j
        <4>1. CASE i \in DOMAIN built /\ built'[i] = built[i] /\ j \in DOMAIN built /\ built'[j] = built[j]
          BY <3>3, <3>6, <4>1
        <4>2. CASE i = Len(built) + 1 /\ built'[i] = harness /\ j \in DOMAIN built /\ built'[j] = built[j]
          BY <3>1, <3>4, <3>6, <4>2
        <4>3. CASE j = Len(built) + 1 /\ built'[j] = harness /\ i \in DOMAIN built /\ built'[i] = built[i]
          BY <3>1, <3>4, <3>6, <4>3
        <4>4. CASE i = Len(built) + 1 /\ j = Len(built) + 1
          BY <4>4
        <4> QED BY <2>4, <4>1, <4>2, <4>3, <4>4
      <3> QED BY <1>1, <3>2, <3>5, <3>6 DEF FilesUsedOnce
    <2>11. NonePassedOver'
      <3>1. \A f : Served(f) => Served(f)'
        BY <2>3, <2>4 DEF Served
      <3>2. Served(file)'
        <4>1. Len(built) + 1 \in DOMAIN built' /\ built'[Len(built) + 1].file = file'
          BY <1>1, <2>3
        <4> QED BY <4>1 DEF Served
      <3> QED BY <1>1, <2>1, <3>1, <3>2, CallsForStable DEF NonePassedOver, Busy
    <2>12. AdmittedOnly'
      BY <1>1, <1>2, <2>4 DEF AdmittedOnly, Admitted, WorkListSelected
    <2>13. OneReport'
      <3>1. harness.func = given.reports[harness.file].func
            /\ harness.specs \in Decodings(given.reports[harness.file].argspecs)
        BY <1>2 DEF Report
      <3>2. \A j \in DOMAIN built' :
              /\ built'[j].func = given.reports[built'[j].file].func
              /\ built'[j].specs \in Decodings(given.reports[built'[j].file].argspecs)
        BY <2>4, <3>1 DEF OneReport
      <3> QED BY <1>1, <3>2 DEF OneReport
    <2> QED BY <1>1, <2>6, <2>7, <2>8, <2>9, <2>10, <2>11, <2>12, <2>13
  <1>4. CASE phase # "done"
    <2>1. pc' \in {"aborted", "undefined"} /\ UNCHANGED <<hasChanged, functions, built>>
      BY <1>2, <1>4 DEF EncapsulateReturns, Ended
    <2>2. PassTypeOK' /\ UnderWay' /\ AtStart' /\ Told'
      BY <1>1, <2>1 DEF PassTypeOK, UnderWay, Forced, AtStart, Told, Preserved, Busy
    <2>3. WorkListSelected' /\ Bodies' /\ FilesUsedOnce' /\ NonePassedOver' /\ ReadAll'
      BY <1>1, <2>1 DEF WorkListSelected, Admitted, Bodies, FilesUsedOnce, Busy, NonePassedOver, ReadAll, DirExists, DirGiven
    <2>4. AdmittedOnly' /\ OneReport'
      BY <1>1, <2>1 DEF AdmittedOnly, OneReport, Admitted, Decodings, Forced
    <2> QED BY <1>1, <2>2, <2>3, <2>4
  <1> QED BY <1>3, <1>4

\* Every step keeps the invariant.
LEMMA PassInvStep == PassInv /\ [Next]_vars => PassInv'
  <1>1. PassInv /\ UNCHANGED vars => PassInv'
    <2> SUFFICES ASSUME PassInv, UNCHANGED vars PROVE PassInv'
      OBVIOUS
    <2> USE DEF PassInv, vars, runVars, buildVars
    <2>1. UnderWay'
      BY DEF UnderWay, Forced, Busy, Report, Decodings
    <2> PassTypeOK' /\ AtStart' /\ Told'
      BY DEF PassTypeOK, AtStart, Told, Preserved
    <2>2. WorkListSelected' /\ Bodies' /\ FilesUsedOnce' /\ ReadAll'
      BY DEF WorkListSelected, Admitted, Bodies, FilesUsedOnce, Busy, ReadAll, DirExists, DirGiven
    <2>3. NonePassedOver'
      BY CallsForStable DEF NonePassedOver, Busy, Served
    <2>4. AdmittedOnly' /\ OneReport'
      BY DEF AdmittedOnly, OneReport, Admitted, Decodings, Forced
    <2> QED BY <2>1, <2>2, <2>3, <2>4
  <1> QED BY <1>1, LookupStep, ConstructStep, SelectStep, AnswerStep, NextEntryStep,
             EndOfDirectoryStep, FindFunctionStep, DecodeStep, DecideStep, EncapsulateStep, EncapsulateReturnsStep DEF Next

-----------------------------------------------------------------------------

\* The inductive invariant holds of every run.
THEOREM PassInvariance == Spec => []PassInv
  BY PassInvInit, PassInvStep, PTL DEF Spec

\* Every variable keeps its type.
THEOREM PassTypeCorrect == Spec => []PassTypeOK
  <1>1. PassInv => PassTypeOK
    BY DEF PassInv
  <1> QED BY <1>1, PassInvariance, PTL

\* run: argSpecs.clear() keeps the reports apart, in whatever order they come.
THEOREM PassOneReport == Spec => []OneReport
  <1>1. PassInv => OneReport
    BY DEF PassInv
  <1> QED BY <1>1, PassInvariance, PTL

\* run: the result is TRUE if and only if the module was changed, and the pass
\* manager drops its analyses of the module only when it was not.
THEOREM PassChangeReported == Spec => []ChangeReported
  <1>1. PassInv => ChangeReported
    <2> SUFFICES ASSUME PassInv PROVE hasChanged <=> functions # given.functions
      BY DEF ChangeReported, PassInv, Told, Preserved
    <2>1. CASE hasChanged
      <3>1. PICK n \in DOMAIN functions :
              n \in DOMAIN given.functions => given.functions[n].bodies < functions[n].bodies
        BY <2>1 DEF PassInv, Bodies
      <3>2. functions[n].bodies \in Nat
        BY <3>1 DEF PassInv, Bodies
      <3> QED BY <2>1, <3>1, <3>2
    <2>2. CASE ~hasChanged
      BY <2>2 DEF PassInv, Bodies
    <2> QED BY <2>1, <2>2 DEF PassInv, PassTypeOK
  <1> QED BY <1>1, PassInvariance, PTL

-----------------------------------------------------------------------------
(***************************************************************************)
(* What encapsulate leaves for the next call of it.                        *)
(***************************************************************************)

LEMMA ModuleInvInit == RunInit => ModuleInv
  <1> SUFFICES ASSUME RunInit PROVE ModuleInv
    OBVIOUS
  <1>1. functions = given.functions /\ runtime = given.runtime /\ "symenc_F" \notin DOMAIN runtime
    BY RunsAssumption DEF RunInit
  <1> QED BY <1>1 DEF RunInit, ModuleInv, Stems

\* Nothing but the return of encapsulate changes the module.
LEMMA ModuleUnchanged ==
  ASSUME ModuleInv, UNCHANGED <<given, functions, runtime, built>>,
         pc' = "encapsulate" => req' = RequestFor(Report.func, runtime, functions, specs)' /\ SymsInv'
  PROVE  ModuleInv'
  BY DEF ModuleInv, IsMade

LEMMA SequenceElements == ASSUME NEW S, NEW s \in Seq(S), NEW j \in DOMAIN s PROVE s[j] \in S
  OBVIOUS

\* What holds of the module when encapsulate returns.
LEMMA ModuleReturns == ASSUME PassInv, ModuleInv, EncapsulateReturns PROVE ModuleInv'
  <1> DEFINE F == Report.func
             h == HarnessName(F)
             harness == [func |-> F, file |-> file, specs |-> specs]
  <1>1. /\ pc = "encapsulate" /\ pc' # "encapsulate"
        /\ given' = given /\ runtime' = Declared
        /\ req = RequestFor(F, runtime, functions, specs) /\ SymsInv
    BY DEF EncapsulateReturns, ModuleInv, Ended
  <1>2. Stems(runtime', given'.runtime) /\ "symenc_F" \notin DOMAIN runtime'
    <2>1. /\ DOMAIN runtime' = DOMAIN syms \ {"symenc_F"}
          /\ \A n \in DOMAIN runtime' : runtime'[n] = syms[n]
      BY <1>1 DEF Declared
    <2>2. \A n \in DOMAIN req.syms \ {"symenc_F"} : n \in DOMAIN runtime /\ req.syms[n] = runtime[n]
      <3>1. CASE h \in DOMAIN functions
        <4>1. req.syms = Declare(runtime, [symenc_F |-> functions[h].type])
          BY <1>1, <3>1 DEF RequestFor, RequestIn
        <4> QED BY <4>1 DEF Declare
      <3>2. CASE h \notin DOMAIN functions
        <4>1. req.syms = runtime
          BY <1>1, <3>2 DEF RequestFor, RequestIn
        <4> QED BY <4>1
      <3> QED BY <3>1, <3>2
    <2>3. Stems(syms, req.syms) /\ Stems(runtime, given.runtime)
      BY <1>1 DEF SymsInv, ModuleInv
    <2> SUFFICES ASSUME NEW n \in DOMAIN runtime'
                 PROVE  \/ n \in DOMAIN given.runtime /\ runtime'[n] = given.runtime[n]
                        \/ \E d \in DeclSets : n \in DOMAIN d /\ runtime'[n] = d[n]
      BY <1>1, <2>1 DEF Stems
    <2>4. CASE n \in DOMAIN req.syms /\ syms[n] = req.syms[n]
      <3>1. n \in DOMAIN runtime /\ runtime'[n] = runtime[n]
        BY <2>1, <2>2, <2>4
      <3> QED BY <2>3, <3>1 DEF Stems
    <2>5. CASE \E d \in DeclSets : n \in DOMAIN d /\ syms[n] = d[n]
      BY <2>1, <2>5
    <2> QED BY <2>1, <2>3, <2>4, <2>5 DEF Stems
  <1>3. CASE phase = "done"
    <2>1. functions' = WithHarness(functions, F) /\ built' = Append(built, harness)
      BY <1>3 DEF EncapsulateReturns
    <2>2. /\ DOMAIN functions' = DOMAIN functions \cup {h}
          /\ \A n \in DOMAIN functions : n # h => functions'[n] = functions[n]
      BY <2>1 DEF WithHarness
    <2>3. built \in Seq([func : DOMAIN given.functions, file : DOMAIN given.reports,
                         specs : Seq(ArgSpecs)])
      BY DEF PassInv, PassTypeOK
    <2> HIDE DEF h
    <2>4. /\ \A j \in DOMAIN built : j \in DOMAIN built' /\ built'[j] = built[j]
          /\ Len(built) + 1 \in DOMAIN built' /\ built'[Len(built) + 1] = harness
      <3> HIDE DEF harness
      <3> QED BY <2>1, <2>3
    <2>5. \A n : IsMade(n) => IsMade(n)'
      BY <1>1, <2>4 DEF IsMade
    <2>6. ASSUME NEW m, m = h PROVE IsMade(m)'
      <3>1. \E j \in DOMAIN built' : h = HarnessName(built'[j].func)
        BY <2>4 DEF h
      <3>2. ASSUME h \in DOMAIN given.functions PROVE given.functions[h].params = <<>>
        <4>1. h \in DOMAIN functions
          BY <3>2 DEF PassInv, Bodies
        <4>2. CASE functions[h] = given.functions[h]
          <5>1. req.syms = Declare(runtime, [symenc_F |-> functions[h].type])
            BY <1>1, <4>1 DEF h, RequestFor, RequestIn
          <5>2. "symenc_F" \in DOMAIN req.syms /\ req.syms["symenc_F"] = functions[h].type
            BY <5>1 DEF Declare, ModuleInv
          <5>3. CanDeclare(req.syms, HarnessDecl)
            BY <1>1, <1>3 DEF SymsInv
          <5>4. functions[h].type = HarnessTy
            BY <5>2, <5>3 DEF CanDeclare, HarnessDecl
          <5>5. given \in Runs
            BY DEF PassInv
          <5> QED BY <3>2, <4>2, <5>4, <5>5, RunsAssumption
        <4>3. CASE IsMade(h)
          BY <3>2, <4>3 DEF IsMade
        <4> QED BY <4>1, <4>2, <4>3 DEF ModuleInv
      <3> QED BY <1>1, <2>6, <3>1, <3>2 DEF IsMade
    <2>7. ASSUME NEW n \in DOMAIN functions'
          PROVE  (n \in DOMAIN given.functions /\ functions'[n] = given.functions[n]) \/ IsMade(n)'
      <3>1. CASE n = h
        BY <2>6, <3>1
      <3>2. CASE n # h
        <4>1. n \in DOMAIN functions /\ functions'[n] = functions[n]
          BY <2>2, <3>2
        <4> QED BY <2>5, <4>1 DEF ModuleInv
      <3> QED BY <3>1, <3>2
    <2> QED BY <1>1, <1>2, <2>7 DEF ModuleInv
  <1>4. CASE phase # "done"
    <2>1. functions' = functions /\ built' = built
      BY <1>4 DEF EncapsulateReturns
    <2>2. \A n : IsMade(n)' <=> IsMade(n)
      BY <1>1, <2>1 DEF IsMade
    <2> QED BY <1>1, <1>2, <2>1, <2>2 DEF ModuleInv
  <1> QED BY <1>3, <1>4

LEMMA ModuleInvStep == PassInv /\ ModuleInv /\ [Next]_vars => ModuleInv'
  <1> SUFFICES ASSUME PassInv, ModuleInv, [Next]_vars PROVE ModuleInv'
    OBVIOUS
  <1>1. CASE Lookup \/ Construct \/ SelectFunctions \/ Answer \/ NextEntry \/ EndOfDirectory
             \/ FindFunction \/ Decode
    <2>1. pc' # "encapsulate" /\ UNCHANGED <<given, functions, runtime, built>>
      <3>1. CASE NextEntry
        <4>1. PICK f \in unread : \/ Ignored(f) /\ UNCHANGED <<pc, file, specs>>
                                  \/ ~Ignored(f) /\ Read(f)
          BY <3>1 DEF NextEntry
        <4>2. given.reports[f].state \in {"cannot stat", "cannot open", "malformed", "parsed"}
          BY RunsAssumption DEF PassInv, PassTypeOK
        <4> QED BY <3>1, <4>1, <4>2 DEF NextEntry, Read, AfterReading, Ignored
      <3> QED BY <1>1, <3>1 DEF Lookup, Construct, SelectFunctions, Answer, EndOfDirectory,
                               FindFunction, Decode
    <2> QED BY <2>1, ModuleUnchanged
  <1>2. CASE Decide
    <2>1. UNCHANGED <<given, options, functions, runtime, built, specs, file>>
      BY <1>2 DEF Decide
    <2>2. ASSUME pc' = "encapsulate"
          PROVE  req' = RequestFor(Report.func, runtime, functions, specs)' /\ SymsInv'
      <3>1. Enter(RequestFor(Report.func, runtime, functions, specs))
        BY <1>2, <2>2 DEF Decide
      <3>2. req' = RequestFor(Report.func, runtime, functions, specs)'
        BY <2>1, <3>1 DEF Enter, RequestFor, Report
      <3>3. phase' = "encapsulateImpl" /\ syms' = req'.syms
        BY <3>1 DEF Enter
      <3>4. SymsInv'
        BY <3>3 DEF SymsInv, Stems
      <3> QED BY <3>2, <3>4
    <2> QED BY <2>1, <2>2, ModuleUnchanged
  <1>3. CASE Encapsulate
    <2>1. /\ UNCHANGED <<given, options, functions, runtime, built, specs, file>>
          /\ pc = "encapsulate" /\ BuildNext
      BY <1>3 DEF Encapsulate, runVars
    <2>2. Decided
      BY <2>1 DEF PassInv, UnderWay, Decided
    <2>3. req' = req /\ SymsInv'
      BY <2>1, <2>2, BuildKeepsRequest, SymsStep DEF ModuleInv
    <2>4. RequestFor(Report.func, runtime, functions, specs)'
            = RequestFor(Report.func, runtime, functions, specs)
      BY <2>1 DEF RequestFor, Report
    <2> QED BY <2>1, <2>3, <2>4, ModuleUnchanged DEF ModuleInv
  <1>4. CASE EncapsulateReturns
    BY <1>4, ModuleReturns
  <1>5. CASE UNCHANGED vars
    <2>1. /\ UNCHANGED <<given, options, functions, runtime, built, specs, file, pc>>
          /\ req' = req /\ syms' = syms /\ phase' = phase
      BY <1>5 DEF vars, runVars, buildVars
    <2>2. SymsInv => SymsInv'
      BY <2>1 DEF SymsInv
    <2>3. RequestFor(Report.func, runtime, functions, specs)'
            = RequestFor(Report.func, runtime, functions, specs)
      BY <2>1 DEF RequestFor, Report
    <2> QED BY <2>1, <2>2, <2>3, ModuleUnchanged DEF ModuleInv
  <1> QED BY <1>1, <1>2, <1>3, <1>4, <1>5 DEF Next

\* encapsulateImpl: a function that could have its harness in the module as it was
\* given can have it in the module that the other functions' harnesses have joined.
THEOREM PassStillSupported == Spec => []StillSupported
  <1>1. PassInv /\ ModuleInv => StillSupported
    <2> DEFINE F == Report.func
               h == HarnessName(F)
    <2> SUFFICES ASSUME PassInv, ModuleInv, pc = "encapsulate",
                        NEW r, r = RequestFor(F, given.runtime, given.functions, specs),
                        \A j \in DOMAIN built : built[j].func # F, Supported(r)
                 PROVE  Supported(req)
      BY DEF StillSupported
    <2>1. /\ req = RequestFor(F, runtime, functions, specs)
          /\ given \in Runs
          /\ F \in workList /\ F \in DOMAIN given.functions /\ F \in DOMAIN functions
          /\ ~functions[F].isDeclaration
      BY DEF ModuleInv, PassInv, UnderWay, WorkListSelected, PassTypeOK
    <2>2. r.params = given.functions[F].params /\ r.params # <<>>
      BY DEF Supported, RequestFor, RequestIn
    <2>3. functions[F] = given.functions[F]
      BY <2>1, <2>2 DEF ModuleInv, IsMade
    <2>4. ASSUME NEW j \in DOMAIN built PROVE HarnessName(built[j].func) # h
      <3>1. built[j] \in [func : DOMAIN given.functions, file : DOMAIN given.reports,
                           specs : Seq(ArgSpecs)]
        BY <2>4, SequenceElements DEF PassInv, PassTypeOK
      <3>2. built[j].func \in DOMAIN given.functions /\ built[j].func # F
        BY <2>4, <3>1
      <3>3. \A n \in DOMAIN given.functions : n \in STRING \X Nat
        BY <2>1, RunsAssumption
      <3>4. built[j].func \in STRING \X Nat /\ F \in STRING \X Nat
        BY <2>1, <3>2, <3>3
      <3> QED BY <3>2, <3>4 DEF HarnessName
    <2>5. /\ h \in DOMAIN functions =>
               h \in DOMAIN given.functions /\ functions[h] = given.functions[h]
          /\ h \in DOMAIN given.functions => h \in DOMAIN functions
      BY <2>4 DEF ModuleInv, IsMade, PassInv, Bodies
    <2> HIDE DEF h
    <2>6. Stems(req.syms, r.syms)
      <3>1. Stems(runtime, given.runtime)
        BY DEF ModuleInv
      <3>2. CASE h \in DOMAIN functions
        <4>1. /\ req.syms = Declare(runtime, [symenc_F |-> functions[h].type])
              /\ r.syms = Declare(given.runtime, [symenc_F |-> functions[h].type])
          BY <2>1, <2>5, <3>2 DEF h, RequestFor, RequestIn
        <4>2. "symenc_F" \notin DOMAIN given.runtime /\ "symenc_F" \notin DOMAIN runtime
          BY <2>1, RunsAssumption DEF ModuleInv
        <4> SUFFICES ASSUME NEW n \in DOMAIN req.syms
                     PROVE  \/ n \in DOMAIN r.syms /\ req.syms[n] = r.syms[n]
                            \/ \E d \in DeclSets : n \in DOMAIN d /\ req.syms[n] = d[n]
          BY DEF Stems
        <4>3. CASE n = "symenc_F"
          BY <4>1, <4>2, <4>3 DEF Declare
        <4>4. CASE n # "symenc_F"
          <5>1. n \in DOMAIN runtime /\ req.syms[n] = runtime[n]
            BY <4>1, <4>4 DEF Declare
          <5>2. \A m \in DOMAIN given.runtime : m \in DOMAIN r.syms /\ r.syms[m] = given.runtime[m]
            BY <4>1 DEF Declare
          <5> QED BY <3>1, <5>1, <5>2 DEF Stems
        <4> QED BY <4>3, <4>4
      <3>3. CASE h \notin DOMAIN functions
        <4>1. req.syms = runtime /\ r.syms = given.runtime
          BY <2>1, <2>5, <3>3 DEF h, RequestFor, RequestIn
        <4> QED BY <3>1, <4>1
      <3> QED BY <3>2, <3>3
    <2>7. \A d \in {HarnessDecl, HeapDecls, SymbolicDecls, AssertDecls} : CanDeclare(req.syms, d)
      <3>1. \A d \in DeclSets : CanDeclare(r.syms, d)
        BY DEF Supported, DeclSets
      <3>2. \A d \in DeclSets : CanDeclare(req.syms, d)
        BY <2>6, <3>1, RoomStays
      <3> QED BY <3>2 DEF DeclSets
    <2>8. /\ ~req.isDeclaration /\ req.params = r.params /\ req.argSpecs = r.argSpecs
          /\ req.iterations = r.iterations /\ req.NDEBUG = r.NDEBUG
          /\ ~req.hasHarnessBody
      <3>1. ~r.hasHarnessBody
        BY DEF Supported
      <3>2. ~(h \in DOMAIN given.functions /\ ~given.functions[h].isDeclaration)
        BY <3>1 DEF h, RequestFor, RequestIn
      <3>3. ~(h \in DOMAIN functions /\ ~functions[h].isDeclaration)
        BY <2>5, <3>2
      <3> QED BY <2>1, <2>3, <3>3 DEF h, RequestFor, RequestIn
    <2> QED BY <2>7, <2>8 DEF Supported
  <1>2. Spec => []ModuleInv
    BY PassInvariance, ModuleInvInit, ModuleInvStep, PTL DEF Spec
  <1> QED BY <1>1, <1>2, PassInvariance, PTL

-----------------------------------------------------------------------------
(***************************************************************************)
(* The way from the loops to the comparisons.                              *)
(***************************************************************************)
Start == B("se.start.teardown")

\* The block is empty until createSymbolicAssertions gives it its branch.
StartInv ==
  /\ phase = "encapsulateImpl" => ir = InitialBlocks(req)
  /\ phase \notin {"encapsulateImpl", "declined", "aborted", "undefined"} =>
       /\ argSpecs = FillMissing(req.argSpecs, NumParams)
       /\ Start \in DOMAIN ir
       /\ ir[Start] = IF phase \in {"setupHarnessArgs", "createSymbolicDeclarations",
                                    "createSymbolicAssertions"} THEN <<>> ELSE StartCode

ComparingInv ==
  /\ \A n \in DOMAIN functions : functions[n].params \in Seq(Types)
  /\ pc = "encapsulate" => StartInv

\* The least of some naturals is one of them.
LEMMA LeastIn == ASSUME NEW S, S \subseteq Nat, S # {} PROVE Min(S) \in S
  <1>1. PICK m \in S : \A y \in S : ~(<<y, m>> \in OpToRel(<, Nat))
    BY WFMin, NatLessThanWellFounded
  <1>2. ASSUME NEW y \in S PROVE m <= y
    <2>1. m \in Nat /\ y \in Nat /\ ~(<<y, m>> \in OpToRel(<, Nat))
      BY <1>1
    <2> QED BY <2>1 DEF OpToRel
  <1> QED BY <1>2 DEF Min

LEMMA StartNamed == /\ Start \in {B(n) : n \in NamedBlocks} /\ Start # B("entry")
                    /\ \A n : n # "se.start.teardown" => Start # B(n)
                    /\ \A i : Start \notin {Cond(i), Fail(i), <<"hdr", i>>, <<"latch", i>>,
                                            <<"loop.exit", i>>}
  <1>1. Start \in {B(n) : n \in NamedBlocks} /\ Start # B("entry")
    BY DEF Start, B, NamedBlocks
  <1>2. \A n : n # "se.start.teardown" => Start # B(n)
    BY DEF Start, B
  <1>3. \A i : Start \notin {Cond(i), Fail(i), <<"hdr", i>>, <<"latch", i>>, <<"loop.exit", i>>}
    BY DEF Start, B, Cond, Fail
  <1> QED BY <1>1, <1>2, <1>3

LEMMA StartStep == ASSUME StartInv, BuildNext PROVE StartInv'
  <1> DEFINE early == {"setupHarnessArgs", "createSymbolicDeclarations", "createSymbolicAssertions"}
             bad == {"declined", "aborted", "undefined"}
  <1>1. CASE EncapsulateImpl
    <2>1. CASE phase' \in bad
      BY <2>1 DEF StartInv
    <2>2. CASE phase' \notin bad
      <3>1. /\ phase' = "setupHarnessArgs" /\ req' = req
            /\ argSpecs' = FillMissing(req.argSpecs, NumParams)
            /\ ir' = AddBlocks(ir, [b \in {B(n) : n \in NamedBlocks} |-> <<>>])
            /\ ir = InitialBlocks(req)
        BY <1>1, <2>2 DEF EncapsulateImpl, FailedCast, StartInv
      <3>2. Start \notin DOMAIN ir
        BY <3>1, StartNamed DEF InitialBlocks
      <3>3. Start \in DOMAIN ir' /\ ir'[Start] = <<>>
        BY <3>1, <3>2, StartNamed DEF AddBlocks
      <3> QED BY <3>1, <3>3 DEF StartInv, NumParams
    <2> QED BY <2>1, <2>2
  <1>2. ASSUME req' = req, argSpecs' = argSpecs, phase \notin bad \cup {"encapsulateImpl"},
               phase' # "encapsulateImpl",
               phase' \notin bad =>
                 /\ Start \in DOMAIN ir'
                 /\ ir'[Start] = ir[Start]
                 /\ phase \in early <=> phase' \in early
        PROVE  StartInv'
    <2>1. StartCode' = StartCode
      BY <1>2 DEF StartCode, NextCond, OutboundArgs, Direction, NumParams
    <2> QED BY <1>2, <2>1 DEF StartInv, NumParams
  <1>3. ASSUME NEW code, Start \in DOMAIN code, NEW n, n # "se.start.teardown", NEW insts
        PROVE  Start \in DOMAIN Emit(code, B(n), insts) /\ Emit(code, B(n), insts)[Start] = code[Start]
    BY <1>3, StartNamed DEF Emit
  <1>4. ASSUME NEW code, Start \in DOMAIN code, NEW more
        PROVE  Start \in DOMAIN AddBlocks(code, more) /\ AddBlocks(code, more)[Start] = code[Start]
    BY <1>4 DEF AddBlocks
  <1>5. CASE SetupHarnessArgs
    <2>1. /\ req' = req /\ argSpecs' = argSpecs /\ phase = "setupHarnessArgs"
          /\ phase' \in {"createSymbolicDeclarations", "aborted", "undefined"}
      BY <1>5 DEF SetupHarnessArgs, FailedCast
    <2>2. Start \in DOMAIN ir
      BY <2>1 DEF StartInv
    <2>3. phase' \notin bad =>
            ir' = ir \/ ir' = Emit(Emit(ir, B("setup"), SetupCode), B("teardown"), TeardownCode)
      BY <1>5 DEF SetupHarnessArgs, FailedCast
    <2>4. phase' \notin bad => Start \in DOMAIN ir' /\ ir'[Start] = ir[Start]
      BY <1>3, <2>2, <2>3
    <2> QED BY <1>2, <2>1, <2>4
  <1>6. CASE CreateSymbolicDeclarations
    <2>1. /\ req' = req /\ argSpecs' = argSpecs /\ phase = "createSymbolicDeclarations"
          /\ phase' \in {"createSymbolicAssertions", "aborted", "undefined"}
      BY <1>6 DEF CreateSymbolicDeclarations, FailedCast
    <2>2. Start \in DOMAIN ir
      BY <2>1 DEF StartInv
    <2>3. phase' \notin bad =>
            ir' = Emit(ir, B("se.setup"), FlattenSeq([i \in 1 .. NumParams |-> SymbolicCode(i)]))
      BY <1>6 DEF CreateSymbolicDeclarations, FailedCast
    <2>4. phase' \notin bad => Start \in DOMAIN ir' /\ ir'[Start] = ir[Start]
      BY <1>3, <2>2, <2>3
    <2> QED BY <1>2, <2>1, <2>4
  <1>7. CASE CreateSymbolicAssertions
    <2>1. /\ req' = req /\ argSpecs' = argSpecs /\ phase = "createSymbolicAssertions"
          /\ phase' \in {"createLoop1", "aborted", "undefined"}
      BY <1>7 DEF CreateSymbolicAssertions, FailedCast
    <2>2. CASE phase' \in bad
      BY <2>2 DEF StartInv
    <2>3. CASE phase' = "createLoop1"
      <3>1. ir' = AddBlocks(Emit(ir, Start, StartCode), AssertionBlocks)
        BY <1>7, <2>3 DEF CreateSymbolicAssertions, FailedCast, Start
      <3>2. Start \in DOMAIN ir /\ ir[Start] = <<>> /\ argSpecs = FillMissing(req.argSpecs, NumParams)
        BY <2>1 DEF StartInv
      <3>3. <<>> \o StartCode = StartCode
        <4>1. \A x : <<x>> \in Seq({x})
          OBVIOUS
        <4>2. \A x : <<>> \o <<x>> = <<x>>
          BY <4>1
        <4> QED BY <4>2 DEF StartCode
      <3>4. Start \in DOMAIN Emit(ir, Start, StartCode) /\ Emit(ir, Start, StartCode)[Start] = StartCode
        BY <3>2, <3>3 DEF Emit
      <3>5. Start \in DOMAIN ir' /\ ir'[Start] = StartCode
        BY <1>4, <3>1, <3>4
      <3>6. StartCode' = StartCode
        BY <2>1 DEF StartCode, NextCond, OutboundArgs, Direction, NumParams
      <3> QED BY <2>1, <2>3, <3>2, <3>5, <3>6 DEF StartInv, NumParams
    <2> QED BY <2>1, <2>2, <2>3
  <1>8. ASSUME NEW k \in {1, 2}, CreateLoop(k) PROVE StartInv'
    <2>1. /\ req' = req /\ argSpecs' = argSpecs /\ phase \in {"createLoop1", "createLoop2"}
          /\ phase' \in {"createLoop2", "passIterator", "aborted"}
      BY <1>8 DEF CreateLoop
    <2>2. Start \in DOMAIN ir
      BY <2>1 DEF StartInv
    <2> DEFINE pre == IF k = 1 THEN "call1.setup" ELSE "call2.setup"
               body == IF k = 1 THEN "call1.body" ELSE "call2.body"
    <2>3. phase' \notin bad =>
            ir' = AddBlocks(Emit(Emit(ir, B(pre), <<Br(<<"hdr", k>>)>>), B(body), <<Br(<<"latch", k>>)>>),
                            LoopBlocks(k))
      BY <1>8 DEF CreateLoop, Names
    <2>4. pre # "se.start.teardown" /\ body # "se.start.teardown"
      OBVIOUS
    <2> HIDE DEF pre, body
    <2>5. phase' \notin bad => Start \in DOMAIN ir' /\ ir'[Start] = ir[Start]
      BY <1>3, <1>4, <2>2, <2>3, <2>4
    <2> QED BY <1>2, <2>1, <2>5
  <1>9. CASE PassIterator
    <2>1. /\ req' = req /\ argSpecs' = argSpecs /\ ir' = ir /\ phase = "passIterator"
          /\ phase' \in {"createCall1", "undefined"}
      BY <1>9 DEF PassIterator
    <2>2. Start \in DOMAIN ir
      BY <2>1 DEF StartInv
    <2> QED BY <1>2, <2>1, <2>2
  <1>10. ASSUME NEW k \in {1, 2}, CreateCall(k) PROVE StartInv'
    <2>1. /\ req' = req /\ argSpecs' = argSpecs /\ phase \in {"createCall1", "createCall2"}
          /\ phase' \in {"createCall2", "controlFlow", "undefined"}
      BY <1>10 DEF CreateCall
    <2>2. Start \in DOMAIN ir
      BY <2>1 DEF StartInv
    <2>3. Start # Names(k).body
      BY StartNamed DEF Names
    <2>4. phase' \notin bad => Start \in DOMAIN ir' /\ ir'[Start] = ir[Start]
      BY <1>10, <2>2, <2>3 DEF CreateCall
    <2> QED BY <1>2, <2>1, <2>4
  <1>11. CASE SetupControlFlow
    <2>1. /\ req' = req /\ argSpecs' = argSpecs /\ phase = "controlFlow" /\ phase' = "done"
      BY <1>11 DEF SetupControlFlow
    <2>2. Start \in DOMAIN ir
      BY <2>1 DEF StartInv
    <2>3. "se.start.teardown" \notin DOMAIN Successor
      BY DEF Successor
    <2>4. Start # B("exit") /\ Start \notin {B(n) : n \in DOMAIN Successor}
      BY <2>3, StartNamed
    <2>5. Start \in DOMAIN ir' /\ ir'[Start] = ir[Start]
      BY <1>11, <2>2, <2>4 DEF SetupControlFlow
    <2> QED BY <1>2, <2>1, <2>5
  <1> QED BY <1>1, <1>5, <1>6, <1>7, <1>8, <1>9, <1>10, <1>11 DEF BuildNext

LEMMA ComparingInvInit == RunInit => ComparingInv
  BY RunsAssumption DEF RunInit, ComparingInv

LEMMA ComparingInvStep == PassInv /\ ComparingInv /\ [Next]_vars => ComparingInv'
  <1> SUFFICES ASSUME PassInv, ComparingInv, [Next]_vars PROVE ComparingInv'
    OBVIOUS
  <1>1. CASE Lookup \/ Construct \/ SelectFunctions \/ Answer \/ NextEntry \/ EndOfDirectory
             \/ FindFunction \/ Decode
    <2>1. pc' # "encapsulate" /\ functions' = functions
      <3>1. CASE NextEntry
        <4>1. PICK f \in unread : \/ Ignored(f) /\ UNCHANGED <<pc, file, specs>>
                                  \/ ~Ignored(f) /\ Read(f)
          BY <3>1 DEF NextEntry
        <4>2. given.reports[f].state \in {"cannot stat", "cannot open", "malformed", "parsed"}
          BY RunsAssumption DEF PassInv, PassTypeOK
        <4> QED BY <3>1, <4>1, <4>2 DEF NextEntry, Read, AfterReading, Ignored
      <3> QED BY <1>1, <3>1 DEF Lookup, Construct, SelectFunctions, Answer, EndOfDirectory,
                               FindFunction, Decode
    <2> QED BY <2>1 DEF ComparingInv
  <1>2. CASE Decide
    <2>1. functions' = functions
      BY <1>2 DEF Decide
    <2>2. ASSUME pc' = "encapsulate" PROVE StartInv'
      <3>1. Enter(RequestFor(Report.func, runtime, functions, specs))
        BY <1>2, <2>2 DEF Decide
      <3>2. phase' = "encapsulateImpl" /\ ir' = InitialBlocks(req')
        BY <3>1 DEF Enter
      <3> QED BY <3>2 DEF StartInv, InitialBlocks
    <2> QED BY <2>1, <2>2 DEF ComparingInv
  <1>3. CASE Encapsulate
    <2>1. pc = "encapsulate" /\ functions' = functions /\ BuildNext
      BY <1>3 DEF Encapsulate, runVars
    <2>2. StartInv'
      BY <2>1, StartStep DEF ComparingInv
    <2> QED BY <2>1, <2>2 DEF ComparingInv
  <1>4. CASE EncapsulateReturns
    <2>1. pc' # "encapsulate"
      BY <1>4 DEF EncapsulateReturns, Ended
    <2>2. functions' = functions \/ functions' = WithHarness(functions, Report.func)
      BY <1>4 DEF EncapsulateReturns
    <2>3. <<>> \in Seq(Types)
      OBVIOUS
    <2>4. ASSUME NEW n \in DOMAIN functions' PROVE functions'[n].params \in Seq(Types)
      <3>1. CASE functions' = functions
        BY <3>1 DEF ComparingInv
      <3>2. CASE functions' = WithHarness(functions, Report.func)
        <4>1. \/ functions'[n].params = <<>>
              \/ n \in DOMAIN functions /\ functions'[n] = functions[n]
          BY <3>2 DEF WithHarness
        <4> QED BY <2>3, <4>1 DEF ComparingInv
      <3> QED BY <2>2, <3>1, <3>2
    <2> QED BY <2>1, <2>4 DEF ComparingInv
  <1>5. CASE UNCHANGED vars
    <2>1. UNCHANGED <<functions, pc, req, phase, argSpecs, ir>>
      BY <1>5 DEF vars, runVars, buildVars
    <2>2. StartCode' = StartCode
      BY <2>1 DEF StartCode, NextCond, OutboundArgs, Direction, NumParams
    <2>3. StartInv => StartInv'
      BY <2>1, <2>2 DEF StartInv, NumParams, InitialBlocks
    <2> QED BY <2>1, <2>3 DEF ComparingInv
  <1> QED BY <1>1, <1>2, <1>3, <1>4, <1>5 DEF Next

\* run and encapsulateImpl: for any module and any report with no more entries than
\* the function has parameters, a harness that was not forced goes from its loops
\* to the comparison of an argument.
THEOREM PassUnforcedCompares == Spec => []UnforcedCompares
  <1>1. PassInv /\ ModuleInv /\ ComparingInv => UnforcedCompares
    <2> SUFFICES ASSUME PassInv, ModuleInv, ComparingInv, pc = "encapsulate", phase = "done",
                        ~Forced, Len(specs) <= NumParams
                 PROVE  \E i \in 1 .. NumParams : ir[Start] = <<Br(Cond(i))>>
      BY DEF UnforcedCompares, Start
    <2>1. req.argSpecs = specs /\ req.params = functions[Report.func].params
      BY DEF ModuleInv, RequestFor, RequestIn
    <2>2. NumParams \in Nat
      <3>1. Report.func \in DOMAIN functions
        BY DEF PassInv, UnderWay, PassTypeOK
      <3>2. req.params \in Seq(Types)
        BY <2>1, <3>1 DEF ComparingInv
      <3> QED BY <3>2 DEF NumParams
    <2>3. argSpecs = FillMissing(specs, NumParams) /\ ir[Start] = StartCode
      BY <2>1 DEF ComparingInv, StartInv
    <2>4. PICK i \in DOMAIN specs : isOutbound(specs[i].Direction)
      BY DEF PassInv, UnderWay
    <2>5. specs \in Seq(ArgSpecs)
      BY DEF PassInv, PassTypeOK
    <2>6. i \in 1 .. NumParams /\ argSpecs[i] = specs[i]
      BY <2>2, <2>3, <2>4, <2>5 DEF FillMissing
    <2> DEFINE later == {j \in OutboundArgs : j > 0}
    <2>7. later \subseteq 1 .. NumParams /\ later \subseteq Nat /\ i \in later
      BY <2>2, <2>4, <2>6 DEF OutboundArgs, Direction
    <2>8. StartCode = <<Br(IF later = {} THEN B("se.end.teardown") ELSE Cond(Min(later)))>>
      BY DEF StartCode, NextCond
    <2> HIDE DEF later
    <2>9. Min(later) \in 1 .. NumParams
      BY <2>7, LeastIn
    <2>10. ir[Start] = <<Br(Cond(Min(later)))>>
      BY <2>3, <2>7, <2>8
    <2> QED BY <2>9, <2>10
  <1>2. Spec => []ModuleInv
    BY PassInvariance, ModuleInvInit, ModuleInvStep, PTL DEF Spec
  <1>3. Spec => []ComparingInv
    BY PassInvariance, ComparingInvInit, ComparingInvStep, PTL DEF Spec
  <1> QED BY <1>1, <1>2, <1>3, PassInvariance, PTL

-----------------------------------------------------------------------------
(***************************************************************************)
(* The options.  ParseOptions is a recursive function: Parsing is what it  *)
(* satisfies, and the induction goes over the occurrences.                 *)
(***************************************************************************)
Parsing(f, opts, occs, n) ==
  f = [i \in 0 .. n |-> IF i = 0 THEN opts ELSE Occur(f[i - 1], occs[i])]

LEMMA ParsingSteps ==
  ASSUME NEW f, NEW opts, NEW occs, NEW n \in Nat, Parsing(f, opts, occs, n)
  PROVE  f[0] = opts /\ \A i \in 1 .. n : f[i] = Occur(f[i - 1], occs[i])
  <1> DEFINE g == [i \in 0 .. n |-> IF i = 0 THEN opts ELSE Occur(f[i - 1], occs[i])]
  <1>1. f = g
    BY Zenon DEF Parsing
  <1>2. g[0] = opts
    OBVIOUS
  <1>3. ASSUME NEW i \in 1 .. n PROVE g[i] = Occur(f[i - 1], occs[i])
    OBVIOUS
  <1> HIDE DEF g
  <1> QED BY <1>1, <1>2, <1>3, Zenon

\* The function exists.
LEMMA ParsingExists ==
  ASSUME NEW opts, NEW occs, NEW l \in Nat
  PROVE  \E f : Parsing(f, opts, occs, l)
  <1> DEFINE P == {n \in Nat : \E f : Parsing(f, opts, occs, n)}
  <1>1. 0 \in P
    <2> DEFINE f == [i \in 0 .. 0 |-> opts]
    <2>1. \A i \in 0 .. 0 : i = 0
      OBVIOUS
    <2>2. Parsing(f, opts, occs, 0)
      BY <2>1 DEF Parsing
    <2> HIDE DEF f
    <2> QED BY <2>2
  <1>2. ASSUME NEW n \in Nat, n \in P PROVE n + 1 \in P
    <2>1. PICK f : Parsing(f, opts, occs, n)
      BY <1>2
    <2> DEFINE g == [i \in 0 .. n + 1 |-> IF i = n + 1 THEN Occur(f[n], occs[n + 1]) ELSE f[i]]
    <2>2. \A i \in 0 .. n : i \in 0 .. n + 1 /\ i # n + 1
      OBVIOUS
    <2>3. \A i \in 0 .. n : g[i] = f[i]
      BY <2>2
    <2>4. g[n + 1] = Occur(f[n], occs[n + 1])
      OBVIOUS
    <2>5. g = [i \in 0 .. n + 1 |-> g[i]]
      OBVIOUS
    <2> HIDE DEF g
    <2>6. ASSUME NEW i \in 0 .. n + 1
          PROVE  g[i] = IF i = 0 THEN opts ELSE Occur(g[i - 1], occs[i])
      <3>1. f[0] = opts /\ \A j \in 1 .. n : f[j] = Occur(f[j - 1], occs[j])
        BY <2>1, ParsingSteps
      <3>2. CASE i = 0
        BY <2>3, <3>1, <3>2
      <3>3. CASE i \in 1 .. n
        <4>1. g[i] = f[i] /\ g[i - 1] = f[i - 1] /\ i # 0
          BY <2>3, <3>3
        <4> QED BY <3>1, <3>3, <4>1
      <3>4. CASE i = n + 1
        <4>1. i - 1 = n /\ g[n] = f[n] /\ i # 0
          BY <2>3, <3>4
        <4> QED BY <2>4, <3>4, <4>1
      <3> QED BY <3>2, <3>3, <3>4
    <2>7. Parsing(g, opts, occs, n + 1)
      BY <2>5, <2>6 DEF Parsing
    <2> QED BY <2>7
  <1>3. \A n \in Nat : n \in P
    <2> HIDE DEF P
    <2> QED BY <1>1, <1>2, SetInduction
  <1> QED BY <1>3

LEMMA ParsedIs ==
  ASSUME NEW opts, NEW occs, Len(occs) \in Nat
  PROVE  \E f : Parsing(f, opts, occs, Len(occs)) /\ ParseOptions(opts, occs) = f[Len(occs)]
  <1> DEFINE f == CHOOSE f : f = [i \in 0 .. Len(occs) |->
                                    IF i = 0 THEN opts ELSE Occur(f[i - 1], occs[i])]
  <1>1. \E g : g = [i \in 0 .. Len(occs) |-> IF i = 0 THEN opts ELSE Occur(g[i - 1], occs[i])]
    <2>1. \E g : Parsing(g, opts, occs, Len(occs))
      BY ParsingExists
    <2> QED BY <2>1, Zenon DEF Parsing
  <1>2. f = [i \in 0 .. Len(occs) |-> IF i = 0 THEN opts ELSE Occur(f[i - 1], occs[i])]
    BY <1>1, Zenon
  <1>3. ParseOptions(opts, occs) = f[Len(occs)]
    BY DEF ParseOptions
  <1> HIDE DEF f
  <1> QED BY <1>2, <1>3 DEF Parsing

\* Two states of the options that the same occurrences keep alike: o may have
\* positions and values from before.
AreOptions(o) == /\ DOMAIN o = {"accepted", "value", "count", "positioned"}
                 /\ o.accepted \in BOOLEAN
                 /\ DOMAIN o.value = OptionNames /\ DOMAIN o.count = OptionNames

Alike(a, o) == /\ AreOptions(a) /\ AreOptions(o)
               /\ a.accepted = o.accepted
               /\ a.positioned \subseteq o.positioned
               /\ \A n \in OptionNames : a.count[n] = o.count[n]
               /\ \A n \in a.positioned \ {"argspec"} : n \in OptionNames /\ a.value[n] = o.value[n]

LEMMA OccurFields ==
  ASSUME NEW o, AreOptions(o), NEW occ, occ.name \in OptionNames
  PROVE  /\ AreOptions(Occur(o, occ))
         /\ o.accepted /\ Valid(occ) /\ (occ.name = "argspec" \/ o.count[occ.name] = 0) =>
              /\ Occur(o, occ).accepted = o.accepted
              /\ Occur(o, occ).positioned = o.positioned \cup {occ.name}
              /\ Occur(o, occ).count = [o.count EXCEPT ![occ.name] = @ + 1]
              /\ \A n \in OptionNames \ {occ.name} : Occur(o, occ).value[n] = o.value[n]
              /\ occ.name # "argspec" => Occur(o, occ).value[occ.name] = occ.value
         /\ ~(o.accepted /\ Valid(occ) /\ (occ.name = "argspec" \/ o.count[occ.name] = 0)) =>
              /\ Occur(o, occ).accepted = FALSE
              /\ Occur(o, occ).positioned = o.positioned
              /\ Occur(o, occ).count = o.count /\ Occur(o, occ).value = o.value
  <1> USE DEF AreOptions
  <1>1. CASE o.accepted /\ Valid(occ) /\ (occ.name = "argspec" \/ o.count[occ.name] = 0)
    <2>1. CASE occ.name = "argspec"
      BY <1>1, <2>1 DEF Occur
    <2>2. CASE occ.name # "argspec"
      BY <1>1, <2>2 DEF Occur
    <2> QED BY <2>1, <2>2
  <1>2. CASE ~(o.accepted /\ Valid(occ) /\ (occ.name = "argspec" \/ o.count[occ.name] = 0))
    BY <1>2 DEF Occur
  <1> QED BY <1>1, <1>2

LEMMA OccurAlike ==
  ASSUME NEW a, NEW o, Alike(a, o), NEW occ, occ.name \in OptionNames
  PROVE  Alike(Occur(a, occ), Occur(o, occ))
  <1> DEFINE a2 == Occur(a, occ)
             o2 == Occur(o, occ)
  <1>0. AreOptions(a) /\ AreOptions(o)
    BY DEF Alike
  <1>1. CASE a.accepted /\ Valid(occ) /\ (occ.name = "argspec" \/ a.count[occ.name] = 0)
    <2>1. o.accepted /\ (occ.name = "argspec" \/ o.count[occ.name] = 0)
      BY <1>1 DEF Alike
    <2>2. /\ AreOptions(a2) /\ a2.accepted = a.accepted
          /\ a2.positioned = a.positioned \cup {occ.name}
          /\ a2.count = [a.count EXCEPT ![occ.name] = @ + 1]
          /\ \A n \in OptionNames \ {occ.name} : a2.value[n] = a.value[n]
          /\ occ.name # "argspec" => a2.value[occ.name] = occ.value
      BY <1>0, <1>1, OccurFields
    <2>3. /\ AreOptions(o2) /\ o2.accepted = o.accepted
          /\ o2.positioned = o.positioned \cup {occ.name}
          /\ o2.count = [o.count EXCEPT ![occ.name] = @ + 1]
          /\ \A n \in OptionNames \ {occ.name} : o2.value[n] = o.value[n]
          /\ occ.name # "argspec" => o2.value[occ.name] = occ.value
      BY <1>0, <1>1, <2>1, OccurFields
    <2> HIDE DEF a2, o2
    <2>4. \A n \in OptionNames : a2.count[n] = o2.count[n]
      BY <2>2, <2>3 DEF Alike, AreOptions
    <2>5. \A n \in a2.positioned \ {"argspec"} : n \in OptionNames /\ a2.value[n] = o2.value[n]
      BY <2>2, <2>3 DEF Alike
    <2>6. a2.accepted = o2.accepted /\ a2.positioned \subseteq o2.positioned
      BY <2>2, <2>3 DEF Alike
    <2>7. Alike(a2, o2)
      BY <2>2, <2>3, <2>4, <2>5, <2>6 DEF Alike
    <2> QED BY <2>7 DEF a2, o2
  <1>2. CASE ~(a.accepted /\ Valid(occ) /\ (occ.name = "argspec" \/ a.count[occ.name] = 0))
    <2>1. ~(o.accepted /\ Valid(occ) /\ (occ.name = "argspec" \/ o.count[occ.name] = 0))
      BY <1>2 DEF Alike
    <2>2. /\ AreOptions(a2) /\ a2.accepted = FALSE /\ a2.positioned = a.positioned
          /\ a2.count = a.count /\ a2.value = a.value
      BY <1>0, <1>2, OccurFields
    <2>3. /\ AreOptions(o2) /\ o2.accepted = FALSE /\ o2.positioned = o.positioned
          /\ o2.count = o.count /\ o2.value = o.value
      BY <1>0, <2>1, OccurFields
    <2> HIDE DEF a2, o2
    <2>4. Alike(a2, o2)
      BY <2>2, <2>3 DEF Alike
    <2> QED BY <2>4 DEF a2, o2
  <1> QED BY <1>1, <1>2

LEMMA ParseAlike ==
  ASSUME NEW a, NEW o, Alike(a, o), NEW occs, Len(occs) \in Nat, AreOccurrences(occs)
  PROVE  Alike(ParseOptions(a, occs), ParseOptions(o, occs))
  <1>1. PICK f : Parsing(f, a, occs, Len(occs)) /\ ParseOptions(a, occs) = f[Len(occs)]
    BY ParsedIs
  <1>2. PICK g : Parsing(g, o, occs, Len(occs)) /\ ParseOptions(o, occs) = g[Len(occs)]
    BY ParsedIs
  <1>3. f[0] = a /\ \A i \in 1 .. Len(occs) : f[i] = Occur(f[i - 1], occs[i])
    BY <1>1, ParsingSteps
  <1>4. g[0] = o /\ \A i \in 1 .. Len(occs) : g[i] = Occur(g[i - 1], occs[i])
    BY <1>2, ParsingSteps
  <1> DEFINE P == {n \in Nat : n <= Len(occs) => Alike(f[n], g[n])}
  <1>5. 0 \in P
    BY <1>3, <1>4
  <1>6. ASSUME NEW n \in Nat, n \in P PROVE n + 1 \in P
    <2> SUFFICES ASSUME n + 1 <= Len(occs) PROVE Alike(f[n + 1], g[n + 1])
      OBVIOUS
    <2>1. n + 1 \in 1 .. Len(occs) /\ (n + 1) - 1 = n
      OBVIOUS
    <2>2. Alike(f[n], g[n])
      BY <1>6, <2>1
    <2>3. f[n + 1] = Occur(f[n], occs[n + 1]) /\ g[n + 1] = Occur(g[n], occs[n + 1])
      BY <1>3, <1>4, <2>1
    <2>4. occs[n + 1].name \in OptionNames
      BY <2>1 DEF AreOccurrences
    <2> QED BY <2>2, <2>3, <2>4, OccurAlike
  <1>7. \A n \in Nat : n \in P
    <2> HIDE DEF P
    <2> QED BY <1>5, <1>6, SetInduction
  <1> QED BY <1>1, <1>2, <1>7

LEMMA NoOptionsAre == AreOptions(NoOptions)
  <1>1. DOMAIN Initial = OptionNames
    BY DEF Initial
  <1> QED BY <1>1 DEF NoOptions, AreOptions

\* What the constructor makes of options that were accepted.
LEMMA ConstructedAlike ==
  ASSUME NEW opts, AreOptions(opts), opts.accepted,
         NEW occs, Len(occs) \in Nat, AreOccurrences(occs), NEW o \in Constructed(opts, occs)
  PROVE  Alike(ParseOptions(NoOptions, occs), o)
  <1>1. PICK r \in Reset(opts) : o = ParseOptions(r, occs)
    BY DEF Constructed
  <1>2. /\ AreOptions(r) /\ r.accepted = TRUE
        /\ \A n \in OptionNames : r.count[n] = 0
    <2> DEFINE zero == [n \in OptionNames |-> 0]
               fresh == [n \in OptionNames |-> IF n \in HaveDefault THEN Initial[n] ELSE opts.value[n]]
               forgotten == [opts EXCEPT !.count = zero]
    <2>1. r \in {forgotten, [forgotten EXCEPT !.value = fresh]}
      BY DEF Reset
    <2>2. DOMAIN zero = OptionNames /\ DOMAIN fresh = OptionNames /\ \A n \in OptionNames : zero[n] = 0
      OBVIOUS
    <2> HIDE DEF zero, fresh
    <2>3. CASE r = forgotten
      BY <2>2, <2>3 DEF AreOptions
    <2>4. CASE r = [forgotten EXCEPT !.value = fresh]
      BY <2>2, <2>4 DEF AreOptions
    <2> QED BY <2>1, <2>3, <2>4
  <1>3. Alike(NoOptions, r)
    BY <1>2, NoOptionsAre DEF Alike, NoOptions
  <1> QED BY <1>1, <1>3, ParseAlike

\* The names of the first n occurrences.
NamesTo(occs, n) == {occs[i].name : i \in 1 .. n}

LEMMA OccurPositions ==
  ASSUME NEW o, AreOptions(o), NEW occ, occ.name \in OptionNames
  PROVE  /\ AreOptions(Occur(o, occ))
         /\ Occur(o, occ).accepted =>
              o.accepted /\ Occur(o, occ).positioned = o.positioned \cup {occ.name}
  <1>1. CASE o.accepted /\ Valid(occ) /\ (occ.name = "argspec" \/ o.count[occ.name] = 0)
    <2>1. AreOptions(Occur(o, occ)) /\ Occur(o, occ).positioned = o.positioned \cup {occ.name}
      BY <1>1, OccurFields
    <2> QED BY <1>1, <2>1
  <1>2. CASE ~(o.accepted /\ Valid(occ) /\ (occ.name = "argspec" \/ o.count[occ.name] = 0))
    <2>1. AreOptions(Occur(o, occ)) /\ Occur(o, occ).accepted = FALSE
      BY <1>2, OccurFields
    <2> QED BY <2>1
  <1> QED BY <1>1, <1>2

\* Options that are accepted have a position once they have occurred, and keep it.
LEMMA ParsedPositions ==
  ASSUME NEW o, AreOptions(o), NEW occs, Len(occs) \in Nat, AreOccurrences(occs),
         ParseOptions(o, occs).accepted
  PROVE  ParseOptions(o, occs).positioned = o.positioned \cup NamesTo(occs, Len(occs))
  <1>1. PICK f : Parsing(f, o, occs, Len(occs)) /\ ParseOptions(o, occs) = f[Len(occs)]
    BY ParsedIs
  <1>2. f[0] = o /\ \A i \in 1 .. Len(occs) : f[i] = Occur(f[i - 1], occs[i])
    BY <1>1, ParsingSteps
  <1> DEFINE Kept(n) == /\ AreOptions(f[n])
                        /\ f[n].accepted => f[n].positioned = o.positioned \cup NamesTo(occs, n)
             P == {n \in Nat : n <= Len(occs) => Kept(n)}
  <1>3. 0 \in P
    <2>1. NamesTo(occs, 0) = {}
      BY DEF NamesTo
    <2> QED BY <1>2, <2>1
  <1>4. ASSUME NEW n \in Nat, n \in P PROVE n + 1 \in P
    <2> SUFFICES ASSUME n + 1 <= Len(occs) PROVE Kept(n + 1)
      OBVIOUS
    <2>1. n + 1 \in 1 .. Len(occs) /\ (n + 1) - 1 = n
      OBVIOUS
    <2>2. NamesTo(occs, n + 1) = NamesTo(occs, n) \cup {occs[n + 1].name}
      BY DEF NamesTo
    <2>3. Kept(n)
      BY <1>4, <2>1
    <2>4. f[n + 1] = Occur(f[n], occs[n + 1])
      BY <1>2, <2>1
    <2>5. occs[n + 1].name \in OptionNames
      BY <2>1 DEF AreOccurrences
    <2> HIDE DEF P
    <2>6. /\ AreOptions(Occur(f[n], occs[n + 1]))
          /\ Occur(f[n], occs[n + 1]).accepted =>
               /\ f[n].accepted
               /\ Occur(f[n], occs[n + 1]).positioned = f[n].positioned \cup {occs[n + 1].name}
      BY <2>3, <2>5, OccurPositions
    <2> QED BY <2>2, <2>3, <2>4, <2>6
  <1>5. \A n \in Nat : n \in P
    <2> HIDE DEF P
    <2> QED BY <1>3, <1>4, SetInduction
  <1> QED BY <1>1, <1>5

\* The constructor forgets occurrences but no positions.
LEMMA ConstructedPositions ==
  ASSUME NEW opts, AreOptions(opts), NEW occs, Len(occs) \in Nat, AreOccurrences(occs),
         NEW o \in Constructed(opts, occs), o.accepted
  PROVE  o.positioned = opts.positioned \cup NamesTo(occs, Len(occs))
  <1>1. PICK r \in Reset(opts) : o = ParseOptions(r, occs)
    BY DEF Constructed
  <1>2. AreOptions(r) /\ r.positioned = opts.positioned
    <2> DEFINE zero == [n \in OptionNames |-> 0]
               fresh == [n \in OptionNames |-> IF n \in HaveDefault THEN Initial[n] ELSE opts.value[n]]
               forgotten == [opts EXCEPT !.count = zero]
    <2>1. r \in {forgotten, [forgotten EXCEPT !.value = fresh]}
      BY DEF Reset
    <2>2. DOMAIN zero = OptionNames /\ DOMAIN fresh = OptionNames
      OBVIOUS
    <2> HIDE DEF zero, fresh
    <2>3. CASE r = forgotten
      BY <2>2, <2>3 DEF AreOptions
    <2>4. CASE r = [forgotten EXCEPT !.value = fresh]
      BY <2>2, <2>4 DEF AreOptions
    <2> QED BY <2>1, <2>3, <2>4
  <1> QED BY <1>1, <1>2, ParsedPositions

\* The pass has been constructed, with options that were accepted.
Settled == pc \notin {"lookup", "construct", "exited", "unknown pass"}

\* A white list is in force if one was named.
InForce == Settled => ("whiteList" \in options.positioned <=> WhiteListNamed)

\* The selection leaves out no function that a report could be about.
AllSelected ==
  Settled /\ pc # "run" /\ DirGiven =>
    \A F \in DOMAIN given.functions : ~given.functions[F].isDeclaration /\ Admitted(F) => F \in workList

\* Until the pass is constructed the options are those of the command line.
OptionsInv ==
  /\ pc \in {"lookup", "construct", "unknown pass"} =>
       options = ParseOptions(NoOptions, given.commandLine) /\ options.accepted
  /\ EnvironmentDecides
  /\ InForce
  /\ AllSelected

LEMMA OptionsInvInit == RunInit => OptionsInv
  BY DEF RunInit, OptionsInv, EnvironmentDecides, InForce, AllSelected, Settled

\* Only the constructor changes them, and only the selection the work list.
LEMMA OptionsInvStep == PassInv /\ OptionsInv /\ [Next]_vars => OptionsInv'
  <1> SUFFICES ASSUME PassInv, OptionsInv, [Next]_vars PROVE OptionsInv'
    OBVIOUS
  <1> USE DEF OptionsInv, EnvironmentDecides, InForce, AllSelected, Settled
  <1>1. CASE Lookup
    BY <1>1 DEF Lookup
  <1>2. CASE Construct
    <2>1. /\ given' = given /\ options' \in Constructed(options, given.environment)
          /\ pc' = IF options'.accepted THEN "run" ELSE "exited"
          /\ options = ParseOptions(NoOptions, given.commandLine) /\ options.accepted
      BY <1>2 DEF Construct
    <2>2. /\ Len(given.commandLine) \in Nat /\ AreOccurrences(given.commandLine)
          /\ Len(given.environment) \in Nat /\ AreOccurrences(given.environment)
      BY RunsAssumption DEF PassInv
    <2>3. Alike(NoOptions, NoOptions)
      BY NoOptionsAre DEF Alike, NoOptions
    <2>4. AreOptions(options)
      BY <2>1, <2>2, <2>3, ParseAlike DEF Alike
    <2> DEFINE alone == ParseOptions(NoOptions, given.environment)
    <2>5. Alike(alone, options')
      BY <2>1, <2>2, <2>4, ConstructedAlike
    <2>6. /\ pc' \in {"run", "exited"} /\ (pc' = "exited" <=> ~alone.accepted)
          /\ \A n \in alone.positioned \ {"argspec"} : options'.value[n] = alone.value[n]
      BY <2>1, <2>5 DEF Alike, AreOptions
    <2>7. EnvironmentDecides'
      BY <2>1, <2>6
    <2>8. InForce'
      <3> SUFFICES ASSUME options'.accepted
                   PROVE  "whiteList" \in options'.positioned <=> WhiteListNamed
        BY <2>1 DEF WhiteListNamed
      <3>1. options.positioned = NamesTo(given.commandLine, Len(given.commandLine))
        <4>1. NoOptions.positioned = {}
          BY DEF NoOptions
        <4>2. ParseOptions(NoOptions, given.commandLine).accepted
          BY <2>1
        <4>3. ParseOptions(NoOptions, given.commandLine).positioned
                = NoOptions.positioned \cup NamesTo(given.commandLine, Len(given.commandLine))
          BY <2>2, <4>2, NoOptionsAre, ParsedPositions, Zenon
        <4> QED BY <2>1, <4>1, <4>3
      <3>2. options'.positioned
              = options.positioned \cup NamesTo(given.environment, Len(given.environment))
        BY <2>1, <2>2, <2>4, ConstructedPositions
      <3> QED BY <3>1, <3>2 DEF WhiteListNamed, NamesTo
    <2> QED BY <2>1, <2>6, <2>7, <2>8
  <1>3. ASSUME UNCHANGED <<given, options, workList>>, Settled, pc # "run", Settled'
        PROVE  OptionsInv'
    BY <1>3 DEF WhiteListNamed, Admitted, DirGiven
  <1>4. CASE SelectFunctions
    <2>1. UNCHANGED <<given, options>> /\ Settled /\ Settled' /\ functions = given.functions
      BY <1>4 DEF SelectFunctions, PassInv, AtStart
    <2>2. DirGiven => workList' = Selected
      BY <1>4 DEF SelectFunctions
    <2> QED BY <2>1, <2>2 DEF WhiteListNamed, Selected, Admitted, DirGiven
  <1>5. CASE Answer \/ EndOfDirectory \/ FindFunction \/ Decode \/ Decide
    BY <1>3, <1>5 DEF Answer, EndOfDirectory, FindFunction, Decode, Decide
  <1>6. CASE NextEntry
    <2>1. UNCHANGED <<given, options, workList>> /\ pc = "nextEntry"
      BY <1>6 DEF NextEntry
    <2>2. PICK f \in unread : \/ Ignored(f) /\ UNCHANGED <<pc, file, specs>>
                              \/ ~Ignored(f) /\ Read(f)
      BY <1>6 DEF NextEntry
    <2>3. given.reports[f].state \in {"cannot stat", "cannot open", "malformed", "parsed"}
      BY RunsAssumption DEF PassInv, PassTypeOK
    <2>4. Settled'
      BY <2>1, <2>2, <2>3 DEF Read, AfterReading, Ignored
    <2> QED BY <1>3, <2>1, <2>4
  <1>7. CASE Encapsulate
    BY <1>3, <1>7 DEF Encapsulate, runVars
  <1>8. CASE EncapsulateReturns
    BY <1>3, <1>8 DEF EncapsulateReturns, Ended
  <1>9. CASE UNCHANGED vars
    BY <1>9 DEF vars, runVars, WhiteListNamed, Admitted, DirGiven
  <1> QED BY <1>1, <1>2, <1>4, <1>5, <1>6, <1>7, <1>8, <1>9 DEF Next

LEMMA OptionsInvariance == Spec => []OptionsInv
  BY PassInvariance, OptionsInvInit, OptionsInvStep, PTL DEF Spec

\* SymbolicEncapsulationPass(): for any command line and any environment, an option
\* of the environment has the value it has there, and nothing but an environment
\* that is wrong in itself ends the program.
THEOREM PassEnvironmentDecides == Spec => []EnvironmentDecides
  <1>1. OptionsInv => EnvironmentDecides
    BY DEF OptionsInv
  <1> QED BY <1>1, OptionsInvariance, PTL

\* run: only functions of the input that are defined and on the white list, if
\* the command line or the environment names one, are encapsulated, for any module
\* and any reports.
THEOREM PassSelectedOnly == Spec => []SelectedOnly
  <1>1. PassInv /\ OptionsInv => SelectedOnly
    <2> SUFFICES ASSUME PassInv, OptionsInv, NEW j \in DOMAIN built PROVE Eligible(built[j].func)
      BY DEF SelectedOnly
    <2>1. Settled
      <3>1. built # <<>>
        OBVIOUS
      <3> QED BY <3>1 DEF PassInv, AtStart, Settled
    <2>2. "whiteList" \in options.positioned <=> WhiteListNamed
      BY <2>1 DEF OptionsInv, InForce
    <2> QED BY <2>2 DEF PassInv, AdmittedOnly, Admitted, Eligible
  <1> QED BY <1>1, PassInvariance, OptionsInvariance, PTL

\* run: when the directory could be read, no report that calls for a harness was
\* passed over, and none was used twice.
THEOREM PassEveryReportServed == Spec => []EveryReportServed
  <1>1. PassInv /\ OptionsInv => EveryReportServed
    <2> SUFFICES ASSUME PassInv, OptionsInv PROVE EveryReportServed
      OBVIOUS
    <2>1. \A i, j \in DOMAIN built : built[i].file = built[j].file => i = j
      BY DEF PassInv, FilesUsedOnce
    <2>2. ASSUME pc = "returned", DirExists, ~dirError,
                 NEW f \in DOMAIN given.reports, Relevant(given.reports[f])
          PROVE  \E j \in DOMAIN built : built[j].file = f
      <3> DEFINE F == given.reports[f].func
      <3>1. F \in workList
        <4>1. F \in DOMAIN given.functions /\ ~given.functions[F].isDeclaration /\ Admitted(F)
          BY <2>2 DEF Relevant, Eligible, Admitted, OptionsInv, InForce, Settled
        <4> QED BY <2>2, <4>1 DEF OptionsInv, AllSelected, Settled, DirExists
      <3>2. unread = {}
        BY <2>2, <3>1 DEF PassInv, ReadAll, DirExists, DirGiven
      <3>3. CallsFor(given.reports[f])
        BY <2>2, <3>1 DEF Relevant, CallsFor
      <3>4. f \in unread \/ (Busy /\ f = file) \/ Served(f)
        BY <2>2, <3>3 DEF PassInv, NonePassedOver
      <3> QED BY <2>2, <3>2, <3>4 DEF Busy, Served
    <2> QED BY <2>1, <2>2 DEF EveryReportServed
  <1> QED BY <1>1, PassInvariance, OptionsInvariance, PTL

=============================================================================
