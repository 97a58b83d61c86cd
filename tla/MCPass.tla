------------------------------- MODULE MCPass -------------------------------
(***************************************************************************)
(* Runs over a module with two functions to encapsulate, one without       *)
(* parameters, a declaration, and possibly a function of the user's that   *)
(* has the name of a harness; with two or three reports of every kind; and *)
(* with command lines and environments that agree, disagree or are wrong,  *)
(* under all three pass managers.                                          *)
(***************************************************************************)
EXTENDS SymbolicEncapsulationPass

CONSTANTS Iterations, Reports, Settings, Builds

Pointer == [ptr |-> TRUE, size |-> 1]

f  == <<"f", 0>>
g  == <<"g", 0>>
z  == <<"z", 0>>
d  == <<"d", 0>>
hf == HarnessName(f)

Function(decl, params, type) ==
  [isDeclaration |-> decl, params |-> params, type |-> type, bodies |-> IF decl THEN 0 ELSE 1]

Kernel == Function(FALSE, <<I64Type, Pointer>>, "void(i64,i8*)")

MCModule == (f :> Kernel) @@ (g :> Kernel)
            @@ (z :> Function(FALSE, <<>>, "void()"))
            @@ (d :> Function(TRUE, <<I64Type, Pointer>>, "void(i64,i8*)"))

\* The user has an i32 symenc_f(), or one of another type.
MCModules == {MCModule} \cup {MCModule @@ (hf :> Function(FALSE, p, t)) :
                                <<p, t>> \in {<< <<>>, HarnessTy >>, << <<I64Type>>, "void(i64)" >>}}

-----------------------------------------------------------------------------

Entry(dir, b) == [complete |-> TRUE, direction |-> dir, iteratorDependent |-> b]
BadEntry      == [complete |-> FALSE, direction |-> 0, iteratorDependent |-> FALSE]

Parsed(name, hasArgs, entries) ==
  [named |-> {"lpc."}, state |-> "parsed", func |-> name, hasArgs |-> hasArgs, argspecs |-> entries]

Unread(prefixes, state) ==
  [Parsed(NoName, FALSE, <<>>) EXCEPT !.named = prefixes, !.state = state]

Iterator == Entry(1, FALSE)

ServesF == Parsed(f, TRUE, <<Iterator, Entry(3, TRUE)>>)

GoodReports == {ServesF,
                Parsed(g, TRUE, <<Iterator, Entry(2, FALSE)>>),
                Parsed(f, TRUE, <<Iterator>>)}

OddReports == {Parsed(f, TRUE, <<Iterator, Entry(-254, TRUE), Iterator>>),
               Parsed(g, TRUE, <<Iterator, BadEntry>>),
               Parsed(hf, TRUE, <<>>),
               Parsed(z, TRUE, <<Entry(2, FALSE)>>),
               Parsed(d, TRUE, <<Iterator, Entry(3, TRUE)>>),
               Parsed(f, FALSE, <<>>),
               Parsed(NoName, TRUE, <<>>),
               Unread({}, "parsed"),
               Unread({"lpc."}, "cannot stat"),
               Unread({"lpc."}, "cannot open"),
               Unread({"lpc."}, "malformed")}

MCReports ==
  {<<>>} \cup {<<r>> : r \in GoodReports \cup OddReports}
  \cup {<<r, s>> : r \in GoodReports \cup OddReports, s \in GoodReports}
  \cup {<<r, s, t>> : r, s, t \in GoodReports}

-----------------------------------------------------------------------------

Occurs(option, val) == [name |-> option, value |-> val]

InReports == Occurs("reports-dir", "reports")

\* An environment, and the names in the white list it may give.
Setting(environment, admitted) == [environment |-> environment, whiteListed |-> admitted]

WithList == Occurs("whiteList", "wl.txt")

MCSettings ==
  {Setting(<<InReports>>, {}),
   Setting(<<InReports, Occurs("force", TRUE)>>, {}),
   Setting(<<InReports, WithList>>, {f, hf, d}),
   Setting(<<InReports, WithList, Occurs("force", TRUE)>>, {f, hf, d}),
   Setting(<<InReports, WithList, Occurs("force", TRUE)>>, {})}

\* Nothing to read, or nothing to read it from.
FromJSONFile == Occurs("argspec-json", "f.json")

IdleSettings == {Setting(<<Occurs("force", TRUE)>>, {}),
                 Setting(<<FromJSONFile>>, {}),
                 Setting(<<FromJSONFile, Occurs("reports-dir", "elsewhere")>>, {})}

Run(build, pm, line, s, m, reports, n) ==
  [NDEBUG |-> build, manager |-> pm, name |-> PassName, commandLine |-> line,
   environment |-> s.environment \o <<Occurs("iterations", n)>>,
   directory |-> "reports", whiteListed |-> s.whiteListed, described |-> ServesF,
   functions |-> m, runtime |-> NoSymbols, reports |-> reports]

\* What may be on a command line, or in the environment next to the directory.
Text(w, letters, flag) == [word |-> w, letters |-> letters, flag |-> flag]

Extras == {<<>>,
           <<Occurs("force", TRUE)>>,
           <<Occurs("force", FALSE), Occurs("report-prefix", "dep.")>>,
           <<Occurs("iterations", 3), FromJSONFile>>,
           <<Occurs("iterations", Invalid)>>,
           <<InReports, InReports>>,
           <<WithList>>,
           <<Occurs("argspec", <<Text("both", TRUE, "1"), Text("any", TRUE, "|")>>),
             Occurs("argspec", <<Text("out", TRUE, "0")>>)>>,
           <<Occurs("argspec", <<Text("in", TRUE, "2")>>)>>}

AlsoOthers == <<ServesF, [Parsed(g, TRUE, <<Iterator>>) EXCEPT !.named = {"dep."}]>>

OptionRuns ==
  {[Run(TRUE, pm, line, Setting(<<InReports>> \o extra, {f}), MCModule, AlsoOthers, 2)
      EXCEPT !.name = name, !.environment = <<InReports>> \o extra] :
     pm \in {"clang", "legacy", "new"}, line \in Extras, extra \in Extras,
     name \in {PassName, "eph-other"}}

MCRuns ==
  {Run(b, "new", <<>>, s, m, reports, n) :
     b \in Builds, s \in Settings, m \in MCModules, reports \in Reports, n \in Iterations}
  \cup {Run(b, pm, <<>>, s, MCModule, <<r>>, n) :
          b \in Builds, pm \in {"legacy", "new"}, s \in IdleSettings, r \in GoodReports,
          n \in Iterations}
  \cup OptionRuns

MCIterations == {2}

\* A forced run over a function without parameters, whose report has none.
ForcedSettings == {Setting(<<InReports, Occurs("force", TRUE)>>, {})}
NoParamReports == {<<Parsed(z, TRUE, <<>>)>>}

\* A report that is not JSON, in front of one that is, or behind it.
BrokenReports == {<<r, s>> : r, s \in {Unread({"lpc."}, "malformed"), ServesF}}

\* eph-iterations is 1 unless it is given; nothing is forced.
DefaultIterations == {1}
DefaultSettings   == {Setting(<<InReports>>, {})}

=============================================================================
