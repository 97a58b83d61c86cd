---------------------------- MODULE BuilderProofs ----------------------------
(***************************************************************************)
(* For every request: what the steps of encapsulateImpl leave alone, what  *)
(* they add to the module's symbols, and that no supported request is      *)
(* declined or makes them fail.                                            *)
(***************************************************************************)
EXTENDS SymbolicEncapsulation, TLAPS

\* A declaration is declined at once, and nothing else is ever declined.
Decided == /\ req.isDeclaration => phase \in {"encapsulateImpl", "declined"}
           /\ phase = "declined" => req.isDeclaration

DeclSets == {HarnessDecl, HeapDecls, SymbolicDecls, AssertDecls}

\* A table has only what an earlier one had, and what encapsulateImpl declares.
Stems(table, earlier) ==
  \A n \in DOMAIN table :
    \/ n \in DOMAIN earlier /\ table[n] = earlier[n]
    \/ \E d \in DeclSets : n \in DOMAIN d /\ table[n] = d[n]

\* The symbols are those of the request and the declarations; once the harness
\* has been declared, the request had none of its name and another type.
SymsInv ==
  /\ Stems(syms, req.syms)
  /\ phase = "encapsulateImpl" => syms = req.syms
  /\ phase \notin {"idle", "encapsulateImpl", "declined", "aborted", "undefined"} =>
       CanDeclare(req.syms, HarnessDecl)

Phases == {"encapsulateImpl", "setupHarnessArgs", "createSymbolicDeclarations",
           "createSymbolicAssertions", "createLoop1", "createLoop2", "passIterator",
           "createCall1", "createCall2", "controlFlow", "done"}

Loop1 == CreatedLoop(0, req.iterations, 1)
Loop2 == CreatedLoop(WrapU32(req.iterations - 1), 0, 1)

\* How far a supported request has come.
Progress ==
  /\ phase \in Phases
  /\ phase # "encapsulateImpl" => argSpecs = FillMissing(req.argSpecs, NumParams)
  /\ phase \notin {"encapsulateImpl", "setupHarnessArgs"} => 1 \in DOMAIN callArgs1
  /\ phase \in {"encapsulateImpl", "setupHarnessArgs", "createSymbolicDeclarations",
                "createSymbolicAssertions", "createLoop1"} => loops = <<>>
  /\ phase = "createLoop2" => loops = <<Loop1>>
  /\ phase \in {"passIterator", "createCall1", "createCall2", "controlFlow", "done"} =>
       Len(loops) = 2 /\ loops[1] = Loop1 /\ loops[2] = Loop2

ServedInv == Supported(req) => Progress

BuildInv == req \in Requests /\ Decided /\ SymsInv /\ ServedInv

-----------------------------------------------------------------------------

\* The declarations agree with one another.
LEMMA DeclarationsAgree ==
  \A d, e \in DeclSets : \A n \in DOMAIN d \cap DOMAIN e : d[n] = e[n]
  BY DEF DeclSets, HarnessDecl, HeapDecls, SymbolicDecls, AssertDecls

\* What could be declared in the first table still can.
LEMMA RoomStays ==
  ASSUME NEW table, NEW earlier, Stems(table, earlier), NEW d \in DeclSets, CanDeclare(earlier, d)
  PROVE  CanDeclare(table, d)
  <1> SUFFICES ASSUME NEW n \in DOMAIN d \cap DOMAIN table PROVE table[n] = d[n]
    BY DEF CanDeclare
  <1>1. CASE n \in DOMAIN earlier /\ table[n] = earlier[n]
    BY <1>1 DEF CanDeclare
  <1>2. CASE \E e \in DeclSets : n \in DOMAIN e /\ table[n] = e[n]
    BY <1>2, DeclarationsAgree
  <1> QED BY <1>1, <1>2 DEF Stems

\* Declaring keeps to what may be declared.
LEMMA DeclareStems ==
  ASSUME NEW table, NEW earlier, Stems(table, earlier), NEW d \in DeclSets
  PROVE  Stems(Declare(table, d), earlier)
  <1> SUFFICES ASSUME NEW n \in DOMAIN Declare(table, d)
               PROVE  \/ n \in DOMAIN earlier /\ Declare(table, d)[n] = earlier[n]
                      \/ \E e \in DeclSets : n \in DOMAIN e /\ Declare(table, d)[n] = e[n]
    BY DEF Stems
  <1>1. CASE n \in DOMAIN table
    <2>1. Declare(table, d)[n] = table[n]
      BY <1>1 DEF Declare
    <2> QED BY <1>1, <2>1 DEF Stems
  <1>2. CASE n \notin DOMAIN table
    <2>1. n \in DOMAIN d /\ Declare(table, d)[n] = d[n]
      BY <1>2 DEF Declare
    <2> QED BY <2>1
  <1> QED BY <1>1, <1>2

\* A step of encapsulate leaves its request alone, and only a declaration makes
\* it decline.
LEMMA BuildKeepsRequest == ASSUME BuildNext, Decided PROVE req' = req /\ Decided'
  <1>1. CASE EncapsulateImpl
    BY <1>1 DEF EncapsulateImpl, Decided, FailedCast
  <1>2. CASE SetupHarnessArgs
    BY <1>2 DEF SetupHarnessArgs, Decided, FailedCast
  <1>3. CASE CreateSymbolicDeclarations
    BY <1>3 DEF CreateSymbolicDeclarations, Decided, FailedCast
  <1>4. CASE CreateSymbolicAssertions
    BY <1>4 DEF CreateSymbolicAssertions, Decided, FailedCast
  <1>5. ASSUME NEW k \in {1, 2}, CreateLoop(k) PROVE req' = req /\ Decided'
    BY <1>5 DEF CreateLoop, Decided
  <1>6. CASE PassIterator
    BY <1>6 DEF PassIterator, Decided
  <1>7. ASSUME NEW k \in {1, 2}, CreateCall(k) PROVE req' = req /\ Decided'
    BY <1>7 DEF CreateCall, Decided
  <1>8. CASE SetupControlFlow
    BY <1>8 DEF SetupControlFlow, Decided
  <1> QED BY <1>1, <1>2, <1>3, <1>4, <1>5, <1>6, <1>7, <1>8 DEF BuildNext

\* What a step of encapsulate does to the symbols.
LEMMA SymsStep == ASSUME BuildNext, SymsInv PROVE SymsInv'
  <1>0. {HarnessDecl, HeapDecls, SymbolicDecls, AssertDecls} \subseteq DeclSets
    BY DEF DeclSets
  <1>1. CASE EncapsulateImpl
    <2>1. phase = "encapsulateImpl" /\ req' = req /\ phase' # "encapsulateImpl"
      BY <1>1 DEF EncapsulateImpl, FailedCast
    <2>2. CASE syms' = syms /\ phase' \in {"declined", "aborted", "undefined"}
      BY <2>1, <2>2 DEF SymsInv
    <2>3. CASE CanDeclare(syms, HarnessDecl) /\ syms' = Declare(syms, HarnessDecl)
      <3>1. Stems(syms', req.syms)
        BY <1>0, <2>3, DeclareStems DEF SymsInv
      <3>2. CanDeclare(req.syms, HarnessDecl)
        BY <2>1, <2>3 DEF SymsInv
      <3> QED BY <2>1, <3>1, <3>2 DEF SymsInv
    <2> QED BY <1>1, <2>2, <2>3 DEF EncapsulateImpl, FailedCast
  <1>2. ASSUME phase \notin {"idle", "encapsulateImpl", "declined", "aborted", "undefined"},
               req' = req, phase' # "encapsulateImpl",
               syms' = syms \/ \E d \in DeclSets : syms' = Declare(syms, d)
        PROVE  SymsInv'
    <2>1. Stems(syms', req.syms)
      BY <1>2, DeclareStems DEF SymsInv
    <2> QED BY <1>2, <2>1 DEF SymsInv
  <1>3. CASE SetupHarnessArgs
    BY <1>0, <1>2, <1>3 DEF SetupHarnessArgs, FailedCast
  <1>4. CASE CreateSymbolicDeclarations
    BY <1>0, <1>2, <1>4 DEF CreateSymbolicDeclarations, FailedCast
  <1>5. CASE CreateSymbolicAssertions
    BY <1>0, <1>2, <1>5 DEF CreateSymbolicAssertions, FailedCast
  <1>6. ASSUME NEW k \in {1, 2}, CreateLoop(k) PROVE SymsInv'
    BY <1>2, <1>6 DEF CreateLoop
  <1>7. CASE PassIterator
    BY <1>2, <1>7 DEF PassIterator
  <1>8. ASSUME NEW k \in {1, 2}, CreateCall(k) PROVE SymsInv'
    BY <1>2, <1>8 DEF CreateCall
  <1>9. CASE SetupControlFlow
    BY <1>2, <1>9 DEF SetupControlFlow
  <1> QED BY <1>1, <1>3, <1>4, <1>5, <1>6, <1>7, <1>8, <1>9 DEF BuildNext

-----------------------------------------------------------------------------

\* What a supported request rules out.
LEMMA SupportedFacts ==
  ASSUME req \in Requests, Supported(req), SymsInv
  PROVE  /\ ~req.isDeclaration
         /\ NumParams \in Nat /\ NumParams > 0
         /\ \A d \in DeclSets : CanDeclare(syms, d)
         /\ ZeroSized => req.NDEBUG
         /\ ~NoSuchCast
         /\ argSpecs = FillMissing(req.argSpecs, NumParams) => ~BadMemcpySignature
         /\ req.iterations \in 2 .. U32Max
         /\ WrapU32(req.iterations - 1) = req.iterations - 1
  <1>1. /\ req.params \in Seq(Types) /\ req.params # <<>> /\ IndSize \in Nat
        /\ req.iterations \in 0 .. U32Max /\ req.iterations >= 2 /\ U32Max \in Nat
    BY RequestsAssumption, WidthAssumption DEF Supported, U32
  <1>2. NumParams \in Nat /\ NumParams > 0 /\ DOMAIN req.params = 1 .. NumParams
    BY <1>1 DEF NumParams
  <1>3. \A d \in DeclSets : CanDeclare(syms, d)
    <2>1. \A d \in DeclSets : CanDeclare(req.syms, d)
      BY DEF Supported, DeclSets
    <2> QED BY <2>1, RoomStays DEF SymsInv
  <1>4. \A i \in 1 .. NumParams :
          SupportedArg(req.params[i], FillMissing(req.argSpecs, NumParams)[i], req.NDEBUG)
    BY <1>2 DEF Supported, NumParams
  <1>5. ZeroSized => req.NDEBUG
    <2> SUFFICES ASSUME NEW i \in 1 .. NumParams, Param(i).ptr, Param(i).size = 0 PROVE req.NDEBUG
      BY DEF ZeroSized
    <2>1. SupportedArg(req.params[i], FillMissing(req.argSpecs, NumParams)[i], req.NDEBUG)
      BY <1>4
    <2> QED BY <2>1 DEF SupportedArg, Param
  <1>6. ~NoSuchCast
    BY <1>1 DEF NoSuchCast, Supported, Param, I64Type
  <1>7. ASSUME argSpecs = FillMissing(req.argSpecs, NumParams) PROVE ~BadMemcpySignature
    <2> SUFFICES ASSUME NEW i \in 1 .. NumParams, ~Param(i).ptr, Param(i).size # 1,
                        isInbound(Direction(i)), isOutbound(Direction(i))
                 PROVE  FALSE
      BY DEF BadMemcpySignature
    <2>1. SupportedArg(Param(i), argSpecs[i], req.NDEBUG)
      BY <1>4, <1>7 DEF Param
    <2> QED BY <2>1 DEF SupportedArg, Direction
  <1>8. req.iterations \in 2 .. U32Max
    BY <1>1
  <1>9. WrapU32(req.iterations - 1) = req.iterations - 1
    BY <1>1 DEF WrapU32
  <1> QED BY <1>2, <1>3, <1>5, <1>6, <1>7, <1>8, <1>9 DEF Supported

\* A supported request goes on to the next step.
LEMMA ServedStep ==
  ASSUME req \in Requests, BuildNext, SymsInv, ServedInv, req' = req
  PROVE  ServedInv'
  <1> SUFFICES ASSUME Supported(req) PROVE Progress'
    BY DEF ServedInv
  <1>0. Progress /\ {HarnessDecl, HeapDecls, SymbolicDecls, AssertDecls} \subseteq DeclSets
    BY DEF ServedInv, DeclSets
  <1>1. /\ NumParams' = NumParams /\ Loop1' = Loop1 /\ Loop2' = Loop2
    BY DEF NumParams, Loop1, Loop2
  <1>2. CASE EncapsulateImpl
    BY <1>0, <1>1, <1>2, SupportedFacts DEF EncapsulateImpl, Progress, Phases
  <1>3. CASE SetupHarnessArgs
    <2>1. /\ phase = "setupHarnessArgs" /\ phase' = "createSymbolicDeclarations"
          /\ callArgs1' = [i \in 1 .. NumParams |-> Obj(i, 1)]
          /\ argSpecs' = argSpecs /\ loops' = loops
      BY <1>0, <1>3, SupportedFacts DEF SetupHarnessArgs
    <2>2. 1 \in 1 .. NumParams
      BY SupportedFacts
    <2> QED BY <1>0, <1>1, <2>1, <2>2 DEF Progress, Phases
  <1>4. ASSUME 1 \in DOMAIN callArgs1 PROVE callArgs1 # <<>>
    BY <1>4
  <1>5. CASE CreateSymbolicDeclarations
    <2>1. phase = "createSymbolicDeclarations"
      BY <1>5 DEF CreateSymbolicDeclarations
    <2>2. 1 \in DOMAIN callArgs1 /\ argSpecs = FillMissing(req.argSpecs, NumParams)
      BY <1>0, <2>1 DEF Progress
    <2>3. ~BadMemcpySignature /\ CanDeclare(syms, SymbolicDecls)
      BY <1>0, <2>2, SupportedFacts
    <2>4. /\ phase' = "createSymbolicAssertions" /\ argSpecs' = argSpecs
          /\ callArgs1' = callArgs1 /\ loops' = loops
      BY <1>4, <1>5, <2>2, <2>3 DEF CreateSymbolicDeclarations
    <2> QED BY <1>0, <1>1, <2>1, <2>4 DEF Progress, Phases
  <1>6. CASE CreateSymbolicAssertions
    <2>1. phase = "createSymbolicAssertions"
      BY <1>6 DEF CreateSymbolicAssertions
    <2>2. 1 \in DOMAIN callArgs1
      BY <1>0, <2>1 DEF Progress
    <2>3. CanDeclare(syms, AssertDecls)
      BY <1>0, SupportedFacts
    <2>4. /\ phase' = "createLoop1" /\ argSpecs' = argSpecs
          /\ callArgs1' = callArgs1 /\ loops' = loops
      BY <1>4, <1>6, <2>2, <2>3 DEF CreateSymbolicAssertions
    <2> QED BY <1>0, <1>1, <2>1, <2>4 DEF Progress, Phases
  <1>7. /\ LoopBounds(1).start # LoopBounds(1).end
        /\ LoopBounds(2).start # LoopBounds(2).end
        /\ CreatedLoop(LoopBounds(1).start, LoopBounds(1).end, 1) = Loop1
        /\ CreatedLoop(LoopBounds(2).start, LoopBounds(2).end, 1) = Loop2
    BY SupportedFacts DEF LoopBounds, Loop1, Loop2
  <1>8. CASE CreateLoop(1)
    <2>1. /\ phase = "createLoop1" /\ phase' = "createLoop2" /\ loops' = Append(loops, Loop1)
          /\ argSpecs' = argSpecs /\ callArgs1' = callArgs1
      BY <1>7, <1>8 DEF CreateLoop
    <2>2. loops = <<>>
      BY <1>0, <2>1 DEF Progress
    <2>3. loops' = <<Loop1>>
      BY <2>1, <2>2
    <2> QED BY <1>0, <1>1, <2>1, <2>3 DEF Progress, Phases
  <1>9. CASE CreateLoop(2)
    <2>1. /\ phase = "createLoop2" /\ phase' = "passIterator" /\ loops' = Append(loops, Loop2)
          /\ argSpecs' = argSpecs /\ callArgs1' = callArgs1
      BY <1>7, <1>9 DEF CreateLoop
    <2>2. loops = <<Loop1>>
      BY <1>0, <2>1 DEF Progress
    <2>3. \A a, b : Len(Append(<<a>>, b)) = 2 /\ Append(<<a>>, b)[1] = a /\ Append(<<a>>, b)[2] = b
      OBVIOUS
    <2>4. Len(loops') = 2 /\ loops'[1] = Loop1 /\ loops'[2] = Loop2
      BY <2>1, <2>2, <2>3, Zenon
    <2> QED BY <1>0, <1>1, <2>1, <2>4 DEF Progress, Phases
  <1>10. CASE PassIterator
    <2>1. phase = "passIterator"
      BY <1>10 DEF PassIterator
    <2>2. 1 \in DOMAIN callArgs1
      BY <1>0, <2>1 DEF Progress
    <2>3. /\ phase' = "createCall1" /\ argSpecs' = argSpecs /\ loops' = loops
          /\ DOMAIN callArgs1' = DOMAIN callArgs1
      BY <1>4, <1>10, <2>2 DEF PassIterator
    <2> QED BY <1>0, <1>1, <2>1, <2>2, <2>3 DEF Progress, Phases
  <1>11. ASSUME NEW k \in {1, 2}, CreateCall(k) PROVE Progress'
    <2>1. /\ phase \in {"createCall1", "createCall2"} /\ phase' \in {"createCall2", "controlFlow"}
          /\ argSpecs' = argSpecs /\ callArgs1' = callArgs1 /\ loops' = loops
      BY <1>11, SupportedFacts DEF CreateCall
    <2> QED BY <1>0, <1>1, <2>1 DEF Progress, Phases
  <1>12. CASE SetupControlFlow
    <2>1. /\ phase = "controlFlow" /\ phase' = "done"
          /\ argSpecs' = argSpecs /\ callArgs1' = callArgs1 /\ loops' = loops
      BY <1>12 DEF SetupControlFlow
    <2> QED BY <1>0, <1>1, <2>1 DEF Progress, Phases
  <1> QED BY <1>2, <1>3, <1>5, <1>6, <1>8, <1>9, <1>10, <1>11, <1>12 DEF BuildNext

\* The steps of encapsulateImpl keep the invariant.
THEOREM BuildInvariance == BuildSpec => []BuildInv
  <1>1. ASSUME Init PROVE BuildInv
    BY <1>1 DEF Init, BuildInv, Decided, SymsInv, Stems, ServedInv, Progress, Phases
  <1>2. ASSUME BuildInv, [BuildNext]_buildVars PROVE BuildInv'
    <2>1. CASE BuildNext
      <3>1. req' = req /\ Decided'
        BY <1>2, <2>1, BuildKeepsRequest DEF BuildInv
      <3> QED BY <1>2, <2>1, <3>1, SymsStep, ServedStep DEF BuildInv
    <2>2. CASE UNCHANGED buildVars
      <3>1. /\ req' = req /\ phase' = phase /\ argSpecs' = argSpecs /\ syms' = syms
            /\ callArgs1' = callArgs1 /\ loops' = loops
        BY <2>2 DEF buildVars
      <3>2. Decided' /\ SymsInv'
        BY <1>2, <3>1 DEF BuildInv, Decided, SymsInv
      <3>3. ServedInv'
        BY <1>2, <3>1 DEF BuildInv, ServedInv, Progress, NumParams, Loop1, Loop2
      <3> QED BY <1>2, <3>1, <3>2, <3>3 DEF BuildInv
    <2> QED BY <1>2, <2>1, <2>2
  <1> QED BY <1>1, <1>2, PTL DEF BuildSpec

\* encapsulateImpl builds its two loops as (0, N) and (N - 1, 0).  For every N
\* of at least 2 both run over the same iterations.
THEOREM MirroredSpaces ==
  ASSUME NEW n \in 2 .. U32Max
  PROVE  IterationSpaceOf(0, n, 1) = IterationSpaceOf(WrapU32(n - 1), 0, 1)
  <1>1. WrapU32(n - 1) = n - 1
    BY WidthAssumption DEF WrapU32
  <1>2. IterationSpaceOf(0, n, 1) = 0 .. (n - 1)
    <2>1. ASSUME NEW i \in 0 .. (n - 1) PROVE i \in 0 .. U32Max /\ i = 0 + i * 1
      BY WidthAssumption
    <2> QED BY <2>1, WidthAssumption DEF IterationSpaceOf, IterationRange, Nth
  <1>3. IterationSpaceOf(n - 1, 0, 1) = 0 .. (n - 1)
    <2>1. ASSUME NEW i \in 0 .. (n - 1)
          PROVE  (n - 1) - i \in 0 .. U32Max /\ i = (n - 1) - ((n - 1) - i) * 1
      BY WidthAssumption
    <2>2. n - 1 > 0
      OBVIOUS
    <2>3. IterationRange(n - 1, 0) = 0 .. (n - 1)
      BY <2>2 DEF IterationRange
    <2>4. ASSUME NEW i \in 0 .. (n - 1)
          PROVE  \E k \in 0 .. U32Max : i = Nth(n - 1, 0, 1, k)
      BY <2>1, <2>2, <2>4 DEF Nth
    <2> QED BY <2>3, <2>4 DEF IterationSpaceOf
  <1> QED BY <1>1, <1>2, <1>3

\* What a supported request comes to: it is not declined and does not fail, and the
\* two loops of its harness run over the same iterations.
SupportedServed ==
  Supported(req) => /\ phase \notin {"declined", "aborted", "undefined"}
                    /\ phase = "done" => LoopsMirrored

LEMMA BuildServesSupported == BuildSpec => []SupportedServed
  <1>1. BuildInv => SupportedServed
    <2> SUFFICES ASSUME BuildInv, Supported(req)
                 PROVE  /\ phase \notin {"declined", "aborted", "undefined"}
                        /\ phase = "done" => LoopsMirrored
      BY DEF SupportedServed
    <2>1. Progress
      BY DEF BuildInv, ServedInv
    <2>2. phase \notin {"declined", "aborted", "undefined"}
      BY <2>1 DEF Progress, Phases
    <2>3. ASSUME phase = "done" PROVE LoopsMirrored
      <3>1. Len(loops) = 2 /\ loops[1] = Loop1 /\ loops[2] = Loop2
        BY <2>1, <2>3 DEF Progress
      <3>2. req.iterations \in 2 .. U32Max
        BY SupportedFacts DEF BuildInv
      <3> DEFINE Space(l) == IterationSpaceOf(l.start, l.end, l.step)
      <3>3. Space(Loop1) = Space(Loop2)
        BY <3>2, MirroredSpaces DEF Loop1, Loop2, CreatedLoop
      <3>4. 0 \in Space(Loop1)
        BY <3>2, WidthAssumption
           DEF Loop1, CreatedLoop, IterationSpaceOf, IterationRange, Nth
      <3> QED BY <3>1, <3>3, <3>4 DEF LoopsMirrored
    <2> QED BY <2>2, <2>3
  <1> QED BY BuildInvariance, <1>1, PTL

=============================================================================
