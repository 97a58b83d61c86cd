------------------------ MODULE SymbolicEncapsulation ------------------------
(***************************************************************************)
(* SymbolicEncapsulation::encapsulateImpl: the construction of the harness *)
(* symenc_F for a function F (lib/Transforms/SymbolicEncapsulation.cpp,    *)
(* with FuncUtils.cpp for the declarations it adds to the module).         *)
(*                                                                         *)
(* The harness is built as data, 'ir': a function from the names of its    *)
(* blocks to the instructions in them, the terminator being the last one.  *)
(* Each action is one of the functions encapsulateImpl calls, in its       *)
(* order.  Harness executes the result.                                    *)
(*                                                                         *)
(* Arguments are numbered from 1.  The memory created for argument i is    *)
(* the object <<i, 1>>, and <<i, 2>> is the second copy of an outbound     *)
(* one.  Types are abstracted to whether they are pointers and to the      *)
(* byte size of the scalar or of the pointee.  A scalar is an integer: i8  *)
(* has size 1, i64 the size IndSize.                                       *)
(* i64 multiplications of sizes do not wrap: both factors are far below    *)
(* 2^32.                                                                   *)
(***************************************************************************)
EXTENDS ArgSpec, LoopIRBuilder, SequencesExt

CONSTANTS
  Requests, \* the calls to consider: F, its arg specs, IterationsNum, the module's symbols,
            \* and NDEBUG, TRUE when the build compiles assert() out
  IndSize   \* the size in bytes of an i64, the type of the induction variables

VARIABLES
  req,        \* the call being served
  phase,      \* what encapsulateImpl does next, or how it ended
  argSpecs,   \* the specifications, filled up to the number of parameters
  syms,       \* the module's function symbols and their types
  callArgs1,  \* the values that become the arguments of the forward calls
  callArgs2,  \* the same for the reverse calls
  loops,      \* the loops CreateLoop built, forward then reverse
  ir          \* the blocks of the harness

buildVars == <<req, phase, argSpecs, syms, callArgs1, callArgs2, loops, ir>>

\* The types of the module's symbols that encapsulateImpl tells apart: those it
\* declares them with, and any other.
MallocLike == "i8*(i64)"
FreeLike   == "void(i8*)"
MemcpyLike == "i8*(i8*,i8*,i64)"
KLEELike   == "i32(...)"
AssertLike == "void(i8*,i8*,i32,i8*)"
HarnessTy  == "i32()"
OtherTy    == "another type"

FunctionTypes == {MallocLike, FreeLike, MemcpyLike, KLEELike, AssertLike, HarnessTy, OtherTy}

\* A scalar has at least one byte.
Types == {t \in [ptr : BOOLEAN, size : Nat] : t.ptr \/ t.size > 0}

I64Type == [ptr |-> FALSE, size |-> IndSize]

ASSUME RequestsAssumption ==
  /\ IndSize \in Nat \ {0}
  /\ \A r \in Requests : /\ r.params \in Seq(Types) /\ r.argSpecs \in Seq(ArgSpecs)
                         /\ r.iterations \in U32
                         /\ \A n \in DOMAIN r.syms : r.syms[n] \in FunctionTypes
                         /\ \A b \in {r.isDeclaration, r.hasHarnessBody, r.NDEBUG} : b \in BOOLEAN

\* encapsulateImpl has returned, or has stopped the program or its meaning.
Ended == phase \in {"done", "declined", "aborted", "undefined"}

-----------------------------------------------------------------------------
(***************************************************************************)
(* IR: blocks, values and instructions.                                    *)
(***************************************************************************)
B(name) == <<name, 0>>

NamedBlocks ==
  {"setup", "se.setup", "call1.setup", "call2.setup", "call1.body", "call2.body",
   "call1.teardown", "call2.teardown", "se.start.teardown", "se.end.teardown",
   "teardown", "exit"}

\* A function of the harness's name and type that already has a body keeps it:
\* here as one block, which stays the entry.
EntryBlock(code) == IF B("entry") \in DOMAIN code THEN B("entry") ELSE B("setup")

\* Values: the memory of an argument, and the phi of the k-th loop.
Obj(i, copy) == <<i, copy>>
IndVar(k)    == <<0, k>>

Br(to)                  == [op |-> "br", to |-> to]
CondBr(cond, then, els) == [op |-> "condbr", cond |-> cond, then |-> then, els |-> els]
Ret                     == [op |-> "ret"]
Unreachable             == [op |-> "unreachable"]

Ops == {"alloca", "malloc", "free", "symbolize", "memcpy", "memcmp", "__assert_fail",
        "phi", "call", "br", "condbr", "ret", "unreachable"}

IsTerminator(inst) == inst.op \in {"br", "condbr", "ret", "unreachable"}

\* The instructions of a block, new ones at its end.
Emit(code, b, insts) == [code EXCEPT ![b] = @ \o insts]

\* Blocks with their code, added to those that exist.
AddBlocks(code, more) ==
  [b \in DOMAIN code \cup DOMAIN more |-> IF b \in DOMAIN code THEN code[b] ELSE more[b]]

-----------------------------------------------------------------------------
(***************************************************************************)
(* FuncUtils: M.getOrInsertFunction(name, type) and llvm::cast<Function>   *)
(* of its result.  A symbol that exists with another type is returned as a *)
(* constant expression, which is not a Function.                           *)
(***************************************************************************)
CanDeclare(table, decls) ==
  \A n \in DOMAIN decls \cap DOMAIN table : table[n] = decls[n]

Declare(table, decls) ==
  [n \in DOMAIN table \cup DOMAIN decls |-> IF n \in DOMAIN table THEN table[n] ELSE decls[n]]

\* llvm::cast asserts that its operand is of the class; without assertions it goes
\* on with what is none.
FailedCast == IF req.NDEBUG THEN "undefined" ELSE "aborted"

HarnessDecl   == [symenc_F |-> HarnessTy]
HeapDecls     == [malloc |-> MallocLike, free |-> FreeLike]
SymbolicDecls == [klee_make_symbolic |-> KLEELike, memcpy |-> MemcpyLike]
AssertDecls   == [__assert_fail |-> AssertLike, memcmp |-> KLEELike]

-----------------------------------------------------------------------------

(***************************************************************************)
(* A function of the module is named <<name, k>>: k harness prefixes in    *)
(* front of a name.                                                        *)
(***************************************************************************)
CommonName(f) == <<"symenc_", 0>>

\* HarnessNamePrefix + F.getName()
HarnessName(f) == <<f[1], f[2] + 1>>

NoSymbols == [s \in {} |-> ""]

NumParams   == Len(req.params)
Param(i)    == req.params[i]
Direction(i) == argSpecs[i].Direction

\* ArgSpecs[i].IteratorDependent ? IterationsNum : 1
Multiplier(i) == IF argSpecs[i].IteratorDependent THEN req.iterations ELSE 1

\* The size of the memory setupHarnessArgs creates for argument i.
AllocSize(i) == IF Param(i).ptr THEN Multiplier(i) * Param(i).size ELSE Param(i).size

\* The blocks the harness has before it is declared.
InitialBlocks(r) == IF r.hasHarnessBody THEN [b \in {B("entry")} |-> <<Ret>>] ELSE [b \in {} |-> <<>>]

Init == /\ req \in Requests
        /\ phase = "encapsulateImpl"
        /\ argSpecs = <<>>
        /\ syms = req.syms
        /\ callArgs1 = <<>>
        /\ callArgs2 = <<>>
        /\ loops = <<>>
        /\ ir = InitialBlocks(req)

\* encapsulateImpl is entered for the request r.
Enter(r) ==
  /\ req' = r
  /\ phase' = "encapsulateImpl"
  /\ argSpecs' = <<>>
  /\ syms' = r.syms
  /\ callArgs1' = <<>> /\ callArgs2' = <<>> /\ loops' = <<>>
  /\ ir' = InitialBlocks(r)

\* The request for F in a module with these functions and runtime symbols.
RequestIn(funcs, table, F, argspecs, n, ndebug) ==
  LET h == HarnessName(F)
  IN  [NDEBUG         |-> ndebug,
       isDeclaration  |-> funcs[F].isDeclaration,
       params         |-> funcs[F].params,
       argSpecs       |-> argspecs,
       iterations     |-> n,
       syms           |-> IF h \in DOMAIN funcs THEN Declare(table, [symenc_F |-> funcs[h].type])
                                                ELSE table,
       hasHarnessBody |-> h \in DOMAIN funcs /\ ~funcs[h].isDeclaration]

\* The functions once F has its harness: a new one, or one more body in the one
\* of that name.
WithHarness(funcs, F) ==
  LET h == HarnessName(F)
      old == IF h \in DOMAIN funcs THEN funcs[h].bodies ELSE 0
      new == [isDeclaration |-> FALSE, params |-> <<>>, type |-> HarnessTy, bodies |-> old + 1]
  IN  [n \in DOMAIN funcs \cup {h} |-> IF n = h THEN new ELSE funcs[n]]

\* The runtime symbols as encapsulateImpl leaves them.
Declared == [s \in DOMAIN syms \ {"symenc_F"} |-> syms[s]]

NoRequest == [isDeclaration |-> TRUE, params |-> <<>>, argSpecs |-> <<>>, iterations |-> 0,
              syms |-> NoSymbols, hasHarnessBody |-> FALSE, NDEBUG |-> TRUE]

\* No call has been made yet.
Idle == /\ req = NoRequest /\ phase = "idle"
        /\ argSpecs = <<>> /\ syms = NoSymbols
        /\ callArgs1 = <<>> /\ callArgs2 = <<>> /\ loops = <<>>
        /\ ir = [b \in {} |-> <<>>]

\* A declaration is left alone.  Otherwise the specifications are filled up,
\* the harness is declared and its twelve blocks are created, empty.
EncapsulateImpl ==
  /\ phase = "encapsulateImpl"
  /\ \/ /\ req.isDeclaration
        /\ phase' = "declined"
        /\ UNCHANGED <<argSpecs, syms, ir>>
     \/ /\ ~req.isDeclaration
        /\ argSpecs' = FillMissing(req.argSpecs, NumParams)
        /\ \/ /\ CanDeclare(syms, HarnessDecl)
              /\ syms' = Declare(syms, HarnessDecl)
              /\ ir' = AddBlocks(ir, [b \in {B(n) : n \in NamedBlocks} |-> <<>>])
              /\ phase' = "setupHarnessArgs"
           \/ /\ ~CanDeclare(syms, HarnessDecl)
              /\ phase' = FailedCast
              /\ UNCHANGED <<syms, ir>>
  /\ UNCHANGED <<req, callArgs1, callArgs2, loops>>

-----------------------------------------------------------------------------
(***************************************************************************)
(* setupHarnessArgs: an alloca for a scalar, a malloc for a pointer, a     *)
(* second one when the argument is outbound; frees in reverse order.       *)
(***************************************************************************)
AllocationOfOne(i, copy) ==
  [op |-> IF Param(i).ptr THEN "malloc" ELSE "alloca", obj |-> Obj(i, copy), size |-> Param(i).size]

Allocation(i, copy) ==
  [op   |-> IF Param(i).ptr THEN "malloc" ELSE "alloca",
   obj  |-> Obj(i, copy),
   size |-> AllocSize(i)]

Allocations(i) ==
  IF isOutbound(Direction(i)) THEN <<Allocation(i, 1), Allocation(i, 2)>>
                              ELSE <<Allocation(i, 1)>>

SetupCode == FlattenSeq([i \in 1 .. NumParams |-> Allocations(i)])

\* The copy of argument i that the reverse calls work on.
SecondCopy(i) == IF isOutbound(Direction(i)) THEN Obj(i, 2) ELSE Obj(i, 1)

HeapAllocs == FlattenSeq([i \in 1 .. NumParams |-> IF Param(i).ptr THEN Allocations(i) ELSE <<>>])

TeardownOfArgs ==
  LET pointers == SelectSeq([i \in 1 .. NumParams |-> i], LAMBDA i : Param(i).ptr)
  IN  FlattenSeq([j \in DOMAIN pointers |->
                    <<[op |-> "free", obj |-> Obj(pointers[j], 1)],
                      [op |-> "free", obj |-> SecondCopy(pointers[j])]>>])

TeardownOfFirst ==
  LET firsts == SelectSeq(HeapAllocs, LAMBDA inst : inst.obj[2] = 1)
  IN  [j \in DOMAIN firsts |-> [op |-> "free", obj |-> firsts[j].obj]]

TeardownCode ==
  LET rev == Reverse(HeapAllocs)
  IN  [j \in DOMAIN rev |-> [op |-> "free", obj |-> rev[j].obj]]

ZeroSized == \E i \in 1 .. NumParams : Param(i).ptr /\ Param(i).size = 0

SetupHarnessArgs ==
  /\ phase = "setupHarnessArgs"
  /\ \/ /\ NumParams = 0
        /\ phase' = "createSymbolicDeclarations"
        /\ UNCHANGED <<syms, callArgs1, callArgs2, ir>>
     \/ /\ NumParams > 0
        /\ CanDeclare(syms, HeapDecls)
        /\ ~ZeroSized \/ req.NDEBUG
        /\ syms' = Declare(syms, HeapDecls)
        /\ callArgs1' = [i \in 1 .. NumParams |-> Obj(i, 1)]
        /\ callArgs2' = [i \in 1 .. NumParams |-> SecondCopy(i)]
        /\ ir' = Emit(Emit(ir, B("setup"), SetupCode), B("teardown"), TeardownCode)
        /\ phase' = "createSymbolicDeclarations"
     \/ /\ NumParams > 0
        /\ CanDeclare(syms, HeapDecls)
        /\ ZeroSized /\ ~req.NDEBUG
        /\ phase' = "aborted"
        /\ UNCHANGED <<syms, callArgs1, callArgs2, ir>>
     \/ /\ NumParams > 0
        /\ ~CanDeclare(syms, HeapDecls)
        /\ phase' = FailedCast
        /\ UNCHANGED <<syms, callArgs1, callArgs2, ir>>
  /\ UNCHANGED <<req, argSpecs, loops>>

-----------------------------------------------------------------------------
(***************************************************************************)
(* createSymbolicDeclarations: every argument that is not purely outbound  *)
(* gets a symbolic value; the second copy of an outbound one is made       *)
(* symbolic too and then overwritten with the first.                       *)
(***************************************************************************)
Symbolize(o, n)     == [op |-> "symbolize", obj |-> o, size |-> n]
Memcpy(dst, src, n) == [op |-> "memcpy", dst |-> dst, src |-> src, size |-> n]

SymbolicCodeUncopied(i) ==
  IF isOnlyOutbound(Direction(i)) THEN <<>>
  ELSE <<Symbolize(callArgs1[i], AllocSize(i))>> \o
       (IF isOutbound(Direction(i)) THEN <<Symbolize(callArgs2[i], AllocSize(i))>> ELSE <<>>)

SymbolicCode(i) ==
  IF isOnlyOutbound(Direction(i)) THEN <<>>
  ELSE <<Symbolize(callArgs1[i], AllocSize(i))>> \o
       (IF isOutbound(Direction(i))
        THEN <<Symbolize(callArgs2[i], AllocSize(i)),
               Memcpy(callArgs2[i], callArgs1[i], AllocSize(i))>>
        ELSE <<>>)

\* memcpy is declared with i8* operands and is not variadic, so the alloca of
\* a scalar other than i8 is not an operand of its type.
BadMemcpySignature ==
  \E i \in 1 .. NumParams :
    /\ ~Param(i).ptr /\ Param(i).size # 1
    /\ isInbound(Direction(i)) /\ isOutbound(Direction(i))

CreateSymbolicDeclarations ==
  /\ phase = "createSymbolicDeclarations"
  /\ \/ /\ callArgs1 = <<>> /\ ~req.NDEBUG
        /\ phase' = "aborted"
        /\ UNCHANGED <<syms, ir>>
     \/ /\ callArgs1 # <<>> \/ req.NDEBUG
        /\ CanDeclare(syms, SymbolicDecls) /\ ~BadMemcpySignature
        /\ syms' = Declare(syms, SymbolicDecls)
        /\ ir' = Emit(ir, B("se.setup"), FlattenSeq([i \in 1 .. NumParams |-> SymbolicCode(i)]))
        /\ phase' = "createSymbolicAssertions"
     \/ /\ callArgs1 # <<>> \/ req.NDEBUG
        /\ ~CanDeclare(syms, SymbolicDecls) \/ BadMemcpySignature
        /\ phase' = IF CanDeclare(syms, SymbolicDecls) THEN "undefined" ELSE FailedCast
        /\ UNCHANGED <<syms, ir>>
  /\ UNCHANGED <<req, argSpecs, callArgs1, callArgs2, loops>>

-----------------------------------------------------------------------------
(***************************************************************************)
(* createSymbolicAssertions: a chain of comparisons of the two copies of   *)
(* each outbound argument, each with its own failing block.                *)
(***************************************************************************)
Cond(i) == <<"cond", i>>
Fail(i) == <<"fail", i>>

\* The size is taken from the type of the value: the scalar for an alloca, but
\* i8, the element type of what malloc returns, for a pointer argument.
ComparedSize(i) == Multiplier(i) * (IF Param(i).ptr THEN 1 ELSE Param(i).size)

OutboundArgs == {i \in 1 .. NumParams : isOutbound(Direction(i))}

NextCondUnlinked(i) ==
  IF i = 0 /\ OutboundArgs # {} THEN Cond(Min(OutboundArgs)) ELSE B("se.end.teardown")

\* The block that follows the comparison of argument i when it holds: that of the
\* next outbound argument.
NextCond(i) ==
  LET later == {j \in OutboundArgs : j > i}
  IN  IF later = {} THEN B("se.end.teardown") ELSE Cond(Min(later))

CondCode(i) ==
  <<[op |-> "memcmp", lhs |-> callArgs1[i], rhs |-> callArgs2[i], size |-> ComparedSize(i)],
    CondBr("memcmp == 0", NextCond(i), Fail(i))>>

FailCode == <<[op |-> "__assert_fail"], Unreachable>>

AssertionBlocks ==
  [b \in {Cond(i) : i \in OutboundArgs} \cup {Fail(i) : i \in OutboundArgs} |->
     IF b[1] = "fail" THEN FailCode ELSE CondCode(b[2])]

StartCode == <<Br(NextCond(0))>>

CreateSymbolicAssertions ==
  /\ phase = "createSymbolicAssertions"
  /\ \/ /\ callArgs1 = <<>> /\ ~req.NDEBUG
        /\ phase' = "aborted"
        /\ UNCHANGED <<syms, ir>>
     \/ /\ callArgs1 # <<>> \/ req.NDEBUG
        /\ CanDeclare(syms, AssertDecls)
        /\ syms' = Declare(syms, AssertDecls)
        /\ ir' = AddBlocks(Emit(ir, B("se.start.teardown"), StartCode), AssertionBlocks)
        /\ phase' = "createLoop1"
     \/ /\ callArgs1 # <<>> \/ req.NDEBUG
        /\ ~CanDeclare(syms, AssertDecls)
        /\ phase' = FailedCast
        /\ UNCHANGED <<syms, ir>>
  /\ UNCHANGED <<req, argSpecs, callArgs1, callArgs2, loops>>

-----------------------------------------------------------------------------
(***************************************************************************)
(* CreateLoop({body}, preheader, postexit, start, end): three new blocks,  *)
(* and branches out of the preheader and the body.  The phi names the      *)
(* block each of its values comes from.                                    *)
(***************************************************************************)
Names(k) == IF k = 1 THEN [pre |-> B("call1.setup"), body |-> B("call1.body"),
                           post |-> B("call1.teardown")]
                     ELSE [pre |-> B("call2.setup"), body |-> B("call2.body"),
                           post |-> B("call2.teardown")]

LoopBlocks(k) ==
  [b \in {<<"hdr", k>>, <<"latch", k>>, <<"loop.exit", k>>} |->
     CASE b[1] = "hdr"   -> <<[op |-> "phi", loop |-> k, pre |-> Names(k).pre],
                              CondBr("loop", Names(k).body, <<"loop.exit", k>>)>>
       [] b[1] = "latch" -> <<Br(<<"hdr", k>>)>>
       [] OTHER          -> <<Br(Names(k).post)>>]

LoopBoundsUnwrapped(k) == IF k = 1 THEN [start |-> 0, end |-> req.iterations]
                                   ELSE [start |-> req.iterations - 1, end |-> 0]

LoopBoundsFromEnd(k) == IF k = 1 THEN [start |-> 0, end |-> req.iterations]
                                 ELSE [start |-> req.iterations, end |-> 0]

\* The arguments of the two CreateLoop calls; IterationsNum - 1 is a uint32_t.
LoopBounds(k) == IF k = 1 THEN [start |-> 0, end |-> req.iterations]
                          ELSE [start |-> WrapU32(req.iterations - 1), end |-> 0]

CreateLoop(k) ==
  /\ phase = IF k = 1 THEN "createLoop1" ELSE "createLoop2"
  /\ \/ /\ LoopBounds(k).start = LoopBounds(k).end /\ ~req.NDEBUG
        /\ phase' = "aborted"
        /\ UNCHANGED <<loops, ir>>
     \/ /\ LoopBounds(k).start # LoopBounds(k).end \/ req.NDEBUG
        /\ loops' = Append(loops, CreatedLoop(LoopBounds(k).start, LoopBounds(k).end, 1))
        /\ ir' = AddBlocks(Emit(Emit(ir, Names(k).pre, <<Br(<<"hdr", k>>)>>),
                                Names(k).body, <<Br(<<"latch", k>>)>>),
                           LoopBlocks(k))
        /\ phase' = IF k = 1 THEN "createLoop2" ELSE "passIterator"
  /\ UNCHANGED <<req, argSpecs, syms, callArgs1, callArgs2>>

\* callArgs1[0] = indVar1, callArgs2[0] = indVar2.  Without parameters this is
\* outside of both vectors: undefined, but their room for elements in place
\* also lets a build go on as if nothing had been written.
PassIterator ==
  /\ phase = "passIterator"
  /\ \/ /\ callArgs1 = <<>>
        /\ phase' \in {"undefined", "createCall1"}
        /\ UNCHANGED <<callArgs1, callArgs2>>
     \/ /\ callArgs1 # <<>>
        /\ callArgs1' = [callArgs1 EXCEPT ![1] = IndVar(1)]
        /\ callArgs2' = [callArgs2 EXCEPT ![1] = IndVar(2)]
        /\ phase' = "createCall1"
  /\ UNCHANGED <<req, argSpecs, syms, loops, ir>>

-----------------------------------------------------------------------------
(***************************************************************************)
(* createCall: the call goes before the branch CreateLoop put at the end   *)
(* of the block.  An alloca is loaded, a heap pointer is cast.  The        *)
(* induction variable needs a cast unless the parameter is an i64; the     *)
(* cast instruction is created without a place to insert it, and for a     *)
(* narrower integer or a pointer no such cast exists.                      *)
(***************************************************************************)
Operand(v, i) ==
  CASE v \in {IndVar(1), IndVar(2)} /\ Param(i) = I64Type -> [kind |-> "value", val |-> v]
    [] v \in {IndVar(1), IndVar(2)} /\ Param(i) # I64Type -> [kind |-> "detached cast", val |-> v]
    [] OTHER -> [kind |-> IF Param(i).ptr THEN "pointer" ELSE "load", val |-> v]

NoSuchCast == callArgs1 # <<>> /\ (Param(1).ptr \/ Param(1).size < IndSize)

InsertAtEnd(code, inst) == Append(code, inst)

\* An instruction before the terminator of a block, or at its end.
InsertBeforeTerminator(code, inst) ==
  IF code # <<>> /\ IsTerminator(Last(code)) THEN InsertAt(code, Len(code), inst)
                                             ELSE Append(code, inst)

CreateCall(k) ==
  /\ phase = IF k = 1 THEN "createCall1" ELSE "createCall2"
  /\ \/ /\ NoSuchCast
        /\ phase' = "undefined"
        /\ UNCHANGED ir
     \/ /\ ~NoSuchCast
        /\ LET vals == IF k = 1 THEN callArgs1 ELSE callArgs2
               call == [op |-> "call", args |-> [i \in DOMAIN vals |-> Operand(vals[i], i)]]
           IN  ir' = [ir EXCEPT ![Names(k).body] = InsertBeforeTerminator(@, call)]
        /\ phase' = IF k = 1 THEN "createCall2" ELSE "controlFlow"
  /\ UNCHANGED <<req, argSpecs, syms, callArgs1, callArgs2, loops>>

-----------------------------------------------------------------------------

\* The branches that connect the parts, and the return.
Successor ==
  [b \in {"setup", "se.setup", "call1.teardown", "call2.teardown", "se.end.teardown", "teardown"} |->
     CASE b = "setup"           -> "se.setup"
       [] b = "se.setup"        -> "call1.setup"
       [] b = "call1.teardown"  -> "call2.setup"
       [] b = "call2.teardown"  -> "se.start.teardown"
       [] b = "se.end.teardown" -> "teardown"
       [] b = "teardown"        -> "exit"]

SetupControlFlow ==
  /\ phase = "controlFlow"
  /\ ir' = [b \in DOMAIN ir |->
              CASE b = B("exit")                           -> Append(ir[b], Ret)
                [] b \in {B(n) : n \in DOMAIN Successor}   -> Append(ir[b], Br(B(Successor[b[1]])))
                [] OTHER                                   -> ir[b]]
  /\ phase' = "done"
  /\ UNCHANGED <<req, argSpecs, syms, callArgs1, callArgs2, loops>>

BuildNext ==
  \/ EncapsulateImpl
  \/ SetupHarnessArgs
  \/ CreateSymbolicDeclarations
  \/ CreateSymbolicAssertions
  \/ CreateLoop(1)
  \/ CreateLoop(2)
  \/ PassIterator
  \/ CreateCall(1)
  \/ CreateCall(2)
  \/ SetupControlFlow

BuildSpec == Init /\ [][BuildNext]_buildVars

-----------------------------------------------------------------------------
(***************************************************************************)
(* Properties of the harness as built.                                     *)
(***************************************************************************)

Targets(inst) == CASE inst.op = "br"     -> {inst.to}
                   [] inst.op = "condbr" -> {inst.then, inst.els}
                   [] OTHER              -> {}

\* What the IR verifier asks of a block.
WellFormedBlock(code) ==
  /\ code # <<>>
  /\ \A j \in DOMAIN code : IsTerminator(code[j]) <=> j = Len(code)
  /\ Targets(Last(code)) \subseteq DOMAIN ir
  /\ \A j \in DOMAIN code :
       code[j].op = "call" => \A i \in DOMAIN code[j].args : code[j].args[i].kind # "detached cast"

\* The bytes of o that an instruction touches are bytes setup allocates.
Covered(o, n) ==
  \E j \in DOMAIN ir[B("setup")] :
    LET a == ir[B("setup")][j]
    IN  a.op \in {"alloca", "malloc"} /\ a.obj = o /\ n <= a.size

InBounds(inst) ==
  CASE inst.op = "symbolize" -> Covered(inst.obj, inst.size)
    [] inst.op = "memcpy"    -> Covered(inst.dst, inst.size) /\ Covered(inst.src, inst.size)
    [] inst.op = "memcmp"    -> Covered(inst.lhs, inst.size) /\ Covered(inst.rhs, inst.size)
    [] OTHER                 -> TRUE

\* Both loops run, and over the same iterations.
LoopsMirrored ==
  LET space(l) == IterationSpaceOf(l.start, l.end, l.step)
  IN  Len(loops) = 2 /\ space(loops[1]) = space(loops[2]) /\ space(loops[1]) # {}

SoundHarness ==
  /\ \A b \in DOMAIN ir : WellFormedBlock(ir[b])
  /\ \A b \in DOMAIN ir : \A j \in DOMAIN ir[b] : InBounds(ir[b][j])
  /\ LoopsMirrored
  /\ EntryBlock(ir) = B("setup")

(***************************************************************************)
(* What a call of encapsulate has to satisfy for the harness to be usable. *)
(* None of it is checked by the caller, the pass.                          *)
(***************************************************************************)
SupportedArg(type, spec, ndebug) ==
  LET out == isOutbound(spec.Direction)
      both == out /\ isInbound(spec.Direction)
  IN  /\ type.ptr => type.size > 0 \/ (ndebug /\ ~out)
      /\ ~type.ptr => /\ both => type.size = 1
                      /\ out => ~spec.IteratorDependent

Supported(r) ==
  /\ ~r.isDeclaration
  /\ r.params # <<>>
  /\ r.params[1] = I64Type
  /\ r.iterations >= 2
  /\ ~r.hasHarnessBody
  /\ \A i \in DOMAIN r.params :
       SupportedArg(r.params[i], FillMissing(r.argSpecs, Len(r.params))[i], r.NDEBUG)
  /\ \A d \in {HarnessDecl, HeapDecls, SymbolicDecls, AssertDecls} : CanDeclare(r.syms, d)

\* Every variable has its type.
TypeOK ==
  /\ req.NDEBUG \in BOOLEAN
  /\ req.params \in Seq(Types) /\ req.argSpecs \in Seq(ArgSpecs) /\ req.iterations \in U32
  /\ phase \in {"encapsulateImpl", "setupHarnessArgs", "createSymbolicDeclarations",
               "createSymbolicAssertions", "createLoop1", "createLoop2", "passIterator",
               "createCall1", "createCall2", "controlFlow",
               "done", "declined", "aborted", "undefined"}
  /\ argSpecs \in Seq(ArgSpecs)
  /\ \A n \in DOMAIN syms : syms[n] \in FunctionTypes
  /\ \A i \in DOMAIN callArgs1 : callArgs1[i] \in Nat \X {1, 2}
  /\ DOMAIN callArgs2 = DOMAIN callArgs1
  /\ loops \in Seq(Loops)
  /\ \A b \in DOMAIN ir : \A j \in DOMAIN ir[b] : ir[b][j].op \in Ops

\* encapsulateImpl: it returns TRUE with a harness that is valid IR, touches
\* only memory it allocated and runs the same iterations in both directions
\* when the request is a supported one and for no other; except that without
\* assertions and parameters it is up to the undefined store.
BuildsSoundHarness ==
  /\ Ended /\ Supported(req) => phase = "done" /\ SoundHarness
  /\ phase = "done" /\ SoundHarness => Supported(req) \/ (req.NDEBUG /\ req.params = <<>>)

(***************************************************************************)
(* What the source says of itself, and what not every request bears out.   *)
(***************************************************************************)

\* LoopIRBuilder.cpp, CreateLoop: assert(Start != End && "Loop bounds are equal!")
LoopBoundsDiffer ==
  \A k \in {1, 2} :
    phase = (IF k = 1 THEN "createLoop1" ELSE "createLoop2") => LoopBounds(k).start # LoopBounds(k).end

\* createSymbolicDeclarations, createSymbolicAssertions:
\* assert(Values1.size() && Values2.size() && "Value sets are empty!")
ValueSetsNotEmpty ==
  phase \in {"createSymbolicDeclarations", "createSymbolicAssertions"} =>
    callArgs1 # <<>> /\ callArgs2 # <<>>

\* encapsulateImpl, "pass the iterator as the first argument": the calls of a
\* finished harness get the value of the induction variable.
IteratorPassed ==
  phase = "done" =>
    \A k \in {1, 2} :
      \A j \in DOMAIN ir[Names(k).body] :
        LET inst == ir[Names(k).body][j]
        IN  inst.op = "call" /\ inst.args # <<>> => inst.args[1] = [kind |-> "value", val |-> IndVar(k)]

=============================================================================
