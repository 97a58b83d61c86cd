---------------------------- MODULE HarnessProofs ----------------------------
(***************************************************************************)
(* The execution of the harness, for every request, every function, every  *)
(* value of its inputs and every number of iterations: it stays within its *)
(* memory and frees it once, calls the function for the same iterators in  *)
(* both loops and, as far as the report is true, on the same inputs.       *)
(***************************************************************************)
EXTENDS Harness, ShapeProofs

-----------------------------------------------------------------------------
(***************************************************************************)
(* The inductive invariant.  None of the properties is inductive: each     *)
(* says what holds at the end of the run, or when the second loop is       *)
(* entered, and follows from what every block leaves to the next.          *)
(***************************************************************************)

\* The block that is executed, and the loop or the argument it belongs to.
Block  == at[1]
Number == at[2]

LoopBlockKinds == {"hdr", "latch", "loop.exit"}

\* Where the run is with respect to loop k.
InLoop(k) == \/ Block \in LoopBlockKinds /\ Number = k
             \/ Block = BodyName(k)

Before(k) == \/ Block \in {"setup", "se.setup", "call1.setup"}
             \/ k = 2 /\ (InLoop(1) \/ Block \in {"call1.teardown", "call2.setup"})

After(k) == ~Before(k) /\ ~InLoop(k)

\* The phi is about to take the start value of loop k.
Entering(k) == Block = "hdr" /\ Number = k /\ next = 1 /\ from = Names(k).pre

\* The run has not entered loop k.
Ahead(k) == Before(k) \/ Entering(k)

\* The run starts when the harness is done, and stays within its code.
Control ==
  /\ status \in Statuses
  /\ status = "building" => /\ next = 1
                            /\ mem = [o \in {} |-> <<>>] /\ live = {}
                            /\ entry = << <<>>, <<>> >> /\ visited = << <<>>, <<>> >>
  /\ status # "building" => phase = "done" /\ at \in DOMAIN ir /\ next \in DOMAIN ir[at]
  /\ Block = "hdr" /\ next = 1 => from \in {Names(Number).pre, <<"latch", Number>>}

\* Every object is one of an argument, and keeps its size.
Contents(i) == [1 .. AllocSize(i) -> Bytes \cup {Undef}]

Memory ==
  /\ live \subseteq DOMAIN mem /\ DOMAIN mem \subseteq Objects
  /\ \A o \in DOMAIN mem : mem[o] \in Contents(o[1])
  /\ phi \in I64 \X I64 /\ cmp \in BOOLEAN /\ kernel \in Kernels

\* There is a history for each of the two loops.
Histories == DOMAIN visited = {1, 2} /\ DOMAIN entry = {1, 2}

\* What teardown has gone past is freed.
Freed ==
  /\ Block = "teardown" => \A p \in 1 .. (next - 1) : TeardownCode[p].obj \notin live
  /\ Block = "exit" => live \cap HeapObjects = {}
  /\ Block = "entry" => live = {}
  /\ status = "returned" => Block \in {"exit", "entry"}

\* The objects are allocated from setup to teardown.
Allocated ==
  /\ status # "fault"
  /\ Block = "setup" => live = {SetupCode[p].obj : p \in 1 .. (next - 1)}
  /\ Block \notin {"setup", "teardown", "exit"} => live = Objects
  /\ Block = "teardown" => live = Objects \ {TeardownCode[p].obj : p \in 1 .. (next - 1)}
  /\ Block # "entry"
  /\ status \in {"returned", "failed"} => Block \in {"exit", "fail"}

\* How many iterations of loop k the induction variable is past, and the first m
\* iterators of the loop.
Steps(k) == IF k = 1 THEN phi[1] ELSE (req.iterations - 1) - phi[2]

Visits(k, m) == [j \in 1 .. m |-> IF k = 1 THEN j - 1 ELSE req.iterations - j]

\* The calls that loop k has made.
Visited(k) ==
  /\ Before(k) \/ Entering(k) => visited[k] = <<>>
  /\ Block = "hdr" /\ Number = k /\ next = 1 /\ ~Entering(k) =>
       Steps(k) \in 0 .. (req.iterations - 1) /\ visited[k] = Visits(k, Steps(k) + 1)
  /\ Block = "hdr" /\ Number = k /\ next = 2 =>
       Steps(k) \in 0 .. req.iterations /\ visited[k] = Visits(k, Steps(k))
  /\ Block = BodyName(k) /\ next = 1 =>
       Steps(k) \in 0 .. (req.iterations - 1) /\ visited[k] = Visits(k, Steps(k))
  /\ (Block = BodyName(k) /\ next = 2) \/ (Block = "latch" /\ Number = k) =>
       Steps(k) \in 0 .. (req.iterations - 1) /\ visited[k] = Visits(k, Steps(k) + 1)
  /\ After(k) \/ (Block = "loop.exit" /\ Number = k) => visited[k] = Visits(k, req.iterations)

Unwritten(o) == [j \in 1 .. AllocSize(o[1]) |-> Undef]

\* From the copies se.setup makes to the entry of the second loop.
Isolated ==
  /\ Block = "setup" => \A o \in DOMAIN mem : mem[o] = Unwritten(o)
  /\ Block = "se.setup" =>
       /\ \A o \in Objects : isOnlyOutbound(Direction(o[1])) => mem[o] = Unwritten(o)
       /\ \A i \in OutboundArgs : \A p \in 1 .. (next - 1) :
            SymbolizeCode[p] = CopyInst(i) => mem[Obj(i, 1)] = mem[Obj(i, 2)]
  /\ Block = "call1.setup" \/ Entering(1) => View(1) = View(2)
  /\ Entering(2) \/ (Before(2) /\ ~Before(1) /\ ~Entering(1)) => entry[1] = View(2)
  /\ Before(2) \/ Entering(2) => entry[2] = <<>>
  /\ entry[2] # <<>> => entry[2] = entry[1]

HarnessInv ==
  /\ req \in Requests /\ Shape /\ Control /\ Memory /\ Histories
  /\ status # "building" =>
       /\ Freed
       /\ Supported(req) => Allocated /\ Visited(1) /\ Visited(2)
       /\ Supported(req) /\ Truthful => Isolated

-----------------------------------------------------------------------------
(***************************************************************************)
(* Where the instructions are.                                             *)
(***************************************************************************)

PostName(k) == IF k = 1 THEN "call1.teardown" ELSE "call2.teardown"

\* What follows the part of loop k.
AfterLoop(k) == IF k = 1 THEN "call2.setup" ELSE "se.start.teardown"

PhiInst(k) == [op |-> "phi", loop |-> k, pre |-> B(PreName(k))]

CompareInst(i) ==
  [op |-> "memcmp", lhs |-> Obj(i, 1), rhs |-> Obj(i, 2), size |-> ComparedSize(i)]

\* The run is in the block n, which has this code and then a branch.
InCode(n, code, to) ==
  /\ at = B(n)
  /\ \/ next \in 1 .. Len(code) /\ Inst = code[next]
     \/ next = Len(code) + 1 /\ Inst = Br(B(to))

InLoopPart(k) ==
  \/ at = B(PreName(k)) /\ next = 1 /\ Inst = Br(<<"hdr", k>>)
  \/ at = <<"hdr", k>> /\ next = 1 /\ Inst = PhiInst(k)
  \/ at = <<"hdr", k>> /\ next = 2 /\ Inst = CondBr("loop", B(BodyName(k)), <<"loop.exit", k>>)
  \/ at = B(BodyName(k)) /\ next = 1 /\ Inst = CallInst(k)
  \/ at = B(BodyName(k)) /\ next = 2 /\ Inst = Br(<<"latch", k>>)
  \/ at = <<"latch", k>> /\ next = 1 /\ Inst = Br(<<"hdr", k>>)
  \/ at = <<"loop.exit", k>> /\ next = 1 /\ Inst = Br(B(PostName(k)))
  \/ at = B(PostName(k)) /\ next = 1 /\ Inst = Br(B(AfterLoop(k)))

InComparison(i) ==
  \/ at = Cond(i) /\ next = 1 /\ Inst = CompareInst(i)
  \/ at = Cond(i) /\ next = 2 /\ Inst = CondBr("memcmp == 0", NextCond(i), Fail(i))
  \/ at = Fail(i) /\ next = 1 /\ Inst = [op |-> "__assert_fail"]
  \/ at = Fail(i) /\ next = 2 /\ Inst = Unreachable

InHarness ==
  \/ InCode("setup", SetupCode, "se.setup")
  \/ InCode("se.setup", SymbolizeCode, "call1.setup")
  \/ InCode("teardown", TeardownCode, "exit")
  \/ \E k \in {1, 2} : InLoopPart(k)
  \/ at = B("se.start.teardown") /\ next = 1 /\ Inst = Br(NextCond(0))
  \/ at = B("se.end.teardown") /\ next = 1 /\ Inst = Br(B("teardown"))
  \/ \E i \in OutboundArgs : InComparison(i)
  \/ at = B("exit") /\ next = 1 /\ Inst = Ret
  \/ at = B("entry") /\ next = 1 /\ Inst = Ret /\ req.hasHarnessBody

\* An instruction of a sequence that has a branch at its end.
LEMMA AppendedCode ==
  ASSUME NEW S, NEW code \in Seq(S), NEW inst, NEW n \in DOMAIN Append(code, inst)
  PROVE  \/ n \in 1 .. Len(code) /\ Append(code, inst)[n] = code[n]
         \/ n = Len(code) + 1 /\ Append(code, inst)[n] = inst
  <1> DEFINE T == S \cup {inst}
  <1>1. code \in Seq(T) /\ inst \in T /\ Len(code) \in Nat
    OBVIOUS
  <1> HIDE DEF T
  <1>2. /\ Len(Append(code, inst)) = Len(code) + 1 /\ Append(code, inst) \in Seq(T)
        /\ \A i \in 1 .. Len(code) : Append(code, inst)[i] = code[i]
        /\ Append(code, inst)[Len(code) + 1] = inst
    BY <1>1, AppendProperties
  <1>3. n \in 1 .. (Len(code) + 1)
    BY <1>2
  <1> QED BY <1>1, <1>2, <1>3

\* Wherever the run is in a finished harness, it is at an instruction of its shape.
LEMMA WhereItIs ==
  ASSUME req \in Requests, Shape, phase = "done", at \in DOMAIN ir, next \in DOMAIN ir[at]
  PROVE  InHarness
  <1>1. at \in DoneNames /\ Inst = ir[at][next]
    BY DoneCode DEF Inst
  <1>2. CASE at = B("setup")
    <2>1. SetupCode \in Seq(AllocationInsts) /\ ir[at] = Append(SetupCode, Br(B("se.setup")))
      BY <1>2, DoneCode, SetupCodeIs
    <2> QED BY <1>1, <1>2, <2>1, AppendedCode DEF InCode, InHarness
  <1>3. CASE at = B("se.setup")
    <2>1. SymbolizeCode \in Seq(SymbolizeInsts) /\ ir[at] = Append(SymbolizeCode, Br(B("call1.setup")))
      BY <1>3, DoneCode, SymbolizeCodeIs
    <2> QED BY <1>1, <1>3, <2>1, AppendedCode DEF InCode, InHarness
  <1>4. CASE at = B("teardown")
    <2>1. /\ TeardownCode \in Seq({[op |-> "free", obj |-> o] : o \in HeapObjects})
          /\ ir[at] = Append(TeardownCode, Br(B("exit")))
      BY <1>4, DoneCode, TeardownCodeIs
    <2> QED BY <1>1, <1>4, <2>1, AppendedCode DEF InCode, InHarness
  <1>5. ASSUME NEW k \in {1, 2},
               at \in {B(PreName(k)), B(BodyName(k)), B(PostName(k))} \cup LoopNames(k)
        PROVE  InHarness
    <2>1. /\ Names(k).pre = B(PreName(k)) /\ Names(k).body = B(BodyName(k))
          /\ Names(k).post = B(PostName(k))
      BY DEF Names, PreName, BodyName, PostName
    <2>2. InLoopPart(k)
      <3>1. CASE at = B(PreName(k))
        <4>1. ir[at] = <<Br(<<"hdr", k>>)>>
          BY <3>1, DoneCode DEF PreName
        <4> QED BY <1>1, <3>1, <4>1, SmallTuples DEF InLoopPart
      <3>2. CASE at = B(BodyName(k))
        <4>1. ir[at] = <<CallInst(k), Br(<<"latch", k>>)>>
          BY <3>2, DoneCode DEF BodyName
        <4>2. next \in {1, 2} /\ (next = 1 => Inst = CallInst(k))
              /\ (next = 2 => Inst = Br(<<"latch", k>>))
          BY <1>1, <4>1, SmallTuples
        <4> QED BY <3>2, <4>2 DEF InLoopPart
      <3>3. CASE at = B(PostName(k))
        <4>1. ir[at] = <<Br(B(AfterLoop(k)))>>
          BY <3>3, DoneCode DEF PostName, AfterLoop
        <4> QED BY <1>1, <3>3, <4>1, SmallTuples DEF InLoopPart
      <3>4. CASE at \in LoopNames(k)
        <4>1. ir[at] = LoopBlocks(k)[at]
          BY <3>4, DoneCode
        <4>2. CASE at = <<"hdr", k>>
          <5>1. ir[at] = <<PhiInst(k), CondBr("loop", B(BodyName(k)), <<"loop.exit", k>>)>>
            BY <2>1, <4>1, <4>2, LoopCodeIs DEF PhiInst
          <5>2. next \in {1, 2} /\ (next = 1 => Inst = PhiInst(k))
                /\ (next = 2 => Inst = CondBr("loop", B(BodyName(k)), <<"loop.exit", k>>))
            BY <1>1, <5>1, SmallTuples
          <5> QED BY <4>2, <5>2 DEF InLoopPart
        <4>3. CASE at = <<"latch", k>>
          <5>1. ir[at] = <<Br(<<"hdr", k>>)>>
            BY <4>1, <4>3, LoopCodeIs
          <5> QED BY <1>1, <4>3, <5>1, SmallTuples DEF InLoopPart
        <4>4. CASE at = <<"loop.exit", k>>
          <5>1. ir[at] = <<Br(B(PostName(k)))>>
            BY <2>1, <4>1, <4>4, LoopCodeIs
          <5> QED BY <1>1, <4>4, <5>1, SmallTuples DEF InLoopPart
        <4> QED BY <3>4, <4>2, <4>3, <4>4 DEF LoopNames
      <3> QED BY <1>5, <3>1, <3>2, <3>3, <3>4
    <2> QED BY <2>2 DEF InHarness
  <1>6. CASE at = B("se.start.teardown")
    <2>1. ir[at] = <<Br(NextCond(0))>>
      BY <1>6, DoneCode DEF StartCode
    <2> QED BY <1>1, <1>6, <2>1, SmallTuples DEF InHarness
  <1>7. CASE at = B("se.end.teardown")
    <2>1. ir[at] = <<Br(B("teardown"))>>
      BY <1>7, DoneCode
    <2> QED BY <1>1, <1>7, <2>1, SmallTuples DEF InHarness
  <1>8. CASE at = B("exit")
    <2>1. ir[at] = <<Ret>>
      BY <1>8, DoneCode
    <2> QED BY <1>1, <1>8, <2>1, SmallTuples DEF InHarness
  <1>9. CASE req.hasHarnessBody /\ at = B("entry")
    <2>1. ir[at] = <<Ret>>
      BY <1>9, DoneCode
    <2> QED BY <1>1, <1>9, <2>1, SmallTuples DEF InHarness
  <1>10. ASSUME NEW i \in OutboundArgs, at = Cond(i) PROVE InHarness
    <2> DEFINE branch == CondBr("memcmp == 0", NextCond(i), Fail(i))
    <2>1. ir[at] = <<CompareInst(i), branch>>
      BY <1>10, DoneCode DEF ComparisonCode, CompareInst
    <2> HIDE DEF branch
    <2>2. next \in {1, 2} /\ (next = 1 => Inst = CompareInst(i)) /\ (next = 2 => Inst = branch)
      BY <1>1, <2>1, SmallTuples
    <2> USE DEF branch
    <2> QED BY <1>10, <2>2 DEF InComparison, InHarness
  <1>11. ASSUME NEW i \in OutboundArgs, at = Fail(i) PROVE InHarness
    <2>1. ir[at] = <<[op |-> "__assert_fail"], Unreachable>>
      BY <1>11, DoneCode DEF FailCode
    <2>2. next \in {1, 2} /\ (next = 1 => Inst = [op |-> "__assert_fail"])
          /\ (next = 2 => Inst = Unreachable)
      BY <1>1, <2>1, SmallTuples
    <2> QED BY <1>11, <2>2 DEF InComparison, InHarness
  <1>12. \/ \E n \in NamedBlocks : at = B(n)
         \/ req.hasHarnessBody /\ at = B("entry")
         \/ \E i \in OutboundArgs : at = Cond(i) \/ at = Fail(i)
         \/ \E k \in {1, 2} : at \in LoopNames(k)
    BY <1>1 DEF DoneNames, AssertionNames
  <1>13. \A n \in NamedBlocks : at = B(n) =>
           \/ n \in {"setup", "se.setup", "teardown", "se.start.teardown", "se.end.teardown", "exit"}
           \/ \E k \in {1, 2} : at \in {B(PreName(k)), B(BodyName(k)), B(PostName(k))}
    BY DEF NamedBlocks, PreName, BodyName, PostName
  <1> QED BY <1>2, <1>3, <1>4, <1>5, <1>6, <1>7, <1>8, <1>9, <1>10, <1>11, <1>12, <1>13

\* The kinds of instructions that the parts have.
LEMMA PartOps ==
  ASSUME req \in Requests
  PROVE  /\ InCode("setup", SetupCode, "se.setup") => Inst.op \in {"alloca", "malloc", "br"}
         /\ InCode("se.setup", SymbolizeCode, "call1.setup") => Inst.op \in {"symbolize", "memcpy", "br"}
         /\ InCode("teardown", TeardownCode, "exit") => Inst.op \in {"free", "br"}
         /\ \A k : InLoopPart(k) => Inst.op \in {"br", "phi", "condbr", "call"}
         /\ \A i : InComparison(i) => Inst.op \in {"memcmp", "condbr", "__assert_fail", "unreachable"}
         /\ \A to : Br(to).op = "br" /\ Br(to).to = to
         /\ Ret.op = "ret"
         /\ \A p \in 1 .. Len(SetupCode) : SetupCode[p].op \in {"alloca", "malloc"}
         /\ \A p \in 1 .. Len(SymbolizeCode) : SymbolizeCode[p].op \in {"symbolize", "memcpy"}
         /\ \A p \in 1 .. Len(TeardownCode) : TeardownCode[p].op = "free"
  <1>1. \A to : Br(to).op = "br" /\ Br(to).to = to
    BY DEF Br
  <1>2. \A x \in AllocationInsts : x.op \in {"alloca", "malloc"}
    BY DEF AllocationInsts, Allocation
  <1>3. \A x \in SymbolizeInsts : x.op \in {"symbolize", "memcpy"}
    BY DEF SymbolizeInsts, Symbolize, CopyInst, Memcpy
  <1>4. \A x \in {[op |-> "free", obj |-> o] : o \in HeapObjects} : x.op = "free"
    OBVIOUS
  <1>5. /\ \A p \in 1 .. Len(SetupCode) : SetupCode[p] \in AllocationInsts
        /\ \A p \in 1 .. Len(SymbolizeCode) : SymbolizeCode[p] \in SymbolizeInsts
        /\ \A p \in 1 .. Len(TeardownCode) :
             TeardownCode[p] \in {[op |-> "free", obj |-> o] : o \in HeapObjects}
    BY SetupCodeIs, SymbolizeCodeIs, TeardownCodeIs
  <1>6. ASSUME NEW k, InLoopPart(k) PROVE Inst.op \in {"br", "phi", "condbr", "call"}
    BY <1>1, <1>6 DEF InLoopPart, PhiInst, CondBr, CallInst
  <1>7. ASSUME NEW i, InComparison(i)
        PROVE  Inst.op \in {"memcmp", "condbr", "__assert_fail", "unreachable"}
    <2>1. CompareInst(i).op = "memcmp" /\ Unreachable.op = "unreachable"
          /\ CondBr("memcmp == 0", NextCond(i), Fail(i)).op = "condbr"
          /\ [op |-> "__assert_fail"].op = "__assert_fail"
      BY DEF CompareInst, Unreachable, CondBr
    <2> QED BY <1>7, <2>1 DEF InComparison
  <1>8. Ret.op = "ret"
    BY DEF Ret
  <1> QED BY <1>1, <1>2, <1>3, <1>4, <1>5, <1>6, <1>7, <1>8 DEF InCode

\* Where the run branches from and to.
Edge(to) ==
  \/ at = B("setup") /\ next = Len(SetupCode) + 1 /\ to = B("se.setup")
  \/ at = B("se.setup") /\ next = Len(SymbolizeCode) + 1 /\ to = B("call1.setup")
  \/ at = B("teardown") /\ next = Len(TeardownCode) + 1 /\ to = B("exit")
  \/ \E k \in {1, 2} :
       \/ at = B(PreName(k)) /\ to = <<"hdr", k>>
       \/ at = B(BodyName(k)) /\ next = 2 /\ to = <<"latch", k>>
       \/ at = <<"latch", k>> /\ to = <<"hdr", k>>
       \/ at = <<"loop.exit", k>> /\ to = B(PostName(k))
       \/ at = B(PostName(k)) /\ to = B(AfterLoop(k))
  \/ at = B("se.start.teardown") /\ to = NextCond(0)
  \/ at = B("se.end.teardown") /\ to = B("teardown")

\* The only places an instruction of a kind is executed at.
Placed ==
  /\ Inst.op \in {"alloca", "malloc"} =>
       at = B("setup") /\ next \in 1 .. Len(SetupCode) /\ Inst = SetupCode[next]
  /\ Inst.op \in {"symbolize", "memcpy"} =>
       at = B("se.setup") /\ next \in 1 .. Len(SymbolizeCode) /\ Inst = SymbolizeCode[next]
  /\ Inst.op = "free" =>
       at = B("teardown") /\ next \in 1 .. Len(TeardownCode) /\ Inst = TeardownCode[next]
  /\ Inst.op = "phi" => \E k \in {1, 2} : at = <<"hdr", k>> /\ next = 1 /\ Inst = PhiInst(k)
  /\ Inst.op = "call" => \E k \in {1, 2} : at = B(BodyName(k)) /\ next = 1 /\ Inst = CallInst(k)
  /\ Inst.op = "memcmp" => \E i \in OutboundArgs : at = Cond(i) /\ next = 1 /\ Inst = CompareInst(i)
  /\ Inst.op = "__assert_fail" => \E i \in OutboundArgs : at = Fail(i) /\ next = 1
  /\ Inst.op = "br" => Edge(Inst.to)
  /\ Inst.op = "condbr" =>
       \/ \E k \in {1, 2} : /\ at = <<"hdr", k>> /\ next = 2
                            /\ Inst = CondBr("loop", B(BodyName(k)), <<"loop.exit", k>>)
       \/ \E i \in OutboundArgs : /\ at = Cond(i) /\ next = 2
                                  /\ Inst = CondBr("memcmp == 0", NextCond(i), Fail(i))
  /\ Inst.op = "ret" => at = B("exit") \/ (at = B("entry") /\ req.hasHarnessBody)

LEMMA PlacedIs ==
  ASSUME req \in Requests, Shape, phase = "done", at \in DOMAIN ir, next \in DOMAIN ir[at]
  PROVE  Placed
  <1>1. InHarness
    BY WhereItIs
  <1>2. CASE InCode("setup", SetupCode, "se.setup")
    <2>1. \/ next \in 1 .. Len(SetupCode) /\ Inst = SetupCode[next] /\ Inst.op \in {"alloca", "malloc"}
          \/ next = Len(SetupCode) + 1 /\ Inst = Br(B("se.setup"))
      BY <1>2, PartOps DEF InCode
    <2>2. CASE Inst.op \in {"alloca", "malloc"}
      <3>1. next \in 1 .. Len(SetupCode) /\ Inst = SetupCode[next]
        BY <2>1, <2>2, PartOps
      <3> QED BY <1>2, <2>2, <3>1 DEF Placed, InCode
    <2>3. CASE next = Len(SetupCode) + 1 /\ Inst = Br(B("se.setup"))
      <3>1. Edge(Inst.to) /\ Inst.op = "br"
        BY <1>2, <2>3, PartOps DEF InCode, Edge
      <3> QED BY <3>1 DEF Placed
    <2> QED BY <2>1, <2>2, <2>3
  <1>3. CASE InCode("se.setup", SymbolizeCode, "call1.setup")
    <2>1. \/ next \in 1 .. Len(SymbolizeCode) /\ Inst = SymbolizeCode[next] /\ Inst.op \in {"symbolize", "memcpy"}
          \/ next = Len(SymbolizeCode) + 1 /\ Inst = Br(B("call1.setup"))
      BY <1>3, PartOps DEF InCode
    <2>2. CASE Inst.op \in {"symbolize", "memcpy"}
      <3>1. next \in 1 .. Len(SymbolizeCode) /\ Inst = SymbolizeCode[next]
        BY <2>1, <2>2, PartOps
      <3> QED BY <1>3, <2>2, <3>1 DEF Placed, InCode
    <2>3. CASE next = Len(SymbolizeCode) + 1 /\ Inst = Br(B("call1.setup"))
      <3>1. Edge(Inst.to) /\ Inst.op = "br"
        BY <1>3, <2>3, PartOps DEF InCode, Edge
      <3> QED BY <3>1 DEF Placed
    <2> QED BY <2>1, <2>2, <2>3
  <1>4. CASE InCode("teardown", TeardownCode, "exit")
    <2>1. \/ next \in 1 .. Len(TeardownCode) /\ Inst = TeardownCode[next] /\ Inst.op \in {"free"}
          \/ next = Len(TeardownCode) + 1 /\ Inst = Br(B("exit"))
      BY <1>4, PartOps DEF InCode
    <2>2. CASE Inst.op \in {"free"}
      <3>1. next \in 1 .. Len(TeardownCode) /\ Inst = TeardownCode[next]
        BY <2>1, <2>2, PartOps
      <3> QED BY <1>4, <2>2, <3>1 DEF Placed, InCode
    <2>3. CASE next = Len(TeardownCode) + 1 /\ Inst = Br(B("exit"))
      <3>1. Edge(Inst.to) /\ Inst.op = "br"
        BY <1>4, <2>3, PartOps DEF InCode, Edge
      <3> QED BY <3>1 DEF Placed
    <2> QED BY <2>1, <2>2, <2>3
  <1>5. ASSUME NEW k \in {1, 2}, InLoopPart(k) PROVE Placed
    <2>1. Inst.op \in {"br", "phi", "condbr", "call"}
      BY <1>5, PartOps
    <2>2. Inst.op = "br" => Edge(Inst.to)
      <3>1. PhiInst(k).op = "phi" /\ CallInst(k).op = "call"
            /\ CondBr("loop", B(BodyName(k)), <<"loop.exit", k>>).op = "condbr"
        BY DEF PhiInst, CallInst, CondBr
      <3> QED BY <1>5, <3>1, PartOps DEF InLoopPart, Edge
    <2>3. Inst.op = "phi" => at = <<"hdr", k>> /\ next = 1 /\ Inst = PhiInst(k)
      <3>1. CallInst(k).op = "call"
            /\ CondBr("loop", B(BodyName(k)), <<"loop.exit", k>>).op = "condbr"
        BY DEF CallInst, CondBr
      <3> QED BY <1>5, <3>1, PartOps DEF InLoopPart
    <2>4. Inst.op = "call" => at = B(BodyName(k)) /\ next = 1 /\ Inst = CallInst(k)
      <3>1. PhiInst(k).op = "phi"
            /\ CondBr("loop", B(BodyName(k)), <<"loop.exit", k>>).op = "condbr"
        BY DEF PhiInst, CondBr
      <3> QED BY <1>5, <3>1, PartOps DEF InLoopPart
    <2>5. Inst.op = "condbr" => /\ at = <<"hdr", k>> /\ next = 2
                                /\ Inst = CondBr("loop", B(BodyName(k)), <<"loop.exit", k>>)
      <3>1. PhiInst(k).op = "phi" /\ CallInst(k).op = "call"
        BY DEF PhiInst, CallInst
      <3> QED BY <1>5, <3>1, PartOps DEF InLoopPart
    <2> QED BY <2>1, <2>2, <2>3, <2>4, <2>5 DEF Placed
  <1>6. CASE at = B("se.start.teardown") /\ next = 1 /\ Inst = Br(NextCond(0))
    BY <1>6, PartOps DEF Placed, Edge
  <1>7. CASE at = B("se.end.teardown") /\ next = 1 /\ Inst = Br(B("teardown"))
    BY <1>7, PartOps DEF Placed, Edge
  <1>8. ASSUME NEW i \in OutboundArgs, InComparison(i) PROVE Placed
    <2>1. CompareInst(i).op = "memcmp" /\ Unreachable.op = "unreachable"
          /\ CondBr("memcmp == 0", NextCond(i), Fail(i)).op = "condbr"
          /\ [op |-> "__assert_fail"].op = "__assert_fail"
      BY DEF CompareInst, Unreachable, CondBr
    <2>2. Inst.op \in {"memcmp", "condbr", "__assert_fail", "unreachable"}
      BY <1>8, PartOps
    <2>3. Inst.op = "memcmp" => at = Cond(i) /\ next = 1 /\ Inst = CompareInst(i)
      BY <1>8, <2>1 DEF InComparison
    <2>4. Inst.op = "condbr" => /\ at = Cond(i) /\ next = 2
                                /\ Inst = CondBr("memcmp == 0", NextCond(i), Fail(i))
      BY <1>8, <2>1 DEF InComparison
    <2>5. Inst.op = "__assert_fail" => at = Fail(i) /\ next = 1
      BY <1>8, <2>1 DEF InComparison
    <2> QED BY <2>2, <2>3, <2>4, <2>5 DEF Placed
  <1>9. CASE at = B("exit") /\ next = 1 /\ Inst = Ret
    BY <1>9, PartOps DEF Placed
  <1>10. CASE at = B("entry") /\ next = 1 /\ Inst = Ret /\ req.hasHarnessBody
    BY <1>10, PartOps DEF Placed
  <1> QED BY <1>1, <1>2, <1>3, <1>4, <1>5, <1>6, <1>7, <1>8, <1>9, <1>10 DEF InHarness

\* The places there are in the blocks.
LEMMA CodeDomains ==
  ASSUME req \in Requests, Shape, phase = "done"
  PROVE  /\ DOMAIN ir[B("setup")] = 1 .. (Len(SetupCode) + 1) /\ Len(SetupCode) \in Nat
         /\ DOMAIN ir[B("se.setup")] = 1 .. (Len(SymbolizeCode) + 1) /\ Len(SymbolizeCode) \in Nat
         /\ DOMAIN ir[B("teardown")] = 1 .. (Len(TeardownCode) + 1) /\ Len(TeardownCode) \in Nat
         /\ \A k \in {1, 2} : DOMAIN ir[<<"hdr", k>>] = {1, 2} /\ DOMAIN ir[B(BodyName(k))] = {1, 2}
         /\ \A i \in OutboundArgs : DOMAIN ir[Cond(i)] = {1, 2} /\ DOMAIN ir[Fail(i)] = {1, 2}
         /\ \A b \in DOMAIN ir : 1 \in DOMAIN ir[b]
  <1>1. ASSUME NEW S, NEW code \in Seq(S), NEW inst
        PROVE  DOMAIN Append(code, inst) = 1 .. (Len(code) + 1) /\ Len(code) \in Nat
    <2> DEFINE T == S \cup {inst}
    <2>1. code \in Seq(T) /\ inst \in T /\ Len(code) \in Nat
      OBVIOUS
    <2> HIDE DEF T
    <2>2. Append(code, inst) \in Seq(T) /\ Len(Append(code, inst)) = Len(code) + 1
      BY <2>1, AppendProperties
    <2> QED BY <2>1, <2>2
  <1>2. DOMAIN ir[B("setup")] = 1 .. (Len(SetupCode) + 1) /\ Len(SetupCode) \in Nat
    <2>1. SetupCode \in Seq(AllocationInsts) /\ ir[B("setup")] = Append(SetupCode, Br(B("se.setup")))
      BY DoneCode, SetupCodeIs
    <2> QED BY <1>1, <2>1
  <1>3. DOMAIN ir[B("se.setup")] = 1 .. (Len(SymbolizeCode) + 1) /\ Len(SymbolizeCode) \in Nat
    <2>1. /\ SymbolizeCode \in Seq(SymbolizeInsts)
          /\ ir[B("se.setup")] = Append(SymbolizeCode, Br(B("call1.setup")))
      BY DoneCode, SymbolizeCodeIs
    <2> QED BY <1>1, <2>1
  <1>4. DOMAIN ir[B("teardown")] = 1 .. (Len(TeardownCode) + 1) /\ Len(TeardownCode) \in Nat
    <2>1. /\ TeardownCode \in Seq({[op |-> "free", obj |-> o] : o \in HeapObjects})
          /\ ir[B("teardown")] = Append(TeardownCode, Br(B("exit")))
      BY DoneCode, TeardownCodeIs
    <2> QED BY <1>1, <2>1
  <1>5. ASSUME NEW k \in {1, 2}
        PROVE  /\ DOMAIN ir[<<"hdr", k>>] = {1, 2} /\ DOMAIN ir[B(BodyName(k))] = {1, 2}
               /\ DOMAIN ir[<<"latch", k>>] = {1} /\ DOMAIN ir[<<"loop.exit", k>>] = {1}
               /\ DOMAIN ir[B(PreName(k))] = {1} /\ DOMAIN ir[B(PostName(k))] = {1}
    <2>1. LoopNames(k) = {<<"hdr", k>>, <<"latch", k>>, <<"loop.exit", k>>}
      BY DEF LoopNames
    <2>2. /\ ir[<<"hdr", k>>] = LoopBlocks(k)[<<"hdr", k>>]
          /\ ir[<<"latch", k>>] = LoopBlocks(k)[<<"latch", k>>]
          /\ ir[<<"loop.exit", k>>] = LoopBlocks(k)[<<"loop.exit", k>>]
      BY <2>1, DoneCode
    <2>3. /\ DOMAIN ir[<<"hdr", k>>] = {1, 2}
          /\ DOMAIN ir[<<"latch", k>>] = {1} /\ DOMAIN ir[<<"loop.exit", k>>] = {1}
      BY <2>2, LoopCodeIs, SmallTuples
    <2>4. DOMAIN ir[B(BodyName(k))] = {1, 2}
      BY DoneCode, SmallTuples DEF BodyName
    <2>5. DOMAIN ir[B(PreName(k))] = {1} /\ DOMAIN ir[B(PostName(k))] = {1}
      BY DoneCode, SmallTuples DEF PreName, PostName
    <2> QED BY <2>3, <2>4, <2>5
  <1>6. ASSUME NEW i \in OutboundArgs
        PROVE  DOMAIN ir[Cond(i)] = {1, 2} /\ DOMAIN ir[Fail(i)] = {1, 2}
    <2> DEFINE x == CompareInst(i)
               y == CondBr("memcmp == 0", NextCond(i), Fail(i))
               z == [op |-> "__assert_fail"]
    <2>1. ir[Cond(i)] = <<x, y>> /\ ir[Fail(i)] = <<z, Unreachable>>
      BY DoneCode DEF ComparisonCode, FailCode, CompareInst
    <2> HIDE DEF x, y, z
    <2> QED BY <2>1, SmallTuples
  <1>7. ASSUME NEW b \in DOMAIN ir PROVE 1 \in DOMAIN ir[b]
    <2>1. \/ \E n \in NamedBlocks : b = B(n)
          \/ req.hasHarnessBody /\ b = B("entry")
          \/ \E i \in OutboundArgs : b = Cond(i) \/ b = Fail(i)
          \/ \E k \in {1, 2} : b \in LoopNames(k)
      BY DoneCode DEF DoneNames, AssertionNames
    <2>2. \A n \in NamedBlocks :
            \/ n \in {"setup", "se.setup", "teardown", "se.start.teardown", "se.end.teardown", "exit"}
            \/ \E k \in {1, 2} : n \in {PreName(k), BodyName(k), PostName(k)}
      BY DEF NamedBlocks, PreName, BodyName, PostName
    <2>3. /\ DOMAIN ir[B("se.start.teardown")] = {1} /\ DOMAIN ir[B("se.end.teardown")] = {1}
          /\ DOMAIN ir[B("exit")] = {1} /\ (req.hasHarnessBody => DOMAIN ir[B("entry")] = {1})
      BY DoneCode, SmallTuples DEF StartCode
    <2>4. CASE \E n \in NamedBlocks : b = B(n)
      BY <1>2, <1>3, <1>4, <1>5, <2>2, <2>3, <2>4
    <2>5. CASE req.hasHarnessBody /\ b = B("entry")
      BY <2>3, <2>5
    <2>6. CASE \E i \in OutboundArgs : b = Cond(i) \/ b = Fail(i)
      BY <1>6, <2>6
    <2>7. CASE \E k \in {1, 2} : b \in LoopNames(k)
      BY <1>5, <2>7 DEF LoopNames
    <2> QED BY <2>1, <2>4, <2>5, <2>6, <2>7
  <1> QED BY <1>2, <1>3, <1>4, <1>5, <1>6, <1>7

\* The blocks that are branched to are there.
LEMMA EdgeThere ==
  ASSUME req \in Requests, Shape, phase = "done", NEW to, Edge(to) PROVE to \in DOMAIN ir
  <1>1. \A n \in NamedBlocks : B(n) \in DOMAIN ir
    BY TargetsThere
  <1>2. \A k \in {1, 2} : /\ <<"hdr", k>> \in DOMAIN ir /\ <<"latch", k>> \in DOMAIN ir
                          /\ PostName(k) \in NamedBlocks /\ AfterLoop(k) \in NamedBlocks
    BY TargetsThere DEF LoopNames, NamedBlocks, PostName, AfterLoop
  <1>3. NextCond(0) \in DOMAIN ir
    BY TargetsThere
  <1>4. {"se.setup", "call1.setup", "exit", "teardown"} \subseteq NamedBlocks
    BY DEF NamedBlocks
  <1> QED BY <1>1, <1>2, <1>3, <1>4 DEF Edge

\* What is made from the request and its specifications, as long as they stay.
LEMMA RunStable ==
  ASSUME UNCHANGED buildVars
  PROVE  /\ Objects' = Objects /\ HeapObjects' = HeapObjects /\ OutboundArgs' = OutboundArgs
         /\ SetupCode' = SetupCode /\ SymbolizeCode' = SymbolizeCode /\ TeardownCode' = TeardownCode
         /\ \A i : /\ AllocSize(i)' = AllocSize(i) /\ SecondCopy(i)' = SecondCopy(i)
                   /\ Direction(i)' = Direction(i) /\ Contents(i)' = Contents(i)
                   /\ CopyInst(i)' = CopyInst(i)
         /\ \A o : Unwritten(o)' = Unwritten(o)
         /\ \A k, m : Visits(k, m)' = Visits(k, m)
         /\ NumParams' = NumParams /\ (Supported(req))' = Supported(req)
  <1> USE DEF buildVars
  <1>1. NumParams' = NumParams /\ (Supported(req))' = Supported(req)
    BY DEF NumParams
  <1>2. \A i : Direction(i)' = Direction(i) /\ Param(i)' = Param(i) /\ Multiplier(i)' = Multiplier(i)
    BY DEF Direction, Param, Multiplier
  <1>3. \A i : AllocSize(i)' = AllocSize(i) /\ SecondCopy(i)' = SecondCopy(i)
    BY <1>2 DEF AllocSize, SecondCopy
  <1>4. Objects' = Objects /\ HeapObjects' = HeapObjects /\ OutboundArgs' = OutboundArgs
    BY <1>1, <1>2 DEF Objects, HeapObjects, OutboundArgs
  <1>5. \A i : CopyInst(i)' = CopyInst(i) /\ Contents(i)' = Contents(i)
    BY <1>3 DEF CopyInst, Contents
  <1>6. \A o : Unwritten(o)' = Unwritten(o)
    BY <1>3 DEF Unwritten
  <1>7. \A k, m : Visits(k, m)' = Visits(k, m)
    BY DEF Visits
  <1>8. \A i : Allocations(i)' = Allocations(i)
    BY <1>2, <1>3 DEF Allocations, Allocation
  <1>9. SetupCode' = SetupCode
    BY <1>1, <1>8 DEF SetupCode
  <1>10. TeardownCode' = TeardownCode
    <2>1. HeapAllocs' = HeapAllocs
      BY <1>1, <1>2, <1>8 DEF HeapAllocs
    <2> QED BY <2>1 DEF TeardownCode
  <1>11. SymbolizeCode' = SymbolizeCode
    <2>1. \A i : SymbolicCodeOf(i)' = SymbolicCodeOf(i)
      BY <1>2, <1>3 DEF SymbolicCodeOf
    <2> QED BY <1>1, <2>1 DEF SymbolizeCode
  <1> QED BY <1>1, <1>2, <1>3, <1>4, <1>5, <1>6, <1>7, <1>9, <1>10, <1>11

-----------------------------------------------------------------------------
(***************************************************************************)
(* What the instructions do.                                               *)
(***************************************************************************)

Ready == req \in Requests /\ Shape /\ Control /\ Memory /\ Histories

\* Only a finished harness runs.
LEMMA ReadyToRun ==
  ASSUME Ready, status # "building"
  PROVE  /\ req \in Requests /\ phase = "done" /\ at \in DOMAIN ir /\ next \in DOMAIN ir[at]
         /\ Placed
  BY PlacedIs DEF Ready, Control

\* The objects have as many bytes as were allocated.
LEMMA ObjectSizes ==
  ASSUME Ready, NEW o \in Objects
  PROVE  /\ o[1] \in 1 .. NumParams /\ AllocSize(o[1]) \in Nat
         /\ o \in live => /\ o \in DOMAIN mem
                          /\ DOMAIN mem[o] = 1 .. AllocSize(o[1]) /\ Len(mem[o]) = AllocSize(o[1])
  <1>1. o[1] \in 1 .. NumParams
    BY DEF Objects
  <1>2. AllocSize(o[1]) \in Nat
    BY <1>1, ParamFacts DEF Ready
  <1>3. ASSUME o \in live PROVE o \in DOMAIN mem /\ mem[o] \in Contents(o[1])
    BY <1>3 DEF Ready, Memory
  <1>4. ASSUME NEW c \in Contents(o[1])
        PROVE  DOMAIN c = 1 .. AllocSize(o[1]) /\ Len(c) = AllocSize(o[1])
    BY <1>2, LenProperties DEF Contents
  <1> QED BY <1>1, <1>2, <1>3, <1>4

\* setup allocates the next object.
LEMMA AllocateIs ==
  ASSUME Ready, Allocate
  PROVE  \E o \in Objects :
           /\ at = B("setup") /\ next \in 1 .. Len(SetupCode) /\ SetupCode[next].obj = o
           /\ live' = live \cup {o}
           /\ DOMAIN mem' = DOMAIN mem \cup {o} /\ mem'[o] = Unwritten(o)
           /\ \A q \in DOMAIN mem : q # o => mem'[q] = mem[q]
  <1>1. at = B("setup") /\ next \in 1 .. Len(SetupCode) /\ Inst = SetupCode[next]
    BY ReadyToRun DEF Allocate, Executes, Placed
  <1> DEFINE o == SetupCode[next].obj
  <1>2. o \in Objects /\ SetupCode[next] = Allocation(o[1], o[2])
    BY <1>1, SetupCodeIs DEF Ready, OneForEach
  <1>3. Inst.obj = o /\ Inst.size = AllocSize(o[1])
    BY <1>1, <1>2 DEF Allocation
  <1>4. mem' = [q \in DOMAIN mem \cup {o} |-> IF q = o THEN Unwritten(o) ELSE mem[q]]
        /\ live' = live \cup {o}
    BY <1>3 DEF Allocate, Unwritten
  <1> HIDE DEF o
  <1>5. DOMAIN mem' = DOMAIN mem \cup {o} /\ mem'[o] = Unwritten(o)
    BY <1>4
  <1>6. \A q \in DOMAIN mem : q # o => mem'[q] = mem[q]
    BY <1>4
  <1> QED BY <1>1, <1>2, <1>4, <1>5, <1>6 DEF o

\* The run goes on when the instruction finds its memory, and ends otherwise.
GoesOn(ok) ==
  /\ at' = at /\ from' = from
  /\ ok => status' = status /\ next' = next + 1
  /\ ~ok => status' = "fault" /\ next' = next

\* se.setup makes an object symbolic.
LEMMA SymbolicIs ==
  ASSUME Ready, Symbolic
  PROVE  \E o \in Objects :
           /\ at = B("se.setup") /\ next \in 1 .. Len(SymbolizeCode)
           /\ SymbolizeCode[next] = Symbolize(o, AllocSize(o[1]))
           /\ GoesOn(o \in live)
           /\ DOMAIN mem' = DOMAIN mem
           /\ \A q \in DOMAIN mem : q # o => mem'[q] = mem[q]
           /\ o \in DOMAIN mem => mem'[o] \in Contents(o[1])
  <1>1. at = B("se.setup") /\ next \in 1 .. Len(SymbolizeCode) /\ Inst = SymbolizeCode[next]
    BY ReadyToRun DEF Symbolic, Executes, Placed
  <1>2. Inst \in SymbolizeInsts /\ Inst.op = "symbolize"
    BY <1>1, SymbolizeCodeIs DEF Ready, Symbolic, Executes
  <1>3. PICK o \in Objects : Inst = Symbolize(o, AllocSize(o[1]))
    BY <1>2 DEF SymbolizeInsts, CopyInst, Memcpy
  <1>4. Inst.obj = o /\ Inst.size = AllocSize(o[1])
    BY <1>3 DEF Symbolize
  <1>5. Accessible(Inst.obj, Inst.size) <=> o \in live
    BY <1>4, ObjectSizes DEF Accessible
  <1>6. GoesOn(o \in live)
    BY <1>5 DEF Symbolic, Proceed, GoesOn
  <1>7. \/ mem' = mem
        \/ \E bytes \in [1 .. AllocSize(o[1]) -> Bytes] :
             mem' = [mem EXCEPT ![o] = Overwrite(mem[o], bytes)]
    BY <1>4 DEF Symbolic
  <1>8. DOMAIN mem' = DOMAIN mem /\ \A q \in DOMAIN mem : q # o => mem'[q] = mem[q]
    BY <1>7
  <1>9. ASSUME o \in DOMAIN mem PROVE mem'[o] \in Contents(o[1])
    <2>1. mem[o] \in Contents(o[1]) /\ AllocSize(o[1]) \in Nat
      BY <1>9, ObjectSizes DEF Ready, Memory
    <2>2. ASSUME NEW bytes \in [1 .. AllocSize(o[1]) -> Bytes]
          PROVE  Overwrite(mem[o], bytes) \in Contents(o[1])
      <3>1. Len(bytes) = AllocSize(o[1])
        BY <2>1
      <3>2. DOMAIN mem[o] = 1 .. AllocSize(o[1])
        BY <2>1 DEF Contents
      <3> QED BY <2>1, <3>1, <3>2 DEF Overwrite, Contents
    <2> QED BY <1>7, <1>9, <2>1, <2>2
  <1> QED BY <1>1, <1>3, <1>6, <1>8, <1>9

\* se.setup makes the second copy of an argument the same as the first.
LEMMA CopyIs ==
  ASSUME Ready, Copy
  PROVE  \E i \in OutboundArgs :
           /\ at = B("se.setup") /\ next \in 1 .. Len(SymbolizeCode)
           /\ SymbolizeCode[next] = CopyInst(i)
           /\ Obj(i, 1) \in Objects /\ Obj(i, 2) \in Objects
           /\ GoesOn(Obj(i, 1) \in live /\ Obj(i, 2) \in live)
           /\ DOMAIN mem' = DOMAIN mem
           /\ \A q \in DOMAIN mem : q # Obj(i, 2) => mem'[q] = mem[q]
           /\ Obj(i, 2) \in DOMAIN mem => mem'[Obj(i, 2)] \in Contents(i)
           /\ Obj(i, 1) \in live /\ Obj(i, 2) \in live => mem'[Obj(i, 2)] = mem[Obj(i, 1)]
  <1>1. at = B("se.setup") /\ next \in 1 .. Len(SymbolizeCode) /\ Inst = SymbolizeCode[next]
    BY ReadyToRun DEF Copy, Executes, Placed
  <1>2. Inst \in SymbolizeInsts /\ Inst.op = "memcpy"
    BY <1>1, SymbolizeCodeIs DEF Ready, Copy, Executes
  <1>3. PICK i \in OutboundArgs : Inst = CopyInst(i)
    BY <1>2 DEF SymbolizeInsts, Symbolize
  <1> DEFINE src == Obj(i, 1)
             dst == Obj(i, 2)
             n == AllocSize(i)
             ok == src \in live /\ dst \in live
  <1>4. Inst.dst = dst /\ Inst.src = src /\ Inst.size = n
    BY <1>3 DEF CopyInst, Memcpy
  <1>5. src \in Objects /\ dst \in Objects /\ src[1] = i /\ dst[1] = i
    BY DEF OutboundArgs, Objects, Obj
  <1>6. /\ n \in Nat
        /\ src \in live => Len(mem[src]) = n
        /\ dst \in live => Len(mem[dst]) = n /\ dst \in DOMAIN mem
    BY <1>5, ObjectSizes
  <1>7. src \in DOMAIN mem => mem[src] \in Contents(i)
    BY <1>5 DEF Ready, Memory
  <1>8. dst \in DOMAIN mem => mem[dst] \in Contents(i)
    BY <1>5 DEF Ready, Memory
  <1>9. (Accessible(Inst.dst, Inst.size) /\ Accessible(Inst.src, Inst.size)) <=> ok
    BY <1>4, <1>6 DEF Accessible
  <1>10. GoesOn(ok)
    BY <1>9 DEF Copy, Proceed, GoesOn
  <1>11. mem' = IF ok THEN [mem EXCEPT ![dst] = Overwrite(mem[dst], SubSeq(mem[src], 1, n))] ELSE mem
    BY <1>4, <1>9 DEF Copy
  <1>12. ok => Overwrite(mem[dst], SubSeq(mem[src], 1, n)) = mem[src]
    <2> SUFFICES ASSUME ok PROVE Overwrite(mem[dst], SubSeq(mem[src], 1, n)) = mem[src]
      OBVIOUS
    <2>1. mem[src] \in [1 .. n -> Bytes \cup {Undef}] /\ mem[dst] \in [1 .. n -> Bytes \cup {Undef}]
      BY <1>6, <1>7, <1>8 DEF Ready, Memory, Contents
    <2> DEFINE m1 == mem[src]
               m2 == mem[dst]
    <2> HIDE DEF m1, m2, n
    <2>2. m1 \in [1 .. n -> Bytes \cup {Undef}] /\ m2 \in [1 .. n -> Bytes \cup {Undef}] /\ n \in Nat
      BY <1>6, <2>1 DEF m1, m2
    <2>3. m1 \in Seq(Bytes \cup {Undef}) /\ Len(m1) = n
      BY <2>2
    <2>4. Len(SubSeq(m1, 1, n)) = n /\ \A j \in 1 .. n : SubSeq(m1, 1, n)[j] = m1[j]
      BY <2>2, <2>3
    <2>5. Overwrite(m2, SubSeq(m1, 1, n)) = m1
      BY <2>2, <2>4 DEF Overwrite
    <2> QED BY <2>5 DEF m1, m2
  <1>13. DOMAIN mem' = DOMAIN mem /\ \A q \in DOMAIN mem : q # dst => mem'[q] = mem[q]
    BY <1>11
  <1>14. ok => mem'[dst] = mem[src] /\ src \in DOMAIN mem
    BY <1>6, <1>11, <1>12 DEF Ready, Memory
  <1>15. dst \in DOMAIN mem => mem'[dst] \in Contents(i)
    BY <1>7, <1>8, <1>11, <1>14
  <1> QED BY <1>1, <1>3, <1>5, <1>10, <1>13, <1>14, <1>15

\* The two copies of an argument, in the bytes that decide.
Agree(i)  == \A j \in 1 .. ComparedSize(i) : Check!MayAgree(mem[Obj(i, 1)][j], mem[Obj(i, 2)][j])
Differ(i) == \E j \in 1 .. ComparedSize(i) : Check!MayDiffer(mem[Obj(i, 1)][j], mem[Obj(i, 2)][j])

Comparable(i) ==
  /\ Obj(i, 1) \in live /\ Obj(i, 2) \in live
  /\ ComparedSize(i) <= AllocSize(i)

\* A comparison looks at the two copies of an argument.
LEMMA CompareIs ==
  ASSUME Ready, Compare
  PROVE  \E i \in OutboundArgs :
           /\ at = Cond(i) /\ next = 1 /\ cmp' \in BOOLEAN
           /\ Obj(i, 1) \in Objects /\ Obj(i, 2) \in Objects
           /\ GoesOn(Comparable(i))
           /\ Comparable(i) => IF cmp' THEN Agree(i) ELSE Differ(i)
  <1>1. PICK i \in OutboundArgs : at = Cond(i) /\ next = 1 /\ Inst = CompareInst(i)
    BY ReadyToRun DEF Compare, Executes, Placed
  <1>2. Inst.lhs = Obj(i, 1) /\ Inst.rhs = Obj(i, 2) /\ Inst.size = ComparedSize(i)
    BY <1>1 DEF CompareInst
  <1>3. /\ Obj(i, 1) \in Objects /\ Obj(i, 2) \in Objects
        /\ Obj(i, 1)[1] = i /\ Obj(i, 2)[1] = i
    BY DEF OutboundArgs, Objects, Obj
  <1>4. (Accessible(Inst.lhs, Inst.size) /\ Accessible(Inst.rhs, Inst.size)) <=> Comparable(i)
    BY <1>2, <1>3, ObjectSizes DEF Accessible, Comparable
  <1>5. cmp' \in BOOLEAN
    BY DEF Compare, Outcomes, Ready, Memory
  <1>6. GoesOn(Comparable(i))
    BY <1>4 DEF Compare, Proceed, GoesOn
  <1>7. ASSUME Comparable(i) PROVE IF cmp' THEN Agree(i) ELSE Differ(i)
    <2> DEFINE n == ComparedSize(i)
               x == mem[Obj(i, 1)]
               y == mem[Obj(i, 2)]
    <2>1. cmp' \in Outcomes(SubSeq(x, 1, n), SubSeq(y, 1, n))
      BY <1>2, <1>4, <1>7 DEF Compare
    <2>2. i \in 1 .. NumParams /\ n \in Nat /\ AllocSize(i) \in Nat
      BY ParamFacts DEF OutboundArgs, Ready
    <2>3. x \in Contents(i) /\ y \in Contents(i) /\ n <= AllocSize(i)
      BY <1>3, <1>7 DEF Comparable, Ready, Memory
    <2> HIDE DEF n, x, y
    <2>4. x \in Seq(Bytes \cup {Undef}) /\ Len(x) >= n /\ y \in Seq(Bytes \cup {Undef}) /\ Len(y) >= n
      BY <2>2, <2>3 DEF Contents
    <2>5. /\ DOMAIN SubSeq(x, 1, n) = 1 .. n
          /\ \A j \in 1 .. n : SubSeq(x, 1, n)[j] = x[j] /\ SubSeq(y, 1, n)[j] = y[j]
      BY <2>2, <2>4
    <2>6. IF cmp' THEN \A j \in 1 .. n : x[j] = y[j] \/ Undef \in {x[j], y[j]}
                  ELSE \E j \in 1 .. n : x[j] # y[j] \/ Undef \in {x[j], y[j]}
      BY <2>1, <2>5 DEF Outcomes
    <2> QED BY <2>6 DEF n, x, y, Agree, Differ, Check!MayAgree, Check!MayDiffer
  <1> QED BY <1>1, <1>3, <1>5, <1>6, <1>7

\* teardown frees the next object of the heap.
LEMMA FreeIs ==
  ASSUME Ready, Free
  PROVE  \E o \in HeapObjects :
           /\ at = B("teardown") /\ next \in 1 .. Len(TeardownCode) /\ TeardownCode[next].obj = o
           /\ live' = live \ {o}
           /\ GoesOn(o \in live)
  <1>1. at = B("teardown") /\ next \in 1 .. Len(TeardownCode) /\ Inst = TeardownCode[next]
    BY ReadyToRun DEF Free, Executes, Placed
  <1>2. TeardownCode[next].obj \in HeapObjects
    BY <1>1, TeardownCodeIs DEF Ready, OneForEach
  <1>3. GoesOn(Inst.obj \in live) /\ live' = live \ {Inst.obj}
    BY DEF Free, Proceed, GoesOn
  <1> QED BY <1>1, <1>2, <1>3

\* The loops and the arguments of a finished harness.
LEMMA LoopsAndArgs ==
  ASSUME Ready, status # "building"
  PROVE  /\ loops[1] = Loop1 /\ loops[2] = Loop2
         /\ NumParams \in Nat /\ DOMAIN callArgs1 = 1 .. NumParams /\ DOMAIN callArgs2 = 1 .. NumParams
         /\ \A k \in {1, 2} : Len(CallArgs(k)) = NumParams
         /\ \A k \in {1, 2} : \A i \in 2 .. NumParams :
              CallArgs(k)[i] = IF k = 1 THEN Obj(i, 1) ELSE SecondCopy(i)
         /\ argSpecs = FillMissing(req.argSpecs, NumParams)
  <1>1. phase = "done" /\ Shape /\ req \in Requests
    BY ReadyToRun DEF Ready
  <1>2. LoopShape(10) /\ ArgShape(10) /\ Passed(10)
    BY <1>1, ShapeAt, PhaseStages DEF Phases
  <1>3. loops = <<Loop1, Loop2>>
    BY <1>2 DEF LoopShape
  <1>4. /\ DOMAIN callArgs1 = 1 .. NumParams /\ DOMAIN callArgs2 = 1 .. NumParams
        /\ \A i \in 1 .. NumParams : callArgs1[i] = CallArg(i, 1) /\ callArgs2[i] = CallArg(i, 2)
    BY <1>2 DEF ArgShape
  <1>5. NumParams \in Nat
    BY <1>1, ParamFacts
  <1>6. \A k \in {1, 2} : Len(CallArgs(k)) = NumParams
    BY <1>4, <1>5 DEF CallArgs
  <1>7. \A k \in {1, 2} : \A i \in 2 .. NumParams :
          CallArgs(k)[i] = IF k = 1 THEN Obj(i, 1) ELSE SecondCopy(i)
    BY <1>4, <1>5 DEF CallArgs, CallArg
  <1>8. argSpecs = FillMissing(req.argSpecs, NumParams)
    BY <1>2 DEF Passed
  <1> QED BY <1>3, <1>4, <1>5, <1>6, <1>7, <1>8

\* The phi of a loop takes the start value or the latch's.
LEMMA PhiIs ==
  ASSUME Ready, InductionPhi
  PROVE  \E k \in {1, 2} :
           /\ at = <<"hdr", k>> /\ next = 1 /\ GoesOn(TRUE)
           /\ phi' = [phi EXCEPT ![k] = IF Entering(k) THEN loops[k].start
                                                       ELSE LatchStep(loops[k], phi[k])]
           /\ entry' = [entry EXCEPT ![k] = IF Entering(k) THEN View(k) ELSE entry[k]]
  <1>1. PICK k \in {1, 2} : at = <<"hdr", k>> /\ next = 1 /\ Inst = PhiInst(k)
    BY ReadyToRun DEF InductionPhi, Executes, Placed
  <1>2. Inst.loop = k /\ Inst.pre = Names(k).pre
    BY <1>1 DEF PhiInst, Names, PreName
  <1>3. from = Inst.pre <=> Entering(k)
    BY <1>1, <1>2 DEF Entering, Block, Number
  <1>4. /\ phi' = [phi EXCEPT ![k] = IF Entering(k) THEN loops[k].start
                                                    ELSE LatchStep(loops[k], phi[k])]
        /\ entry' = [entry EXCEPT ![k] = IF Entering(k) THEN View(k) ELSE entry[k]]
    BY <1>2, <1>3 DEF InductionPhi
  <1>5. GoesOn(TRUE)
    BY DEF InductionPhi, Proceed, GoesOn
  <1> QED BY <1>1, <1>4, <1>5

\* The memory of argument i in the calls of loop k.
CallMemory(i, k) == IF k = 1 THEN Obj(i, 1) ELSE SecondCopy(i)

\* What a call needs of its arguments: the memory, and of an array that is indexed
\* with the iterator the element.
CallServed(k) ==
  /\ \A i \in 2 .. NumParams : CallMemory(i, k) \in live
  /\ (\E i \in 2 .. NumParams : Param(i).ptr /\ argSpecs[i].IteratorDependent) =>
       phi[k] \in 0 .. (req.iterations - 1)

\* The memory that a call of loop k may change.
CallChanges(k) ==
  {CallMemory(i, k) : i \in {p \in (2 .. NumParams) \cap Writes(kernel) : Param(p).ptr}}

\* The memory of an argument is known by its number.
LEMMA CallMemoryIs ==
  ASSUME NEW i \in 1 .. NumParams, NEW k \in {1, 2}
  PROVE  /\ CallMemory(i, k)[1] = i
         /\ DOMAIN View(k) = 1 .. NumParams /\ View(k)[i] = mem[CallMemory(i, k)]
  BY DEF CallMemory, SecondCopy, Obj, View

\* The function changes some of its arguments, as its effect on them says, and no
\* others.
LEMMA CallIs ==
  ASSUME Ready, Call
  PROVE  \E k \in {1, 2} :
           /\ at = B(BodyName(k)) /\ next = 1 /\ GoesOn(CallServed(k))
           /\ CallServed(k) => visited' = [visited EXCEPT ![k] = Append(visited[k], phi[k])]
           /\ DOMAIN mem' = DOMAIN mem
           /\ CallServed(k) => \A q \in DOMAIN mem :
                mem'[q] = IF q \in CallChanges(k) THEN Effect(kernel, phi[k], View(k))[q[1]] ELSE mem[q]
           /\ \A q \in DOMAIN mem :
                \/ mem'[q] = mem[q]
                \/ /\ \E i \in (2 .. NumParams) \cap Writes(kernel) : Param(i).ptr /\ q = CallMemory(i, k)
                   /\ \E new : mem'[q] = Written(mem[q], new)
  <1>1. PICK k \in {1, 2} : at = B(BodyName(k)) /\ next = 1
    BY ReadyToRun DEF Call, Executes, Placed
  <1>2. (IF at = Names(1).body THEN 1 ELSE 2) = k
    BY <1>1, NamesDiffer DEF Names, BodyName
  <1>3. /\ status # "building" /\ NumParams \in Nat /\ Len(CallArgs(k)) = NumParams
        /\ \A i \in 2 .. NumParams : CallArgs(k)[i] = CallMemory(i, k)
    BY LoopsAndArgs DEF Call, Executes, CallMemory
  <1> DEFINE args    == CallArgs(k)
             others  == 2 .. Len(args)
             indexed == {i \in others : Param(i).ptr /\ argSpecs[i].IteratorDependent}
             ok      == /\ \A i \in others : args[i] \in live
                        /\ indexed # {} => phi[k] \in 0 .. (req.iterations - 1)
             changed == {args[i] : i \in {p \in others \cap Writes(kernel) : Param(p).ptr}}
             after   == Effect(kernel, phi[k], View(k))
  <1>4. /\ mem' = IF ok THEN [o \in DOMAIN mem |-> IF o \in changed THEN after[o[1]] ELSE mem[o]]
                        ELSE mem
        /\ visited' = IF ok THEN [visited EXCEPT ![k] = Append(@, phi[k])] ELSE visited
        /\ GoesOn(ok)
    BY <1>2 DEF Call, Proceed, GoesOn
  <1>5. ok <=> CallServed(k)
    BY <1>3 DEF CallServed
  <1>6. changed = CallChanges(k)
    BY <1>3 DEF CallChanges
  <1>7. \A q \in CallChanges(k) :
          /\ \E i \in (2 .. NumParams) \cap Writes(kernel) : Param(i).ptr /\ q = CallMemory(i, k)
          /\ after[q[1]] = Written(mem[q], Apply(kernel, phi[k], View(k))[q[1]])
    <2>1. ASSUME NEW i \in (2 .. NumParams) \cap Writes(kernel)
          PROVE  /\ CallMemory(i, k)[1] = i
                 /\ after[i] = Written(mem[CallMemory(i, k)], Apply(kernel, phi[k], View(k))[i])
      <3>1. i \in 1 .. NumParams /\ i \in Writes(kernel)
        BY <1>3
      <3>2. /\ CallMemory(i, k)[1] = i /\ i \in DOMAIN View(k)
            /\ View(k)[i] = mem[CallMemory(i, k)]
        BY <3>1, CallMemoryIs
      <3> QED BY <3>1, <3>2 DEF Effect
    <2> HIDE DEF after
    <2> QED BY <2>1 DEF CallChanges
  <1> HIDE DEF ok, changed, after
  <1>8. DOMAIN mem' = DOMAIN mem
    BY <1>4
  <1>9. ok => \A q \in DOMAIN mem : mem'[q] = IF q \in changed THEN after[q[1]] ELSE mem[q]
    BY <1>4
  <1>10. CallServed(k) => \A q \in DOMAIN mem :
           mem'[q] = IF q \in CallChanges(k) THEN Effect(kernel, phi[k], View(k))[q[1]] ELSE mem[q]
    BY <1>5, <1>6, <1>9 DEF after
  <1>11. \A q \in DOMAIN mem :
           mem'[q] = mem[q] \/ (q \in CallChanges(k) /\ mem'[q] = after[q[1]])
    BY <1>4, <1>6
  <1>12. \A q \in DOMAIN mem :
           \/ mem'[q] = mem[q]
           \/ /\ \E i \in (2 .. NumParams) \cap Writes(kernel) : Param(i).ptr /\ q = CallMemory(i, k)
              /\ \E new : mem'[q] = Written(mem[q], new)
    BY <1>7, <1>11
  <1>13. CallServed(k) => visited' = [visited EXCEPT ![k] = Append(visited[k], phi[k])]
    BY <1>4, <1>5
  <1>14. GoesOn(CallServed(k))
    BY <1>4, <1>5 DEF GoesOn
  <1> QED BY <1>1, <1>8, <1>10, <1>12, <1>13, <1>14

\* A branch goes along an edge.
LEMMA BranchIs ==
  ASSUME Ready, Branch
  PROVE  Edge(at') /\ at' \in DOMAIN ir /\ next' = 1 /\ from' = at
  <1>1. Edge(Inst.to) /\ phase = "done" /\ Shape /\ req \in Requests
    BY ReadyToRun DEF Branch, Executes, Placed, Ready
  <1> QED BY <1>1, EdgeThere DEF Branch, Goto

\* The header of loop k goes on to the body or leaves the loop; a comparison goes
\* on to the next one or fails.
LEMMA BranchOnIs ==
  ASSUME Ready, BranchOn
  PROVE  /\ next = 2 /\ next' = 1 /\ from' = at /\ at' \in DOMAIN ir
         /\ \/ \E k \in {1, 2} :
                 /\ at = <<"hdr", k>>
                 /\ at' = IF HdrTaken(loops[k], phi[k]) THEN B(BodyName(k)) ELSE <<"loop.exit", k>>
            \/ \E i \in OutboundArgs : /\ at = Cond(i) /\ at' \in {NextCond(i), Fail(i)}
                                       /\ at' = IF cmp THEN NextCond(i) ELSE Fail(i)
  <1>1. Placed /\ Inst.op = "condbr" /\ phase = "done" /\ Shape /\ req \in Requests
    BY ReadyToRun DEF BranchOn, Executes, Ready
  <1>2. next' = 1 /\ from' = at
    BY DEF BranchOn, Goto
  <1>3. ASSUME NEW k \in {1, 2}, at = <<"hdr", k>>, next = 2,
               Inst = CondBr("loop", B(BodyName(k)), <<"loop.exit", k>>)
        PROVE  /\ at' = IF HdrTaken(loops[k], phi[k]) THEN B(BodyName(k)) ELSE <<"loop.exit", k>>
               /\ at' \in DOMAIN ir
    <2>1. Inst.cond = "loop" /\ Inst.then = B(BodyName(k)) /\ Inst.els = <<"loop.exit", k>> /\ at[2] = k
      BY <1>3 DEF CondBr
    <2>2. at' = IF HdrTaken(loops[k], phi[k]) THEN B(BodyName(k)) ELSE <<"loop.exit", k>>
      BY <2>1 DEF BranchOn, Goto
    <2>3. B(BodyName(k)) \in DOMAIN ir /\ <<"loop.exit", k>> \in DOMAIN ir
      BY <1>1, TargetsThere DEF BodyName, NamedBlocks, LoopNames
    <2> QED BY <2>2, <2>3
  <1>4. ASSUME NEW i \in OutboundArgs, at = Cond(i), next = 2,
               Inst = CondBr("memcmp == 0", NextCond(i), Fail(i))
        PROVE  /\ at' \in {NextCond(i), Fail(i)} /\ at' \in DOMAIN ir
               /\ at' = IF cmp THEN NextCond(i) ELSE Fail(i)
    <2>1. Inst.cond # "loop" /\ Inst.then = NextCond(i) /\ Inst.els = Fail(i)
      BY <1>4 DEF CondBr
    <2>2. at' = IF cmp THEN NextCond(i) ELSE Fail(i)
      BY <2>1 DEF BranchOn, Goto
    <2>3. i \in Nat
      BY <1>1, ParamFacts DEF OutboundArgs
    <2>4. NextCond(i) \in DOMAIN ir /\ Fail(i) \in DOMAIN ir
      BY <1>1, <2>3, TargetsThere
    <2> QED BY <2>2, <2>4
  <1> QED BY <1>1, <1>2, <1>3, <1>4 DEF Placed

-----------------------------------------------------------------------------
(***************************************************************************)
(* Control, memory and types.                                              *)
(***************************************************************************)

\* A step of the run leaves what was built alone.
LEMMA NextKinds ==
  ASSUME Next
  PROVE  \/ Build
         \/ UNCHANGED buildVars /\ Start
         \/ /\ UNCHANGED buildVars /\ status = "running"
            /\ \/ Allocate \/ Symbolic \/ Copy \/ Compare \/ Free \/ InductionPhi \/ Call
               \/ Branch \/ BranchOn \/ AssertFail \/ Return
  BY DEF Next, Start, Allocate, Symbolic, Copy, Compare, Free, InductionPhi, Call, Branch,
         BranchOn, AssertFail, Return, Executes

\* The request stays, and so does the shape of what was built.
LEMMA NextKeepsShape ==
  ASSUME req \in Requests, Decided, Shape, Next PROVE req' = req /\ Shape'
  <1>1. CASE Build
    BY <1>1, BuildKeepsRequest, ShapeKept DEF Build
  <1>2. CASE UNCHANGED buildVars
    BY <1>2, ShapeUnchanged DEF buildVars
  <1> QED BY <1>1, <1>2, NextKinds

\* The parts of a block's name.
LEMMA NameParts ==
  /\ \A n : B(n)[1] = n
  /\ \A i : Cond(i)[1] = "cond" /\ Fail(i)[1] = "fail"
  BY DEF B, Cond, Fail

\* An instruction that goes on stays in its block.
LEMMA ControlWithin ==
  ASSUME Control, status = "running", UNCHANGED buildVars, NEW ok, GoesOn(ok),
         ok => next + 1 \in DOMAIN ir[at] /\ next \in Nat \ {0}
  PROVE  Control'
  <1>1. phase = "done" /\ at \in DOMAIN ir /\ next \in DOMAIN ir[at]
    BY DEF Control
  <1>2. phase' = "done" /\ at' \in DOMAIN ir' /\ next' \in DOMAIN ir'[at']
    BY <1>1 DEF GoesOn, buildVars
  <1>3. status' \in {"running", "fault"}
    BY DEF GoesOn
  <1>4. (Block = "hdr" /\ next = 1 => from \in {Names(Number).pre, <<"latch", Number>>})'
    <2>1. CASE ok
      BY <2>1 DEF GoesOn
    <2>2. CASE ~ok
      BY <2>2 DEF GoesOn, Control, Block, Number, Names
    <2> QED BY <2>1, <2>2
  <1> QED BY <1>2, <1>3, <1>4 DEF Control, Statuses

\* One that branches goes to the first instruction of a block.
LEMMA ControlAcross ==
  ASSUME Control, req \in Requests, Shape, status = "running", UNCHANGED buildVars,
         status' = status, next' = 1, from' = at, at' \in DOMAIN ir,
         Block' = "hdr" => at \in {Names(Number').pre, <<"latch", Number'>>}
  PROVE  Control'
  <1>1. phase = "done"
    BY DEF Control
  <1>2. 1 \in DOMAIN ir[at']
    BY <1>1, CodeDomains
  <1>3. phase' = "done" /\ at' \in DOMAIN ir' /\ next' \in DOMAIN ir'[at']
    BY <1>1, <1>2 DEF buildVars
  <1>4. (Block = "hdr" /\ next = 1 => from \in {Names(Number).pre, <<"latch", Number>>})'
    BY DEF Block, Number, Names
  <1> QED BY <1>3, <1>4 DEF Control, Statuses

\* Every step stays within the code.
LEMMA ControlKept == ASSUME Ready, Next PROVE Control'
  <1>1. req \in Requests /\ Shape /\ Control
    BY DEF Ready
  <1>2. CASE Build
    BY <1>1, <1>2 DEF Build, runVars, Control, Block, Number
  <1>3. CASE UNCHANGED buildVars /\ Start
    <2>1. phase = "done" /\ next = 1
      BY <1>1, <1>3 DEF Start, Control
    <2>2. B("setup") \in DOMAIN ir
      BY <1>1, <2>1, TargetsThere DEF NamedBlocks
    <2>3. at' \in DOMAIN ir
      BY <1>3, <2>2 DEF Start, EntryBlock
    <2>4. 1 \in DOMAIN ir[at']
      BY <1>1, <2>1, <2>3, CodeDomains
    <2>5. Block' # "hdr"
      BY <1>3, NameParts DEF Start, EntryBlock, Block
    <2>6. phase' = "done" /\ at' \in DOMAIN ir' /\ next' \in DOMAIN ir'[at']
      BY <1>3, <2>1, <2>3, <2>4 DEF buildVars, Start
    <2> QED BY <1>3, <2>5, <2>6 DEF Start, Control, Statuses
  <1>4. ASSUME UNCHANGED buildVars, status = "running" PROVE phase = "done" /\ next \in Nat \ {0}
    <2>1. phase = "done" /\ at \in DOMAIN ir /\ next \in DOMAIN ir[at] /\ InHarness
      BY <1>1, <1>4, WhereItIs DEF Control
    <2>2. /\ Len(SetupCode) \in Nat /\ Len(SymbolizeCode) \in Nat /\ Len(TeardownCode) \in Nat
      BY <1>1, <2>1, CodeDomains
    <2>3. ASSUME NEW n, NEW code, NEW to, InCode(n, code, to), Len(code) \in Nat
          PROVE  next \in Nat \ {0}
      BY <2>3 DEF InCode
    <2>4. ASSUME NEW k, InLoopPart(k) PROVE next \in {1, 2}
      BY <2>4 DEF InLoopPart
    <2>5. ASSUME NEW i, InComparison(i) PROVE next \in {1, 2}
      BY <2>5 DEF InComparison
    <2> QED BY <2>1, <2>2, <2>3, <2>4, <2>5 DEF InHarness
  <1>5. CASE UNCHANGED buildVars /\ status = "running" /\ Allocate
    <2>1. at = B("setup") /\ next \in 1 .. Len(SetupCode) /\ GoesOn(TRUE)
      BY <1>5, AllocateIs DEF Allocate, Proceed, GoesOn
    <2>2. next + 1 \in DOMAIN ir[at]
      BY <1>1, <1>4, <1>5, <2>1, CodeDomains
    <2> QED BY <1>1, <1>4, <1>5, <2>1, <2>2, ControlWithin
  <1>6. CASE UNCHANGED buildVars /\ status = "running" /\ Symbolic
    <2>1. at = B("se.setup") /\ next \in 1 .. Len(SymbolizeCode) /\ \E ok : GoesOn(ok)
      BY <1>6, SymbolicIs
    <2>2. next + 1 \in DOMAIN ir[at]
      BY <1>1, <1>4, <1>6, <2>1, CodeDomains
    <2> QED BY <1>1, <1>4, <1>6, <2>1, <2>2, ControlWithin
  <1>7. CASE UNCHANGED buildVars /\ status = "running" /\ Copy
    <2>1. at = B("se.setup") /\ next \in 1 .. Len(SymbolizeCode) /\ \E ok : GoesOn(ok)
      BY <1>7, CopyIs
    <2>2. next + 1 \in DOMAIN ir[at]
      BY <1>1, <1>4, <1>7, <2>1, CodeDomains
    <2> QED BY <1>1, <1>4, <1>7, <2>1, <2>2, ControlWithin
  <1>8. CASE UNCHANGED buildVars /\ status = "running" /\ Compare
    <2>1. next = 1 /\ (\E ok : GoesOn(ok)) /\ \E i \in OutboundArgs : at = Cond(i)
      BY <1>8, CompareIs
    <2>2. next + 1 \in DOMAIN ir[at]
      BY <1>1, <1>4, <1>8, <2>1, CodeDomains
    <2> QED BY <1>1, <1>4, <1>8, <2>1, <2>2, ControlWithin
  <1>9. CASE UNCHANGED buildVars /\ status = "running" /\ Free
    <2>1. at = B("teardown") /\ next \in 1 .. Len(TeardownCode) /\ \E ok : GoesOn(ok)
      BY <1>9, FreeIs
    <2>2. next + 1 \in DOMAIN ir[at]
      BY <1>1, <1>4, <1>9, <2>1, CodeDomains
    <2> QED BY <1>1, <1>4, <1>9, <2>1, <2>2, ControlWithin
  <1>10. CASE UNCHANGED buildVars /\ status = "running" /\ InductionPhi
    <2>1. next = 1 /\ GoesOn(TRUE) /\ \E k \in {1, 2} : at = <<"hdr", k>>
      BY <1>10, PhiIs
    <2>2. next + 1 \in DOMAIN ir[at]
      BY <1>1, <1>4, <1>10, <2>1, CodeDomains
    <2> QED BY <1>1, <1>4, <1>10, <2>1, <2>2, ControlWithin
  <1>11. CASE UNCHANGED buildVars /\ status = "running" /\ Call
    <2>1. next = 1 /\ (\E ok : GoesOn(ok)) /\ \E k \in {1, 2} : at = B(BodyName(k))
      BY <1>11, CallIs
    <2>2. next + 1 \in DOMAIN ir[at]
      BY <1>1, <1>4, <1>11, <2>1, CodeDomains
    <2> QED BY <1>1, <1>4, <1>11, <2>1, <2>2, ControlWithin
  <1>12. CASE UNCHANGED buildVars /\ status = "running" /\ Branch
    <2>1. Edge(at') /\ at' \in DOMAIN ir /\ next' = 1 /\ from' = at /\ status' = status
      BY <1>12, BranchIs DEF Branch
    <2>2. NextCond(0)[1] # "hdr"
      BY <1>1, NextCondIs, NameParts
    <2>3. Block' = "hdr" => \E k \in {1, 2} : at' = <<"hdr", k>> /\ at \in {B(PreName(k)), <<"latch", k>>}
      BY <2>1, <2>2, NameParts DEF Edge, Block, PostName, AfterLoop
    <2>4. Block' = "hdr" => at \in {Names(Number').pre, <<"latch", Number'>>}
      BY <2>3 DEF Number, Names, PreName
    <2> QED BY <1>1, <1>12, <2>1, <2>4, ControlAcross
  <1>13. CASE UNCHANGED buildVars /\ status = "running" /\ BranchOn
    <2>1. next' = 1 /\ from' = at /\ at' \in DOMAIN ir /\ status' = status
      BY <1>13, BranchOnIs DEF BranchOn
    <2>2. \A i \in OutboundArgs : i \in Nat
      BY <1>1, ParamFacts DEF OutboundArgs
    <2>3. \A i \in OutboundArgs : NextCond(i)[1] # "hdr" /\ Fail(i)[1] # "hdr"
      BY <1>1, <2>2, NextCondIs, NameParts
    <2>4. \A k : B(BodyName(k))[1] # "hdr" /\ <<"loop.exit", k>>[1] # "hdr"
      BY NameParts DEF BodyName
    <2>5. Block' # "hdr"
      <3>1. \/ \E k : at' \in {B(BodyName(k)), <<"loop.exit", k>>}
            \/ \E i \in OutboundArgs : at' \in {NextCond(i), Fail(i)}
        BY <1>13, BranchOnIs
      <3> QED BY <2>3, <2>4, <3>1 DEF Block
    <2> QED BY <1>1, <1>13, <2>1, <2>5, ControlAcross
  <1>14. CASE UNCHANGED buildVars /\ status = "running" /\ (AssertFail \/ Return)
    BY <1>1, <1>14 DEF AssertFail, Return, Control, Statuses, Block, Number, buildVars
  <1> QED BY <1>2, <1>3, <1>5, <1>6, <1>7, <1>8, <1>9, <1>10, <1>11, <1>12, <1>13, <1>14, NextKinds

\* What a step does not change keeps its type.
LEMMA MemoryUnchanged ==
  ASSUME Memory, UNCHANGED buildVars, mem' = mem, live' \subseteq live,
         phi' \in I64 \X I64, cmp' \in BOOLEAN, kernel' = kernel
  PROVE  Memory'
  <1>1. Objects' = Objects /\ \A i : Contents(i)' = Contents(i)
    BY RunStable
  <1> QED BY <1>1 DEF Memory

\* One object of the memory changes, and remains of its size.
LEMMA MemoryChanged ==
  ASSUME Memory, UNCHANGED buildVars, UNCHANGED <<phi, cmp, kernel>>, NEW o \in Objects,
         live' \subseteq DOMAIN mem', DOMAIN mem' \subseteq DOMAIN mem \cup {o},
         \A q \in DOMAIN mem : q # o => mem'[q] = mem[q],
         o \in DOMAIN mem' => mem'[o] \in Contents(o[1])
  PROVE  Memory'
  <1>1. Objects' = Objects /\ \A i : Contents(i)' = Contents(i)
    BY RunStable
  <1>2. \A q \in DOMAIN mem' : mem'[q] \in Contents(q[1])
    BY DEF Memory
  <1> QED BY <1>1, <1>2 DEF Memory

\* The induction variables are 64-bit numbers.
LEMMA PhiTyped ==
  ASSUME Ready, InductionPhi PROVE phi' \in I64 \X I64
  <1>1. PICK k \in {1, 2} :
          phi' = [phi EXCEPT ![k] = IF Entering(k) THEN loops[k].start
                                                   ELSE LatchStep(loops[k], phi[k])]
    BY PhiIs
  <1>2. loops[1] = Loop1 /\ loops[2] = Loop2 /\ req \in Requests /\ phi \in I64 \X I64
    BY LoopsAndArgs DEF InductionPhi, Executes, Ready, Memory
  <1>3. req.iterations \in 0 .. U32Max
    BY <1>2, RequestsAssumption DEF U32
  <1>4. WrapU32(req.iterations - 1) \in 0 .. U32Max
    BY <1>3, WidthAssumption DEF WrapU32
  <1>5. loops[k].start \in I64
    BY <1>2, <1>3, <1>4, WidthAssumption DEF Loop1, Loop2, CreatedLoop, I64
  <1>6. ASSUME NEW x \in Int PROVE WrapI64(x) \in I64
    <2>1. I64Half \in Nat /\ I64Half > 0
      BY WidthAssumption
    <2>2. (x + I64Half) % (2 * I64Half) \in 0 .. (2 * I64Half - 1)
      BY <2>1
    <2> QED BY <2>1, <2>2 DEF WrapI64, I64
  <1>7. phi[k] \in Int /\ loops[k].step = 1
    BY <1>2, WidthAssumption DEF I64, Loop1, Loop2, CreatedLoop
  <1>8. LatchStep(loops[k], phi[k]) \in I64
    BY <1>6, <1>7 DEF LatchStep
  <1> QED BY <1>1, <1>2, <1>5, <1>8

\* The histories of the two loops grow in place.
LEMMA HistoriesKept == ASSUME Ready, Next PROVE Histories'
  <1>1. Histories
    BY DEF Ready
  <1>2. CASE InductionPhi
    <2>1. \E k, v : entry' = [entry EXCEPT ![k] = v]
      BY <1>2 DEF InductionPhi
    <2> QED BY <1>1, <1>2, <2>1 DEF Histories, InductionPhi
  <1>3. CASE Call
    <2>1. visited' = visited \/ \E k, v : visited' = [visited EXCEPT ![k] = v]
      BY <1>3 DEF Call
    <2> QED BY <1>1, <1>3, <2>1 DEF Histories, Call
  <1>4. CASE ~InductionPhi /\ ~Call
    <2>1. UNCHANGED <<entry, visited>>
      BY <1>4 DEF Next, Build, runVars, Start, Allocate, Symbolic, Copy, Compare, Free, Branch,
                  BranchOn, AssertFail, Return
    <2> QED BY <1>1, <2>1 DEF Histories
  <1> QED BY <1>2, <1>3, <1>4

\* Every step keeps the types.
LEMMA MemoryKept == ASSUME Ready, Next PROVE Memory'
  <1>1. req \in Requests /\ Control /\ Memory
    BY DEF Ready
  <1>2. CASE Build
    <2>1. DOMAIN mem' = {} /\ live' = {} /\ UNCHANGED <<phi, cmp, kernel>>
      BY <1>1, <1>2 DEF Build, runVars, Control
    <2> QED BY <1>1, <2>1 DEF Memory
  <1>3. CASE UNCHANGED buildVars /\ (Start \/ Branch \/ BranchOn \/ AssertFail \/ Return)
    <2>1. UNCHANGED <<mem, live, phi, cmp, kernel>>
      BY <1>3 DEF Start, Branch, BranchOn, AssertFail, Return
    <2>2. phi' \in I64 \X I64 /\ cmp' \in BOOLEAN
      BY <1>1, <2>1 DEF Memory
    <2> QED BY <1>1, <1>3, <2>1, <2>2, MemoryUnchanged
  <1>4. CASE UNCHANGED buildVars /\ Allocate
    <2>1. PICK o \in Objects :
            /\ live' = live \cup {o}
            /\ DOMAIN mem' = DOMAIN mem \cup {o} /\ mem'[o] = Unwritten(o)
            /\ \A q \in DOMAIN mem : q # o => mem'[q] = mem[q]
      BY <1>4, AllocateIs
    <2>2. Unwritten(o) \in Contents(o[1])
      BY DEF Unwritten, Contents
    <2>3. live' \subseteq DOMAIN mem' /\ UNCHANGED <<phi, cmp, kernel>>
      BY <1>1, <1>4, <2>1 DEF Memory, Allocate
    <2> QED BY <1>1, <1>4, <2>1, <2>2, <2>3, MemoryChanged
  <1>5. CASE UNCHANGED buildVars /\ Symbolic
    <2>1. PICK o \in Objects :
            /\ DOMAIN mem' = DOMAIN mem
            /\ \A q \in DOMAIN mem : q # o => mem'[q] = mem[q]
            /\ o \in DOMAIN mem => mem'[o] \in Contents(o[1])
      BY <1>5, SymbolicIs
    <2>2. live' \subseteq DOMAIN mem' /\ UNCHANGED <<phi, cmp, kernel>>
      BY <1>1, <1>5, <2>1 DEF Memory, Symbolic
    <2> QED BY <1>1, <1>5, <2>1, <2>2, MemoryChanged
  <1>6. CASE UNCHANGED buildVars /\ Copy
    <2>1. PICK i \in OutboundArgs :
            /\ Obj(i, 2) \in Objects
            /\ DOMAIN mem' = DOMAIN mem
            /\ \A q \in DOMAIN mem : q # Obj(i, 2) => mem'[q] = mem[q]
            /\ Obj(i, 2) \in DOMAIN mem => mem'[Obj(i, 2)] \in Contents(i)
      BY <1>6, CopyIs
    <2>2. live' \subseteq DOMAIN mem' /\ UNCHANGED <<phi, cmp, kernel>>
      BY <1>1, <1>6, <2>1 DEF Memory, Copy
    <2>3. Obj(i, 2)[1] = i
      BY DEF Obj
    <2> QED BY <1>1, <1>6, <2>1, <2>2, <2>3, MemoryChanged
  <1>7. CASE UNCHANGED buildVars /\ Compare
    <2>1. cmp' \in BOOLEAN /\ UNCHANGED <<mem, live, phi, kernel>>
      BY <1>7, CompareIs DEF Compare
    <2>2. phi' \in I64 \X I64
      BY <1>1, <2>1 DEF Memory
    <2> QED BY <1>1, <1>7, <2>1, <2>2, MemoryUnchanged
  <1>8. CASE UNCHANGED buildVars /\ Free
    <2>1. UNCHANGED <<mem, phi, cmp, kernel>> /\ live' \subseteq live
      BY <1>8, FreeIs DEF Free
    <2>2. phi' \in I64 \X I64 /\ cmp' \in BOOLEAN
      BY <1>1, <2>1 DEF Memory
    <2> QED BY <1>1, <1>8, <2>1, <2>2, MemoryUnchanged
  <1>9. CASE UNCHANGED buildVars /\ InductionPhi
    <2>1. UNCHANGED <<mem, live, cmp, kernel>>
      BY <1>9 DEF InductionPhi
    <2>2. phi' \in I64 \X I64 /\ cmp' \in BOOLEAN
      BY <1>1, <1>9, <2>1, PhiTyped DEF Memory
    <2> QED BY <1>1, <1>9, <2>1, <2>2, MemoryUnchanged
  <1>10. CASE UNCHANGED buildVars /\ Call
    <2>1. /\ DOMAIN mem' = DOMAIN mem
          /\ \A q \in DOMAIN mem : mem'[q] = mem[q] \/ \E new : mem'[q] = Written(mem[q], new)
          /\ UNCHANGED <<live, phi, cmp, kernel>>
      BY <1>10, CallIs DEF Call
    <2>2. ASSUME NEW i, NEW old \in Contents(i), NEW new PROVE Written(old, new) \in Contents(i)
      BY DEF Contents, Written
    <2>3. \A q \in DOMAIN mem : mem'[q] \in Contents(q[1])
      BY <1>1, <2>1, <2>2 DEF Memory
    <2>4. Objects' = Objects /\ \A i : Contents(i)' = Contents(i)
      BY <1>10, RunStable
    <2> QED BY <1>1, <2>1, <2>3, <2>4 DEF Memory
  <1> QED BY <1>2, <1>3, <1>4, <1>5, <1>6, <1>7, <1>8, <1>9, <1>10, NextKinds

-----------------------------------------------------------------------------
(***************************************************************************)
(* The heap.                                                               *)
(***************************************************************************)

\* Where a conditional branch can lead.
LEMMA BranchOnBlocks ==
  ASSUME Ready, BranchOn
  PROVE  /\ Block \in {"hdr", "cond"}
         /\ Block' \in {"call1.body", "call2.body", "loop.exit", "cond", "fail", "se.end.teardown"}
         /\ Block' = "se.end.teardown" => Block = "cond"
  <1>1. req \in Requests
    BY DEF Ready
  <1>2. \A i \in OutboundArgs : i \in Nat
    BY <1>1, ParamFacts DEF OutboundArgs
  <1>3. \A i \in OutboundArgs : NextCond(i)[1] \in {"cond", "se.end.teardown"} /\ Fail(i)[1] = "fail"
    BY <1>1, <1>2, NextCondIs, NameParts
  <1>4. \A k \in {1, 2} : /\ B(BodyName(k))[1] \in {"call1.body", "call2.body"}
                          /\ <<"loop.exit", k>>[1] = "loop.exit" /\ <<"hdr", k>>[1] = "hdr"
    BY NameParts DEF BodyName
  <1>5. \/ \E k \in {1, 2} : at = <<"hdr", k>> /\ at' \in {B(BodyName(k)), <<"loop.exit", k>>}
        \/ \E i \in OutboundArgs : at = Cond(i) /\ at' \in {NextCond(i), Fail(i)}
    BY BranchOnIs
  <1>6. ASSUME NEW k \in {1, 2}, at = <<"hdr", k>>, at' \in {B(BodyName(k)), <<"loop.exit", k>>}
        PROVE  Block = "hdr" /\ Block' \in {"call1.body", "call2.body", "loop.exit"}
    BY <1>4, <1>6 DEF Block
  <1>7. ASSUME NEW i \in OutboundArgs, at = Cond(i), at' \in {NextCond(i), Fail(i)}
        PROVE  Block = "cond" /\ Block' \in {"cond", "fail", "se.end.teardown"}
    BY <1>3, <1>7, NameParts DEF Block
  <1> QED BY <1>5, <1>6, <1>7

\* Where a branch can lead, by the blocks' kinds.
LEMMA EdgeBlocks ==
  ASSUME Ready, Branch
  PROVE  \/ Block = "setup" /\ next = Len(SetupCode) + 1 /\ at' = B("se.setup") /\ Block' = "se.setup"
         \/ /\ Block = "se.setup" /\ next = Len(SymbolizeCode) + 1
            /\ at' = B("call1.setup") /\ Block' = "call1.setup"
         \/ Block = "teardown" /\ next = Len(TeardownCode) + 1 /\ at' = B("exit") /\ Block' = "exit"
         \/ \E k \in {1, 2} :
              \/ /\ at = B(PreName(k)) /\ Block = PreName(k)
                 /\ at' = <<"hdr", k>> /\ Block' = "hdr" /\ Number' = k
              \/ /\ at = B(BodyName(k)) /\ Block = BodyName(k) /\ next = 2
                 /\ at' = <<"latch", k>> /\ Block' = "latch" /\ Number' = k
              \/ /\ at = <<"latch", k>> /\ Block = "latch" /\ Number = k
                 /\ at' = <<"hdr", k>> /\ Block' = "hdr" /\ Number' = k
              \/ /\ at = <<"loop.exit", k>> /\ Block = "loop.exit" /\ Number = k
                 /\ at' = B(PostName(k)) /\ Block' = PostName(k)
              \/ /\ at = B(PostName(k)) /\ Block = PostName(k)
                 /\ at' = B(AfterLoop(k)) /\ Block' = AfterLoop(k)
         \/ Block = "se.start.teardown" /\ Block' \in {"cond", "se.end.teardown"}
         \/ Block = "se.end.teardown" /\ at' = B("teardown") /\ Block' = "teardown"
  <1>1. Edge(at')
    BY BranchIs
  <1>2. NextCond(0)[1] \in {"cond", "se.end.teardown"}
    BY NextCondIs, NameParts DEF Ready
  <1>3. \A n : B(n)[1] = n
    BY NameParts
  <1> QED BY <1>1, <1>2, <1>3 DEF Edge, Block, Number

\* Where the run is when it does not branch.
LEMMA PlainBlocks ==
  ASSUME Ready
  PROVE  /\ Allocate => Block = "setup" /\ Block' = Block
         /\ Symbolic \/ Copy => Block = "se.setup" /\ Block' = Block
         /\ Compare => Block = "cond" /\ Block' = Block
         /\ Free => Block = "teardown" /\ Block' = Block
         /\ InductionPhi => Block = "hdr" /\ Block' = Block /\ Number' = Number
         /\ Call => Block \in {"call1.body", "call2.body"} /\ Block' = Block /\ Number' = Number
         /\ AssertFail => Block = "fail" /\ at' = at
         /\ Return => Block \in {"exit", "entry"} /\ (Block = "entry" => req.hasHarnessBody) /\ at' = at
  <1>1. Allocate => Block = "setup" /\ Block' = Block
    BY AllocateIs, NameParts DEF Allocate, Proceed, Block
  <1>2. Symbolic \/ Copy => Block = "se.setup" /\ Block' = Block
    BY SymbolicIs, CopyIs, NameParts DEF Symbolic, Copy, Proceed, Block
  <1>3. Compare => Block = "cond" /\ Block' = Block
    BY CompareIs, NameParts DEF Compare, Proceed, Block
  <1>4. Free => Block = "teardown" /\ Block' = Block
    BY FreeIs, NameParts DEF Free, Proceed, Block
  <1>5. InductionPhi => Block = "hdr" /\ Block' = Block /\ Number' = Number
    <2> SUFFICES ASSUME InductionPhi PROVE Block = "hdr" /\ Block' = Block /\ Number' = Number
      OBVIOUS
    <2>1. \E k : at = <<"hdr", k>> /\ GoesOn(TRUE)
      BY PhiIs
    <2> QED BY <2>1 DEF GoesOn, Block, Number
  <1>6. Call => Block \in {"call1.body", "call2.body"} /\ Block' = Block /\ Number' = Number
    BY CallIs, NameParts DEF Call, Proceed, Block, Number, BodyName
  <1>7. AssertFail => Block = "fail" /\ at' = at
    BY ReadyToRun, NameParts DEF AssertFail, Executes, Placed, Block
  <1>8. Return => Block \in {"exit", "entry"} /\ (Block = "entry" => req.hasHarnessBody) /\ at' = at
    BY ReadyToRun, NameParts DEF Return, Executes, Placed, Block
  <1> QED BY <1>1, <1>2, <1>3, <1>4, <1>5, <1>6, <1>7, <1>8

\* Elsewhere there is nothing to say.
LEMMA FreedElsewhere ==
  ASSUME Block' \notin {"teardown", "exit", "entry"}, status' # "returned" PROVE Freed'
  BY DEF Freed

\* teardown frees as it goes, and nothing is allocated after it.
LEMMA FreedKept ==
  ASSUME Ready, status # "building" => Freed, Next, status' # "building"
  PROVE  Freed'
  <1>1. CASE Build
    BY <1>1 DEF Build, runVars
  <1>2. CASE UNCHANGED buildVars /\ Start
    <2>1. live' = {} /\ status' = "running"
      BY <1>2 DEF Start, Ready, Control
    <2>2. Block' \in {"setup", "entry"}
      BY <1>2, NameParts DEF Start, EntryBlock, Block
    <2> QED BY <2>1, <2>2 DEF Freed
  <1>3. CASE status = "running" /\ (Allocate \/ Symbolic \/ Copy \/ Compare \/ InductionPhi \/ Call)
    <2>1. Block' \notin {"teardown", "exit", "entry"}
      BY <1>3, PlainBlocks
    <2>2. status' # "returned"
      BY <1>3 DEF Allocate, Symbolic, Copy, Compare, InductionPhi, Call, Proceed
    <2> QED BY <2>1, <2>2, FreedElsewhere
  <1>4. CASE UNCHANGED buildVars /\ status = "running" /\ Free
    <2>1. PICK o \in HeapObjects :
            /\ next \in 1 .. Len(TeardownCode) /\ TeardownCode[next].obj = o
            /\ live' = live \ {o}
            /\ GoesOn(o \in live)
      BY <1>4, FreeIs
    <2>2. \A p \in 1 .. (next - 1) : TeardownCode[p].obj \notin live
      BY <1>4, PlainBlocks DEF Freed
    <2>3. TeardownCode' = TeardownCode
      BY <1>4, RunStable
    <2>4. next' \in {next, next + 1} /\ status' # "returned" /\ next \in Nat
      BY <1>4, <2>1 DEF GoesOn
    <2>5. \A p \in 1 .. (next' - 1) : TeardownCode[p].obj \notin live'
      <3>1. CASE next' = next
        BY <2>1, <2>2, <3>1
      <3>2. CASE next' = next + 1
        <4>1. ASSUME NEW p \in 1 .. ((next + 1) - 1) PROVE TeardownCode[p].obj \notin live'
          <5>1. p \in 1 .. (next - 1) \/ p = next
            BY <2>4
          <5> QED BY <2>1, <2>2, <5>1
        <4> QED BY <3>2, <4>1
      <3> QED BY <2>4, <3>1, <3>2
    <2>6. Block' = "teardown"
      BY <1>4, PlainBlocks
    <2> QED BY <2>3, <2>4, <2>5, <2>6 DEF Freed
  <1>5. CASE UNCHANGED buildVars /\ status = "running" /\ Branch
    <2>1. status' = "running" /\ live' = live /\ next' = 1
      BY <1>5, BranchIs DEF Branch
    <2>2. Block' # "entry"
      BY <1>5, EdgeBlocks DEF PostName, AfterLoop
    <2>3. Block' = "exit" => live' \cap HeapObjects' = {}
      <3> SUFFICES ASSUME Block' = "exit" PROVE live' \cap HeapObjects' = {}
        OBVIOUS
      <3>1. Block = "teardown" /\ next = Len(TeardownCode) + 1
        BY <1>5, EdgeBlocks DEF PostName, AfterLoop
      <3>2. OneForEach(TeardownCode, HeapObjects) /\ Len(TeardownCode) \in Nat
        BY TeardownCodeIs DEF Ready
      <3>3. \A p \in 1 .. Len(TeardownCode) : TeardownCode[p].obj \notin live
        BY <1>5, <3>1, <3>2 DEF Freed
      <3>4. \A o \in HeapObjects : o \notin live
        BY <3>2, <3>3 DEF OneForEach
      <3> QED BY <1>5, <2>1, <3>4, RunStable
    <2> QED BY <2>1, <2>2, <2>3 DEF Freed
  <1>6. CASE status = "running" /\ BranchOn
    <2>1. Block' \notin {"teardown", "exit", "entry"}
      BY <1>6, BranchOnBlocks
    <2> QED BY <1>6, <2>1, FreedElsewhere DEF BranchOn
  <1>7. CASE status = "running" /\ AssertFail
    <2>1. Block' = "fail" /\ status' = "failed"
      BY <1>7, PlainBlocks DEF AssertFail, Block
    <2> QED BY <2>1, FreedElsewhere
  <1>8. CASE UNCHANGED buildVars /\ status = "running" /\ Return
    <2>1. Block' = Block /\ Block \in {"exit", "entry"} /\ live' = live
      BY <1>8, PlainBlocks DEF Return, Block
    <2>2. HeapObjects' = HeapObjects
      BY <1>8, RunStable
    <2> QED BY <1>8, <2>1, <2>2 DEF Freed
  <1> QED BY <1>1, <1>2, <1>3, <1>4, <1>5, <1>6, <1>7, <1>8, NextKinds

-----------------------------------------------------------------------------
(***************************************************************************)
(* Supported requests: no access outside of the memory.                    *)
(***************************************************************************)

\* The harness of a supported request starts at its own entry.
LEMMA SupportedEntry ==
  ASSUME Ready, Supported(req), phase = "done"
  PROVE  EntryBlock(ir) = B("setup") /\ ~req.hasHarnessBody
  <1>1. ~req.hasHarnessBody /\ DOMAIN ir = DoneNames
    BY DoneCode DEF Supported, Ready
  <1>2. B("entry") \notin DoneNames
    <2>1. "entry" \notin NamedBlocks
      BY DEF NamedBlocks
    <2>2. \A n \in NamedBlocks : B("entry") # B(n)
      BY <2>1, NamesDiffer
    <2>3. B("entry") \notin AssertionNames \cup LoopNames(1) \cup LoopNames(2)
      BY NamesDiffer DEF AssertionNames, LoopNames
    <2> QED BY <1>1, <2>2, <2>3 DEF DoneNames
  <1> QED BY <1>1, <1>2 DEF EntryBlock

\* The memory of the arguments of a call is that of the objects.
LEMMA CallMemoryThere ==
  ASSUME NEW i \in 1 .. NumParams, NEW k \in {1, 2} PROVE CallMemory(i, k) \in Objects
  BY DEF CallMemory, SecondCopy, Obj, Objects

\* Between setup and teardown all objects are there.
LEMMA AllocatedBetween ==
  ASSUME UNCHANGED buildVars, live' = live, live = Objects, status' = "running",
         Block' \notin {"setup", "teardown", "exit", "entry"}
  PROVE  Allocated'
  <1>1. Objects' = Objects
    BY RunStable
  <1> QED BY <1>1 DEF Allocated

\* setup allocates every object once, and teardown frees those of the heap once.
LEMMA AllocatedKept ==
  ASSUME Ready, Supported(req), Next, status' # "building",
         status # "building" => Allocated /\ Visited(1) /\ Visited(2)
  PROVE  Allocated'
  <1>1. req \in Requests
    BY DEF Ready
  <1>2. CASE Build
    BY <1>2 DEF Build, runVars
  <1>3. CASE UNCHANGED buildVars /\ Start
    <2>1. live' = {} /\ status' = "running" /\ next' = 1 /\ at' = B("setup")
      BY <1>3, SupportedEntry DEF Start, Ready, Control
    <2>2. Block' = "setup"
      BY <2>1, NameParts DEF Block
    <2>3. {SetupCode[p].obj : p \in 1 .. (1 - 1)} = {}
      OBVIOUS
    <2>4. SetupCode' = SetupCode
      BY <1>3, RunStable
    <2> QED BY <2>1, <2>2, <2>3, <2>4 DEF Allocated
  <1>4. CASE UNCHANGED buildVars /\ status = "running" /\ Allocate
    <2>1. PICK o \in Objects : /\ next \in 1 .. Len(SetupCode) /\ SetupCode[next].obj = o
                               /\ live' = live \cup {o}
      BY <1>4, AllocateIs
    <2>2. live = {SetupCode[p].obj : p \in 1 .. (next - 1)} /\ Block' = "setup"
      BY <1>4, PlainBlocks DEF Allocated
    <2>3. next' = next + 1 /\ status' = "running" /\ next \in Nat \ {0}
      BY <1>4, <2>1 DEF Allocate, Proceed
    <2>4. live' = {SetupCode[p].obj : p \in 1 .. ((next + 1) - 1)}
      <3>1. 1 .. ((next + 1) - 1) = (1 .. (next - 1)) \cup {next}
        BY <2>3
      <3> QED BY <2>1, <2>2, <3>1
    <2>5. SetupCode' = SetupCode
      BY <1>4, RunStable
    <2> QED BY <2>2, <2>3, <2>4, <2>5 DEF Allocated
  <1>5. CASE UNCHANGED buildVars /\ status = "running" /\ Symbolic
    <2>1. Block = "se.setup" /\ Block' = Block /\ live = Objects
      BY <1>5, PlainBlocks DEF Allocated
    <2>2. status' = "running" /\ live' = live
      BY <1>5, <2>1, SymbolicIs DEF GoesOn, Symbolic
    <2> QED BY <1>5, <2>1, <2>2, AllocatedBetween
  <1>6. CASE UNCHANGED buildVars /\ status = "running" /\ Copy
    <2>1. Block = "se.setup" /\ Block' = Block /\ live = Objects
      BY <1>6, PlainBlocks DEF Allocated
    <2>2. status' = "running" /\ live' = live
      BY <1>6, <2>1, CopyIs DEF GoesOn, Copy
    <2> QED BY <1>6, <2>1, <2>2, AllocatedBetween
  <1>7. CASE UNCHANGED buildVars /\ status = "running" /\ Compare
    <2>1. Block = "cond" /\ Block' = Block /\ live = Objects
      BY <1>7, PlainBlocks DEF Allocated
    <2>2. argSpecs = FillMissing(req.argSpecs, NumParams)
      BY <1>7, LoopsAndArgs
    <2>3. \A i \in OutboundArgs : ComparedSize(i) <= AllocSize(i)
      BY <1>1, <2>2, SupportedCompares
    <2>4. status' = "running" /\ live' = live
      BY <1>7, <2>1, <2>3, CompareIs DEF GoesOn, Comparable, Compare
    <2> QED BY <1>7, <2>1, <2>4, AllocatedBetween
  <1>8. CASE UNCHANGED buildVars /\ status = "running" /\ Free
    <2>1. PICK o \in HeapObjects :
            /\ next \in 1 .. Len(TeardownCode) /\ TeardownCode[next].obj = o
            /\ live' = live \ {o}
            /\ GoesOn(o \in live)
      BY <1>8, FreeIs
    <2>2. live = Objects \ {TeardownCode[p].obj : p \in 1 .. (next - 1)} /\ Block' = "teardown"
      BY <1>8, PlainBlocks DEF Allocated
    <2>3. OneForEach(TeardownCode, HeapObjects) /\ Len(TeardownCode) \in Nat
      BY <1>1, TeardownCodeIs
    <2>4. next \in Nat \ {0} /\ \A p \in 1 .. (next - 1) : p \in 1 .. Len(TeardownCode) /\ p # next
      BY <2>1, <2>3
    <2>5. o \in live
      <3>1. o \in Objects
        BY DEF HeapObjects
      <3>2. \A p \in 1 .. (next - 1) : TeardownCode[p].obj # o
        BY <2>1, <2>3, <2>4 DEF OneForEach
      <3> QED BY <2>2, <3>1, <3>2
    <2>6. next' = next + 1 /\ status' = "running"
      BY <1>8, <2>1, <2>5 DEF GoesOn
    <2>7. live' = Objects \ {TeardownCode[p].obj : p \in 1 .. ((next + 1) - 1)}
      <3>1. 1 .. ((next + 1) - 1) = (1 .. (next - 1)) \cup {next}
        BY <2>4
      <3> QED BY <2>1, <2>2, <3>1
    <2>8. TeardownCode' = TeardownCode /\ Objects' = Objects
      BY <1>8, RunStable
    <2> QED BY <2>2, <2>6, <2>7, <2>8 DEF Allocated
  <1>9. CASE UNCHANGED buildVars /\ status = "running" /\ InductionPhi
    <2>1. Block = "hdr" /\ Block' = Block /\ live = Objects
      BY <1>9, PlainBlocks DEF Allocated
    <2>2. status' = "running" /\ live' = live
      BY <1>9 DEF InductionPhi, Proceed
    <2> QED BY <1>9, <2>1, <2>2, AllocatedBetween
  <1>10. CASE UNCHANGED buildVars /\ status = "running" /\ Call
    <2>1. Block \in {"call1.body", "call2.body"} /\ Block' = Block /\ live = Objects
      BY <1>10, PlainBlocks DEF Allocated
    <2>2. PICK k \in {1, 2} : at = B(BodyName(k)) /\ next = 1 /\ GoesOn(CallServed(k))
      BY <1>10, CallIs
    <2>3. \A i \in 2 .. NumParams : CallMemory(i, k) \in live
      <3>1. \A i \in 2 .. NumParams : i \in 1 .. NumParams
        BY <1>1, ParamFacts
      <3> QED BY <2>1, <3>1, CallMemoryThere
    <2>4. Steps(k) \in 0 .. (req.iterations - 1)
      <3>1. Block = BodyName(k)
        BY <2>2, NameParts DEF Block
      <3> QED BY <1>10, <2>2, <3>1 DEF Visited
    <2>5. phi[1] \in Int /\ phi[2] \in Int /\ req.iterations \in Nat
      BY <1>1, RequestsAssumption, WidthAssumption DEF Ready, Memory, I64, U32
    <2>6. phi[k] \in 0 .. (req.iterations - 1)
      BY <2>4, <2>5 DEF Steps
    <2>7. CallServed(k)
      BY <2>3, <2>6 DEF CallServed
    <2>8. status' = "running" /\ live' = live
      BY <1>10, <2>2, <2>7 DEF GoesOn, Call
    <2> QED BY <1>10, <2>1, <2>8, AllocatedBetween
  <1>11. CASE UNCHANGED buildVars /\ status = "running" /\ Branch
    <2>1. status' = "running" /\ live' = live /\ next' = 1 /\ Objects' = Objects
          /\ TeardownCode' = TeardownCode
      BY <1>11, BranchIs, RunStable DEF Branch
    <2>2. CASE Block = "setup"
      <3>1. next = Len(SetupCode) + 1 /\ Block' = "se.setup"
        BY <1>11, <2>2, EdgeBlocks DEF PreName, BodyName, PostName
      <3>2. OneForEach(SetupCode, Objects) /\ Len(SetupCode) \in Nat
        BY <1>1, SetupCodeIs
      <3>3. live = {SetupCode[p].obj : p \in 1 .. Len(SetupCode)}
        BY <1>11, <2>2, <3>1, <3>2 DEF Allocated
      <3>4. live = Objects
        BY <3>2, <3>3 DEF OneForEach
      <3> QED BY <1>11, <2>1, <3>1, <3>4, AllocatedBetween
    <2>3. CASE Block = "teardown"
      <3>1. Block' = "exit"
        BY <1>11, <2>3, EdgeBlocks DEF PreName, BodyName, PostName
      <3> QED BY <2>1, <3>1 DEF Allocated
    <2>4. CASE Block \notin {"setup", "teardown"}
      <3>1. Block # "exit" /\ Block' \notin {"setup", "exit", "entry"}
        BY <1>11, <2>4, EdgeBlocks DEF PreName, BodyName, PostName, AfterLoop
      <3>2. live = Objects
        BY <1>11, <2>4, <3>1 DEF Allocated
      <3>3. CASE Block' = "teardown"
        <4>1. {TeardownCode[p].obj : p \in 1 .. (1 - 1)} = {}
          OBVIOUS
        <4> QED BY <2>1, <3>2, <3>3, <4>1 DEF Allocated
      <3>4. CASE Block' # "teardown"
        BY <1>11, <2>1, <3>1, <3>2, <3>4, AllocatedBetween
      <3> QED BY <3>3, <3>4
    <2> QED BY <2>2, <2>3, <2>4
  <1>12. CASE UNCHANGED buildVars /\ status = "running" /\ BranchOn
    <2>1. /\ Block \in {"hdr", "cond"} /\ live' = live /\ status' = "running"
          /\ Block' \notin {"setup", "teardown", "exit", "entry"}
      BY <1>12, BranchOnBlocks DEF BranchOn
    <2>2. live = Objects
      BY <1>12, <2>1 DEF Allocated
    <2> QED BY <1>12, <2>1, <2>2, AllocatedBetween
  <1>13. CASE UNCHANGED buildVars /\ status = "running" /\ AssertFail
    <2>1. Block = "fail" /\ Block' = Block /\ status' = "failed" /\ live' = live
      BY <1>13, PlainBlocks DEF AssertFail, Block
    <2>2. Objects' = Objects /\ live = Objects
      BY <1>13, <2>1, RunStable DEF Allocated
    <2> QED BY <2>1, <2>2 DEF Allocated
  <1>14. CASE UNCHANGED buildVars /\ status = "running" /\ Return
    <2>1. Block \in {"exit", "entry"} /\ Block' = Block /\ status' = "returned"
      BY <1>14, PlainBlocks DEF Return, Block
    <2>2. Block # "entry"
      BY <1>14 DEF Allocated
    <2> QED BY <2>1, <2>2 DEF Allocated
  <1> QED BY <1>2, <1>3, <1>4, <1>5, <1>6, <1>7, <1>8, <1>9, <1>10, <1>11, <1>12, <1>13, <1>14,
             NextKinds

-----------------------------------------------------------------------------
(***************************************************************************)
(* Supported requests: the calls of the two loops.                         *)
(***************************************************************************)

\* Where the run is before a loop it is not in it, and has not been.
LEMMA VisitedBefore ==
  ASSUME NEW k \in {1, 2}, Before(k)', visited'[k] = <<>> PROVE Visited(k)'
  <1>1. (~InLoop(k) /\ ~After(k) /\ ~Entering(k))'
    BY DEF Before, InLoop, After, Entering, LoopBlockKinds, BodyName
  <1> QED BY <1>1 DEF Visited, InLoop, LoopBlockKinds

LEMMA VisitedAfter ==
  ASSUME NEW k \in {1, 2}, After(k)', visited'[k] = Visits(k, req.iterations)' PROVE Visited(k)'
  <1>1. (~InLoop(k) /\ ~Before(k) /\ ~Entering(k))'
    BY DEF InLoop, After, Entering, LoopBlockKinds
  <1> QED BY <1>1 DEF Visited, InLoop, LoopBlockKinds

\* The arithmetic of the two loops, for the iterations there are.
LEMMA LoopArithmetic ==
  ASSUME Ready, Supported(req), status # "building", NEW k \in {1, 2}
  PROVE  /\ phi[1] \in Int /\ phi[2] \in Int /\ Steps(k) \in Int
         /\ req.iterations \in Nat /\ req.iterations >= 2
         /\ HdrTaken(loops[k], phi[k]) <=> Steps(k) < req.iterations
         /\ loops[k].start = IF k = 1 THEN 0 ELSE req.iterations - 1
         /\ Steps(k) \in 0 .. (req.iterations - 1) =>
              LatchStep(loops[k], phi[k]) = IF k = 1 THEN phi[1] + 1 ELSE phi[2] - 1
  <1>1. /\ phi[1] \in Int /\ phi[2] \in Int /\ req.iterations \in 0 .. U32Max
        /\ U32Max \in Nat /\ I64Half \in Nat /\ I64Half > 2 * U32Max
        /\ loops[1] = Loop1 /\ loops[2] = Loop2
    BY LoopsAndArgs, RequestsAssumption, WidthAssumption DEF Ready, Memory, I64, U32
  <1>2. req.iterations >= 2
    BY DEF Supported
  <1>3. WrapU32(req.iterations - 1) = req.iterations - 1
    BY <1>1, <1>2 DEF WrapU32
  <1>4. /\ Loop1.dir = "LD_Increasing" /\ Loop1.start = 0 /\ Loop1.end = req.iterations /\ Loop1.step = 1
        /\ Loop2.dir = "LD_Decreasing" /\ Loop2.start = req.iterations - 1 /\ Loop2.end = 0
        /\ Loop2.step = 1
    BY <1>1, <1>2, <1>3 DEF Loop1, Loop2, CreatedLoop, LoopDirection
  <1>5. Steps(k) \in Int
    BY <1>1 DEF Steps
  <1>6. HdrTaken(loops[k], phi[k]) <=> Steps(k) < req.iterations
    BY <1>1, <1>4 DEF HdrTaken, Steps
  <1>7. ASSUME NEW x \in -1 .. U32Max PROVE WrapI64(x) = x
    <2>1. x + I64Half \in 0 .. (2 * I64Half - 1)
      BY <1>1, <1>2
    <2>2. (x + I64Half) % (2 * I64Half) = x + I64Half
      BY <1>1, <1>2, <2>1
    <2> QED BY <1>1, <2>2 DEF WrapI64
  <1>8. Steps(k) \in 0 .. (req.iterations - 1) =>
          LatchStep(loops[k], phi[k]) = IF k = 1 THEN phi[1] + 1 ELSE phi[2] - 1
    <2> SUFFICES ASSUME Steps(k) \in 0 .. (req.iterations - 1)
                 PROVE  LatchStep(loops[k], phi[k]) = IF k = 1 THEN phi[1] + 1 ELSE phi[2] - 1
      OBVIOUS
    <2>1. CASE k = 1
      <3>1. phi[1] + 1 \in -1 .. U32Max
        BY <1>1, <2>1 DEF Steps
      <3>2. LatchStep(loops[1], phi[1]) = WrapI64(phi[1] + 1)
        BY <1>1, <1>4 DEF LatchStep
      <3> QED BY <1>7, <2>1, <3>1, <3>2
    <2>2. CASE k = 2
      <3>1. phi[2] - 1 \in -1 .. U32Max
        BY <1>1, <2>2 DEF Steps
      <3>2. LatchStep(loops[2], phi[2]) = WrapI64(phi[2] - 1)
        BY <1>1, <1>4 DEF LatchStep
      <3> QED BY <1>7, <2>2, <3>1, <3>2
    <2> QED BY <2>1, <2>2
  <1> QED BY <1>1, <1>2, <1>4, <1>5, <1>6, <1>8

\* One more iterator.
LEMMA VisitsGrow ==
  ASSUME Ready, Supported(req), status # "building", NEW k \in {1, 2}, Steps(k) \in Nat
  PROVE  /\ Append(Visits(k, Steps(k)), phi[k]) = Visits(k, Steps(k) + 1)
         /\ Visits(k, 0) = <<>>
  <1> DEFINE m == Steps(k)
             n == req.iterations
             x == phi[k]
  <1>1. n \in Nat /\ x \in Int /\ x = (IF k = 1 THEN m ELSE n - (m + 1))
    BY LoopArithmetic DEF Steps
  <1> HIDE DEF m, n, x
  <1>2. m \in Nat
    BY DEF m
  <1> DEFINE s == Visits(k, m)
             t == Visits(k, m + 1)
  <1>3. s \in Seq(Int) /\ Len(s) = m /\ \A j \in 1 .. m : s[j] = IF k = 1 THEN j - 1 ELSE n - j
    BY <1>1, <1>2 DEF Visits, n
  <1>4. t \in Seq(Int) /\ Len(t) = m + 1 /\ \A j \in 1 .. (m + 1) : t[j] = IF k = 1 THEN j - 1 ELSE n - j
    BY <1>1, <1>2 DEF Visits, n
  <1> HIDE DEF s, t
  <1>5. /\ Append(s, x) \in Seq(Int) /\ Len(Append(s, x)) = m + 1
        /\ \A j \in 1 .. m : Append(s, x)[j] = s[j]
        /\ Append(s, x)[m + 1] = x
    BY <1>1, <1>3, AppendProperties
  <1> DEFINE u == Append(s, x)
  <1>6. /\ u \in Seq(Int) /\ Len(u) = m + 1 /\ \A j \in 1 .. m : u[j] = s[j]
        /\ u[m + 1] = x
    BY <1>5
  <1> HIDE DEF u
  <1>7. u = t
    <2>1. ASSUME NEW j \in 1 .. m PROVE u[j] = t[j]
      BY <1>2, <1>3, <1>4, <1>6
    <2>2. u[m + 1] = t[m + 1]
      <3>1. m + 1 \in 1 .. (m + 1) /\ (m + 1) - 1 = m
        BY <1>2
      <3>2. t[m + 1] = IF k = 1 THEN (m + 1) - 1 ELSE n - (m + 1)
        BY <1>4, <3>1
      <3> QED BY <1>1, <1>6, <3>1, <3>2
    <2>3. \A j \in 1 .. (m + 1) : j \in 1 .. m \/ j = m + 1
      BY <1>2
    <2>4. \A j \in 1 .. (m + 1) : u[j] = t[j]
      BY <2>1, <2>2, <2>3
    <2> QED BY <1>4, <1>6, <2>4
  <1>8. Visits(k, 0) = <<>>
    <2>1. Visits(k, 0) = [j \in 1 .. 0 |-> IF k = 1 THEN j - 1 ELSE req.iterations - j]
      BY DEF Visits
    <2>2. 1 .. 0 = {}
      OBVIOUS
    <2> QED BY <2>1, <2>2
  <1> QED BY <1>7, <1>8 DEF s, t, u, m, x

\* Outside of the loop nothing changes.
LEMMA VisitedOutside ==
  ASSUME Ready, UNCHANGED buildVars, NEW k \in {1, 2}, Visited(k), visited'[k] = visited[k],
         (Before(k) /\ Before(k)') \/ (After(k) /\ After(k)')
  PROVE  Visited(k)'
  <1>1. CASE Before(k) /\ Before(k)'
    <2>1. visited[k] = <<>>
      BY <1>1 DEF Visited
    <2> QED BY <1>1, <2>1, VisitedBefore
  <1>2. CASE After(k) /\ After(k)'
    <2>1. visited[k] = Visits(k, req.iterations)
      BY <1>2 DEF Visited
    <2>2. Visits(k, req.iterations)' = Visits(k, req.iterations)
      BY DEF Visits, buildVars
    <2> QED BY <1>2, <2>1, <2>2, VisitedAfter
  <1> QED BY <1>1, <1>2

\* In the other loop the run is before or after this one.
LEMMA OtherLoop ==
  /\ InLoop(1) => Before(2)
  /\ InLoop(2) => After(1)
  BY DEF InLoop, Before, After, LoopBlockKinds, BodyName

\* Within the loop one of the places applies.
LEMMA VisitedAtHeader ==
  ASSUME NEW k \in {1, 2}, Block' = "hdr", Number' = k,
         \/ next' = 1 /\ Entering(k)' /\ visited'[k] = <<>>
         \/ /\ next' = 1 /\ ~Entering(k)'
            /\ Steps(k)' \in 0 .. (req.iterations - 1)' /\ visited'[k] = Visits(k, Steps(k) + 1)'
         \/ next' = 2 /\ Steps(k)' \in 0 .. req.iterations' /\ visited'[k] = Visits(k, Steps(k))'
  PROVE  Visited(k)'
  <1>1. (InLoop(k) /\ ~Before(k) /\ ~After(k) /\ Block # BodyName(k))'
    BY DEF InLoop, After, Before, LoopBlockKinds, BodyName
  <1>2. next' = 2 => ~Entering(k)'
    BY DEF Entering
  <1> QED BY <1>1, <1>2 DEF Visited

LEMMA VisitedInBody ==
  ASSUME NEW k \in {1, 2}, Block' = BodyName(k), Steps(k)' \in 0 .. (req.iterations - 1)',
         \/ next' = 1 /\ visited'[k] = Visits(k, Steps(k))'
         \/ next' = 2 /\ visited'[k] = Visits(k, Steps(k) + 1)'
  PROVE  Visited(k)'
  <1>1. (/\ InLoop(k) /\ ~Before(k) /\ ~After(k) /\ ~Entering(k)
         /\ Block \notin {"hdr", "latch", "loop.exit"})'
    BY DEF InLoop, After, Before, Entering, LoopBlockKinds, BodyName
  <1>2. BodyName(k)' = BodyName(k)
    BY DEF BodyName
  <1> QED BY <1>1, <1>2 DEF Visited

LEMMA VisitedAtEnd ==
  ASSUME NEW k \in {1, 2}, Number' = k,
         \/ /\ Block' = "latch" /\ Steps(k)' \in 0 .. (req.iterations - 1)'
            /\ visited'[k] = Visits(k, Steps(k) + 1)'
         \/ Block' = "loop.exit" /\ visited'[k] = Visits(k, req.iterations)'
  PROVE  Visited(k)'
  <1>1. (/\ InLoop(k) /\ ~Before(k) /\ ~After(k) /\ ~Entering(k)
         /\ Block \notin {"hdr", "call1.body", "call2.body"})'
    BY DEF InLoop, After, Before, Entering, LoopBlockKinds, BodyName
  <1>2. BodyName(k)' \in {"call1.body", "call2.body"}
    BY DEF BodyName
  <1> QED BY <1>1, <1>2 DEF Visited

\* The phi of the loop starts it, or takes it one iteration further.
LEMMA VisitedByPhi ==
  ASSUME Ready, Supported(req), UNCHANGED buildVars, InductionPhi, Visited(1), Visited(2),
         NEW k \in {1, 2}
  PROVE  Visited(k)'
  <1>1. PICK j \in {1, 2} :
          /\ at = <<"hdr", j>> /\ next = 1 /\ GoesOn(TRUE)
          /\ phi' = [phi EXCEPT ![j] = IF Entering(j) THEN loops[j].start
                                                      ELSE LatchStep(loops[j], phi[j])]
    BY PhiIs
  <1>2. Block = "hdr" /\ Number = j /\ Block' = "hdr" /\ Number' = j /\ next' = 2
    BY <1>1 DEF GoesOn, Block, Number
  <1>3. visited' = visited /\ status # "building"
    BY DEF InductionPhi, Executes
  <1>4. CASE j # k
    <2>1. InLoop(j) /\ InLoop(j)'
      BY <1>2 DEF InLoop, LoopBlockKinds
    <2>2. (Before(k) /\ Before(k)') \/ (After(k) /\ After(k)')
      <3>1. CASE k = 1
        BY <1>2, <1>4, <3>1 DEF After, Before, InLoop, LoopBlockKinds, BodyName
      <3>2. CASE k = 2
        BY <1>2, <1>4, <3>2 DEF Before, InLoop, LoopBlockKinds
      <3> QED BY <3>1, <3>2
    <2> QED BY <1>3, <2>2, VisitedOutside
  <1>5. CASE j = k
    <2>1. /\ phi[1] \in Int /\ phi[2] \in Int /\ Steps(k) \in Int
          /\ req.iterations \in Nat /\ req.iterations >= 2
          /\ loops[k].start = IF k = 1 THEN 0 ELSE req.iterations - 1
          /\ Steps(k) \in 0 .. (req.iterations - 1) =>
               LatchStep(loops[k], phi[k]) = IF k = 1 THEN phi[1] + 1 ELSE phi[2] - 1
      BY <1>3, LoopArithmetic
    <2>2. phi \in I64 \X I64 /\ req' = req
      BY DEF Ready, Memory, buildVars
    <2>3. CASE Entering(k)
      <3>1. phi'[k] = loops[k].start /\ visited[k] = <<>>
        BY <1>1, <1>5, <2>2, <2>3 DEF Visited
      <3>2. Steps(k)' = 0
        BY <2>1, <2>2, <3>1 DEF Steps
      <3>3. Visits(k, 0)' = <<>>
        <4>1. 1 .. 0 = {}
          OBVIOUS
        <4> QED BY <4>1 DEF Visits
      <3>4. visited'[k] = Visits(k, Steps(k))'
        BY <1>3, <3>1, <3>2, <3>3
      <3> QED BY <1>2, <1>5, <2>1, <2>2, <3>2, <3>4, VisitedAtHeader
    <2>4. CASE ~Entering(k)
      <3>1. phi'[k] = LatchStep(loops[k], phi[k])
        BY <1>1, <1>5, <2>2, <2>4
      <3>2. Steps(k) \in 0 .. (req.iterations - 1) /\ visited[k] = Visits(k, Steps(k) + 1)
        BY <1>1, <1>2, <1>5, <2>4 DEF Visited
      <3>3. Steps(k)' = Steps(k) + 1
        BY <2>1, <2>2, <3>1, <3>2 DEF Steps
      <3>4. Steps(k)' \in 0 .. req.iterations'
        BY <2>1, <2>2, <3>2, <3>3
      <3>5. visited'[k] = Visits(k, Steps(k))'
        BY <1>3, <2>2, <3>2, <3>3 DEF Visits
      <3> QED BY <1>2, <1>5, <3>4, <3>5, VisitedAtHeader
    <2> QED BY <2>3, <2>4
  <1> QED BY <1>4, <1>5

\* The call of the loop passes its iterator.
LEMMA VisitedByCall ==
  ASSUME Ready, Supported(req), UNCHANGED buildVars, Call, Visited(1), Visited(2),
         status' # "fault", NEW k \in {1, 2}
  PROVE  Visited(k)'
  <1>1. PICK j \in {1, 2} :
          /\ at = B(BodyName(j)) /\ next = 1 /\ GoesOn(CallServed(j))
          /\ CallServed(j) => visited' = [visited EXCEPT ![j] = Append(visited[j], phi[j])]
    BY CallIs
  <1>2. /\ visited' = [visited EXCEPT ![j] = Append(visited[j], phi[j])]
        /\ next' = 2 /\ at' = at /\ phi' = phi /\ req' = req /\ status # "building"
    BY <1>1 DEF GoesOn, Call, Executes, buildVars
  <1>3. Block = BodyName(j) /\ Block' = BodyName(j)
    BY <1>1, <1>2, NameParts DEF Block
  <1>4. CASE j # k
    <2>1. (Before(k) /\ Before(k)') \/ (After(k) /\ After(k)')
      <3>1. CASE k = 1
        BY <1>3, <1>4, <3>1 DEF After, Before, InLoop, LoopBlockKinds, BodyName
      <3>2. CASE k = 2
        BY <1>3, <1>4, <3>2 DEF Before, InLoop, LoopBlockKinds, BodyName
      <3> QED BY <3>1, <3>2
    <2>2. visited'[k] = visited[k]
      BY <1>2, <1>4 DEF Ready, Histories
    <2> QED BY <2>1, <2>2, VisitedOutside
  <1>5. CASE j = k
    <2>1. Steps(k) \in 0 .. (req.iterations - 1) /\ visited[k] = Visits(k, Steps(k))
      BY <1>1, <1>3, <1>5 DEF Visited
    <2>2. req.iterations \in Nat
      BY <1>2, LoopArithmetic
    <2>3. Steps(k) \in Nat
      BY <2>1, <2>2
    <2>4. visited'[k] = Visits(k, Steps(k) + 1)
      BY <1>2, <1>5, <2>1, <2>3, VisitsGrow DEF Ready, Histories
    <2>5. Steps(k)' = Steps(k)
      BY <1>2 DEF Steps
    <2>6. visited'[k] = Visits(k, Steps(k) + 1)'
      BY <1>2, <2>4, <2>5 DEF Visits
    <2> QED BY <1>2, <1>3, <1>5, <2>1, <2>5, <2>6, VisitedInBody
  <1> QED BY <1>4, <1>5


\* A branch that stays on one side of the loop, enters it, goes round or leaves it.
LEMMA VisitedByBranch ==
  ASSUME Ready, Supported(req), UNCHANGED buildVars, Branch, Visited(1), Visited(2),
         NEW k \in {1, 2}
  PROVE  Visited(k)'
  <1>1. /\ visited' = visited /\ phi' = phi /\ next' = 1 /\ from' = at /\ req' = req
        /\ status # "building"
    BY BranchIs DEF Branch, Executes, buildVars
  <1>2. Visited(k) /\ Steps(k)' = Steps(k) /\ \A m : Visits(k, m)' = Visits(k, m)
    BY <1>1 DEF Steps, Visits
  <1>3. ASSUME (Before(k) /\ Before(k)') \/ (After(k) /\ After(k)') PROVE Visited(k)'
    BY <1>1, <1>2, <1>3, VisitedOutside
  <1>4. CASE \/ Block = "setup" /\ Block' = "se.setup"
             \/ Block = "se.setup" /\ Block' = "call1.setup"
    BY <1>3, <1>4 DEF Before
  <1>5. CASE \/ Block = "teardown" /\ Block' = "exit"
             \/ Block = "se.start.teardown" /\ Block' \in {"cond", "se.end.teardown"}
             \/ Block = "se.end.teardown" /\ Block' = "teardown"
    <2>1. After(k) /\ After(k)'
      BY <1>5 DEF After, Before, InLoop, LoopBlockKinds, BodyName
    <2> QED BY <1>3, <2>1
  <1>6. CASE at = B(PreName(k)) /\ Block = PreName(k) /\ Block' = "hdr" /\ Number' = k
    <2>1. Before(k)
      BY <1>6 DEF Before, PreName
    <2>2. Entering(k)'
      <3>1. B(PreName(k)) = Names(k).pre
        BY DEF PreName, Names
      <3>2. Names(k).pre' = Names(k).pre
        BY DEF Names
      <3> QED BY <1>1, <1>6, <3>1, <3>2 DEF Entering
    <2>3. visited'[k] = <<>>
      BY <1>1, <1>2, <2>1 DEF Visited
    <2> QED BY <1>1, <1>6, <2>2, <2>3, VisitedAtHeader
  <1>7. CASE Block = BodyName(k) /\ next = 2 /\ Block' = "latch" /\ Number' = k
    <2>1. Steps(k) \in 0 .. (req.iterations - 1) /\ visited[k] = Visits(k, Steps(k) + 1)
      BY <1>2, <1>7 DEF Visited
    <2>2. Steps(k)' \in 0 .. (req.iterations - 1)' /\ visited'[k] = Visits(k, Steps(k) + 1)'
      BY <1>1, <1>2, <2>1 DEF Visits
    <2> QED BY <1>7, <2>2, VisitedAtEnd
  <1>8. CASE at = <<"latch", k>> /\ Block = "latch" /\ Number = k /\ Block' = "hdr" /\ Number' = k
    <2>1. Steps(k) \in 0 .. (req.iterations - 1) /\ visited[k] = Visits(k, Steps(k) + 1)
      BY <1>2, <1>8 DEF Visited
    <2>2. Steps(k)' \in 0 .. (req.iterations - 1)' /\ visited'[k] = Visits(k, Steps(k) + 1)'
      BY <1>1, <1>2, <2>1 DEF Visits
    <2>3. ~Entering(k)'
      <3>1. <<"latch", k>> # Names(k).pre'
        BY DEF Names, B
      <3> QED BY <1>1, <1>8, <3>1 DEF Entering
    <2> QED BY <1>1, <1>8, <2>2, <2>3, VisitedAtHeader
  <1>9. CASE Block = "loop.exit" /\ Number = k /\ Block' = PostName(k)
    <2>1. visited'[k] = Visits(k, req.iterations)'
      BY <1>1, <1>2, <1>9 DEF Visited, Visits
    <2>2. After(k)'
      BY <1>9 DEF After, Before, InLoop, LoopBlockKinds, BodyName, PostName
    <2> QED BY <2>1, <2>2, VisitedAfter
  <1>10. ASSUME NEW j \in {1, 2}, Block = PostName(j), Block' = AfterLoop(j) PROVE Visited(k)'
    <2>1. (Before(k) /\ Before(k)') \/ (After(k) /\ After(k)')
      BY <1>10 DEF After, Before, InLoop, LoopBlockKinds, BodyName, PostName, AfterLoop
    <2> QED BY <1>3, <2>1
  <1>11. ASSUME NEW j \in {1, 2}, j # k,
                \/ Block = PreName(j) /\ Block' = "hdr" /\ Number' = j
                \/ Block = BodyName(j) /\ Block' = "latch" /\ Number' = j
                \/ Block = "latch" /\ Number = j /\ Block' = "hdr" /\ Number' = j
                \/ Block = "loop.exit" /\ Number = j /\ Block' = PostName(j)
         PROVE  Visited(k)'
    <2>1. CASE k = 1
      <3>1. j = 2
        BY <1>11, <2>1
      <3>2. After(1) /\ After(1)'
        BY <1>11, <3>1 DEF After, Before, InLoop, LoopBlockKinds, BodyName, PreName, PostName
      <3> QED BY <1>3, <2>1, <3>2
    <2>2. CASE k = 2
      <3>1. j = 1
        BY <1>11, <2>2
      <3>2. Before(2) /\ Before(2)'
        BY <1>11, <3>1 DEF Before, InLoop, LoopBlockKinds, BodyName, PreName, PostName
      <3> QED BY <1>3, <2>2, <3>2
    <2> QED BY <2>1, <2>2
  <1>12. ASSUME NEW j \in {1, 2},
                \/ at = B(PreName(j)) /\ Block = PreName(j) /\ Block' = "hdr" /\ Number' = j
                \/ Block = BodyName(j) /\ next = 2 /\ Block' = "latch" /\ Number' = j
                \/ at = <<"latch", j>> /\ Block = "latch" /\ Number = j /\ Block' = "hdr" /\ Number' = j
                \/ Block = "loop.exit" /\ Number = j /\ Block' = PostName(j)
                \/ Block = PostName(j) /\ Block' = AfterLoop(j)
         PROVE  Visited(k)'
    <2>1. CASE j = k
      BY <1>6, <1>7, <1>8, <1>9, <1>10, <1>12, <2>1
    <2>2. CASE j # k
      BY <1>10, <1>11, <1>12, <2>2
    <2> QED BY <2>1, <2>2
  <1> QED BY <1>4, <1>5, <1>12, EdgeBlocks

\* The header goes on to the body until the iterations are done.
LEMMA VisitedByBranchOn ==
  ASSUME Ready, Supported(req), UNCHANGED buildVars, BranchOn, Visited(1), Visited(2),
         NEW k \in {1, 2}
  PROVE  Visited(k)'
  <1>1. /\ visited' = visited /\ phi' = phi /\ next = 2 /\ next' = 1 /\ req' = req
        /\ status # "building"
    BY BranchOnIs DEF BranchOn, Executes, buildVars
  <1>2. Visited(k) /\ Steps(k)' = Steps(k) /\ \A m : Visits(k, m)' = Visits(k, m)
    BY <1>1 DEF Steps, Visits
  <1>3. ASSUME (Before(k) /\ Before(k)') \/ (After(k) /\ After(k)') PROVE Visited(k)'
    BY <1>1, <1>2, <1>3, VisitedOutside
  <1>4. CASE Block = "cond"
    <2>1. Block' \in {"cond", "fail", "se.end.teardown"}
      <3>1. \A j \in {1, 2} : at # <<"hdr", j>>
        BY <1>4 DEF Block
      <3>2. PICK i \in OutboundArgs : at' \in {NextCond(i), Fail(i)}
        BY <3>1, BranchOnIs
      <3>3. NextCond(i)[1] \in {"cond", "se.end.teardown"}
        <4>1. i \in Nat
          BY ParamFacts DEF OutboundArgs, Ready
        <4> QED BY <4>1, NextCondIs, NameParts DEF Ready
      <3> QED BY <3>2, <3>3, NameParts DEF Block
    <2>2. After(k) /\ After(k)'
      BY <1>4, <2>1 DEF After, Before, InLoop, LoopBlockKinds, BodyName
    <2> QED BY <1>3, <2>2
  <1>5. ASSUME NEW j \in {1, 2}, at = <<"hdr", j>>,
               at' = IF HdrTaken(loops[j], phi[j]) THEN B(BodyName(j)) ELSE <<"loop.exit", j>>
        PROVE  Visited(k)'
    <2>1. Block = "hdr" /\ Number = j
      BY <1>5 DEF Block, Number
    <2>2. Block' = BodyName(j) \/ (Block' = "loop.exit" /\ Number' = j)
      BY <1>5, NameParts DEF Block, Number
    <2>3. CASE j # k
      <3>1. (Before(k) /\ Before(k)') \/ (After(k) /\ After(k)')
        <4>1. CASE k = 1
          BY <2>1, <2>2, <2>3, <4>1 DEF After, Before, InLoop, LoopBlockKinds, BodyName
        <4>2. CASE k = 2
          BY <2>1, <2>2, <2>3, <4>2 DEF Before, InLoop, LoopBlockKinds, BodyName
        <4> QED BY <4>1, <4>2
      <3> QED BY <1>3, <3>1
    <2>4. CASE j = k
      <3>1. /\ req.iterations \in Nat /\ Steps(k) \in Int
            /\ HdrTaken(loops[k], phi[k]) <=> Steps(k) < req.iterations
        BY <1>1, LoopArithmetic
      <3>2. Steps(k) \in 0 .. req.iterations /\ visited[k] = Visits(k, Steps(k))
        BY <1>1, <1>2, <2>1, <2>4 DEF Visited
      <3>3. CASE Steps(k) < req.iterations
        <4>1. Block' = BodyName(k)
          BY <1>5, <2>4, <3>1, <3>3, NameParts DEF Block
        <4>2. Steps(k)' \in 0 .. (req.iterations - 1)' /\ visited'[k] = Visits(k, Steps(k))'
          BY <1>1, <1>2, <3>1, <3>2, <3>3 DEF Visits
        <4> QED BY <1>1, <4>1, <4>2, VisitedInBody
      <3>4. CASE ~(Steps(k) < req.iterations)
        <4>1. Block' = "loop.exit" /\ Number' = k
          BY <1>5, <2>4, <3>1, <3>4 DEF Block, Number
        <4>2. visited'[k] = Visits(k, req.iterations)'
          <5>1. Steps(k) = req.iterations
            BY <3>1, <3>2, <3>4
          <5> QED BY <1>1, <3>2, <5>1 DEF Visits
        <4> QED BY <4>1, <4>2, VisitedAtEnd
      <3> QED BY <3>3, <3>4
    <2> QED BY <2>3, <2>4
  <1> QED BY <1>4, <1>5, BranchOnIs, NameParts DEF Block


\* Every step keeps account of the calls of both loops.
LEMMA VisitedKept ==
  ASSUME Ready, Supported(req), Next, status' \notin {"building", "fault"},
         status # "building" => Allocated /\ Visited(1) /\ Visited(2), NEW k \in {1, 2}
  PROVE  Visited(k)'
  <1>1. CASE Build
    BY <1>1 DEF Build, runVars
  <1>2. CASE UNCHANGED buildVars /\ Start
    <2>1. visited' = << <<>>, <<>> >> /\ at' = B("setup")
      BY <1>2, SupportedEntry DEF Start, Ready, Control
    <2>2. Before(k)' /\ visited'[k] = <<>>
      BY <2>1, NameParts DEF Before, Block
    <2> QED BY <2>2, VisitedBefore
  <1>3. CASE UNCHANGED buildVars /\ status = "running" /\ (Allocate \/ Symbolic \/ Copy)
    <2>1. Before(k) /\ Before(k)' /\ visited' = visited
      BY <1>3, PlainBlocks DEF Before, Allocate, Symbolic, Copy
    <2> QED BY <1>3, <2>1, VisitedOutside
  <1>4. CASE UNCHANGED buildVars /\ status = "running" /\ (Compare \/ Free \/ AssertFail \/ Return)
    <2>1. /\ Block \in {"cond", "teardown", "fail", "exit", "entry"} /\ Block' = Block
          /\ visited' = visited
      BY <1>4, PlainBlocks DEF Compare, Free, AssertFail, Return, Block
    <2>2. After(k) /\ After(k)'
      BY <2>1 DEF After, Before, InLoop, LoopBlockKinds, BodyName
    <2> QED BY <1>4, <2>1, <2>2, VisitedOutside
  <1>5. CASE UNCHANGED buildVars /\ status = "running" /\ InductionPhi
    BY <1>5, VisitedByPhi
  <1>6. CASE UNCHANGED buildVars /\ status = "running" /\ Call
    BY <1>6, VisitedByCall
  <1>7. CASE UNCHANGED buildVars /\ status = "running" /\ Branch
    BY <1>7, VisitedByBranch
  <1>8. CASE UNCHANGED buildVars /\ status = "running" /\ BranchOn
    BY <1>8, VisitedByBranchOn
  <1> QED BY <1>1, <1>2, <1>3, <1>4, <1>5, <1>6, <1>7, <1>8, NextKinds

-----------------------------------------------------------------------------
(***************************************************************************)
(* True reports: the inputs of the two loops.                              *)
(***************************************************************************)

\* Where loop 1 has been entered and loop 2 has not.
Between == Before(2) /\ ~Before(1) /\ ~Entering(1)

\* The objects of the two copies of an argument.
LEMMA CopiesThere ==
  ASSUME Ready, NEW i \in 1 .. NumParams
  PROVE  /\ Obj(i, 1) \in Objects /\ SecondCopy(i) \in Objects
         /\ Obj(i, 1)[1] = i /\ SecondCopy(i)[1] = i
         /\ i \in OutboundArgs => SecondCopy(i) = Obj(i, 2)
         /\ i \notin OutboundArgs => SecondCopy(i) = Obj(i, 1)
  BY DEF SecondCopy, Obj, Objects, OutboundArgs

\* What a loop sees stays as long as the memory does.
LEMMA ViewStays ==
  ASSUME UNCHANGED buildVars, mem' = mem PROVE \A k \in {1, 2} : View(k)' = View(k)
  <1>1. NumParams' = NumParams /\ \A i : SecondCopy(i)' = SecondCopy(i)
    BY RunStable
  <1> QED BY <1>1 DEF View

\* From loop 1 to loop 2 the inputs of the latter are those of the former.
LEMMA IsolatedBetween ==
  ASSUME Isolated, UNCHANGED buildVars, entry' = entry, View(2)' = View(2), Between,
         Block' \notin {"setup", "se.setup", "call1.setup"}, ~Entering(1)',
         Before(2)' \/ Entering(2)'
  PROVE  Isolated'
  <1>1. entry[1] = View(2) /\ entry[2] = <<>>
    BY DEF Isolated, Between
  <1> QED BY <1>1 DEF Isolated

\* After that they stay as they were.
LEMMA IsolatedAfter ==
  ASSUME entry'[2] # <<>> => entry'[2] = entry'[1],
         Block' \notin {"setup", "se.setup", "call1.setup"}, ~Entering(1)',
         ~Before(2)', ~Entering(2)'
  PROVE  Isolated'
  BY DEF Isolated

\* The header of a loop records what it sees when it is entered.
LEMMA IsolatedByPhi ==
  ASSUME Ready, Isolated, UNCHANGED buildVars, InductionPhi PROVE Isolated'
  <1>1. PICK j \in {1, 2} :
          /\ at = <<"hdr", j>> /\ next = 1 /\ GoesOn(TRUE)
          /\ entry' = [entry EXCEPT ![j] = IF Entering(j) THEN View(j) ELSE entry[j]]
    BY PhiIs
  <1>2. /\ Block = "hdr" /\ Number = j /\ Block' = "hdr" /\ Number' = j /\ next' = 2
        /\ ~Entering(1)' /\ ~Entering(2)'
    BY <1>1 DEF GoesOn, Block, Number, Entering
  <1>3. View(1)' = View(1) /\ View(2)' = View(2) /\ DOMAIN entry = {1, 2}
    BY ViewStays DEF InductionPhi, Ready, Histories
  <1>4. CASE j = 1
    <2>1. /\ Before(2) /\ ~Before(1) /\ Before(2)'
          /\ ~Before(1)'
      BY <1>2, <1>4 DEF Before, InLoop, LoopBlockKinds, BodyName
    <2>2. entry'[1] = View(2)'
      <3>1. CASE Entering(1)
        BY <1>1, <1>3, <1>4, <3>1 DEF Isolated
      <3>2. CASE ~Entering(1)
        BY <1>1, <1>3, <1>4, <2>1, <3>2 DEF Isolated
      <3> QED BY <3>1, <3>2
    <2>3. entry'[2] = <<>>
      BY <1>1, <1>3, <1>4, <2>1 DEF Isolated
    <2> QED BY <1>2, <2>1, <2>2, <2>3 DEF Isolated
  <1>5. CASE j = 2
    <2>1. ~Before(2)'
      BY <1>2, <1>5 DEF Before, InLoop, LoopBlockKinds, BodyName
    <2>2. entry'[2] # <<>> => entry'[2] = entry'[1]
      <3>1. CASE Entering(2)
        BY <1>1, <1>3, <1>5, <3>1 DEF Isolated
      <3>2. CASE ~Entering(2)
        BY <1>1, <1>3, <1>5, <3>2 DEF Isolated
      <3> QED BY <3>1, <3>2
    <2> QED BY <1>2, <2>1, <2>2, IsolatedAfter
  <1> QED BY <1>4, <1>5

\* A call of loop 1 leaves the second copies, and what is not outbound, alone.
LEMMA IsolatedByCall ==
  ASSUME Ready, Isolated, Allocated, Truthful, UNCHANGED buildVars, Call PROVE Isolated'
  <1>1. PICK j \in {1, 2} :
          /\ at = B(BodyName(j)) /\ next = 1
          /\ \A q \in DOMAIN mem :
               \/ mem'[q] = mem[q]
               \/ \E i \in (2 .. NumParams) \cap Writes(kernel) : Param(i).ptr /\ q = CallMemory(i, j)
    BY CallIs
  <1>2. /\ Block = BodyName(j) /\ Block' = BodyName(j) /\ entry' = entry
        /\ ~Entering(1)' /\ ~Entering(2)'
    <2>1. Block = BodyName(j) /\ at' = at /\ entry' = entry
      BY <1>1, NameParts DEF Block, Call, Proceed
    <2> QED BY <2>1 DEF Block, Entering, BodyName
  <1>3. CASE j = 1
    <2>1. Between /\ Before(2)'
      BY <1>2, <1>3 DEF Between, Before, Entering, InLoop, LoopBlockKinds, BodyName
    <2>2. NumParams \in Nat /\ live = Objects /\ Objects \subseteq DOMAIN mem
      BY <1>2, ParamFacts DEF Allocated, Ready, Memory, BodyName
    <2>3. ASSUME NEW p \in 1 .. NumParams PROVE mem'[SecondCopy(p)] = mem[SecondCopy(p)]
      <3>1. SecondCopy(p) \in DOMAIN mem
        BY <2>2, CopiesThere
      <3>2. ASSUME NEW i \in (2 .. NumParams) \cap Writes(kernel), Param(i).ptr
            PROVE  SecondCopy(p) # CallMemory(i, 1)
        <4>1. isOutbound(Direction(i)) /\ i \in 1 .. NumParams
          BY <2>2, <3>2 DEF Truthful
        <4>2. CallMemory(i, 1) = <<i, 1>>
          BY DEF CallMemory, Obj
        <4>3. SecondCopy(p) = IF isOutbound(Direction(p)) THEN <<p, 2>> ELSE <<p, 1>>
          BY DEF SecondCopy, Obj
        <4> QED BY <4>1, <4>2, <4>3
      <3> QED BY <1>1, <1>3, <3>1, <3>2
    <2>4. View(2)' = View(2)
      <3>1. NumParams' = NumParams /\ \A i : SecondCopy(i)' = SecondCopy(i)
        BY RunStable
      <3> QED BY <2>3, <3>1 DEF View
    <2> QED BY <1>2, <2>1, <2>4, IsolatedBetween DEF BodyName
  <1>4. CASE j = 2
    <2>1. ~Before(2)'
      BY <1>2, <1>4 DEF Before, InLoop, LoopBlockKinds, BodyName
    <2> QED BY <1>2, <2>1, IsolatedAfter DEF Isolated, BodyName
  <1> QED BY <1>3, <1>4


\* se.setup makes nothing symbolic that it has copied, and leaves alone what is
\* only outbound.
LEMMA IsolatedBySetup ==
  ASSUME Ready, Isolated, Allocated, UNCHANGED buildVars, Symbolic \/ Copy PROVE Isolated'
  <1>1. /\ Block = "se.setup" /\ Block' = "se.setup" /\ entry' = entry /\ live = Objects
        /\ Objects \subseteq DOMAIN mem /\ req \in Requests
    BY PlainBlocks DEF Symbolic, Copy, Allocated, Ready, Memory
  <1>2. PICK o \in Objects :
          /\ next \in 1 .. Len(SymbolizeCode) /\ WrittenObject(SymbolizeCode[next]) = o
          /\ next' = next + 1
          /\ \A q \in DOMAIN mem : q # o => mem'[q] = mem[q]
          /\ \A i \in OutboundArgs :
               SymbolizeCode[next] = CopyInst(i) => mem'[Obj(i, 1)] = mem'[Obj(i, 2)]
    <2>1. CASE Symbolic
      <3>1. PICK o \in Objects :
              /\ next \in 1 .. Len(SymbolizeCode)
              /\ SymbolizeCode[next] = Symbolize(o, AllocSize(o[1]))
              /\ GoesOn(o \in live)
              /\ \A q \in DOMAIN mem : q # o => mem'[q] = mem[q]
        BY <2>1, SymbolicIs
      <3>2. /\ WrittenObject(SymbolizeCode[next]) = o
            /\ \A i \in OutboundArgs : SymbolizeCode[next] # CopyInst(i)
        BY <3>1 DEF WrittenObject, Symbolize, CopyInst, Memcpy
      <3>3. next' = next + 1
        BY <1>1, <3>1 DEF GoesOn
      <3> QED BY <3>1, <3>2, <3>3
    <2>2. CASE Copy
      <3>1. PICK i \in OutboundArgs :
              /\ next \in 1 .. Len(SymbolizeCode)
              /\ SymbolizeCode[next] = CopyInst(i)
              /\ Obj(i, 1) \in Objects /\ Obj(i, 2) \in Objects
              /\ GoesOn(Obj(i, 1) \in live /\ Obj(i, 2) \in live)
              /\ \A q \in DOMAIN mem : q # Obj(i, 2) => mem'[q] = mem[q]
              /\ Obj(i, 1) \in live /\ Obj(i, 2) \in live => mem'[Obj(i, 2)] = mem[Obj(i, 1)]
        BY <2>2, CopyIs
      <3>2. WrittenObject(SymbolizeCode[next]) = Obj(i, 2)
        BY <3>1 DEF WrittenObject, CopyInst, Memcpy
      <3>3. next' = next + 1
        BY <1>1, <3>1 DEF GoesOn
      <3>4. Obj(i, 1) # Obj(i, 2) /\ Obj(i, 1) \in DOMAIN mem
        BY <1>1, <3>1 DEF Obj
      <3>5. mem'[Obj(i, 1)] = mem'[Obj(i, 2)]
        BY <1>1, <3>1, <3>4
      <3>6. \A k : CopyInst(k) = CopyInst(i) => k = i
        <4>1. \A k : CopyInst(k).dst = <<k, 2>>
          BY DEF CopyInst, Memcpy, Obj
        <4>2. \A k : CopyInst(k) = CopyInst(i) => <<k, 2>> = <<i, 2>>
          BY <4>1
        <4> QED BY <4>2
      <3> QED BY <3>1, <3>2, <3>3, <3>5, <3>6
    <2> QED BY <2>1, <2>2
  <1>3. ~isOnlyOutbound(Direction(o[1]))
    BY <1>1, <1>2, SymbolizeCodeIs
  <1>4. ASSUME NEW q \in Objects, isOnlyOutbound(Direction(q[1])) PROVE mem'[q] = Unwritten(q)
    <2>1. q # o /\ q \in DOMAIN mem
      BY <1>1, <1>3, <1>4
    <2> QED BY <1>1, <1>2, <1>4, <2>1 DEF Isolated
  <1>5. ASSUME NEW i \in OutboundArgs, NEW p \in 1 .. next, SymbolizeCode[p] = CopyInst(i)
        PROVE  mem'[Obj(i, 1)] = mem'[Obj(i, 2)]
    <2>1. CASE p = next
      BY <1>2, <1>5, <2>1
    <2>2. CASE p # next
      <3>1. Len(SymbolizeCode) \in Nat
        BY <1>1, CodeDomains, ReadyToRun DEF Ready, Symbolic, Copy, Executes
      <3>2. p \in 1 .. (next - 1) /\ p \in 1 .. Len(SymbolizeCode) /\ p < next
        BY <1>2, <2>2, <3>1
      <3>3. SymbolizeCode[p].op = "memcpy" /\ WrittenObject(SymbolizeCode[p]) = Obj(i, 2)
        BY <1>5 DEF CopyInst, Memcpy, WrittenObject
      <3>4. Obj(i, 2)[1] # o[1]
        BY <1>1, <1>2, <3>2, <3>3, SymbolizeCodeIs
      <3>5. /\ Obj(i, 1) # o /\ Obj(i, 2) # o
            /\ Obj(i, 1) \in DOMAIN mem /\ Obj(i, 2) \in DOMAIN mem
        BY <1>1, <3>4 DEF Obj, Objects, OutboundArgs
      <3>6. mem[Obj(i, 1)] = mem[Obj(i, 2)]
        BY <1>1, <1>5, <3>2 DEF Isolated
      <3> QED BY <1>2, <3>5, <3>6
    <2> QED BY <2>1, <2>2
  <1>6. (Before(2) /\ Before(1) /\ ~Entering(1) /\ ~Entering(2))' /\ Before(2) /\ ~Between
    BY <1>1 DEF Before, Entering, Between
  <1>7. entry'[2] = <<>>
    BY <1>1, <1>6 DEF Isolated
  <1>8. /\ Objects' = Objects /\ OutboundArgs' = OutboundArgs /\ SymbolizeCode' = SymbolizeCode
        /\ \A i : Direction(i)' = Direction(i) /\ CopyInst(i)' = CopyInst(i)
        /\ \A q : Unwritten(q)' = Unwritten(q)
    BY RunStable
  <1>9. (next + 1) - 1 = next
    BY <1>2
  <1>10. \A q \in Objects' : isOnlyOutbound(Direction(q[1])') => mem'[q] = Unwritten(q)'
    BY <1>4, <1>8
  <1>11. \A i \in OutboundArgs' : \A p \in 1 .. (next' - 1) :
           SymbolizeCode'[p] = CopyInst(i)' => mem'[Obj(i, 1)] = mem'[Obj(i, 2)]
    BY <1>2, <1>5, <1>8, <1>9
  <1> QED BY <1>1, <1>6, <1>7, <1>10, <1>11 DEF Isolated

\* At the end of se.setup both copies of every argument are the same.
LEMMA CopiesAgree ==
  ASSUME Ready, Isolated, Allocated, Block = "se.setup", next = Len(SymbolizeCode) + 1,
         Len(SymbolizeCode) \in Nat
  PROVE  View(1) = View(2)
  <1>1. ASSUME NEW i \in 1 .. NumParams PROVE mem[Obj(i, 1)] = mem[SecondCopy(i)]
    <2>1. /\ Obj(i, 1) \in Objects /\ SecondCopy(i) \in Objects
          /\ Obj(i, 1)[1] = i /\ SecondCopy(i)[1] = i
          /\ i \in OutboundArgs => SecondCopy(i) = Obj(i, 2)
          /\ i \notin OutboundArgs => SecondCopy(i) = Obj(i, 1)
      BY CopiesThere
    <2>2. CASE i \notin OutboundArgs
      BY <2>1, <2>2
    <2>3. CASE isOnlyOutbound(Direction(i))
      <3>1. Unwritten(Obj(i, 1)) = Unwritten(SecondCopy(i))
        BY <2>1 DEF Unwritten
      <3> QED BY <2>1, <2>3, <3>1 DEF Isolated
    <2>4. CASE i \in OutboundArgs /\ ~isOnlyOutbound(Direction(i))
      <3>1. PICK p \in 1 .. Len(SymbolizeCode) : SymbolizeCode[p] = CopyInst(i)
        BY <2>4, SymbolizeCodeIs DEF Ready
      <3>2. p \in 1 .. (next - 1)
        BY <3>1
      <3> QED BY <2>1, <2>4, <3>1, <3>2 DEF Isolated
    <2> QED BY <2>2, <2>3, <2>4
  <1> QED BY <1>1 DEF View


\* A branch leads from one part to the next with the memory as it is.
LEMMA IsolatedByBranch ==
  ASSUME Ready, Isolated, Allocated, Allocated', UNCHANGED buildVars, Branch PROVE Isolated'
  <1>1. mem' = mem /\ entry' = entry /\ live' = live /\ next' = 1 /\ from' = at
    BY BranchIs DEF Branch
  <1>2. View(1)' = View(1) /\ View(2)' = View(2)
    BY <1>1, ViewStays
  <1>3. Before(2) => entry'[2] = <<>>
    BY <1>1 DEF Isolated
  <1>4. CASE Block = "setup" /\ Block' = "se.setup"
    <2>1. Objects' = Objects /\ \A q : Unwritten(q)' = Unwritten(q)
      BY RunStable
    <2>2. Objects \subseteq DOMAIN mem
      BY <1>1, <1>4, <2>1 DEF Allocated, Ready, Memory
    <2>3. \A q \in Objects' : mem'[q] = Unwritten(q)'
      BY <1>1, <1>4, <2>1, <2>2 DEF Isolated
    <2>4. 1 .. (1 - 1) = {}
      OBVIOUS
    <2>5. (Before(1) /\ ~Entering(1) /\ ~Entering(2))' /\ Before(2)
      BY <1>4 DEF Before, Entering
    <2> QED BY <1>1, <1>3, <1>4, <2>3, <2>4, <2>5 DEF Isolated
  <1>5. CASE Block = "se.setup" /\ next = Len(SymbolizeCode) + 1 /\ Block' = "call1.setup"
    <2>1. Len(SymbolizeCode) \in Nat
      BY CodeDomains, ReadyToRun DEF Ready, Branch, Executes
    <2>2. View(1)' = View(2)'
      BY <1>2, <1>5, <2>1, CopiesAgree
    <2>3. (Before(1) /\ ~Entering(2))' /\ Before(2) /\ ~Entering(1)'
      BY <1>5 DEF Before, Entering
    <2> QED BY <1>3, <1>5, <2>2, <2>3 DEF Isolated
  <1>6. CASE Block = "call1.setup" /\ Block' = "hdr" /\ Number' = 1
    <2>1. Before(2) /\ ~Entering(2)' /\ View(1)' = View(2)'
      BY <1>2, <1>6 DEF Before, Entering, Isolated
    <2>2. (Block = "hdr" /\ Number = 1 /\ next = 1 /\ ~Before(1))'
      BY <1>1, <1>6 DEF Before
    <2>3. Entering(1)'
      <3>1. at = B("call1.setup") /\ Names(1).pre' = B("call1.setup")
        BY <1>6, EdgeBlocks DEF PreName, BodyName, PostName, Names
      <3> QED BY <1>1, <2>2, <3>1 DEF Entering
    <2> QED BY <1>3, <1>6, <2>1, <2>3 DEF Isolated
  <1>7. CASE \/ at = B("call1.body") /\ Block = "call1.body" /\ Block' = "latch" /\ Number' = 1
             \/ at = <<"latch", 1>> /\ Block = "latch" /\ Number = 1 /\ Block' = "hdr" /\ Number' = 1
             \/ Block = "loop.exit" /\ Number = 1 /\ Block' = "call1.teardown"
             \/ Block = "call1.teardown" /\ Block' = "call2.setup"
             \/ Block = "call2.setup" /\ at = B("call2.setup") /\ Block' = "hdr" /\ Number' = 2
    <2>1. Between
      BY <1>7 DEF Between, Before, Entering, InLoop, LoopBlockKinds, BodyName
    <2>2. ~Entering(1)'
      <3>1. <<"latch", 1>> # Names(1).pre'
        BY DEF Names, B
      <3> QED BY <1>1, <1>7, <3>1 DEF Entering
    <2>3. Before(2)' \/ Entering(2)'
      <3>1. CASE Block = "call2.setup"
        <4>1. Names(2).pre' = B("call2.setup")
          BY DEF Names
        <4> QED BY <1>1, <1>7, <3>1, <4>1 DEF Entering
      <3>2. CASE Block # "call2.setup"
        BY <1>7, <3>2 DEF Before, InLoop, LoopBlockKinds, BodyName
      <3> QED BY <3>1, <3>2
    <2>4. Block' \notin {"setup", "se.setup", "call1.setup"}
      BY <1>7
    <2> QED BY <1>1, <1>2, <2>1, <2>2, <2>3, <2>4, IsolatedBetween
  <1>8. CASE \/ Block' \in {"exit", "cond", "se.end.teardown", "teardown", "call2.teardown",
                            "se.start.teardown"}
             \/ Block' = "latch" /\ Number' = 2
             \/ at = <<"latch", 2>> /\ Block' = "hdr" /\ Number' = 2
    <2>1. ~Before(2)' /\ ~Entering(1)' /\ Block' \notin {"setup", "se.setup", "call1.setup"}
      BY <1>8 DEF Before, Entering, InLoop, LoopBlockKinds, BodyName
    <2>2. ~Entering(2)'
      <3>1. <<"latch", 2>> # Names(2).pre'
        BY DEF Names, B
      <3> QED BY <1>1, <1>8, <3>1 DEF Entering
    <2> QED BY <1>1, <2>1, <2>2, IsolatedAfter DEF Isolated
  <1> QED BY <1>4, <1>5, <1>6, <1>7, <1>8, EdgeBlocks DEF PreName, BodyName, PostName, AfterLoop

\* A header of loop 1 stays between the two entries.
LEMMA IsolatedByBranchOn ==
  ASSUME Ready, Isolated, UNCHANGED buildVars, BranchOn PROVE Isolated'
  <1>1. mem' = mem /\ entry' = entry /\ next = 2 /\ next' = 1
    BY BranchOnIs DEF BranchOn
  <1>2. View(2)' = View(2)
    BY <1>1, ViewStays
  <1>3. ~Entering(1)' /\ ~Entering(2)' /\ Block' \notin {"setup", "se.setup", "call1.setup"}
    BY BranchOnBlocks DEF Entering
  <1>4. CASE Before(2)'
    <2>1. /\ Block' \in {"call1.body", "loop.exit"} /\ (Block' = "loop.exit" => Number' = 1)
      BY <1>4, BranchOnBlocks DEF Before, InLoop, LoopBlockKinds, BodyName
    <2>2. at = <<"hdr", 1>>
      <3>1. ASSUME NEW k \in {1, 2}, at = <<"hdr", k>>, at' \in {B(BodyName(k)), <<"loop.exit", k>>}
            PROVE  k = 1
        BY <2>1, <3>1, NameParts DEF Block, Number, BodyName
      <3>2. ASSUME NEW i \in OutboundArgs, at' \in {NextCond(i), Fail(i)} PROVE FALSE
        <4>1. i \in Nat
          BY ParamFacts DEF OutboundArgs, Ready
        <4> QED BY <2>1, <3>2, <4>1, NextCondIs, NameParts DEF Block, Ready
      <3> QED BY <3>1, <3>2, BranchOnIs
    <2>3. Between
      BY <1>1, <2>2 DEF Between, Before, Entering, InLoop, LoopBlockKinds, BodyName, Block, Number
    <2> QED BY <1>1, <1>2, <1>3, <1>4, <2>3, IsolatedBetween
  <1>5. CASE ~Before(2)'
    BY <1>1, <1>3, <1>5, IsolatedAfter DEF Isolated
  <1> QED BY <1>4, <1>5

\* Every step keeps the inputs of the second loop those of the first.
LEMMA IsolatedKept ==
  ASSUME Ready, Supported(req), Truthful, Next, status' # "building", Allocated',
         status # "building" => Allocated /\ Isolated
  PROVE  Isolated'
  <1>1. CASE Build
    BY <1>1 DEF Build, runVars
  <1>2. CASE UNCHANGED buildVars /\ Start
    <2>1. /\ DOMAIN mem' = {} /\ entry' = << <<>>, <<>> >> /\ at' = B("setup")
      BY <1>2, SupportedEntry DEF Start, Ready, Control
    <2>2. (Block = "setup" /\ Before(1) /\ ~Entering(1) /\ ~Entering(2))'
      BY <2>1, NameParts DEF Before, Entering, Block
    <2> QED BY <2>1, <2>2 DEF Isolated
  <1>3. CASE UNCHANGED buildVars /\ status = "running" /\ Allocate
    <2>1. PICK o \in Objects :
            /\ DOMAIN mem' = DOMAIN mem \cup {o} /\ mem'[o] = Unwritten(o)
            /\ \A q \in DOMAIN mem : q # o => mem'[q] = mem[q]
      BY <1>3, AllocateIs
    <2>2. Block = "setup" /\ Block' = "setup" /\ entry' = entry
      BY <1>3, PlainBlocks DEF Allocate
    <2>3. \A q : Unwritten(q)' = Unwritten(q)
      BY <1>3, RunStable
    <2>4. \A q \in DOMAIN mem' : mem'[q] = Unwritten(q)'
      BY <1>3, <2>1, <2>2, <2>3 DEF Isolated
    <2>5. (Before(1) /\ ~Entering(1) /\ ~Entering(2))' /\ entry'[2] = <<>>
      BY <1>3, <2>2 DEF Isolated, Before, Entering
    <2> QED BY <2>2, <2>4, <2>5 DEF Isolated
  <1>4. CASE UNCHANGED buildVars /\ status = "running" /\ (Symbolic \/ Copy)
    BY <1>4, IsolatedBySetup
  <1>5. CASE UNCHANGED buildVars /\ status = "running" /\ (Compare \/ Free \/ AssertFail \/ Return)
    <2>1. /\ Block \in {"cond", "teardown", "fail", "exit", "entry"} /\ Block' = Block
          /\ entry' = entry
      BY <1>5, PlainBlocks DEF Compare, Free, AssertFail, Return, Block
    <2>2. (~Before(2) /\ ~Entering(1) /\ ~Entering(2))'
      BY <2>1 DEF Before, InLoop, Entering, LoopBlockKinds, BodyName
    <2> QED BY <1>5, <2>1, <2>2, IsolatedAfter DEF Isolated
  <1>6. CASE UNCHANGED buildVars /\ status = "running" /\ InductionPhi
    BY <1>6, IsolatedByPhi
  <1>7. CASE UNCHANGED buildVars /\ status = "running" /\ Call
    BY <1>7, IsolatedByCall
  <1>8. CASE UNCHANGED buildVars /\ status = "running" /\ Branch
    BY <1>8, IsolatedByBranch
  <1>9. CASE UNCHANGED buildVars /\ status = "running" /\ BranchOn
    BY <1>9, IsolatedByBranchOn
  <1> QED BY <1>1, <1>2, <1>3, <1>4, <1>5, <1>6, <1>7, <1>8, <1>9, NextKinds


-----------------------------------------------------------------------------
(***************************************************************************)
(* The invariant, and what follows from it.                                *)
(***************************************************************************)

\* A run never goes back to building, and what it runs stays as it is.
LEMMA RunStays ==
  ASSUME Next, status' # "building"
  PROVE  UNCHANGED buildVars /\ kernel' = kernel
  BY DEF Next, Build, runVars, Start, Allocate, Symbolic, Copy, Compare, Free, InductionPhi, Call,
         Branch, BranchOn, AssertFail, Return

\* Whether a report is true does not change.
LEMMA TruthStays ==
  ASSUME UNCHANGED buildVars, kernel' = kernel PROVE Truthful' <=> Truthful
  <1>1. \A i : Direction(i)' = Direction(i) /\ Param(i)' = Param(i)
    BY DEF Direction, Param, buildVars
  <1> QED BY <1>1 DEF Truthful

LEMMA HarnessStep == ASSUME HarnessInv, Decided, Next PROVE HarnessInv'
  <1>1. Ready
    BY DEF HarnessInv, Ready
  <1>2. req' = req /\ req' \in Requests /\ Shape' /\ Control' /\ Memory' /\ Histories'
    BY <1>1, NextKeepsShape, ControlKept, MemoryKept, HistoriesKept DEF Ready
  <1>3. ASSUME status' # "building"
        PROVE  /\ Freed'
               /\ Supported(req') => Allocated' /\ Visited(1)' /\ Visited(2)'
               /\ Supported(req') /\ Truthful' => Isolated'
    <2>1. Freed'
      BY <1>1, <1>3, FreedKept DEF HarnessInv
    <2>2. ASSUME Supported(req) PROVE Allocated'
      BY <1>1, <1>3, <2>2, AllocatedKept DEF HarnessInv
    <2>3. ASSUME Supported(req) PROVE Visited(1)' /\ Visited(2)'
      <3>1. status' # "fault"
        BY <2>2, <2>3 DEF Allocated
      <3> QED BY <1>1, <1>3, <2>3, <3>1, VisitedKept DEF HarnessInv
    <2>4. ASSUME Supported(req), Truthful' PROVE Isolated'
      <3>1. Truthful
        BY <1>3, <2>4, RunStays, TruthStays
      <3> QED BY <1>1, <1>3, <2>2, <2>4, <3>1, IsolatedKept DEF HarnessInv
    <2> QED BY <1>2, <2>1, <2>2, <2>3, <2>4
  <1> QED BY <1>2, <1>3 DEF HarnessInv

\* Harness: the run of a harness begins with the construction of it, and changes
\* nothing that was built.
THEOREM HarnessBuilds == Spec => BuildSpec
  <1>1. HarnessInit => Init
    BY DEF HarnessInit
  <1>2. [Next]_vars => [BuildNext]_buildVars
    BY NextKinds DEF vars, Build
  <1> QED BY <1>1, <1>2, PTL DEF Spec, BuildSpec

\* Harness: a run stays within the code and the memory of the harness.  teardown
\* frees what setup took from the heap; and as far as the request is supported,
\* every block finds the objects allocated and both loops where the induction
\* variables say they are.
THEOREM HarnessInvariance == Spec => []HarnessInv
  <1>1. HarnessInit /\ Shape => HarnessInv
    <2> SUFFICES ASSUME HarnessInit, Shape PROVE HarnessInv
      OBVIOUS
    <2>1. /\ req \in Requests /\ status = "building" /\ at = B("setup") /\ next = 1
          /\ mem = [o \in {} |-> <<>>] /\ live = {} /\ phi = <<0, 0>> /\ cmp = FALSE
          /\ kernel \in Kernels /\ entry = << <<>>, <<>> >> /\ visited = << <<>>, <<>> >>
      BY DEF HarnessInit, Init
    <2>2. Control
      BY <2>1, NameParts DEF Control, Statuses, Block
    <2>3. Memory
      <3>1. 0 \in I64
        BY WidthAssumption DEF I64
      <3> QED BY <2>1, <3>1 DEF Memory
    <2>4. Histories
      BY <2>1 DEF Histories
    <2> QED BY <2>1, <2>2, <2>3, <2>4 DEF HarnessInv
  <1>2. HarnessInv /\ BuildInv /\ [Next]_vars => HarnessInv'
    <2>1. CASE HarnessInv /\ BuildInv /\ Next
      BY <2>1, HarnessStep DEF BuildInv
    <2>2. CASE HarnessInv /\ UNCHANGED vars
      <3>1. UNCHANGED buildVars /\ UNCHANGED runVars
        BY <2>2 DEF vars
      <3>2. req' = req /\ Shape'
        BY <2>2, <3>1, ShapeUnchanged DEF HarnessInv, buildVars
      <3>3. Memory'
        <4>1. phi' \in I64 \X I64 /\ cmp' \in BOOLEAN
          BY <2>2, <3>1 DEF runVars, HarnessInv, Memory
        <4> QED BY <2>2, <3>1, <4>1, MemoryUnchanged DEF runVars, HarnessInv
      <3>4. Control' /\ Histories'
        BY <2>2, <3>1 DEF buildVars, runVars, HarnessInv, Control, Histories, Block, Number, Names
      <3>5. ASSUME Freed PROVE Freed'
        BY <3>1, <3>5, RunStable DEF runVars, Freed, Block
      <3>6. ASSUME Allocated PROVE Allocated'
        BY <3>1, <3>6, RunStable DEF runVars, Allocated, Block
      <3>7. ASSUME NEW k \in {1, 2}, Visited(k) PROVE Visited(k)'
        BY <3>1, <3>2, <3>7 DEF runVars, Visited, Visits, Steps, Before, After, Entering, InLoop,
           Block, Number, Names, LoopBlockKinds, BodyName
      <3>8. ASSUME Isolated PROVE Isolated'
        <4>1. /\ Objects' = Objects /\ OutboundArgs' = OutboundArgs /\ SymbolizeCode' = SymbolizeCode
              /\ \A i : Direction(i)' = Direction(i) /\ CopyInst(i)' = CopyInst(i)
              /\ \A q : Unwritten(q)' = Unwritten(q)
          BY <3>1, RunStable
        <4>2. View(1)' = View(1) /\ View(2)' = View(2)
          BY <3>1, ViewStays DEF runVars
        <4>3. /\ Block' = Block /\ Number' = Number /\ next' = next /\ mem' = mem /\ entry' = entry
              /\ \A k \in {1, 2} : (Before(k)' <=> Before(k)) /\ (Entering(k)' <=> Entering(k))
          BY <3>1 DEF runVars, Before, Entering, InLoop, Block, Number, Names, LoopBlockKinds, BodyName
        <4> QED BY <3>8, <4>1, <4>2, <4>3 DEF Isolated
      <3>9. Truthful' <=> Truthful
        BY <3>1, TruthStays DEF runVars
      <3>10. status' = status
        BY <3>1 DEF runVars
      <3> QED BY <2>2, <3>2, <3>3, <3>4, <3>5, <3>6, <3>7, <3>8, <3>9, <3>10 DEF HarnessInv
    <2> QED BY <2>1, <2>2
  <1> QED BY <1>1, <1>2, HarnessBuilds, BuildInvariance, ShapeInvariance, PTL DEF Spec

\* Harness: every variable has its type, and every object keeps the size it was
\* allocated with.
THEOREM HarnessTypeCorrect == Spec => []HarnessTypeOK
  <1>1. HarnessInv => HarnessTypeOK
    <2> SUFFICES ASSUME HarnessInv PROVE HarnessTypeOK
      OBVIOUS
    <2>1. Control /\ Memory /\ req \in Requests
      BY DEF HarnessInv
    <2>2. ASSUME NEW o \in DOMAIN mem
          PROVE  mem[o] \in Seq(Bytes \cup {Undef}) /\ Len(mem[o]) = AllocSize(o[1])
      <3>1. mem[o] \in Contents(o[1]) /\ o[1] \in 1 .. NumParams
        BY <2>1 DEF Memory, Objects
      <3>2. AllocSize(o[1]) \in Nat
        BY <2>1, <3>1, ParamFacts
      <3>3. ASSUME NEW n \in Nat, NEW S, NEW c \in [1 .. n -> S] PROVE c \in Seq(S) /\ Len(c) = n
        OBVIOUS
      <3> QED BY <3>1, <3>2, <3>3 DEF Contents
    <2> QED BY <2>1, <2>2 DEF HarnessTypeOK, Control, Memory
  <1> QED BY <1>1, HarnessInvariance, PTL

\* encapsulateImpl: the harness of a supported request never touches memory it did
\* not allocate or has freed, frees nothing twice and indexes no array beyond its
\* end.
THEOREM SupportedNeverFaults == Spec => []NoFault
  <1>1. HarnessInv => NoFault
    BY DEF HarnessInv, NoFault, Allocated
  <1> QED BY <1>1, HarnessInvariance, PTL

\* setupHarnessArgs: a harness that returns leaves nothing on the heap.
THEOREM NothingLeaks == Spec => []LeakFree
  <1>1. HarnessInv => LeakFree
    <2> SUFFICES ASSUME HarnessInv, status = "returned", NEW o \in live PROVE ~Param(o[1]).ptr
      BY DEF LeakFree
    <2>1. Freed /\ o \in Objects
      BY DEF HarnessInv, Memory
    <2> QED BY <2>1 DEF Freed, HeapObjects
  <1> QED BY <1>1, HarnessInvariance, PTL

\* The iterators of the two loops are the same, in opposite orders.
LEMMA MirroredVisitsAre ==
  ASSUME req \in Requests
  PROVE  /\ Visits(1, req.iterations) = [j \in 1 .. req.iterations |-> j - 1]
         /\ Visits(2, req.iterations) = Reverse([j \in 1 .. req.iterations |-> j - 1])
  <1> DEFINE n == req.iterations
  <1>1. n \in Nat
    BY RequestsAssumption, WidthAssumption DEF U32
  <1>2. Visits(1, n) = [j \in 1 .. n |-> j - 1] /\ Visits(2, n) = [j \in 1 .. n |-> n - j]
    BY DEF Visits
  <1> HIDE DEF n
  <1> DEFINE s == [j \in 1 .. n |-> j - 1]
  <1>3. Len(s) = n /\ \A j \in 1 .. n : s[j] = j - 1
    BY <1>1
  <1> HIDE DEF s
  <1>4. \A j \in 1 .. n : (n - j) + 1 \in 1 .. n /\ s[(n - j) + 1] = n - j
    BY <1>1, <1>3
  <1>5. Reverse(s) = [j \in 1 .. n |-> n - j]
    BY <1>3, <1>4 DEF Reverse
  <1> QED BY <1>2, <1>5 DEF s, n

\* Past both loops all calls have been made.
LEMMA AllVisited ==
  ASSUME Visited(1), Visited(2), Block \in {"exit", "cond", "fail"}
  PROVE  /\ visited[1] = Visits(1, req.iterations) /\ visited[2] = Visits(2, req.iterations)
         /\ ~Ahead(1) /\ ~Ahead(2)
  <1>1. After(1) /\ After(2) /\ ~Ahead(1) /\ ~Ahead(2)
    BY DEF After, Ahead, Before, Entering, InLoop, LoopBlockKinds, BodyName
  <1> QED BY <1>1 DEF Visited

\* CreateLoop, createCall: when the harness of a supported request ends, the second
\* loop has passed the iterators of the first in the opposite order.
THEOREM VisitsMirrored == Spec => []MirroredVisits
  <1>1. HarnessInv => MirroredVisits
    <2> SUFFICES ASSUME HarnessInv, Supported(req), status \in {"returned", "failed"}
                 PROVE  /\ visited[1] = [j \in 1 .. req.iterations |-> j - 1]
                        /\ visited[2] = Reverse(visited[1])
      BY DEF MirroredVisits
    <2>1. Block \in {"exit", "fail"} /\ Visited(1) /\ Visited(2) /\ req \in Requests
      BY DEF HarnessInv, Allocated
    <2> QED BY <2>1, AllVisited, MirroredVisitsAre
  <1> QED BY <1>1, HarnessInvariance, PTL

\* setupHarnessArgs, createSymbolicDeclarations: as far as the report is true, the
\* reverse calls start from the inputs the forward calls had.
THEOREM InputsIsolated == Spec => []Isolation
  <1>1. HarnessInv => Isolation
    <2> SUFFICES ASSUME HarnessInv, Supported(req), entry[2] # <<>>, Truthful
                 PROVE  entry[2] = entry[1]
      BY DEF Isolation
    <2>1. status # "building"
      BY DEF HarnessInv, Control
    <2> QED BY <2>1 DEF HarnessInv, Isolated
  <1> QED BY <1>1, HarnessInvariance, PTL

-----------------------------------------------------------------------------
(***************************************************************************)
(* The harness of a true report implements the abstract check.  Both loops *)
(* run on the input, one iteration after the other, and the chain of       *)
(* comparisons goes on only as long as the results agree.                  *)
(***************************************************************************)

\* r[m] is what the first m iterations make of base.
Runs(fn, base, s, n, r) ==
  r = [m \in 0 .. n |-> IF m = 0 THEN base ELSE Effect(fn, s[m], r[m - 1])]

\* What the iterations s make of base.
Ran(fn, base, s) ==
  LET r[m \in 0 .. Len(s)] == IF m = 0 THEN base ELSE Effect(fn, s[m], r[m - 1])
  IN  r[Len(s)]

\* The arguments' memory in loop k is what its calls made of the input.
Computed(k) == ~Ahead(k) => View(k) = Ran(kernel, entry[1], visited[k])

\* What the comparisons have found.
Compared ==
  /\ Block = "cond" => \A i \in OutboundArgs : i < Number => Agree(i)
  /\ Block = "cond" /\ next = 2 => IF cmp THEN Agree(Number) ELSE Differ(Number)
  /\ Block = "fail" => Differ(Number)
  /\ Block \in {"se.end.teardown", "teardown", "exit"} => \A i \in OutboundArgs : Agree(i)

CheckInv ==
  /\ Supported(req) /\ TrueReport
  /\ status = "building" => entry[1] = <<>>
  /\ status # "building" =>
       /\ entry[1] = <<>> <=> Ahead(1)
       /\ Computed(1) /\ Computed(2) /\ Compared

\* What the runs of a function are, place by place.
LEMMA RunsAt ==
  ASSUME NEW fn, NEW base, NEW s, NEW n \in Nat, NEW r, Runs(fn, base, s, n, r)
  PROVE  /\ r[0] = base
         /\ \A m \in 1 .. n : r[m] = Effect(fn, s[m], r[m - 1])
  <1> DEFINE f == [m \in 0 .. n |-> IF m = 0 THEN base ELSE Effect(fn, s[m], r[m - 1])]
  <1>1. f[0] = base /\ \A m \in 1 .. n : f[m] = Effect(fn, s[m], r[m - 1])
    OBVIOUS
  <1>2. r = f
    BY Zenon DEF Runs
  <1> HIDE DEF f
  <1> QED BY <1>1, <1>2, Zenon

LEMMA RunsFrom ==
  ASSUME NEW fn, NEW base, NEW s, NEW n \in Nat, NEW r, DOMAIN r = 0 .. n,
         r = [m \in DOMAIN r |-> r[m]], r[0] = base,
         \A m \in 1 .. n : r[m] = Effect(fn, s[m], r[m - 1])
  PROVE  Runs(fn, base, s, n, r)
  <1> DEFINE f == [m \in 0 .. n |-> IF m = 0 THEN base ELSE Effect(fn, s[m], r[m - 1])]
  <1>1. /\ f = [m \in 0 .. n |-> f[m]] /\ f[0] = base
        /\ \A m \in 1 .. n : f[m] = Effect(fn, s[m], r[m - 1])
    OBVIOUS
  <1> HIDE DEF f
  <1>2. ASSUME NEW m \in 0 .. n PROVE r[m] = f[m]
    <2>1. m = 0 \/ m \in 1 .. n
      OBVIOUS
    <2>2. CASE m = 0
      BY <1>1, <2>2, Zenon
    <2>3. CASE m \in 1 .. n
      BY <1>1, <2>3, Zenon
    <2> QED BY <2>1, <2>2, <2>3
  <1>3. r = f
    BY <1>1, <1>2
  <1> QED BY <1>3, Zenon DEF Runs, f

LEMMA RunsExist ==
  ASSUME NEW fn, NEW base, NEW s
  PROVE  \A n \in Nat : \E r : Runs(fn, base, s, n, r)
  <1> DEFINE P == {n \in Nat : \E r : Runs(fn, base, s, n, r)}
  <1>1. 0 \in P
    <2> DEFINE r == [m \in 0 .. 0 |-> base]
    <2>1. DOMAIN r = 0 .. 0 /\ r = [m \in DOMAIN r |-> r[m]] /\ r[0] = base /\ 1 .. 0 = {}
      OBVIOUS
    <2> HIDE DEF r
    <2>2. Runs(fn, base, s, 0, r)
      BY <2>1, RunsFrom
    <2> QED BY <2>2
  <1>2. ASSUME NEW n \in Nat, n \in P PROVE n + 1 \in P
    <2>1. PICK r : Runs(fn, base, s, n, r)
      BY <1>2
    <2> DEFINE last == Effect(fn, s[n + 1], r[n])
               q == [m \in 0 .. n + 1 |-> IF m = n + 1 THEN last ELSE r[m]]
    <2>2. /\ DOMAIN q = 0 .. n + 1 /\ q = [m \in DOMAIN q |-> q[m]] /\ q[n + 1] = last
          /\ \A m \in 0 .. n : q[m] = r[m]
      <3> HIDE DEF last
      <3>1. DOMAIN q = 0 .. n + 1 /\ q = [m \in DOMAIN q |-> q[m]] /\ q[n + 1] = last
        OBVIOUS
      <3>2. ASSUME NEW m \in 0 .. n PROVE q[m] = r[m]
        <4>1. m \in 0 .. n + 1 /\ m # n + 1
          OBVIOUS
        <4> QED BY <4>1
      <3> QED BY <3>1, <3>2
    <2> HIDE DEF q
    <2>3. r[0] = base /\ \A m \in 1 .. n : r[m] = Effect(fn, s[m], r[m - 1])
      BY <2>1, RunsAt
    <2>4. ASSUME NEW m \in 1 .. n + 1 PROVE q[m] = Effect(fn, s[m], q[m - 1])
      <3>1. CASE m \in 1 .. n
        <4>1. m \in 0 .. n /\ m - 1 \in 0 .. n
          BY <3>1
        <4> QED BY <2>2, <2>3, <3>1, <4>1, Zenon
      <3>2. CASE m = n + 1
        <4>1. n \in 0 .. n /\ m - 1 = n
          BY <3>2
        <4>2. q[m - 1] = r[n]
          BY <2>2, <4>1
        <4> QED BY <2>2, <3>2, <4>2
      <3> QED BY <3>1, <3>2
    <2>5. q[0] = base
      <3>1. 0 \in 0 .. n
        OBVIOUS
      <3> QED BY <2>2, <2>3, <3>1
    <2>6. n + 1 \in Nat
      OBVIOUS
    <2>7. Runs(fn, base, s, n + 1, q)
      BY <2>2, <2>4, <2>5, <2>6, RunsFrom
    <2> QED BY <2>6, <2>7
  <1> HIDE DEF P
  <1>3. \A n \in Nat : n \in P
    BY <1>1, <1>2, SetInduction
  <1> QED BY <1>3 DEF P

\* Runs over the same iterations are the same.
LEMMA RunsAgree ==
  ASSUME NEW fn, NEW base, NEW s, NEW t, NEW n \in Nat, NEW l \in Nat, n <= l,
         \A m \in 1 .. n : s[m] = t[m],
         NEW r, Runs(fn, base, s, n, r), NEW q, Runs(fn, base, t, l, q)
  PROVE  r[n] = q[n]
  <1> DEFINE P == {m \in Nat : m <= n => r[m] = q[m]}
  <1>1. /\ r[0] = base /\ \A m \in 1 .. n : r[m] = Effect(fn, s[m], r[m - 1])
        /\ q[0] = base /\ \A m \in 1 .. l : q[m] = Effect(fn, t[m], q[m - 1])
    BY RunsAt
  <1>2. 0 \in P
    BY <1>1
  <1>3. ASSUME NEW m \in Nat, m \in P PROVE m + 1 \in P
    <2> SUFFICES ASSUME m + 1 <= n PROVE r[m + 1] = q[m + 1]
      OBVIOUS
    <2>1. m + 1 \in 1 .. n /\ m + 1 \in 1 .. l /\ (m + 1) - 1 = m /\ r[m] = q[m]
      BY <1>3
    <2>2. r[m + 1] = Effect(fn, s[m + 1], r[m]) /\ q[m + 1] = Effect(fn, t[m + 1], q[m])
      BY <1>1, <2>1
    <2>3. s[m + 1] = t[m + 1]
      BY <2>1
    <2> QED BY <2>1, <2>2, <2>3
  <1>4. \A m \in Nat : m \in P
    <2> HIDE DEF P
    <2> QED BY <1>2, <1>3, SetInduction
  <1> QED BY <1>4

LEMMA RanIs ==
  ASSUME NEW fn, NEW base, NEW s, Len(s) \in Nat
  PROVE  \E r : Runs(fn, base, s, Len(s), r) /\ Ran(fn, base, s) = r[Len(s)]
  <1> DEFINE r == CHOOSE r : r = [m \in 0 .. Len(s) |-> IF m = 0 THEN base
                                                               ELSE Effect(fn, s[m], r[m - 1])]
  <1>1. \E q : q = [m \in 0 .. Len(s) |-> IF m = 0 THEN base ELSE Effect(fn, s[m], q[m - 1])]
    <2>1. \E q : Runs(fn, base, s, Len(s), q)
      BY RunsExist
    <2> QED BY <2>1, Zenon DEF Runs
  <1>2. r = [m \in 0 .. Len(s) |-> IF m = 0 THEN base ELSE Effect(fn, s[m], r[m - 1])]
    BY <1>1, Zenon
  <1>3. Ran(fn, base, s) = r[Len(s)]
    BY DEF Ran
  <1> HIDE DEF r
  <1> QED BY <1>2, <1>3 DEF Runs

\* No iteration leaves the input as it is, and one more has its effect on what the
\* others made of it.
LEMMA RanStep ==
  ASSUME NEW fn, NEW base
  PROVE  /\ Ran(fn, base, <<>>) = base
         /\ \A s \in Seq(Int), x \in Int :
              Ran(fn, base, Append(s, x)) = Effect(fn, x, Ran(fn, base, s))
  <1>1. Ran(fn, base, <<>>) = base
    <2>1. Len(<<>>) = 0
      OBVIOUS
    <2> DEFINE s == <<>>
    <2> HIDE DEF s
    <2>2. Len(s) = 0 /\ Len(s) \in Nat
      BY <2>1 DEF s
    <2>3. PICK r : Runs(fn, base, s, 0, r) /\ Ran(fn, base, s) = r[0]
      BY <2>2, RanIs
    <2>4. r[0] = base
      BY <2>3, RunsAt
    <2>5. Ran(fn, base, s) = base
      BY <2>2, <2>3, <2>4
    <2> QED BY <2>5 DEF s
  <1>2. ASSUME NEW s \in Seq(Int), NEW x \in Int
        PROVE  Ran(fn, base, Append(s, x)) = Effect(fn, x, Ran(fn, base, s))
    <2> DEFINE t == Append(s, x)
               n == Len(s)
    <2>1. /\ n \in Nat /\ Len(t) = n + 1 /\ t[n + 1] = x
          /\ \A m \in 1 .. n : t[m] = s[m]
      BY AppendProperties
    <2> HIDE DEF t, n
    <2>2. PICK r : Runs(fn, base, s, n, r) /\ Ran(fn, base, s) = r[n]
      BY <2>1, RanIs DEF n
    <2>3. PICK q : Runs(fn, base, t, n + 1, q) /\ Ran(fn, base, t) = q[n + 1]
      BY <2>1, RanIs
    <2>4. n + 1 \in Nat /\ n <= n + 1 /\ n + 1 \in 1 .. n + 1 /\ (n + 1) - 1 = n
      BY <2>1
    <2>5. r[n] = q[n]
      BY <2>1, <2>2, <2>3, <2>4, RunsAgree
    <2>6. q[n + 1] = Effect(fn, t[n + 1], q[n])
      <3>1. \A m \in 1 .. n + 1 : q[m] = Effect(fn, t[m], q[m - 1])
        BY <2>3, <2>4, RunsAt
      <3> QED BY <2>4, <3>1
    <2> QED BY <2>1, <2>2, <2>3, <2>5, <2>6 DEF t
  <1> QED BY <1>1, <1>2

\* The abstract check computes the same.
LEMMA RanOver ==
  ASSUME NEW s PROVE Check!RunOver(s) = Ran(kernel, entry[1], s)
  BY DEF Check!RunOver, Ran

\* What a true report says of the function once the specifications are filled up.
LEMMA TrueFacts ==
  ASSUME Ready, Supported(req), TrueReport, status # "building"
  PROVE  /\ Truthful /\ Writes(kernel) \subseteq 2 .. NumParams
         /\ \A i \in Writes(kernel) : Param(i).ptr /\ i \in OutboundArgs
  <1>1. argSpecs = FillMissing(req.argSpecs, NumParams)
    BY LoopsAndArgs
  <1>2. ~Param(1).ptr
    BY DEF Supported, Param, I64Type
  <1>3. NumParams \in Nat
    BY ParamFacts DEF Ready
  <1>4. \A i \in Writes(kernel) : i \in 1 .. NumParams /\ Param(i).ptr /\ isOutbound(Direction(i))
    BY <1>1 DEF TrueReport, Direction
  <1>5. ASSUME NEW i \in Writes(kernel) PROVE i \in 2 .. NumParams
    <2>1. i \in 1 .. NumParams /\ i # 1
      BY <1>2, <1>4
    <2> QED BY <1>3, <2>1
  <1> QED BY <1>4, <1>5 DEF Truthful, OutboundArgs

\* A loop is entered at its header and nowhere else.
LEMMA AheadStays ==
  ASSUME Ready, Next, UNCHANGED buildVars, status = "running", NEW k \in {1, 2},
         ~(InductionPhi /\ Entering(k))
  PROVE  Ahead(k)' <=> Ahead(k)
  <1>1. CASE \/ Allocate \/ Symbolic \/ Copy \/ Compare \/ Free \/ AssertFail \/ Return
    <2>1. /\ Block \in {"setup", "se.setup", "cond", "teardown", "fail", "exit", "entry"}
          /\ Block' = Block
      BY <1>1, PlainBlocks DEF AssertFail, Return, Block
    <2> QED BY <2>1 DEF Ahead, Before, Entering, InLoop, LoopBlockKinds, BodyName
  <1>2. CASE InductionPhi
    <2>1. PICK j \in {1, 2} : at = <<"hdr", j>> /\ next = 1 /\ GoesOn(TRUE)
      BY <1>2, PhiIs
    <2>2. /\ Block = "hdr" /\ Number = j /\ Block' = "hdr" /\ Number' = j /\ next' = 2
          /\ ~Entering(k) /\ ~Entering(k)'
      BY <1>2, <2>1 DEF GoesOn, Block, Number, Entering
    <2> QED BY <2>2 DEF Ahead, Before, InLoop, LoopBlockKinds, BodyName
  <1>3. CASE Call
    <2>1. PICK j \in {1, 2} : at = B(BodyName(j)) /\ at' = at
      BY <1>3, CallIs DEF GoesOn
    <2>2. Block = BodyName(j) /\ Block' = BodyName(j)
      BY <2>1, NameParts DEF Block
    <2> QED BY <2>2 DEF Ahead, Before, Entering, InLoop, LoopBlockKinds, BodyName
  <1>4. CASE Branch
    <2>1. next' = 1 /\ from' = at
      BY <1>4, BranchIs
    <2>2. CASE \/ Block = "setup" /\ Block' = "se.setup"
               \/ Block = "se.setup" /\ Block' = "call1.setup"
      BY <2>2 DEF Ahead, Before
    <2>3. CASE \/ Block = "teardown" /\ Block' = "exit"
               \/ Block = "se.start.teardown" /\ Block' \in {"cond", "se.end.teardown"}
               \/ Block = "se.end.teardown" /\ Block' = "teardown"
      BY <2>3 DEF Ahead, Before, Entering, InLoop, LoopBlockKinds, BodyName
    <2>4. ASSUME NEW j \in {1, 2}, at = B(PreName(j)), Block = PreName(j), Block' = "hdr", Number' = j
          PROVE  Ahead(k)' <=> Ahead(k)
      <3>1. Entering(j)'
        <4>1. Names(j).pre' = B(PreName(j))
          BY DEF Names, PreName
        <4> QED BY <2>1, <2>4, <4>1 DEF Entering
      <3>2. Before(j)
        BY <2>4 DEF Before, PreName
      <3>3. CASE k = j
        BY <3>1, <3>2, <3>3 DEF Ahead
      <3>4. CASE k # j
        BY <2>4, <3>4 DEF Ahead, Before, Entering, InLoop, LoopBlockKinds, BodyName, PreName
      <3> QED BY <3>3, <3>4
    <2>5. ASSUME NEW j \in {1, 2}, at = <<"latch", j>>, Block = "latch", Number = j,
                 Block' = "hdr", Number' = j
          PROVE  Ahead(k)' <=> Ahead(k)
      <3>1. ~Entering(k)' /\ ~Entering(k)
        <4>1. <<"latch", j>> # Names(k).pre'
          BY DEF Names, B
        <4> QED BY <2>1, <2>5, <4>1 DEF Entering
      <3> QED BY <2>5, <3>1 DEF Ahead, Before, InLoop, LoopBlockKinds, BodyName
    <2>6. ASSUME NEW j \in {1, 2},
                 \/ Block = BodyName(j) /\ Block' = "latch" /\ Number' = j
                 \/ Block = "loop.exit" /\ Number = j /\ Block' = PostName(j)
                 \/ Block = PostName(j) /\ Block' = AfterLoop(j)
          PROVE  Ahead(k)' <=> Ahead(k)
      BY <2>6 DEF Ahead, Before, Entering, InLoop, LoopBlockKinds, BodyName, PostName, AfterLoop
    <2> QED BY <1>4, <2>2, <2>3, <2>4, <2>5, <2>6, EdgeBlocks
  <1>5. CASE BranchOn
    <2>1. next = 2 /\ ~Entering(k)
      BY <1>5, BranchOnIs DEF Entering
    <2>2. ASSUME NEW j \in {1, 2}, at = <<"hdr", j>>, at' \in {B(BodyName(j)), <<"loop.exit", j>>}
          PROVE  Ahead(k)' <=> Ahead(k)
      <3>1. /\ Block = "hdr" /\ Number = j
            /\ \/ Block' = BodyName(j)
               \/ Block' = "loop.exit" /\ Number' = j
        BY <2>2, NameParts DEF Block, Number
      <3> QED BY <2>1, <3>1 DEF Ahead, Before, Entering, InLoop, LoopBlockKinds, BodyName
    <2>3. ASSUME NEW i \in OutboundArgs, at = Cond(i), at' \in {NextCond(i), Fail(i)}
          PROVE  Ahead(k)' <=> Ahead(k)
      <3>1. i \in Nat
        BY ParamFacts DEF OutboundArgs, Ready
      <3>2. Block = "cond" /\ Block' \in {"cond", "fail", "se.end.teardown"}
        BY <2>3, <3>1, NextCondIs, NameParts DEF Block, Ready
      <3> QED BY <3>2 DEF Ahead, Before, Entering, InLoop, LoopBlockKinds, BodyName
    <2> QED BY <1>5, <2>2, <2>3, BranchOnIs
  <1>6. ~Build /\ ~Start
    BY DEF Build, Start
  <1> QED BY <1>1, <1>2, <1>3, <1>4, <1>5, <1>6 DEF Next

\* Only the entry of loop 1 chooses the input, which is that of some arguments.
LEMMA InputStays ==
  ASSUME Ready, Next, UNCHANGED buildVars, status = "running", ~(InductionPhi /\ Entering(1))
  PROVE  entry'[1] = entry[1]
  <1>1. CASE InductionPhi
    <2>1. PICK j \in {1, 2} :
            entry' = [entry EXCEPT ![j] = IF Entering(j) THEN View(j) ELSE entry[j]]
      BY <1>1, PhiIs
    <2>2. DOMAIN entry = {1, 2}
      BY DEF Ready, Histories
    <2> QED BY <1>1, <2>1, <2>2
  <1>2. CASE ~InductionPhi
    BY <1>2 DEF Next, Build, Start, Allocate, Symbolic, Copy, Compare, Free, Call, Branch, BranchOn,
                AssertFail, Return
  <1> QED BY <1>1, <1>2

LEMMA InputChosen ==
  ASSUME Ready, Supported(req), Allocated, status = "running", InductionPhi, Entering(1)
  PROVE  /\ entry'[1] = View(1) /\ View(1) \in Seq(Seq(Bytes \cup {Undef})) \ {<<>>}
         /\ Block' = "hdr" /\ Number' = 1 /\ next' = 2
  <1>1. PICK j \in {1, 2} :
          /\ at = <<"hdr", j>> /\ next = 1 /\ GoesOn(TRUE)
          /\ entry' = [entry EXCEPT ![j] = IF Entering(j) THEN View(j) ELSE entry[j]]
    BY PhiIs
  <1>2. j = 1
    BY <1>1 DEF Entering, Number
  <1>3. entry'[1] = View(1) /\ Block' = "hdr" /\ Number' = 1 /\ next' = 2
    BY <1>1, <1>2 DEF Ready, Histories, GoesOn, Block, Number
  <1>4. NumParams \in Nat /\ NumParams # 0
    <2>1. req.params \in Seq(Types) /\ req.params # <<>>
      BY RequestsAssumption DEF Ready, Supported
    <2> QED BY <2>1 DEF NumParams
  <1>5. ASSUME NEW i \in 1 .. NumParams PROVE mem[Obj(i, 1)] \in Seq(Bytes \cup {Undef})
    <2>1. Obj(i, 1) \in Objects /\ Obj(i, 1)[1] = i /\ live = Objects
      BY <1>1, CopiesThere DEF Allocated, Entering
    <2>2. mem[Obj(i, 1)] \in Contents(i) /\ AllocSize(i) \in Nat
      BY <2>1, ParamFacts DEF Ready, Memory
    <2> QED BY <2>2 DEF Contents
  <1>6. View(1) = [i \in 1 .. NumParams |-> mem[Obj(i, 1)]]
    BY DEF View
  <1> DEFINE n == NumParams
             v == View(1)
  <1>7. n \in Nat /\ n # 0 /\ v \in [1 .. n -> Seq(Bytes \cup {Undef})]
    BY <1>4, <1>5, <1>6
  <1> HIDE DEF n, v
  <1>8. v \in Seq(Seq(Bytes \cup {Undef})) /\ Len(v) = n
    BY <1>7
  <1>9. v # <<>>
    BY <1>7, <1>8
  <1> QED BY <1>3, <1>8, <1>9 DEF v

\* There is an input as soon as loop 1 is entered.
LEMMA EnteredKept ==
  ASSUME Ready, Supported(req), Allocated, Next, UNCHANGED buildVars, status = "running",
         entry[1] = <<>> <=> Ahead(1)
  PROVE  entry'[1] = <<>> <=> Ahead(1)'
  <1>1. CASE InductionPhi /\ Entering(1)
    <2>1. entry'[1] # <<>> /\ Block' = "hdr" /\ Number' = 1 /\ next' = 2
      BY <1>1, InputChosen
    <2>2. ~Ahead(1)'
      BY <2>1 DEF Ahead, Before, Entering
    <2> QED BY <2>1, <2>2
  <1>2. CASE ~(InductionPhi /\ Entering(1))
    BY <1>2, InputStays, AheadStays
  <1> QED BY <1>1, <1>2

\* A call of loop k has the function's effect on what the loop sees.
LEMMA ViewByCall ==
  ASSUME Ready, Supported(req), TrueReport, Allocated, Call, UNCHANGED buildVars, status' # "fault"
  PROVE  \E k \in {1, 2} :
           /\ at = B(BodyName(k)) /\ next = 1
           /\ visited' = [visited EXCEPT ![k] = Append(visited[k], phi[k])]
           /\ View(k)' = Effect(kernel, phi[k], View(k))
           /\ k = 2 => View(1)' = View(1)
  <1>1. PICK k \in {1, 2} :
          /\ at = B(BodyName(k)) /\ next = 1 /\ GoesOn(CallServed(k))
          /\ CallServed(k) => visited' = [visited EXCEPT ![k] = Append(visited[k], phi[k])]
          /\ CallServed(k) => \A q \in DOMAIN mem :
               mem'[q] = IF q \in CallChanges(k) THEN Effect(kernel, phi[k], View(k))[q[1]] ELSE mem[q]
    BY CallIs
  <1>2. CallServed(k)
    BY <1>1 DEF GoesOn
  <1>3. /\ Writes(kernel) \subseteq 2 .. NumParams /\ NumParams \in Nat
        /\ \A i \in Writes(kernel) : Param(i).ptr /\ i \in OutboundArgs
    BY TrueFacts, ParamFacts DEF Call, Executes, Ready
  <1>4. CallChanges(k) = {CallMemory(i, k) : i \in Writes(kernel)}
    BY <1>3 DEF CallChanges
  <1>5. live = Objects /\ Objects \subseteq DOMAIN mem
    BY <1>1, NameParts DEF Allocated, Ready, Memory, Block, BodyName
  <1>6. NumParams' = NumParams /\ \A i : SecondCopy(i)' = SecondCopy(i)
    BY RunStable
  <1>7. \A i : CallMemory(i, k)' = CallMemory(i, k)
    BY <1>6 DEF CallMemory
  <1> DEFINE after == Effect(kernel, phi[k], View(k))
  <1>8. ASSUME NEW i \in 1 .. NumParams PROVE mem'[CallMemory(i, k)] = after[i]
    <2>1. /\ CallMemory(i, k)[1] = i /\ DOMAIN View(k) = 1 .. NumParams
          /\ View(k)[i] = mem[CallMemory(i, k)] /\ CallMemory(i, k) \in DOMAIN mem
      BY <1>5, CallMemoryIs, CallMemoryThere
    <2>2. CASE i \in Writes(kernel)
      BY <1>1, <1>2, <1>4, <2>1, <2>2
    <2>3. CASE i \notin Writes(kernel)
      <3>1. \A p \in Writes(kernel) : CallMemory(p, k) # CallMemory(i, k)
        <4>1. \A p \in Writes(kernel) : CallMemory(p, k)[1] = p
          BY <1>3, CallMemoryIs
        <4> QED BY <2>1, <2>3, <4>1
      <3>2. mem'[CallMemory(i, k)] = mem[CallMemory(i, k)]
        BY <1>1, <1>2, <1>4, <2>1, <3>1
      <3>3. after[i] = View(k)[i]
        BY <2>1, <2>3 DEF Effect
      <3> QED BY <2>1, <3>2, <3>3
    <2> QED BY <2>2, <2>3
  <1>9. after = [i \in 1 .. NumParams |-> after[i]]
    <2>1. DOMAIN View(k) = 1 .. NumParams
      BY DEF View
    <2> QED BY <2>1 DEF Effect
  <1> HIDE DEF after
  <1>10. View(k)' = [i \in 1 .. NumParams |-> mem'[CallMemory(i, k)]]
    BY <1>6 DEF View, CallMemory
  <1>11. View(k)' = after
    BY <1>8, <1>9, <1>10
  <1>12. ASSUME k = 2 PROVE View(1)' = View(1)
    <2>1. ASSUME NEW i \in 1 .. NumParams PROVE mem'[Obj(i, 1)] = mem[Obj(i, 1)]
      <3>1. \A p \in Writes(kernel) : CallMemory(p, k) = Obj(p, 2)
        BY <1>3, <1>12, CopiesThere DEF CallMemory
      <3>2. Obj(i, 1) \notin CallChanges(k)
        BY <1>4, <3>1 DEF Obj
      <3>3. Obj(i, 1) \in DOMAIN mem
        BY <1>5, CopiesThere
      <3> QED BY <1>1, <1>2, <3>2, <3>3
    <2> QED BY <1>6, <2>1 DEF View
  <1> QED BY <1>1, <1>2, <1>11, <1>12 DEF after

\* Every step of a loop adds an iteration to what was made of the input.
LEMMA ComputedByCall ==
  ASSUME Ready, Supported(req), TrueReport, Allocated, UNCHANGED buildVars, Call, status' # "fault",
         Visited(1), Visited(2), Computed(1), Computed(2), NEW k \in {1, 2}
  PROVE  Computed(k)'
  <1>1. PICK j \in {1, 2} :
          /\ at = B(BodyName(j)) /\ next = 1
          /\ visited' = [visited EXCEPT ![j] = Append(visited[j], phi[j])]
          /\ View(j)' = Effect(kernel, phi[j], View(j))
          /\ j = 2 => View(1)' = View(1)
    BY ViewByCall
  <1>2. /\ Block = BodyName(j) /\ Block' = BodyName(j) /\ status = "running"
        /\ entry' = entry /\ kernel' = kernel
    <2>1. at' = at /\ status = "running" /\ entry' = entry /\ kernel' = kernel
      BY DEF Call, Proceed, Executes
    <2> QED BY <1>1, <2>1, NameParts DEF Block
  <1>3. DOMAIN visited = {1, 2}
    BY DEF Ready, Histories
  <1>4. CASE j = k
    <2>1. ~Ahead(k)
      BY <1>2, <1>4 DEF Ahead, Before, Entering, InLoop, LoopBlockKinds, BodyName
    <2>2. View(k) = Ran(kernel, entry[1], visited[k])
      BY <2>1 DEF Computed
    <2>3. visited[k] \in Seq(Int) /\ phi[k] \in Int
      <3>1. Steps(k) \in 0 .. (req.iterations - 1) /\ visited[k] = Visits(k, Steps(k))
        BY <1>1, <1>2, <1>4 DEF Visited
      <3>2. req.iterations \in Nat /\ phi[1] \in Int /\ phi[2] \in Int
        BY <1>2, LoopArithmetic
      <3>3. Steps(k) \in Nat
        BY <3>1, <3>2
      <3> QED BY <3>1, <3>2, <3>3 DEF Visits
    <2>4. Ran(kernel, entry[1], Append(visited[k], phi[k])) = Effect(kernel, phi[k], View(k))
      <3> DEFINE base == entry[1]
                 s    == visited[k]
                 x    == phi[k]
      <3> HIDE DEF base, s, x
      <3>1. s \in Seq(Int) /\ x \in Int
        BY <2>3 DEF s, x
      <3>2. Ran(kernel, base, Append(s, x)) = Effect(kernel, x, Ran(kernel, base, s))
        BY <3>1, RanStep
      <3> QED BY <2>2, <3>2 DEF base, s, x
    <2>5. visited'[k] = Append(visited[k], phi[k])
      BY <1>1, <1>3, <1>4
    <2> QED BY <1>1, <1>2, <1>4, <2>4, <2>5 DEF Computed
  <1>5. CASE j # k
    <2>1. CASE k = 2
      <3>1. Ahead(2)'
        BY <1>2, <1>5, <2>1 DEF Ahead, Before, InLoop, BodyName
      <3> QED BY <2>1, <3>1 DEF Computed
    <2>2. CASE k = 1
      <3>1. ~Ahead(1) /\ visited'[1] = visited[1] /\ View(1)' = View(1)
        BY <1>1, <1>2, <1>3, <1>5, <2>2 DEF Ahead, Before, Entering, InLoop, LoopBlockKinds, BodyName
      <3>2. View(1) = Ran(kernel, entry[1], visited[1])
        BY <3>1 DEF Computed
      <3> QED BY <1>2, <2>2, <3>1, <3>2 DEF Computed
    <2> QED BY <2>1, <2>2
  <1> QED BY <1>4, <1>5

LEMMA ComputedKept ==
  ASSUME Ready, Supported(req), TrueReport, Allocated, Allocated', Isolated, Visited(1), Visited(2),
         Next, UNCHANGED buildVars, status = "running", Computed(1), Computed(2), NEW k \in {1, 2}
  PROVE  Computed(k)'
  <1>1. CASE Call
    <2>1. status' # "fault"
      BY DEF Allocated
    <2> QED BY <1>1, <2>1, ComputedByCall
  <1>2. CASE InductionPhi /\ Entering(k)
    <2>1. visited[k] = <<>>
      BY <1>2 DEF Visited
    <2>2. View(k)' = View(k) /\ visited' = visited /\ kernel' = kernel
      BY <1>2, ViewStays DEF InductionPhi
    <2>3. entry'[1] = View(k)
      <3>1. CASE k = 1
        BY <1>2, <3>1, InputChosen
      <3>2. CASE k = 2
        <4>1. ~Entering(1)
          BY <1>2, <3>2 DEF Entering
        <4>2. entry[1] = View(2)
          BY <1>2, <3>2 DEF Isolated
        <4> QED BY <3>2, <4>1, <4>2, InputStays
      <3> QED BY <3>1, <3>2
    <2>4. View(k)' = Ran(kernel', entry'[1], visited'[k])
      BY <2>1, <2>2, <2>3, RanStep
    <2> QED BY <2>4 DEF Computed
  <1>3. CASE InductionPhi /\ ~Entering(k)
    <2>1. View(k)' = View(k) /\ visited' = visited /\ kernel' = kernel
      BY <1>3, ViewStays DEF InductionPhi
    <2>2. Ahead(k)' <=> Ahead(k)
      BY <1>3, AheadStays
    <2>3. CASE Entering(1)
      <3>1. k = 2 /\ Before(2)
        BY <1>3, <2>3 DEF Entering, Before, InLoop, LoopBlockKinds
      <3> QED BY <2>2, <3>1 DEF Computed, Ahead
    <2>4. CASE ~Entering(1)
      <3>1. entry'[1] = entry[1]
        BY <2>4, InputStays
      <3> QED BY <2>1, <2>2, <3>1 DEF Computed
    <2> QED BY <2>3, <2>4
  <1>4. CASE Allocate \/ Symbolic \/ Copy
    <2>1. Ahead(k)'
      BY <1>4, PlainBlocks DEF Ahead, Before
    <2> QED BY <2>1 DEF Computed
  <1>5. CASE Compare \/ Free \/ Branch \/ BranchOn \/ AssertFail \/ Return
    <2>1. UNCHANGED <<mem, visited, entry, kernel>>
      BY <1>5 DEF Compare, Free, Branch, BranchOn, AssertFail, Return
    <2>2. View(k)' = View(k)
      BY <2>1, ViewStays
    <2>3. ~InductionPhi
      <3>1. ASSUME InductionPhi PROVE FALSE
        <4>1. Inst.op = "phi"
          BY <3>1 DEF InductionPhi, Executes
        <4> QED BY <1>5, <4>1 DEF Compare, Free, Branch, BranchOn, AssertFail, Return, Executes
      <3> QED BY <3>1
    <2>4. Ahead(k)' <=> Ahead(k)
      BY <2>3, AheadStays
    <2> QED BY <2>1, <2>2, <2>4 DEF Computed
  <1>6. ~Build /\ ~Start
    BY DEF Build, Start
  <1> QED BY <1>1, <1>2, <1>3, <1>4, <1>5, <1>6 DEF Next

\* The comparisons look at memory that nothing writes any more.
LEMMA AgreementStays ==
  ASSUME UNCHANGED buildVars, mem' = mem
  PROVE  /\ \A i : (Agree(i)' <=> Agree(i)) /\ (Differ(i)' <=> Differ(i))
         /\ OutboundArgs' = OutboundArgs
  <1>1. OutboundArgs' = OutboundArgs
    BY RunStable
  <1>2. \A i : ComparedSize(i)' = ComparedSize(i)
    BY DEF ComparedSize, Multiplier, Param, buildVars
  <1>3. \A i : (Agree(i)' <=> Agree(i)) /\ (Differ(i)' <=> Differ(i))
    BY <1>2 DEF Agree, Differ
  <1> QED BY <1>1, <1>3

\* A supported request compares bytes that are there.
LEMMA AllComparable ==
  ASSUME Ready, Supported(req), Allocated, status # "building", Block = "cond",
         NEW i \in OutboundArgs
  PROVE  Comparable(i)
  <1>1. argSpecs = FillMissing(req.argSpecs, NumParams)
    BY LoopsAndArgs
  <1>2. ComparedSize(i) <= AllocSize(i)
    BY <1>1, SupportedCompares DEF Ready
  <1>3. Obj(i, 1) \in live /\ Obj(i, 2) \in live
    BY DEF Allocated, Objects, OutboundArgs, Obj
  <1> QED BY <1>2, <1>3 DEF Comparable

\* The chain of comparisons goes on when the copies agree and fails when they differ.
LEMMA ComparedByBranchOn ==
  ASSUME Ready, UNCHANGED buildVars, BranchOn, Compared PROVE Compared'
  <1>1. mem' = mem /\ cmp' = cmp /\ next = 2 /\ next' = 1
    BY BranchOnIs DEF BranchOn
  <1>2. /\ \A i : (Agree(i)' <=> Agree(i)) /\ (Differ(i)' <=> Differ(i))
        /\ OutboundArgs' = OutboundArgs
    BY <1>1, AgreementStays
  <1>3. CASE \E k \in {1, 2} : at = <<"hdr", k>> /\ at' \in {B(BodyName(k)), <<"loop.exit", k>>}
    <2>1. Block' \in {"call1.body", "call2.body", "loop.exit"}
      BY <1>3, NameParts DEF Block, BodyName
    <2> QED BY <2>1 DEF Compared
  <1>4. ASSUME NEW i \in OutboundArgs, at = Cond(i), at' = IF cmp THEN NextCond(i) ELSE Fail(i)
        PROVE  Compared'
    <2>1. Block = "cond" /\ Number = i
      BY <1>4 DEF Block, Number, Cond
    <2>2. /\ IF cmp THEN Agree(i) ELSE Differ(i)
          /\ \A j \in OutboundArgs : j < i => Agree(j)
      BY <1>1, <2>1 DEF Compared
    <2>3. i \in Nat /\ OutboundArgs \subseteq Nat /\ req \in Requests
      BY ParamFacts DEF OutboundArgs, Ready
    <2>4. CASE ~cmp
      <3>1. Block' = "fail" /\ Number' = i
        BY <1>4, <2>4 DEF Block, Number, Fail
      <3> QED BY <1>2, <2>2, <2>4, <3>1 DEF Compared
    <2>5. CASE cmp /\ NextCond(i) = B("se.end.teardown") /\ \A j \in OutboundArgs : ~(j > i)
      <3>1. Block' = "se.end.teardown"
        BY <1>4, <2>5 DEF Block, B
      <3>2. \A j \in OutboundArgs : j = i \/ j < i
        BY <2>3, <2>5
      <3> QED BY <1>2, <2>2, <2>5, <3>1, <3>2 DEF Compared
    <2>6. ASSUME NEW j \in OutboundArgs, cmp, NextCond(i) = Cond(j), j > i,
                 \A l \in OutboundArgs : l > i => j <= l
          PROVE  Compared'
      <3>1. Block' = "cond" /\ Number' = j
        BY <1>4, <2>6 DEF Block, Number, Cond
      <3>2. \A l \in OutboundArgs : l < j => l = i \/ l < i
        BY <2>3, <2>6
      <3> QED BY <1>1, <1>2, <2>2, <2>6, <3>1, <3>2 DEF Compared
    <2> QED BY <2>3, <2>4, <2>5, <2>6, NextCondIs
  <1> QED BY <1>3, <1>4, BranchOnIs

LEMMA ComparedByBranch ==
  ASSUME Ready, UNCHANGED buildVars, Branch, Compared PROVE Compared'
  <1>1. mem' = mem /\ cmp' = cmp /\ next' = 1
    BY BranchIs DEF Branch
  <1>2. /\ \A i : (Agree(i)' <=> Agree(i)) /\ (Differ(i)' <=> Differ(i))
        /\ OutboundArgs' = OutboundArgs
    BY <1>1, AgreementStays
  <1>3. CASE \/ Block = "teardown" /\ Block' = "exit"
             \/ Block = "se.end.teardown" /\ Block' = "teardown"
    BY <1>2, <1>3 DEF Compared
  <1>4. CASE at = B("se.start.teardown") /\ at' = NextCond(0)
    <2>1. OutboundArgs \subseteq Nat \ {0} /\ req \in Requests /\ 0 \in Nat
      BY ParamFacts DEF OutboundArgs, Ready
    <2>2. CASE NextCond(0) = B("se.end.teardown") /\ \A j \in OutboundArgs : ~(j > 0)
      <3>1. Block' = "se.end.teardown" /\ OutboundArgs = {}
        BY <1>4, <2>1, <2>2 DEF Block, B
      <3> QED BY <1>2, <3>1 DEF Compared
    <2>3. ASSUME NEW j \in OutboundArgs, NextCond(0) = Cond(j),
                 \A l \in OutboundArgs : l > 0 => j <= l
          PROVE  Compared'
      <3>1. Block' = "cond" /\ Number' = j
        BY <1>4, <2>3 DEF Block, Number, Cond
      <3>2. \A l \in OutboundArgs : ~(l < j)
        BY <2>1, <2>3
      <3> QED BY <1>1, <1>2, <3>1, <3>2 DEF Compared
    <2> QED BY <2>1, <2>2, <2>3, NextCondIs
  <1>5. CASE Block' \in {"se.setup", "call1.setup", "hdr", "latch", "call1.teardown", "call2.teardown",
                         "call2.setup", "se.start.teardown"}
    BY <1>5 DEF Compared
  <1>6. \/ Block = "teardown" /\ Block' = "exit"
        \/ Block = "se.end.teardown" /\ Block' = "teardown"
        \/ at = B("se.start.teardown") /\ at' = NextCond(0)
        \/ Block' \in {"se.setup", "call1.setup", "hdr", "latch", "call1.teardown", "call2.teardown",
                      "call2.setup", "se.start.teardown"}
    BY BranchIs, NameParts DEF Edge, PostName, AfterLoop, Block
  <1> QED BY <1>3, <1>4, <1>5, <1>6

LEMMA ComparedKept ==
  ASSUME Ready, Supported(req), Allocated, Next, UNCHANGED buildVars, status = "running", Compared
  PROVE  Compared'
  <1>1. CASE Compare
    <2>1. PICK i \in OutboundArgs :
            /\ at = Cond(i) /\ next = 1
            /\ GoesOn(Comparable(i))
            /\ Comparable(i) => IF cmp' THEN Agree(i) ELSE Differ(i)
      BY <1>1, CompareIs
    <2>2. Block = "cond" /\ Number = i /\ Block' = "cond" /\ Number' = i
      BY <2>1 DEF Block, Number, Cond, GoesOn
    <2>3. IF cmp' THEN Agree(i) ELSE Differ(i)
      BY <2>1, <2>2, AllComparable
    <2>4. /\ \A l : (Agree(l)' <=> Agree(l)) /\ (Differ(l)' <=> Differ(l))
          /\ OutboundArgs' = OutboundArgs
      BY <1>1, AgreementStays DEF Compare
    <2> QED BY <2>2, <2>3, <2>4 DEF Compared
  <1>2. CASE Branch
    BY <1>2, ComparedByBranch
  <1>3. CASE BranchOn
    BY <1>3, ComparedByBranchOn
  <1>4. CASE Free \/ AssertFail \/ Return
    <2>1. /\ Block \in {"teardown", "fail", "exit", "entry"} /\ at' = at /\ mem' = mem
      BY <1>4, PlainBlocks DEF Free, AssertFail, Return, Proceed
    <2>2. /\ \A l : (Agree(l)' <=> Agree(l)) /\ (Differ(l)' <=> Differ(l))
          /\ OutboundArgs' = OutboundArgs
      BY <2>1, AgreementStays
    <2> QED BY <2>1, <2>2 DEF Compared, Block, Number
  <1>5. CASE Allocate \/ Symbolic \/ Copy \/ InductionPhi \/ Call
    <2>1. Block' \in {"setup", "se.setup", "hdr", "call1.body", "call2.body"}
      <3>1. CASE Allocate \/ Symbolic \/ Copy \/ InductionPhi
        BY <3>1, PlainBlocks
      <3>2. CASE Call
        <4>1. PICK j \in {1, 2} : at = B(BodyName(j)) /\ at' = at
          BY <3>2, CallIs DEF GoesOn
        <4> QED BY <4>1, NameParts DEF Block, BodyName
      <3> QED BY <1>5, <3>1, <3>2
    <2> QED BY <2>1 DEF Compared
  <1>6. ~Build /\ ~Start
    BY DEF Build, Start
  <1> QED BY <1>1, <1>2, <1>3, <1>4, <1>5, <1>6 DEF Next

LEMMA CheckInvInit == HarnessInit /\ Supported(req) /\ TrueReport => CheckInv
  BY DEF HarnessInit, CheckInv

\* Every step keeps the results of the two loops those of the iterations.
LEMMA CheckStep ==
  ASSUME HarnessInv, HarnessInv', Decided, CheckInv, Next PROVE CheckInv'
  <1>1. Ready /\ req' = req
    BY NextKeepsShape DEF HarnessInv, Ready
  <1>2. kernel' = kernel
    BY DEF Next, Build, runVars, Start, Allocate, Symbolic, Copy, Compare, Free, InductionPhi, Call,
           Branch, BranchOn, AssertFail, Return
  <1>3. Supported(req)' /\ TrueReport'
    <2>1. NumParams' = NumParams /\ \A i : Param(i)' = Param(i)
      BY <1>1 DEF NumParams, Param
    <2> QED BY <1>1, <1>2, <2>1 DEF CheckInv, TrueReport
  <1>4. CASE Build
    <2>1. status' = status /\ status = "building" /\ entry' = entry
      BY <1>4 DEF Build, runVars
    <2> QED BY <1>3, <2>1 DEF CheckInv
  <1>5. CASE UNCHANGED buildVars /\ Start
    <2>1. status' # "building" /\ entry'[1] = <<>>
      BY <1>5 DEF Start, CheckInv
    <2>2. at' = B("setup")
      BY <1>1, <1>5, SupportedEntry DEF Start, CheckInv
    <2>3. Ahead(1)' /\ Ahead(2)' /\ Block' = "setup"
      BY <2>2, NameParts DEF Ahead, Before, Block
    <2>4. Computed(1)' /\ Computed(2)' /\ Compared'
      BY <2>3 DEF Computed, Compared
    <2> QED BY <1>3, <2>1, <2>3, <2>4 DEF CheckInv
  <1>6. CASE UNCHANGED buildVars /\ status = "running" /\ ~Start
    <2>1. status' # "building"
      BY <1>6 DEF Next, Build, Allocate, Symbolic, Copy, Compare, Free, InductionPhi, Call,
                  Branch, BranchOn, AssertFail, Return, Proceed
    <2>2. TrueReport /\ Supported(req) /\ Allocated /\ Visited(1) /\ Visited(2) /\ Allocated'
      <3>1. Supported(req)' => Allocated'
        BY <2>1 DEF HarnessInv
      <3> QED BY <1>3, <1>6, <3>1 DEF HarnessInv, CheckInv
    <2>3. Isolated
      <3>1. Truthful
        BY <1>1, <1>6, <2>2, TrueFacts
      <3> QED BY <1>6, <2>2, <3>1 DEF HarnessInv
    <2>4. (entry[1] = <<>> <=> Ahead(1)) /\ Computed(1) /\ Computed(2) /\ Compared
      BY <1>6 DEF CheckInv
    <2>5. entry'[1] = <<>> <=> Ahead(1)'
      BY <1>1, <1>6, <2>2, <2>4, EnteredKept
    <2>6. Computed(1)' /\ Computed(2)'
      BY <1>1, <1>6, <2>2, <2>3, <2>4, ComputedKept
    <2>7. Compared'
      BY <1>1, <1>6, <2>2, <2>4, ComparedKept
    <2> QED BY <1>3, <2>1, <2>5, <2>6, <2>7 DEF CheckInv
  <1> QED BY <1>4, <1>5, <1>6, NextKinds

\* The widths of the abstract check are the sizes that are compared.
LEMMA WidthsAre ==
  ASSUME Ready, Supported(req), status # "building"
  PROVE  DOMAIN Widths = OutboundArgs /\ \A i \in OutboundArgs : Widths[i] = ComparedSize(i)
  <1>1. argSpecs = FillMissing(req.argSpecs, NumParams)
    BY LoopsAndArgs
  <1>2. DOMAIN Widths = OutboundArgs
    BY <1>1 DEF Widths, OutboundArgs, Direction
  <1>3. ASSUME NEW i \in OutboundArgs PROVE Widths[i] = ComparedSize(i)
    <2>1. i \in 1 .. NumParams /\ Param(i).ptr \in BOOLEAN /\ Param(i).size \in Nat
          /\ req.iterations \in Nat
      BY ParamFacts, RequestsAssumption, WidthAssumption DEF OutboundArgs, Ready, U32
    <2>2. SupportedArg(Param(i), argSpecs[i], req.NDEBUG) /\ isOutbound(argSpecs[i].Direction)
      <3>1. req.params \in Seq(Types)
        BY RequestsAssumption DEF Ready
      <3>2. i \in DOMAIN req.params /\ NumParams = Len(req.params)
        BY <2>1, <3>1 DEF NumParams
      <3> QED BY <1>1, <3>2 DEF Supported, Param, OutboundArgs, Direction
    <2>3. Widths[i] = CASE ~Param(i).ptr -> Param(i).size
                        [] argSpecs[i].IteratorDependent -> req.iterations
                        [] OTHER -> 1
      BY <1>1, <1>2 DEF Widths, OutboundArgs, Direction
    <2>4. CASE ~Param(i).ptr
      <3>1. ~argSpecs[i].IteratorDependent
        BY <2>2, <2>4 DEF SupportedArg
      <3>2. Widths[i] = Param(i).size
        BY <2>3, <2>4, <3>1
      <3>3. ComparedSize(i) = 1 * Param(i).size
        BY <2>4, <3>1 DEF ComparedSize, Multiplier
      <3> QED BY <2>1, <3>2, <3>3
    <2>5. CASE Param(i).ptr /\ argSpecs[i].IteratorDependent
      <3>1. Widths[i] = req.iterations
        BY <2>3, <2>5
      <3>2. ComparedSize(i) = req.iterations * 1
        BY <2>5 DEF ComparedSize, Multiplier
      <3> QED BY <2>1, <3>1, <3>2
    <2>6. CASE Param(i).ptr /\ ~argSpecs[i].IteratorDependent
      <3>1. Widths[i] = 1
        BY <2>3, <2>6
      <3>2. ComparedSize(i) = 1 * 1
        BY <2>6 DEF ComparedSize, Multiplier
      <3> QED BY <3>1, <3>2
    <2> QED BY <2>1, <2>4, <2>5, <2>6
  <1> QED BY <1>2, <1>3

\* Where the harness decides it has the results of the abstract check.
LEMMA ResultsAre ==
  ASSUME Ready, Computed(1), Computed(2), Visited(1), Visited(2), Block \in {"exit", "fail"},
         NEW i \in OutboundArgs
  PROVE  Check!Forward[i] = mem[Obj(i, 1)] /\ Check!Backward[i] = mem[Obj(i, 2)]
  <1>1. /\ visited[1] = Check!Indices /\ visited[2] = Reverse(Check!Indices)
        /\ ~Ahead(1) /\ ~Ahead(2)
    BY AllVisited, MirroredVisitsAre DEF Ready, Check!Indices
  <1>2. View(1) = Check!RunOver(Check!Indices) /\ View(2) = Check!RunOver(Reverse(Check!Indices))
    BY <1>1, RanOver DEF Computed
  <1>3. View(1) = Check!Forward /\ View(2) = Check!Backward
    <2> DEFINE indices == Check!Indices
    <2>1. Check!Reverse(indices) = Reverse(indices)
      BY DEF Check!Reverse, Reverse
    <2>2. View(1) = Check!RunOver(indices) /\ View(2) = Check!RunOver(Check!Reverse(indices))
      BY <1>2, <2>1
    <2> QED BY <2>2 DEF Check!Forward, Check!Backward
  <1>4. i \in 1 .. NumParams /\ SecondCopy(i) = Obj(i, 2)
    BY CopiesThere DEF OutboundArgs
  <1>5. View(1)[i] = mem[Obj(i, 1)] /\ View(2)[i] = mem[Obj(i, 2)]
    BY <1>4 DEF View
  <1> QED BY <1>3, <1>5

\* The verdict of the abstract check.
Verdict == IF status \in {"returned", "failed"} THEN status ELSE "none"

\* The steps that neither choose the input nor decide are not visible.
LEMMA CheckStutters ==
  ASSUME req' = req, kernel' = kernel, entry'[1] = entry[1], Verdict' = Verdict
  PROVE  UNCHANGED Check!vars
  <1>1. NumParams' = NumParams /\ \A i : Param(i)' = Param(i)
    BY DEF NumParams, Param
  <1>2. Widths' = Widths /\ req'.iterations = req.iterations
    BY <1>1 DEF Widths
  <1> QED BY <1>2 DEF Check!vars, Verdict

\* The entry of loop 1 chooses the input.
LEMMA EntryRefines ==
  ASSUME Ready, UNCHANGED buildVars, Supported(req), Allocated, status = "running", InductionPhi,
         Entering(1), entry[1] = <<>> <=> Ahead(1)
  PROVE  Check!ChooseInput
  <1>1. entry[1] = <<>> /\ entry'[1] \in Seq(Seq(Bytes \cup {Undef})) \ {<<>>}
    BY InputChosen DEF Ahead
  <1>2. req' = req /\ kernel' = kernel /\ status' = status
    <2>1. status' = status
      BY PhiIs DEF GoesOn
    <2> QED BY <2>1 DEF buildVars, InductionPhi
  <1>3. NumParams' = NumParams /\ \A i : Param(i)' = Param(i)
    BY <1>2 DEF NumParams, Param
  <1>4. Widths' = Widths
    BY <1>2, <1>3 DEF Widths
  <1> QED BY <1>1, <1>2, <1>4 DEF Check!ChooseInput

\* What decides is executed at the end of the chain of comparisons.
LEMMA DecisionRefines ==
  ASSUME Ready, UNCHANGED buildVars, Supported(req), Allocated, status = "running",
         Visited(1), Visited(2), entry[1] = <<>> <=> Ahead(1), Computed(1), Computed(2), Compared,
         AssertFail \/ Return
  PROVE  Check!Return \/ Check!Fail
  <1>1. /\ AssertFail => Block = "fail" /\ Number \in OutboundArgs
        /\ Return => Block = "exit"
    <2>1. AssertFail => Block = "fail" /\ Number \in OutboundArgs
      <3>1. AssertFail => \E i \in OutboundArgs : at = Fail(i)
        BY ReadyToRun DEF AssertFail, Executes, Placed
      <3> QED BY <3>1 DEF Block, Number, Fail
    <2>2. Return => Block = "exit"
      BY PlainBlocks DEF Allocated
    <2> QED BY <2>1, <2>2
  <1>2. Block \in {"exit", "fail"}
    BY <1>1
  <1>3. req' = req /\ kernel' = kernel /\ entry' = entry
    BY DEF buildVars, AssertFail, Return
  <1>4. NumParams' = NumParams /\ \A i : Param(i)' = Param(i)
    BY <1>3 DEF NumParams, Param
  <1>5. Widths' = Widths /\ req'.iterations = req.iterations
    BY <1>3, <1>4 DEF Widths
  <1>6. entry[1] # <<>>
    BY <1>2, AllVisited
  <1>7. DOMAIN Widths = OutboundArgs /\ \A i \in OutboundArgs : Widths[i] = ComparedSize(i)
    BY WidthsAre
  <1>8. \A i \in OutboundArgs : /\ Check!Forward[i] = mem[Obj(i, 1)]
                                /\ Check!Backward[i] = mem[Obj(i, 2)]
    BY <1>2, ResultsAre
  <1>9. CASE Return
    <2>1. status' = "returned" /\ Block = "exit"
      BY <1>1, <1>9 DEF Return
    <2>2. \A i \in OutboundArgs : Agree(i)
      BY <2>1 DEF Compared
    <2>3. \A i \in DOMAIN Widths : \A j \in 1 .. Widths[i] :
            Check!MayAgree(Check!Forward[i][j], Check!Backward[i][j])
      BY <1>7, <1>8, <2>2 DEF Agree
    <2> QED BY <1>3, <1>5, <1>6, <2>1, <2>3 DEF Check!Return
  <1>10. CASE AssertFail
    <2>1. status' = "failed" /\ Block = "fail" /\ Number \in OutboundArgs
      BY <1>1, <1>10 DEF AssertFail
    <2>2. Differ(Number)
      BY <2>1 DEF Compared
    <2>3. \E i \in DOMAIN Widths : \E j \in 1 .. Widths[i] :
            Check!MayDiffer(Check!Forward[i][j], Check!Backward[i][j])
      BY <1>7, <1>8, <2>1, <2>2 DEF Differ
    <2> QED BY <1>3, <1>5, <1>6, <2>1, <2>3 DEF Check!Fail
  <1> QED BY <1>9, <1>10

\* Every step of the harness is one of the abstract check, or none.
LEMMA CheckRefines ==
  ASSUME HarnessInv, HarnessInv', Decided, CheckInv, CheckInv', Next PROVE [Check!Next]_Check!vars
  <1>1. Ready /\ req' = req
    BY NextKeepsShape DEF HarnessInv, Ready
  <1>2. kernel' = kernel
    BY DEF Next, Build, runVars, Start, Allocate, Symbolic, Copy, Compare, Free, InductionPhi, Call,
           Branch, BranchOn, AssertFail, Return
  <1>3. CASE Build
    <2>1. entry'[1] = entry[1] /\ Verdict' = Verdict
      BY <1>3 DEF Build, runVars, Verdict
    <2> QED BY <1>1, <1>2, <2>1, CheckStutters
  <1>4. CASE Start
    <2>1. entry'[1] = entry[1] /\ Verdict' = Verdict
      BY <1>4 DEF Start, Verdict
    <2> QED BY <1>1, <1>2, <2>1, CheckStutters
  <1>5. CASE UNCHANGED buildVars /\ status = "running" /\ ~Start
    <2>1. /\ Supported(req) /\ Allocated /\ Visited(1) /\ Visited(2)
          /\ entry[1] = <<>> <=> Ahead(1)
          /\ Computed(1) /\ Computed(2) /\ Compared
      BY <1>5 DEF CheckInv, HarnessInv
    <2>2. CASE InductionPhi /\ Entering(1)
      BY <1>1, <1>5, <2>1, <2>2, EntryRefines DEF Check!Next
    <2>3. CASE AssertFail \/ Return
      BY <1>1, <1>5, <2>1, <2>3, DecisionRefines DEF Check!Next
    <2>4. CASE ~(InductionPhi /\ Entering(1)) /\ ~(AssertFail \/ Return)
      <3>1. entry'[1] = entry[1]
        BY <1>1, <1>5, <2>4, InputStays
      <3>2. Verdict' = Verdict
        <4>1. status' \in {"running", "fault"}
          BY <1>5, <2>4 DEF Next, Build, Allocate, Symbolic, Copy, Compare, Free, InductionPhi, Call,
                            Branch, BranchOn, Proceed
        <4> QED BY <1>5, <4>1 DEF Verdict
      <3> QED BY <1>1, <1>2, <3>1, <3>2, CheckStutters
    <2> QED BY <2>2, <2>3, <2>4
  <1> QED BY <1>3, <1>4, <1>5, NextKinds

\* Harness: for a supported and true request both loops apply the function to the
\* input once per iteration, and the comparisons go on as long as the results agree.
THEOREM CheckInvariance == TrueSpec => []CheckInv
  <1>1. HarnessInit /\ Supported(req) /\ TrueReport => CheckInv
    BY CheckInvInit
  <1>2. HarnessInv /\ HarnessInv' /\ BuildInv /\ CheckInv /\ [Next]_vars => CheckInv'
    <2>1. CASE HarnessInv /\ HarnessInv' /\ BuildInv /\ CheckInv /\ Next
      BY <2>1, CheckStep DEF BuildInv
    <2>2. CASE CheckInv /\ UNCHANGED vars
      <3>1. UNCHANGED buildVars /\ UNCHANGED runVars
        BY <2>2 DEF vars
      <3>2. NumParams' = NumParams /\ (\A i : Param(i)' = Param(i)) /\ req' = req
        BY <3>1 DEF buildVars, NumParams, Param
      <3>3. /\ View(1)' = View(1) /\ View(2)' = View(2) /\ OutboundArgs' = OutboundArgs
            /\ \A i : (Agree(i)' <=> Agree(i)) /\ (Differ(i)' <=> Differ(i))
        BY <3>1, ViewStays, AgreementStays DEF runVars
      <3>4. \A k \in {1, 2} : Ahead(k)' <=> Ahead(k)
        BY <3>1 DEF runVars, Ahead, Before, Entering, InLoop, Block, Number, Names, LoopBlockKinds, BodyName
      <3>5. Supported(req)' /\ TrueReport'
        BY <2>2, <3>1, <3>2 DEF runVars, CheckInv, TrueReport
      <3>6. \A k \in {1, 2} : Computed(k) => Computed(k)'
        BY <3>1, <3>3, <3>4 DEF runVars, Computed
      <3>7. Compared => Compared'
        BY <3>1, <3>3 DEF runVars, Compared, Block, Number
      <3>8. status' = status /\ entry' = entry
        BY <3>1 DEF runVars
      <3> QED BY <2>2, <3>4, <3>5, <3>6, <3>7, <3>8 DEF CheckInv
    <2> QED BY <2>1, <2>2
  <1> QED BY <1>1, <1>2, HarnessBuilds, BuildInvariance, HarnessInvariance, PTL
          DEF TrueSpec, TrueInit, Spec

\* encapsulateImpl: the harness of a supported and true request decides nothing but
\* whether the iterations, forwards and backwards from the same input, agree on the
\* bytes that are compared.
THEOREM HarnessImplementsCheck == TrueSpec => ImplementsCommutativityCheck
  <1>1. HarnessInit => Check!Init
    BY SmallTuples DEF HarnessInit, Check!Init
  <1>2. HarnessInv /\ HarnessInv' /\ BuildInv /\ CheckInv /\ CheckInv' /\ [Next]_vars
          => [Check!Next]_Check!vars
    <2>1. CASE HarnessInv /\ HarnessInv' /\ BuildInv /\ CheckInv /\ CheckInv' /\ Next
      BY <2>1, CheckRefines DEF BuildInv
    <2>2. CASE UNCHANGED vars
      <3>1. req' = req /\ kernel' = kernel /\ entry'[1] = entry[1] /\ Verdict' = Verdict
        BY <2>2 DEF vars, buildVars, runVars, Verdict
      <3> QED BY <3>1, CheckStutters
    <2> QED BY <2>1, <2>2
  <1> QED BY <1>1, <1>2, HarnessBuilds, BuildInvariance, HarnessInvariance, CheckInvariance, PTL
          DEF TrueSpec, TrueInit, Spec, ImplementsCommutativityCheck, Check!Spec

=============================================================================
