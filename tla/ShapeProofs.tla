----------------------------- MODULE ShapeProofs -----------------------------
(***************************************************************************)
(* What encapsulateImpl builds: the code of every block of the harness, at *)
(* every stage, for every request.  What the IR verifier asks of it, and   *)
(* that it stays within the memory it allocates, follow for exactly the    *)
(* supported requests.                                                     *)
(***************************************************************************)
EXTENDS BuilderProofs, SequenceLemmas

-----------------------------------------------------------------------------
(***************************************************************************)
(* Lemmas about blocks and arguments.                                      *)
(***************************************************************************)

\* Emit changes one block and no others.
LEMMA EmitAt ==
  ASSUME NEW code, NEW b \in DOMAIN code, NEW insts
  PROVE  /\ DOMAIN Emit(code, b, insts) = DOMAIN code
         /\ Emit(code, b, insts)[b] = code[b] \o insts
         /\ \A c \in DOMAIN code : c # b => Emit(code, b, insts)[c] = code[c]
  BY DEF Emit

\* AddBlocks keeps the blocks there are.
LEMMA AddAt ==
  ASSUME NEW code, NEW more
  PROVE  /\ DOMAIN AddBlocks(code, more) = DOMAIN code \cup DOMAIN more
         /\ \A b \in DOMAIN code : AddBlocks(code, more)[b] = code[b]
         /\ \A b \in DOMAIN more : b \notin DOMAIN code => AddBlocks(code, more)[b] = more[b]
  BY DEF AddBlocks

\* Sequences of two and of three.
LEMMA SmallSequences ==
  /\ \A x, y : Append(<<x>>, y) = <<x, y>> /\ <<x>> \o <<y>> = <<x, y>>
  /\ \A x, y, z : <<x>> \o <<y, z>> = <<x, y, z>>
  <1>1. ASSUME NEW x, NEW y PROVE Append(<<x>>, y) = <<x, y>> /\ <<x>> \o <<y>> = <<x, y>>
    <2> DEFINE S == {x, y}
    <2>1. <<x>> \in Seq(S) /\ <<y>> \in Seq(S) /\ <<x, y>> \in Seq(S) /\ y \in S
      OBVIOUS
    <2>2. /\ Append(<<x>>, y) \in Seq(S) /\ Len(Append(<<x>>, y)) = 2
          /\ <<x>> \o <<y>> \in Seq(S) /\ Len(<<x>> \o <<y>>) = 2
          /\ Len(<<x, y>>) = 2
      BY <2>1
    <2>3. /\ Append(<<x>>, y)[1] = x /\ Append(<<x>>, y)[2] = y
          /\ (<<x>> \o <<y>>)[1] = x /\ (<<x>> \o <<y>>)[2] = y
          /\ <<x, y>>[1] = x /\ <<x, y>>[2] = y
      OBVIOUS
    <2>4. \A i \in 1 .. 2 : i = 1 \/ i = 2
      OBVIOUS
    <2> HIDE DEF S
    <2> QED BY <2>1, <2>2, <2>3, <2>4, SeqEqual
  <1>2. ASSUME NEW x, NEW y, NEW z PROVE <<x>> \o <<y, z>> = <<x, y, z>>
    <2> DEFINE S == {x, y, z}
    <2>1. <<x>> \in Seq(S) /\ <<y, z>> \in Seq(S) /\ <<x, y, z>> \in Seq(S)
      OBVIOUS
    <2>2. <<x>> \o <<y, z>> \in Seq(S) /\ Len(<<x>> \o <<y, z>>) = 3 /\ Len(<<x, y, z>>) = 3
      BY <2>1
    <2>3. /\ (<<x>> \o <<y, z>>)[1] = x /\ (<<x>> \o <<y, z>>)[2] = y /\ (<<x>> \o <<y, z>>)[3] = z
          /\ <<x, y, z>>[1] = x /\ <<x, y, z>>[2] = y /\ <<x, y, z>>[3] = z
      OBVIOUS
    <2>4. \A i \in 1 .. 3 : i = 1 \/ i = 2 \/ i = 3
      OBVIOUS
    <2> HIDE DEF S
    <2> QED BY <2>1, <2>2, <2>3, <2>4, SeqEqual
  <1> QED BY <1>1, <1>2

LEMMA SmallTuples ==
  /\ \A x : Len(<<x>>) = 1 /\ DOMAIN <<x>> = {1} /\ <<x>>[1] = x /\ <<x>> # <<>>
  /\ \A x, y : /\ Len(<<x, y>>) = 2 /\ DOMAIN <<x, y>> = {1, 2}
               /\ <<x, y>>[1] = x /\ <<x, y>>[2] = y /\ <<x, y>> # <<>>
  <1>1. \A x : Len(<<x>>) = 1 /\ DOMAIN <<x>> = {1} /\ <<x>>[1] = x
    OBVIOUS
  <1>2. \A x, y : Len(<<x, y>>) = 2
    OBVIOUS
  <1>3. \A x, y : DOMAIN <<x, y>> = {1, 2} /\ <<x, y>>[1] = x /\ <<x, y>>[2] = y
    OBVIOUS
  <1>4. Len(<<>>) = 0
    OBVIOUS
  <1>5. \A s : Len(s) = 1 \/ Len(s) = 2 => s # <<>>
    BY <1>4
  <1> QED BY <1>1, <1>2, <1>3, <1>5

\* The blocks have different names.
LEMMA NamesDiffer ==
  /\ \A m, n : B(m) = B(n) => m = n
  /\ \A n \in NamedBlocks \cup {"entry"} : \A i :
       /\ B(n) # Cond(i) /\ B(n) # Fail(i)
       /\ B(n) # <<"hdr", i>> /\ B(n) # <<"latch", i>> /\ B(n) # <<"loop.exit", i>>
  /\ \A i, j : /\ Cond(i) # Fail(j)
               /\ Cond(i) = Cond(j) => i = j
               /\ Fail(i) = Fail(j) => i = j
               /\ Cond(i) # <<"hdr", j>> /\ Cond(i) # <<"latch", j>> /\ Cond(i) # <<"loop.exit", j>>
               /\ Fail(i) # <<"hdr", j>> /\ Fail(i) # <<"latch", j>> /\ Fail(i) # <<"loop.exit", j>>
  <1>1. \A m, n : B(m) = B(n) => m = n
    BY DEF B
  <1>2. \A n \in NamedBlocks \cup {"entry"} : \A i :
          /\ B(n) # Cond(i) /\ B(n) # Fail(i)
          /\ B(n) # <<"hdr", i>> /\ B(n) # <<"latch", i>> /\ B(n) # <<"loop.exit", i>>
    BY DEF B, Cond, Fail, NamedBlocks
  <1>3. \A i, j : /\ Cond(i) # Fail(j)
                  /\ Cond(i) = Cond(j) => i = j
                  /\ Fail(i) = Fail(j) => i = j
                  /\ Cond(i) # <<"hdr", j>> /\ Cond(i) # <<"latch", j>> /\ Cond(i) # <<"loop.exit", j>>
                  /\ Fail(i) # <<"hdr", j>> /\ Fail(i) # <<"latch", j>> /\ Fail(i) # <<"loop.exit", j>>
    BY DEF Cond, Fail
  <1> QED BY <1>1, <1>2, <1>3

\* Filling up makes the specifications as many as the parameters, or leaves more.
LEMMA FillMissingType ==
  ASSUME NEW specs \in Seq(ArgSpecs), NEW n \in Nat
  PROVE  /\ FillMissing(specs, n) \in Seq(ArgSpecs)
         /\ \A i \in 1 .. n : FillMissing(specs, n)[i] \in ArgSpecs
  <1> DEFINE l == IF Len(specs) < n THEN n ELSE Len(specs)
             e(i) == IF i <= Len(specs) THEN specs[i] ELSE DefaultArgSpec
  <1>1. l \in Nat /\ n <= l
    OBVIOUS
  <1>2. DefaultArgSpec \in ArgSpecs
    BY DEF DefaultArgSpec, ArgSpecs, AD_Inbound, ArgDirection
  <1>3. \A i \in 1 .. l : e(i) \in ArgSpecs
    BY <1>2
  <1>4. FillMissing(specs, n) = [i \in 1 .. l |-> e(i)]
    BY DEF FillMissing
  <1> HIDE DEF l, e
  <1> QED BY <1>1, <1>3, <1>4

-----------------------------------------------------------------------------
(***************************************************************************)
(* The stages, and the code of the blocks at each of them.                 *)
(***************************************************************************)

Order == [encapsulateImpl |-> 0, setupHarnessArgs |-> 1, createSymbolicDeclarations |-> 2,
          createSymbolicAssertions |-> 3, createLoop1 |-> 4, createLoop2 |-> 5, passIterator |-> 6,
          createCall1 |-> 7, createCall2 |-> 8, controlFlow |-> 9, done |-> 10]

Stage == Order[phase]

\* createSymbolicDeclarations runs before the iterator takes the place of the
\* first argument.
SymbolicCodeOf(i) ==
  IF isOnlyOutbound(Direction(i)) THEN <<>>
  ELSE IF isOutbound(Direction(i))
       THEN <<Symbolize(Obj(i, 1), AllocSize(i)), Symbolize(Obj(i, 2), AllocSize(i)),
              Memcpy(Obj(i, 2), Obj(i, 1), AllocSize(i))>>
       ELSE <<Symbolize(Obj(i, 1), AllocSize(i))>>

SymbolizeCode == FlattenSeq([i \in 1 .. NumParams |-> SymbolicCodeOf(i)])

ComparisonCode(i) ==
  <<[op |-> "memcmp", lhs |-> Obj(i, 1), rhs |-> Obj(i, 2), size |-> ComparedSize(i)],
    CondBr("memcmp == 0", NextCond(i), Fail(i))>>

\* The arguments of the calls in loop k.
CallArg(i, k) == IF i = 1 THEN IndVar(k) ELSE IF k = 1 THEN Obj(i, 1) ELSE SecondCopy(i)

CallInst(k) == [op |-> "call", args |-> [i \in 1 .. NumParams |-> Operand(CallArg(i, k), i)]]

\* The code of the block that has the name n, at stage s.
NamedCode(n, s) ==
  CASE n = "setup"             -> IF s < 2 THEN <<>> ELSE IF s < 10 THEN SetupCode
                                  ELSE Append(SetupCode, Br(B("se.setup")))
    [] n = "teardown"          -> IF s < 2 THEN <<>> ELSE IF s < 10 THEN TeardownCode
                                  ELSE Append(TeardownCode, Br(B("exit")))
    [] n = "se.setup"          -> IF s < 3 THEN <<>> ELSE IF s < 10 THEN SymbolizeCode
                                  ELSE Append(SymbolizeCode, Br(B("call1.setup")))
    [] n = "se.start.teardown" -> IF s < 4 THEN <<>> ELSE StartCode
    [] n = "call1.setup"       -> IF s < 5 THEN <<>> ELSE <<Br(<<"hdr", 1>>)>>
    [] n = "call1.body"        -> IF s < 5 THEN <<>> ELSE IF s < 8 THEN <<Br(<<"latch", 1>>)>>
                                  ELSE <<CallInst(1), Br(<<"latch", 1>>)>>
    [] n = "call2.setup"       -> IF s < 6 THEN <<>> ELSE <<Br(<<"hdr", 2>>)>>
    [] n = "call2.body"        -> IF s < 6 THEN <<>> ELSE IF s < 9 THEN <<Br(<<"latch", 2>>)>>
                                  ELSE <<CallInst(2), Br(<<"latch", 2>>)>>
    [] n = "call1.teardown"    -> IF s < 10 THEN <<>> ELSE <<Br(B("call2.setup"))>>
    [] n = "call2.teardown"    -> IF s < 10 THEN <<>> ELSE <<Br(B("se.start.teardown"))>>
    [] n = "se.end.teardown"   -> IF s < 10 THEN <<>> ELSE <<Br(B("teardown"))>>
    [] n = "exit"              -> IF s < 10 THEN <<>> ELSE <<Ret>>

AssertionNames == {Cond(i) : i \in OutboundArgs} \cup {Fail(i) : i \in OutboundArgs}

LoopNames(k) == {<<"hdr", k>>, <<"latch", k>>, <<"loop.exit", k>>}

\* The blocks there are at stage s.
BlockNames(s) ==
  (IF req.hasHarnessBody THEN {B("entry")} ELSE {})
  \cup (IF s >= 1 THEN {B(n) : n \in NamedBlocks} ELSE {})
  \cup (IF s >= 4 THEN AssertionNames ELSE {})
  \cup (IF s >= 5 THEN LoopNames(1) ELSE {})
  \cup (IF s >= 6 THEN LoopNames(2) ELSE {})

CodeShape(s) ==
  /\ DOMAIN ir = BlockNames(s)
  /\ req.hasHarnessBody => ir[B("entry")] = <<Ret>>
  /\ s >= 1 => \A n \in NamedBlocks : ir[B(n)] = NamedCode(n, s)
  /\ s >= 4 => \A i \in OutboundArgs : ir[Cond(i)] = ComparisonCode(i) /\ ir[Fail(i)] = FailCode
  /\ s >= 5 => \A b \in LoopNames(1) : ir[b] = LoopBlocks(1)[b]
  /\ s >= 6 => \A b \in LoopNames(2) : ir[b] = LoopBlocks(2)[b]

\* The arguments of the calls; the iterator joins them at stage 7.
ArgShape(s) ==
  /\ DOMAIN callArgs1 = IF s >= 2 THEN 1 .. NumParams ELSE {}
  /\ DOMAIN callArgs2 = DOMAIN callArgs1
  /\ s < 2 \/ NumParams = 0 => callArgs1 = <<>>
  /\ \A i \in DOMAIN callArgs1 :
       /\ callArgs1[i] = IF s >= 7 THEN CallArg(i, 1) ELSE Obj(i, 1)
       /\ callArgs2[i] = IF s >= 7 THEN CallArg(i, 2) ELSE SecondCopy(i)

LoopShape(s) == loops = CASE s < 5 -> <<>>
                          [] s = 5 -> <<Loop1>>
                          [] s > 5 -> <<Loop1, Loop2>>

\* What was checked on the way.
Passed(s) ==
  /\ s >= 1 => ~req.isDeclaration /\ argSpecs = FillMissing(req.argSpecs, NumParams)
  /\ s >= 2 /\ NumParams > 0 => CanDeclare(req.syms, HeapDecls) /\ (ZeroSized => req.NDEBUG)
  /\ s >= 3 => /\ NumParams = 0 => req.NDEBUG
               /\ CanDeclare(req.syms, SymbolicDecls) /\ ~BadMemcpySignature
  /\ s >= 4 => CanDeclare(req.syms, AssertDecls)
  /\ s >= 8 /\ NumParams > 0 => ~Param(1).ptr /\ ~(Param(1).size < IndSize)

\* The symbols of the request stay.
SymbolsKept == \A n \in DOMAIN req.syms : n \in DOMAIN syms /\ syms[n] = req.syms[n]

Shape ==
  /\ SymbolsKept
  /\ phase \in Phases => CodeShape(Stage) /\ ArgShape(Stage) /\ LoopShape(Stage) /\ Passed(Stage)

-----------------------------------------------------------------------------
(***************************************************************************)
(* The code of setup, teardown and se.setup.                               *)
(***************************************************************************)

\* What is known of the parameters of a request.
LEMMA ParamFacts ==
  ASSUME req \in Requests
  PROVE  /\ NumParams \in Nat
         /\ \A i \in 1 .. NumParams :
              /\ Param(i).ptr \in BOOLEAN /\ Param(i).size \in Nat
              /\ ~Param(i).ptr => Param(i).size > 0
              /\ Multiplier(i) \in Nat /\ AllocSize(i) \in Nat /\ ComparedSize(i) \in Nat
  <1>1. req.params \in Seq(Types) /\ req.iterations \in Nat
    BY RequestsAssumption, WidthAssumption DEF U32
  <1>2. NumParams \in Nat
    BY <1>1 DEF NumParams
  <1>3. ASSUME NEW i \in 1 .. NumParams
        PROVE  /\ Param(i).ptr \in BOOLEAN /\ Param(i).size \in Nat
               /\ ~Param(i).ptr => Param(i).size > 0
    <2>1. Param(i) \in Types
      BY <1>1, <1>2, <1>3 DEF Param, NumParams
    <2> QED BY <2>1 DEF Types
  <1>4. \A a, b \in Nat : a * b \in Nat
    OBVIOUS
  <1>5. ASSUME NEW i \in 1 .. NumParams
        PROVE  Multiplier(i) \in Nat /\ AllocSize(i) \in Nat /\ ComparedSize(i) \in Nat
    <2>1. Multiplier(i) \in Nat
      BY <1>1 DEF Multiplier
    <2> QED BY <1>3, <1>4, <2>1 DEF AllocSize, ComparedSize
  <1> QED BY <1>2, <1>3, <1>5

\* The objects of a harness, and those among them that come from the heap.
Objects == {o \in (1 .. NumParams) \X {1, 2} : o[2] = 1 \/ isOutbound(Direction(o[1]))}

HeapObjects == {o \in Objects : Param(o[1]).ptr}

AllocationInsts == {Allocation(i, c) : i \in 1 .. NumParams, c \in {1, 2}}

\* A sequence of instructions is one for each of these objects.
OneForEach(code, objs) ==
  /\ \A p \in 1 .. Len(code) : code[p].obj \in objs
  /\ \A o \in objs : \E p \in 1 .. Len(code) : code[p].obj = o
  /\ \A p, r \in 1 .. Len(code) : code[p].obj = code[r].obj => p = r

\* The allocations of some arguments are one for each of their objects.
LEMMA AllocationsPlaced ==
  ASSUME req \in Requests, NEW I \in SUBSET (1 .. NumParams),
         NEW seqs, seqs = [i \in 1 .. NumParams |-> IF i \in I THEN Allocations(i) ELSE <<>>]
  PROVE  /\ FlattenSeq(seqs) \in Seq(AllocationInsts)
         /\ OneForEach(FlattenSeq(seqs), {o \in Objects : o[1] \in I})
         /\ \A p \in 1 .. Len(FlattenSeq(seqs)) :
              LET o == FlattenSeq(seqs)[p].obj IN FlattenSeq(seqs)[p] = Allocation(o[1], o[2])
  <1>1. NumParams \in Nat
    BY ParamFacts
  <1>2. ASSUME NEW i \in 1 .. NumParams
        PROVE  /\ Allocations(i) \in Seq(AllocationInsts)
               /\ Len(Allocations(i)) = IF isOutbound(Direction(i)) THEN 2 ELSE 1
               /\ \A q \in 1 .. Len(Allocations(i)) :
                    q \in {1, 2} /\ Allocations(i)[q] = Allocation(i, q)
    <2>1. Allocation(i, 1) \in AllocationInsts /\ Allocation(i, 2) \in AllocationInsts
      BY DEF AllocationInsts
    <2> HIDE DEF AllocationInsts
    <2>2. CASE isOutbound(Direction(i))
      <3>1. Allocations(i) = <<Allocation(i, 1), Allocation(i, 2)>>
        BY <2>2 DEF Allocations
      <3> QED BY <2>1, <2>2, <3>1
    <2>3. CASE ~isOutbound(Direction(i))
      <3>1. Allocations(i) = <<Allocation(i, 1)>>
        BY <2>3 DEF Allocations
      <3> QED BY <2>1, <2>3, <3>1
    <2> QED BY <2>2, <2>3
  <1>3. seqs \in Seq(Seq(AllocationInsts)) /\ Len(seqs) = NumParams
    <2>1. \A i \in 1 .. NumParams : seqs[i] \in Seq(AllocationInsts)
      BY <1>2
    <2>2. seqs \in [1 .. NumParams -> Seq(AllocationInsts)]
      BY <2>1
    <2> QED BY <1>1, <2>2
  <1>4. PICK piece, within : Places(FlattenSeq(seqs), seqs, NumParams, piece, within)
    BY <1>3, FlattenPlaces
  <1> DEFINE F == FlattenSeq(seqs)
  <1>5. Len(F) \in Nat
    BY <1>4 DEF Places
  <1>6. ASSUME NEW p \in 1 .. Len(F)
        PROVE  /\ piece[p] \in I /\ piece[p] \in 1 .. NumParams /\ within[p] \in {1, 2}
               /\ F[p] = Allocation(piece[p], within[p])
               /\ within[p] = 1 \/ isOutbound(Direction(piece[p]))
    <2>1. /\ piece[p] \in 1 .. NumParams /\ within[p] \in 1 .. Len(seqs[piece[p]])
          /\ F[p] = seqs[piece[p]][within[p]]
      BY <1>4 DEF Places
    <2>2. piece[p] \in I /\ seqs[piece[p]] = Allocations(piece[p])
      BY <2>1
    <2> QED BY <1>2, <2>1, <2>2
  <1>7. \A i, c : Allocation(i, c).obj = <<i, c>>
    BY DEF Allocation, Obj
  <1>8. \A p, r \in 1 .. Len(F) :
          p < r => \/ piece[p] < piece[r]
                   \/ /\ piece[p] = piece[r]
                      /\ within[p] < within[r]
    BY <1>4 DEF Places
  <1>9. \A i \in I : \A q \in 1 .. Len(Allocations(i)) :
          \E p \in 1 .. Len(F) : piece[p] = i /\ within[p] = q
    BY <1>4 DEF Places
  <1> HIDE DEF F
  <1>10. \A p \in 1 .. Len(F) : F[p].obj = <<piece[p], within[p]>>
    BY <1>6, <1>7
  <1>11. \A p \in 1 .. Len(F) : F[p] = Allocation(F[p].obj[1], F[p].obj[2])
    BY <1>6, <1>10
  <1>12. F \in Seq(AllocationInsts)
    <2>1. ASSUME NEW p \in 1 .. Len(F) PROVE F[p] \in AllocationInsts
      BY <1>6 DEF AllocationInsts
    <2>2. \E U : F \in Seq(U)
      BY <1>4 DEF Places, F
    <2> QED BY <2>1, <2>2
  <1>13. OneForEach(F, {o \in Objects : o[1] \in I})
    <2>1. ASSUME NEW p \in 1 .. Len(F) PROVE F[p].obj \in {o \in Objects : o[1] \in I}
      <3> DEFINE o == <<piece[p], within[p]>>
      <3>1. o \in (1 .. NumParams) \X {1, 2} /\ o[1] = piece[p] /\ o[2] = within[p]
        BY <1>6
      <3>2. o \in Objects /\ o[1] \in I
        BY <1>6, <3>1 DEF Objects
      <3> QED BY <1>10, <3>2
    <2>2. ASSUME NEW o \in Objects, o[1] \in I
          PROVE  \E p \in 1 .. Len(F) : F[p].obj = o
      <3>1. o = <<o[1], o[2]>> /\ o[1] \in 1 .. NumParams /\ o[2] \in 1 .. Len(Allocations(o[1]))
        BY <1>2, <2>2 DEF Objects
      <3> QED BY <1>9, <1>10, <2>2, <3>1
    <2>3. ASSUME NEW p \in 1 .. Len(F), NEW r \in 1 .. Len(F), F[p].obj = F[r].obj
          PROVE  p = r
      <3>1. piece[p] = piece[r] /\ within[p] = within[r]
        BY <1>10, <2>3
      <3>2. piece[p] \in Nat /\ within[p] \in Nat
        BY <1>1, <1>6
      <3> QED BY <1>5, <1>8, <3>1, <3>2
    <2> QED BY <2>1, <2>2, <2>3 DEF OneForEach
  <1> QED BY <1>11, <1>12, <1>13 DEF F

\* setup allocates every object once.
LEMMA SetupCodeIs ==
  ASSUME req \in Requests
  PROVE  /\ SetupCode \in Seq(AllocationInsts)
         /\ OneForEach(SetupCode, Objects)
         /\ \A p \in 1 .. Len(SetupCode) :
              LET o == SetupCode[p].obj IN SetupCode[p] = Allocation(o[1], o[2])
  <1> DEFINE seqs == [i \in 1 .. NumParams |->
                        IF i \in 1 .. NumParams THEN Allocations(i) ELSE <<>>]
  <1>1. SetupCode = FlattenSeq(seqs)
    <2>1. [i \in 1 .. NumParams |-> Allocations(i)] = seqs
      OBVIOUS
    <2> HIDE DEF seqs
    <2> QED BY <2>1 DEF SetupCode
  <1>2. {o \in Objects : o[1] \in 1 .. NumParams} = Objects
    BY DEF Objects
  <1>3. 1 .. NumParams \in SUBSET (1 .. NumParams)
    OBVIOUS
  <1>4. /\ FlattenSeq(seqs) \in Seq(AllocationInsts)
        /\ OneForEach(FlattenSeq(seqs), {o \in Objects : o[1] \in 1 .. NumParams})
        /\ \A p \in 1 .. Len(FlattenSeq(seqs)) :
             LET o == FlattenSeq(seqs)[p].obj IN FlattenSeq(seqs)[p] = Allocation(o[1], o[2])
    BY <1>3, AllocationsPlaced
  <1> HIDE DEF seqs
  <1> QED BY <1>1, <1>2, <1>4

\* teardown frees every object of the heap once.
LEMMA TeardownCodeIs ==
  ASSUME req \in Requests
  PROVE  /\ TeardownCode \in Seq({[op |-> "free", obj |-> o] : o \in HeapObjects})
         /\ OneForEach(TeardownCode, HeapObjects)
  <1> DEFINE I == {i \in 1 .. NumParams : Param(i).ptr}
             seqs == [i \in 1 .. NumParams |-> IF i \in I THEN Allocations(i) ELSE <<>>]
             H == FlattenSeq(seqs)
             n == Len(H)
  <1>1. HeapAllocs = H
    <2>1. [i \in 1 .. NumParams |-> IF Param(i).ptr THEN Allocations(i) ELSE <<>>] = seqs
      OBVIOUS
    <2> HIDE DEF seqs
    <2> QED BY <2>1 DEF HeapAllocs
  <1>2. HeapObjects = {o \in Objects : o[1] \in I}
    BY DEF HeapObjects, Objects
  <1>3. I \in SUBSET (1 .. NumParams)
    OBVIOUS
  <1> HIDE DEF I
  <1>4. H \in Seq(AllocationInsts) /\ OneForEach(H, HeapObjects)
    BY <1>2, <1>3, AllocationsPlaced
  <1> HIDE DEF seqs, H
  <1>5. n \in Nat
    BY <1>4
  <1> HIDE DEF n
  <1>6. TeardownCode = [j \in 1 .. n |-> [op |-> "free", obj |-> H[(n - j) + 1].obj]]
    <2>1. Reverse(H) = [j \in 1 .. n |-> H[(n - j) + 1]]
      BY DEF Reverse, n
    <2>2. DOMAIN Reverse(H) = 1 .. n
      BY <2>1
    <2> QED BY <1>1, <2>1, <2>2 DEF TeardownCode
  <1>7. \A j \in 1 .. n : (n - j) + 1 \in 1 .. n /\ (n - ((n - j) + 1)) + 1 = j
    BY <1>5
  <1>8. \A p \in 1 .. n : H[p].obj \in HeapObjects
    BY <1>4 DEF OneForEach, n
  <1>9. /\ TeardownCode \in Seq({[op |-> "free", obj |-> o] : o \in HeapObjects})
        /\ Len(TeardownCode) = n
        /\ \A j \in 1 .. n : TeardownCode[j].obj = H[(n - j) + 1].obj
    <2> DEFINE S == {[op |-> "free", obj |-> o] : o \in HeapObjects}
    <2>1. \A j \in 1 .. n : [op |-> "free", obj |-> H[(n - j) + 1].obj] \in S
      BY <1>7, <1>8
    <2> HIDE DEF S
    <2>2. TeardownCode \in [1 .. n -> S]
      BY <1>6, <2>1
    <2>3. \A j \in 1 .. n : TeardownCode[j].obj = H[(n - j) + 1].obj
      BY <1>6
    <2>4. TeardownCode \in Seq(S) /\ Len(TeardownCode) = n
      BY <1>5, <2>2
    <2> QED BY <2>3, <2>4 DEF S
  <1>10. ASSUME NEW o \in HeapObjects PROVE \E j \in 1 .. n : TeardownCode[j].obj = o
    <2>1. PICK p \in 1 .. n : H[p].obj = o
      BY <1>4 DEF OneForEach, n
    <2>2. (n - p) + 1 \in 1 .. n /\ TeardownCode[(n - p) + 1].obj = o
      BY <1>7, <1>9, <2>1
    <2> QED BY <2>2
  <1>11. ASSUME NEW p \in 1 .. n, NEW r \in 1 .. n, TeardownCode[p].obj = TeardownCode[r].obj
         PROVE  p = r
    <2>1. (n - p) + 1 = (n - r) + 1
      BY <1>4, <1>7, <1>9, <1>11 DEF OneForEach, n
    <2> QED BY <1>5, <2>1
  <1>12. \A p \in 1 .. n : TeardownCode[p].obj \in HeapObjects
    BY <1>7, <1>8, <1>9
  <1> QED BY <1>9, <1>10, <1>11, <1>12 DEF OneForEach

CopyInst(i) == Memcpy(Obj(i, 2), Obj(i, 1), AllocSize(i))

SymbolizeInsts == {Symbolize(o, AllocSize(o[1])) : o \in Objects} \cup {CopyInst(i) : i \in OutboundArgs}

\* The object an instruction of se.setup writes.
WrittenObject(inst) == IF inst.op = "memcpy" THEN inst.dst ELSE inst.obj

\* se.setup writes the objects of every argument that is not purely outbound, and
\* none of an argument once its second copy has been made.
LEMMA SymbolizeCodeIs ==
  ASSUME req \in Requests
  PROVE  /\ SymbolizeCode \in Seq(SymbolizeInsts)
         /\ \A i \in OutboundArgs : ~isOnlyOutbound(Direction(i)) =>
              \E p \in 1 .. Len(SymbolizeCode) : SymbolizeCode[p] = CopyInst(i)
         /\ \A p \in 1 .. Len(SymbolizeCode) :
              ~isOnlyOutbound(Direction(WrittenObject(SymbolizeCode[p])[1]))
         /\ \A p, r \in 1 .. Len(SymbolizeCode) :
              p < r /\ SymbolizeCode[p].op = "memcpy" =>
                WrittenObject(SymbolizeCode[p])[1] # WrittenObject(SymbolizeCode[r])[1]
  <1> DEFINE seqs == [i \in 1 .. NumParams |-> SymbolicCodeOf(i)]
             F == FlattenSeq(seqs)
  <1>1. NumParams \in Nat
    BY ParamFacts
  <1>2. ASSUME NEW i \in 1 .. NumParams
        PROVE  /\ SymbolicCodeOf(i) \in Seq(SymbolizeInsts)
               /\ \A q \in 1 .. Len(SymbolicCodeOf(i)) :
                    /\ ~isOnlyOutbound(Direction(i))
                    /\ WrittenObject(SymbolicCodeOf(i)[q])[1] = i
                    /\ SymbolicCodeOf(i)[q].op = "memcpy" => q = Len(SymbolicCodeOf(i))
               /\ i \in OutboundArgs /\ ~isOnlyOutbound(Direction(i)) =>
                    3 \in 1 .. Len(SymbolicCodeOf(i)) /\ SymbolicCodeOf(i)[3] = CopyInst(i)
    <2> DEFINE s1 == Symbolize(Obj(i, 1), AllocSize(i))
               s2 == Symbolize(Obj(i, 2), AllocSize(i))
               c == CopyInst(i)
    <2>0. i \in OutboundArgs <=> isOutbound(Direction(i))
      BY DEF OutboundArgs
    <2>1. /\ s1 \in SymbolizeInsts
          /\ isOutbound(Direction(i)) => s2 \in SymbolizeInsts /\ c \in SymbolizeInsts
      <3>1. Obj(i, 1) \in Objects /\ Obj(i, 1)[1] = i
        BY DEF Objects, Obj
      <3>2. isOutbound(Direction(i)) => Obj(i, 2) \in Objects
        BY DEF Objects, Obj
      <3>3. Obj(i, 2)[1] = i
        BY DEF Obj
      <3> QED BY <2>0, <3>1, <3>2, <3>3 DEF SymbolizeInsts
    <2>2. /\ WrittenObject(s1)[1] = i /\ WrittenObject(s2)[1] = i /\ WrittenObject(c)[1] = i
          /\ s1.op = "symbolize" /\ s2.op = "symbolize" /\ c.op = "memcpy"
      BY DEF WrittenObject, Symbolize, Memcpy, CopyInst, Obj
    <2>3. CASE isOnlyOutbound(Direction(i))
      <3>1. SymbolicCodeOf(i) = <<>>
        BY <2>3 DEF SymbolicCodeOf
      <3> QED BY <2>3, <3>1
    <2>4. CASE ~isOnlyOutbound(Direction(i)) /\ isOutbound(Direction(i))
      <3>1. SymbolicCodeOf(i) = <<s1, s2, c>>
        BY <2>4 DEF SymbolicCodeOf, CopyInst
      <3> HIDE DEF s1, s2, c
      <3>2. <<s1, s2, c>> \in Seq(SymbolizeInsts)
        BY <2>1, <2>4
      <3>3. ASSUME NEW q \in 1 .. 3
            PROVE  /\ WrittenObject(<<s1, s2, c>>[q])[1] = i
                   /\ <<s1, s2, c>>[q].op = "memcpy" => q = 3
        <4>1. q = 1 \/ q = 2 \/ q = 3
          OBVIOUS
        <4> QED BY <2>2, <4>1
      <3>4. Len(<<s1, s2, c>>) = 3
        OBVIOUS
      <3>5. <<s1, s2, c>>[3] = CopyInst(i)
        BY DEF c
      <3> HIDE DEF WrittenObject, CopyInst, OutboundArgs
      <3> QED BY <2>4, <3>1, <3>2, <3>3, <3>4, <3>5
    <2>5. CASE ~isOnlyOutbound(Direction(i)) /\ ~isOutbound(Direction(i))
      <3>1. SymbolicCodeOf(i) = <<s1>>
        BY <2>5 DEF SymbolicCodeOf
      <3> HIDE DEF s1, s2, c
      <3> QED BY <2>0, <2>1, <2>2, <2>5, <3>1
    <2> QED BY <2>3, <2>4, <2>5
  <1>3. seqs \in Seq(Seq(SymbolizeInsts)) /\ Len(seqs) = NumParams
    <2>1. seqs \in [1 .. NumParams -> Seq(SymbolizeInsts)]
      BY <1>2
    <2> QED BY <1>1, <2>1
  <1>4. PICK piece, within : Places(F, seqs, NumParams, piece, within)
    BY <1>3, FlattenPlaces
  <1>5. SymbolizeCode = F
    BY DEF SymbolizeCode
  <1>6. ASSUME NEW p \in 1 .. Len(F)
        PROVE  /\ piece[p] \in 1 .. NumParams /\ within[p] \in 1 .. Len(SymbolicCodeOf(piece[p]))
               /\ F[p] = SymbolicCodeOf(piece[p])[within[p]]
    BY <1>4 DEF Places
  <1>7. \A p, r \in 1 .. Len(F) :
          p < r => \/ piece[p] < piece[r]
                   \/ /\ piece[p] = piece[r]
                      /\ within[p] < within[r]
    BY <1>4 DEF Places
  <1>8. \A i \in 1 .. NumParams : \A q \in 1 .. Len(SymbolicCodeOf(i)) :
          \E p \in 1 .. Len(F) : piece[p] = i /\ within[p] = q
    BY <1>4 DEF Places
  <1>9. \E U : F \in Seq(U)
    BY <1>4 DEF Places
  <1> HIDE DEF F
  <1>10. ASSUME NEW p \in 1 .. Len(F)
         PROVE  /\ F[p] \in SymbolizeInsts
                /\ WrittenObject(F[p])[1] = piece[p] /\ ~isOnlyOutbound(Direction(piece[p]))
                /\ F[p].op = "memcpy" => within[p] = Len(SymbolicCodeOf(piece[p]))
    BY <1>2, <1>6
  <1>11. F \in Seq(SymbolizeInsts)
    BY <1>9, <1>10
  <1>12. ASSUME NEW i \in OutboundArgs, ~isOnlyOutbound(Direction(i))
         PROVE  \E p \in 1 .. Len(F) : F[p] = CopyInst(i)
    <2>1. i \in 1 .. NumParams
      BY DEF OutboundArgs
    <2>2. 3 \in 1 .. Len(SymbolicCodeOf(i)) /\ SymbolicCodeOf(i)[3] = CopyInst(i)
      BY <1>2, <1>12, <2>1
    <2>3. PICK p \in 1 .. Len(F) : piece[p] = i /\ within[p] = 3
      BY <1>8, <2>1, <2>2
    <2> QED BY <1>6, <2>2, <2>3
  <1>13. ASSUME NEW p \in 1 .. Len(F), NEW r \in 1 .. Len(F), p < r, F[p].op = "memcpy"
         PROVE  WrittenObject(F[p])[1] # WrittenObject(F[r])[1]
    <2>1. piece[p] \in Nat /\ piece[r] \in Nat
      BY <1>1, <1>6
    <2>2. within[r] \in 1 .. Len(SymbolicCodeOf(piece[r])) /\ Len(SymbolicCodeOf(piece[r])) \in Nat
      BY <1>2, <1>6
    <2>3. within[p] = Len(SymbolicCodeOf(piece[p]))
      BY <1>10, <1>13
    <2>4. ~(piece[p] = piece[r])
      BY <1>7, <1>13, <2>1, <2>2, <2>3
    <2> QED BY <1>10, <2>4
  <1> QED BY <1>5, <1>10, <1>11, <1>12, <1>13

\* After the comparison of an argument comes that of the next outbound one.
LEMMA NextCondIs ==
  ASSUME req \in Requests, NEW i \in Nat
  PROVE  \/ /\ NextCond(i) = B("se.end.teardown")
            /\ \A j \in OutboundArgs : ~(j > i)
         \/ \E j \in OutboundArgs : /\ NextCond(i) = Cond(j) /\ j > i
                                    /\ \A l \in OutboundArgs : l > i => j <= l
  <1> DEFINE later == {j \in OutboundArgs : j > i}
  <1>1. later \subseteq Nat
    BY ParamFacts DEF OutboundArgs
  <1>2. NextCond(i) = IF later = {} THEN B("se.end.teardown") ELSE Cond(Min(later))
    BY DEF NextCond
  <1> HIDE DEF later
  <1>3. CASE later = {}
    BY <1>2, <1>3 DEF later
  <1>4. CASE later # {}
    <2>1. PICK m \in later : \A y \in later : ~(<<y, m>> \in OpToRel(<, Nat))
      BY <1>1, <1>4, WFMin, NatLessThanWellFounded
    <2>2. ASSUME NEW y \in later PROVE m <= y
      <3>1. m \in Nat /\ y \in Nat /\ ~(<<y, m>> \in OpToRel(<, Nat))
        BY <1>1, <2>1
      <3> QED BY <3>1 DEF OpToRel
    <2>3. Min(later) \in later /\ \A y \in later : Min(later) <= y
      BY <2>2 DEF Min
    <2>4. /\ Min(later) \in OutboundArgs /\ Min(later) > i
          /\ \A l \in OutboundArgs : l > i => Min(later) <= l
      BY <2>3 DEF later
    <2> QED BY <1>2, <1>4, <2>4
  <1> QED BY <1>3, <1>4

-----------------------------------------------------------------------------
(***************************************************************************)
(* Every step keeps the shape.                                             *)
(***************************************************************************)

\* What the code is made from does not change once the specifications are there.
LEMMA CodeStable ==
  ASSUME req' = req, argSpecs' = argSpecs
  PROVE  /\ \A n, s : NamedCode(n, s)' = NamedCode(n, s)
         /\ OutboundArgs' = OutboundArgs /\ AssertionNames' = AssertionNames
         /\ \A i : ComparisonCode(i)' = ComparisonCode(i)
         /\ \A s : BlockNames(s)' = BlockNames(s)
         /\ \A i, k : CallArg(i, k)' = CallArg(i, k)
         /\ \A i : SecondCopy(i)' = SecondCopy(i)
         /\ NumParams' = NumParams /\ Loop1' = Loop1 /\ Loop2' = Loop2
         /\ \A s : Passed(s) => Passed(s)'
  <1>1. /\ NumParams' = NumParams /\ \A i : Param(i)' = Param(i) /\ Direction(i)' = Direction(i)
        /\ \A i : Multiplier(i)' = Multiplier(i)
        /\ Loop1' = Loop1 /\ Loop2' = Loop2
    BY DEF NumParams, Param, Direction, Multiplier, Loop1, Loop2
  <1>2. \A i : AllocSize(i)' = AllocSize(i) /\ ComparedSize(i)' = ComparedSize(i)
    BY <1>1 DEF AllocSize, ComparedSize
  <1>3. \A i : \A c : Allocation(i, c)' = Allocation(i, c)
    BY <1>1, <1>2 DEF Allocation
  <1>4. \A i : Allocations(i)' = Allocations(i) /\ SecondCopy(i)' = SecondCopy(i)
    BY <1>1, <1>3 DEF Allocations, SecondCopy
  <1>5. SetupCode' = SetupCode /\ HeapAllocs' = HeapAllocs
    BY <1>1, <1>4 DEF SetupCode, HeapAllocs
  <1>6. TeardownCode' = TeardownCode
    BY <1>5 DEF TeardownCode
  <1>7. SymbolizeCode' = SymbolizeCode
    BY <1>1, <1>2 DEF SymbolizeCode, SymbolicCodeOf
  <1>8. OutboundArgs' = OutboundArgs
    BY <1>1 DEF OutboundArgs
  <1>9. AssertionNames' = AssertionNames /\ \A i : NextCond(i)' = NextCond(i)
    BY <1>8 DEF AssertionNames, NextCond
  <1>10. StartCode' = StartCode /\ \A i : ComparisonCode(i)' = ComparisonCode(i)
    BY <1>2, <1>9 DEF StartCode, ComparisonCode
  <1>11. \A i, k : CallArg(i, k)' = CallArg(i, k)
    BY <1>4 DEF CallArg
  <1>12. \A k : CallInst(k)' = CallInst(k)
    BY <1>1, <1>11 DEF CallInst, Operand
  <1>13. \A n, s : NamedCode(n, s)' = NamedCode(n, s)
    BY <1>5, <1>6, <1>7, <1>10, <1>12 DEF NamedCode
  <1>14. \A s : BlockNames(s)' = BlockNames(s)
    BY <1>9 DEF BlockNames
  <1>15. ZeroSized' <=> ZeroSized
    BY <1>1 DEF ZeroSized
  <1>16. BadMemcpySignature' <=> BadMemcpySignature
    BY <1>1 DEF BadMemcpySignature
  <1>17. \A s : Passed(s) => Passed(s)'
    BY <1>1, <1>15, <1>16 DEF Passed
  <1> QED BY <1>1, <1>4, <1>8, <1>9, <1>10, <1>11, <1>13, <1>14, <1>17

LEMMA StageIs ==
  /\ phase \in Phases => Stage \in 0 .. 10
  /\ \A p \in Phases : phase = p => Stage = Order[p]
  BY DEF Phases, Stage, Order

LEMMA PhaseStages ==
  /\ Order["encapsulateImpl"] = 0 /\ Order["setupHarnessArgs"] = 1
  /\ Order["createSymbolicDeclarations"] = 2 /\ Order["createSymbolicAssertions"] = 3
  /\ Order["createLoop1"] = 4 /\ Order["createLoop2"] = 5 /\ Order["passIterator"] = 6
  /\ Order["createCall1"] = 7 /\ Order["createCall2"] = 8 /\ Order["controlFlow"] = 9
  /\ Order["done"] = 10
  BY DEF Order

\* Stages that do not touch the block n.
LEMMA CodeStays ==
  \A n \in NamedBlocks :
    /\ n \notin {"setup", "teardown"} => NamedCode(n, 2) = NamedCode(n, 1)
    /\ n # "se.setup" => NamedCode(n, 3) = NamedCode(n, 2)
    /\ n # "se.start.teardown" => NamedCode(n, 4) = NamedCode(n, 3)
    /\ n \notin {"call1.setup", "call1.body"} => NamedCode(n, 5) = NamedCode(n, 4)
    /\ n \notin {"call2.setup", "call2.body"} => NamedCode(n, 6) = NamedCode(n, 5)
    /\ NamedCode(n, 7) = NamedCode(n, 6)
    /\ n # "call1.body" => NamedCode(n, 8) = NamedCode(n, 7)
    /\ n # "call2.body" => NamedCode(n, 9) = NamedCode(n, 8)
    /\ n \in {"call1.setup", "call1.body", "call2.setup", "call2.body", "se.start.teardown"} =>
         NamedCode(n, 10) = NamedCode(n, 9)
  <1> SUFFICES ASSUME NEW n \in NamedBlocks
               PROVE  /\ n \notin {"setup", "teardown"} => NamedCode(n, 2) = NamedCode(n, 1)
                      /\ n # "se.setup" => NamedCode(n, 3) = NamedCode(n, 2)
                      /\ n # "se.start.teardown" => NamedCode(n, 4) = NamedCode(n, 3)
                      /\ n \notin {"call1.setup", "call1.body"} => NamedCode(n, 5) = NamedCode(n, 4)
                      /\ n \notin {"call2.setup", "call2.body"} => NamedCode(n, 6) = NamedCode(n, 5)
                      /\ NamedCode(n, 7) = NamedCode(n, 6)
                      /\ n # "call1.body" => NamedCode(n, 8) = NamedCode(n, 7)
                      /\ n # "call2.body" => NamedCode(n, 9) = NamedCode(n, 8)
                      /\ n \in {"call1.setup", "call1.body", "call2.setup", "call2.body",
                                "se.start.teardown"} =>
                           NamedCode(n, 10) = NamedCode(n, 9)
    OBVIOUS
  <1>1. n \notin {"setup", "teardown"} => NamedCode(n, 2) = NamedCode(n, 1)
    BY DEF NamedCode, NamedBlocks
  <1>2. n # "se.setup" => NamedCode(n, 3) = NamedCode(n, 2)
    BY DEF NamedCode, NamedBlocks
  <1>3. n # "se.start.teardown" => NamedCode(n, 4) = NamedCode(n, 3)
    BY DEF NamedCode, NamedBlocks
  <1>4. n \notin {"call1.setup", "call1.body"} => NamedCode(n, 5) = NamedCode(n, 4)
    BY DEF NamedCode, NamedBlocks
  <1>5. n \notin {"call2.setup", "call2.body"} => NamedCode(n, 6) = NamedCode(n, 5)
    BY DEF NamedCode, NamedBlocks
  <1>6. NamedCode(n, 7) = NamedCode(n, 6)
    BY DEF NamedCode, NamedBlocks
  <1>7. n # "call1.body" => NamedCode(n, 8) = NamedCode(n, 7)
    BY DEF NamedCode, NamedBlocks
  <1>8. n # "call2.body" => NamedCode(n, 9) = NamedCode(n, 8)
    BY DEF NamedCode, NamedBlocks
  <1>9. n \in {"call1.setup", "call1.body", "call2.setup", "call2.body", "se.start.teardown"} =>
          NamedCode(n, 10) = NamedCode(n, 9)
    BY DEF NamedCode, NamedBlocks
  <1> QED BY <1>1, <1>2, <1>3, <1>4, <1>5, <1>6, <1>7, <1>8, <1>9

\* What the stages that do touch it make of it.
LEMMA CodeChanges ==
  /\ \A n \in NamedBlocks : NamedCode(n, 1) = <<>>
  /\ NamedCode("setup", 2) = SetupCode /\ NamedCode("teardown", 2) = TeardownCode
  /\ NamedCode("se.setup", 2) = <<>> /\ NamedCode("se.setup", 3) = SymbolizeCode
  /\ NamedCode("se.start.teardown", 3) = <<>> /\ NamedCode("se.start.teardown", 4) = StartCode
  /\ NamedCode("call1.setup", 4) = <<>> /\ NamedCode("call1.setup", 5) = <<Br(<<"hdr", 1>>)>>
  /\ NamedCode("call1.body", 4) = <<>> /\ NamedCode("call1.body", 5) = <<Br(<<"latch", 1>>)>>
  /\ NamedCode("call2.setup", 5) = <<>> /\ NamedCode("call2.setup", 6) = <<Br(<<"hdr", 2>>)>>
  /\ NamedCode("call2.body", 5) = <<>> /\ NamedCode("call2.body", 6) = <<Br(<<"latch", 2>>)>>
  /\ NamedCode("call1.body", 7) = <<Br(<<"latch", 1>>)>>
  /\ NamedCode("call1.body", 8) = <<CallInst(1), Br(<<"latch", 1>>)>>
  /\ NamedCode("call2.body", 8) = <<Br(<<"latch", 2>>)>>
  /\ NamedCode("call2.body", 9) = <<CallInst(2), Br(<<"latch", 2>>)>>
  /\ NamedCode("setup", 9) = SetupCode /\ NamedCode("setup", 10) = Append(SetupCode, Br(B("se.setup")))
  /\ NamedCode("teardown", 9) = TeardownCode
  /\ NamedCode("teardown", 10) = Append(TeardownCode, Br(B("exit")))
  /\ NamedCode("se.setup", 9) = SymbolizeCode
  /\ NamedCode("se.setup", 10) = Append(SymbolizeCode, Br(B("call1.setup")))
  /\ NamedCode("call1.teardown", 9) = <<>>
  /\ NamedCode("call1.teardown", 10) = <<Br(B("call2.setup"))>>
  /\ NamedCode("call2.teardown", 9) = <<>>
  /\ NamedCode("call2.teardown", 10) = <<Br(B("se.start.teardown"))>>
  /\ NamedCode("se.end.teardown", 9) = <<>>
  /\ NamedCode("se.end.teardown", 10) = <<Br(B("teardown"))>>
  /\ NamedCode("exit", 9) = <<>> /\ NamedCode("exit", 10) = <<Ret>>
  <1>1. \A n \in NamedBlocks : NamedCode(n, 1) = <<>>
    BY DEF NamedCode, NamedBlocks
  <1>2. NamedCode("setup", 2) = SetupCode /\ NamedCode("teardown", 2) = TeardownCode
    BY DEF NamedCode
  <1>3. NamedCode("se.setup", 2) = <<>> /\ NamedCode("se.setup", 3) = SymbolizeCode
    BY DEF NamedCode
  <1>4. NamedCode("se.start.teardown", 3) = <<>> /\ NamedCode("se.start.teardown", 4) = StartCode
    BY DEF NamedCode
  <1>5. NamedCode("call1.setup", 4) = <<>> /\ NamedCode("call1.setup", 5) = <<Br(<<"hdr", 1>>)>>
    BY DEF NamedCode
  <1>6. NamedCode("call1.body", 4) = <<>> /\ NamedCode("call1.body", 5) = <<Br(<<"latch", 1>>)>>
    BY DEF NamedCode
  <1>7. NamedCode("call2.setup", 5) = <<>> /\ NamedCode("call2.setup", 6) = <<Br(<<"hdr", 2>>)>>
    BY DEF NamedCode
  <1>8. NamedCode("call2.body", 5) = <<>> /\ NamedCode("call2.body", 6) = <<Br(<<"latch", 2>>)>>
    BY DEF NamedCode
  <1>9. /\ NamedCode("call1.body", 7) = <<Br(<<"latch", 1>>)>>
        /\ NamedCode("call1.body", 8) = <<CallInst(1), Br(<<"latch", 1>>)>>
    BY DEF NamedCode
  <1>10. /\ NamedCode("call2.body", 8) = <<Br(<<"latch", 2>>)>>
         /\ NamedCode("call2.body", 9) = <<CallInst(2), Br(<<"latch", 2>>)>>
    BY DEF NamedCode
  <1>11. /\ NamedCode("setup", 9) = SetupCode
         /\ NamedCode("setup", 10) = Append(SetupCode, Br(B("se.setup")))
    BY DEF NamedCode
  <1>12. /\ NamedCode("teardown", 9) = TeardownCode
         /\ NamedCode("teardown", 10) = Append(TeardownCode, Br(B("exit")))
    BY DEF NamedCode
  <1>13. /\ NamedCode("se.setup", 9) = SymbolizeCode
         /\ NamedCode("se.setup", 10) = Append(SymbolizeCode, Br(B("call1.setup")))
    BY DEF NamedCode
  <1>14. /\ NamedCode("call1.teardown", 9) = <<>>
         /\ NamedCode("call1.teardown", 10) = <<Br(B("call2.setup"))>>
         /\ NamedCode("call2.teardown", 9) = <<>>
         /\ NamedCode("call2.teardown", 10) = <<Br(B("se.start.teardown"))>>
    BY DEF NamedCode
  <1>15. /\ NamedCode("se.end.teardown", 9) = <<>>
         /\ NamedCode("se.end.teardown", 10) = <<Br(B("teardown"))>>
         /\ NamedCode("exit", 9) = <<>> /\ NamedCode("exit", 10) = <<Ret>>
    BY DEF NamedCode
  <1> QED BY <1>1, <1>2, <1>3, <1>4, <1>5, <1>6, <1>7, <1>8, <1>9, <1>10, <1>11, <1>12, <1>13,
             <1>14, <1>15

\* The symbols of the request stay whatever is declared.
LEMMA SymbolsStay ==
  ASSUME SymbolsKept, req' = req,
         syms' = syms \/ \E d : syms' = Declare(syms, d)
  PROVE  SymbolsKept'
  BY DEF SymbolsKept, Declare

\* What can be declared now could be declared from the start.
LEMMA RoomBefore ==
  ASSUME SymbolsKept, NEW d, CanDeclare(syms, d)
  PROVE  CanDeclare(req.syms, d)
  BY DEF SymbolsKept, CanDeclare

\* The twelve blocks are there, and empty.
LEMMA EncapsulateImplShape ==
  ASSUME req \in Requests, Shape, EncapsulateImpl PROVE Shape'
  <1> USE DEF FailedCast
  <1>1. phase = "encapsulateImpl" /\ req' = req
    BY DEF EncapsulateImpl
  <1>2. SymbolsKept'
    BY <1>1, SymbolsStay DEF EncapsulateImpl, Shape
  <1>3. CASE phase' \in {"declined", "aborted", "undefined"}
    BY <1>2, <1>3 DEF Shape, Phases
  <1>4. CASE phase' = "setupHarnessArgs"
    <2>1. /\ argSpecs' = FillMissing(req.argSpecs, NumParams) /\ ~req.isDeclaration
          /\ UNCHANGED <<callArgs1, callArgs2, loops>>
          /\ ir' = AddBlocks(ir, [b \in {B(n) : n \in NamedBlocks} |-> <<>>])
      BY <1>4 DEF EncapsulateImpl
    <2>2. CodeShape(0) /\ ArgShape(0) /\ LoopShape(0)
      BY <1>1, StageIs, PhaseStages DEF Shape, Phases
    <2>3. Stage' = 1
      BY <1>4 DEF Stage, Order
    <2> DEFINE more == [b \in {B(n) : n \in NamedBlocks} |-> <<>>]
    <2>4. /\ DOMAIN more = {B(n) : n \in NamedBlocks}
          /\ \A n \in NamedBlocks : B(n) \in DOMAIN more /\ more[B(n)] = <<>>
      OBVIOUS
    <2>5. ir' = AddBlocks(ir, more)
      BY <2>1
    <2> HIDE DEF more
    <2>6. DOMAIN ir = IF req.hasHarnessBody THEN {B("entry")} ELSE {}
      BY <2>2 DEF CodeShape, BlockNames
    <2>7. \A n \in NamedBlocks : B(n) \notin DOMAIN ir
      <3>1. \A n \in NamedBlocks : n # "entry"
        BY DEF NamedBlocks
      <3> QED BY <2>6, <3>1, NamesDiffer
    <2>16. /\ DOMAIN ir' = DOMAIN ir \cup DOMAIN more
           /\ \A b \in DOMAIN ir : ir'[b] = ir[b]
           /\ \A b \in DOMAIN more : b \notin DOMAIN ir => ir'[b] = more[b]
      <3> DEFINE new == AddBlocks(ir, more)
      <3>1. /\ DOMAIN new = DOMAIN ir \cup DOMAIN more
            /\ \A b \in DOMAIN ir : new[b] = ir[b]
            /\ \A b \in DOMAIN more : b \notin DOMAIN ir => new[b] = more[b]
        BY AddAt
      <3> HIDE DEF new
      <3>2. ir' = new
        BY <2>5 DEF new
      <3> QED BY <3>1, <3>2
    <2>8. DOMAIN ir' = BlockNames(1)'
      <3>1. BlockNames(1)' = (IF req.hasHarnessBody THEN {B("entry")} ELSE {}) \cup {B(n) : n \in NamedBlocks}
        BY <1>1 DEF BlockNames
      <3> QED BY <2>4, <2>6, <2>16, <3>1
    <2>9. req'.hasHarnessBody => ir'[B("entry")] = <<Ret>>
      BY <1>1, <2>2, <2>6, <2>16 DEF CodeShape
    <2>10. \A n \in NamedBlocks : ir'[B(n)] = <<>>
      BY <2>4, <2>7, <2>16
    <2>11. \A n \in NamedBlocks : ir'[B(n)] = NamedCode(n, 1)'
      BY <2>10 DEF NamedCode, NamedBlocks
    <2>12. CodeShape(1)'
      BY <2>8, <2>9, <2>11 DEF CodeShape
    <2>13. ArgShape(1)'
      BY <2>1, <2>2 DEF ArgShape
    <2>14. LoopShape(1)'
      BY <2>1, <2>2 DEF LoopShape
    <2>15. Passed(1)'
      BY <1>1, <2>1 DEF Passed, NumParams
    <2> QED BY <1>2, <2>3, <2>12, <2>13, <2>14, <2>15 DEF Shape
  <1> QED BY <1>3, <1>4 DEF EncapsulateImpl

\* At stage 1 the blocks are empty, and those that setup and teardown become are
\* the only ones that change.
LEMMA SetupHarnessArgsShape ==
  ASSUME req \in Requests, Shape, SetupHarnessArgs PROVE Shape'
  <1> USE DEF FailedCast
  <1>1. phase = "setupHarnessArgs" /\ req' = req /\ argSpecs' = argSpecs /\ loops' = loops
    BY DEF SetupHarnessArgs
  <1>2. SymbolsKept'
    BY <1>1, SymbolsStay DEF SetupHarnessArgs, Shape
  <1>3. CASE phase' \in {"aborted", "undefined"}
    BY <1>2, <1>3 DEF Shape, Phases
  <1>4. CASE phase' = "createSymbolicDeclarations"
    <2>1. CodeShape(1) /\ ArgShape(1) /\ LoopShape(1) /\ Passed(1)
      BY <1>1, StageIs, PhaseStages DEF Shape, Phases
    <2>2. Stage' = 2
      BY <1>4 DEF Stage, Order
    <2>3. /\ SetupCode \in Seq(AllocationInsts) /\ OneForEach(SetupCode, Objects)
          /\ TeardownCode \in Seq({[op |-> "free", obj |-> o] : o \in HeapObjects})
          /\ OneForEach(TeardownCode, HeapObjects)
          /\ NumParams \in Nat
      BY SetupCodeIs, TeardownCodeIs, ParamFacts
    <2>4. /\ DOMAIN ir = BlockNames(1) /\ \A n \in NamedBlocks : B(n) \in DOMAIN ir /\ ir[B(n)] = <<>>
      BY <2>1, CodeChanges DEF CodeShape, BlockNames
    <2>5. /\ DOMAIN ir' = DOMAIN ir
          /\ ir'[B("setup")] = SetupCode /\ ir'[B("teardown")] = TeardownCode
          /\ \A b \in DOMAIN ir : b # B("setup") /\ b # B("teardown") => ir'[b] = ir[b]
      <3>0. B("setup") \in DOMAIN ir /\ B("teardown") \in DOMAIN ir /\ B("setup") # B("teardown")
        BY <2>4, NamesDiffer DEF NamedBlocks
      <3>1. CASE NumParams = 0
        <4>1. ir' = ir
          BY <1>4, <3>1 DEF SetupHarnessArgs
        <4>2. Objects = {} /\ HeapObjects = {}
          BY <3>1 DEF Objects, HeapObjects
        <4>3. SetupCode = <<>> /\ TeardownCode = <<>>
          <5>1. ASSUME NEW S, NEW s \in Seq(S), OneForEach(s, {}) PROVE s = <<>>
            <6>1. Len(s) \in Nat /\ ~(1 \in 1 .. Len(s))
              BY <5>1 DEF OneForEach
            <6>2. Len(s) = 0
              BY <6>1
            <6> QED BY <6>2
          <5> QED BY <2>3, <4>2, <5>1
        <4> QED BY <2>4, <3>0, <4>1, <4>3 DEF NamedBlocks
      <3>2. CASE NumParams > 0
        <4>1. ir' = Emit(Emit(ir, B("setup"), SetupCode), B("teardown"), TeardownCode)
          BY <1>4, <3>2 DEF SetupHarnessArgs
        <4> DEFINE mid == Emit(ir, B("setup"), SetupCode)
        <4>2. /\ DOMAIN mid = DOMAIN ir /\ mid[B("setup")] = ir[B("setup")] \o SetupCode
              /\ \A b \in DOMAIN ir : b # B("setup") => mid[b] = ir[b]
          BY <3>0, EmitAt
        <4> DEFINE new == Emit(mid, B("teardown"), TeardownCode)
        <4>6. ir' = new
          BY <4>1
        <4> HIDE DEF mid
        <4>8. B("teardown") \in DOMAIN mid
          BY <3>0, <4>2
        <4>7. /\ DOMAIN new = DOMAIN mid /\ new[B("teardown")] = mid[B("teardown")] \o TeardownCode
              /\ \A b \in DOMAIN mid : b # B("teardown") => new[b] = mid[b]
          BY <4>8, EmitAt
        <4> HIDE DEF new
        <4>3. /\ DOMAIN ir' = DOMAIN mid /\ ir'[B("teardown")] = mid[B("teardown")] \o TeardownCode
              /\ \A b \in DOMAIN mid : b # B("teardown") => ir'[b] = mid[b]
          BY <4>6, <4>7
        <4>4. ir[B("setup")] = <<>> /\ ir[B("teardown")] = <<>>
          BY <2>4 DEF NamedBlocks
        <4>5. <<>> \o SetupCode = SetupCode /\ <<>> \o TeardownCode = TeardownCode
          BY <2>3, ConcatEmptySeq
        <4> QED BY <3>0, <4>2, <4>3, <4>4, <4>5
      <3> QED BY <2>3, <3>1, <3>2
    <2>6. CodeShape(2)'
      <3>1. BlockNames(2) = BlockNames(1) /\ BlockNames(2)' = BlockNames(2)
        BY <1>1, CodeStable DEF BlockNames
      <3>2. req.hasHarnessBody => ir'[B("entry")] = ir[B("entry")]
        <4>1. B("entry") # B("setup") /\ B("entry") # B("teardown")
          BY NamesDiffer
        <4>2. req.hasHarnessBody => B("entry") \in DOMAIN ir
          BY <2>4 DEF BlockNames
        <4> QED BY <2>5, <4>1, <4>2
      <3>3. ASSUME NEW n \in NamedBlocks PROVE ir'[B(n)] = NamedCode(n, 2)
        <4>1. CASE n \in {"setup", "teardown"}
          BY <2>5, <4>1, CodeChanges
        <4>2. CASE n \notin {"setup", "teardown"}
          <5>1. B(n) # B("setup") /\ B(n) # B("teardown")
            BY <4>2, NamesDiffer
          <5>2. NamedCode(n, 2) = <<>>
            BY <4>2, CodeChanges, CodeStays
          <5> QED BY <2>4, <2>5, <5>1, <5>2
        <4> QED BY <4>1, <4>2
      <3>4. \A n \in NamedBlocks : NamedCode(n, 2)' = NamedCode(n, 2)
        BY <1>1, CodeStable
      <3> QED BY <1>1, <2>1, <2>4, <2>5, <3>1, <3>2, <3>3, <3>4 DEF CodeShape
    <2>7. ArgShape(2)'
      <3>1. CASE NumParams = 0
        <4>1. callArgs1' = callArgs1 /\ callArgs2' = callArgs2
          BY <1>4, <3>1 DEF SetupHarnessArgs
        <4> QED BY <1>1, <2>1, <3>1, <4>1 DEF ArgShape, NumParams
      <3>2. CASE NumParams > 0
        <4>1. /\ callArgs1' = [i \in 1 .. NumParams |-> Obj(i, 1)]
              /\ callArgs2' = [i \in 1 .. NumParams |-> SecondCopy(i)]
          BY <1>4, <3>2 DEF SetupHarnessArgs
        <4>2. NumParams' = NumParams /\ \A i : SecondCopy(i)' = SecondCopy(i)
          BY <1>1, CodeStable
        <4> QED BY <4>1, <4>2 DEF ArgShape
      <3> QED BY <2>3, <3>1, <3>2
    <2>8. LoopShape(2)'
      BY <1>1, <2>1 DEF LoopShape
    <2>9. Passed(2)'
      <3>1. NumParams > 0 => CanDeclare(syms, HeapDecls) /\ (ZeroSized => req.NDEBUG)
        BY <1>4 DEF SetupHarnessArgs
      <3>2. Passed(2)
        BY <2>1, <3>1, RoomBefore DEF Passed, Shape
      <3> QED BY <1>1, <3>2, CodeStable
    <2> QED BY <1>2, <2>2, <2>6, <2>7, <2>8, <2>9 DEF Shape
  <1> QED BY <1>3, <1>4 DEF SetupHarnessArgs

\* A stage that changes some of the blocks there are, and adds those it has to.
LEMMA CodeStep ==
  ASSUME req' = req, argSpecs' = argSpecs, NEW s \in 1 .. 9, CodeShape(s),
         NEW W \in SUBSET NamedBlocks,
         \A n \in NamedBlocks : n \notin W => NamedCode(n, s + 1) = NamedCode(n, s),
         DOMAIN ir' = BlockNames(s + 1),
         \A b \in DOMAIN ir : b \notin {B(n) : n \in W} => ir'[b] = ir[b],
         \A n \in W : ir'[B(n)] = NamedCode(n, s + 1),
         s = 3 => \A i \in OutboundArgs : ir'[Cond(i)] = ComparisonCode(i) /\ ir'[Fail(i)] = FailCode,
         s = 4 => \A b \in LoopNames(1) : ir'[b] = LoopBlocks(1)[b],
         s = 5 => \A b \in LoopNames(2) : ir'[b] = LoopBlocks(2)[b]
  PROVE  CodeShape(s + 1)'
  <1>1. /\ DOMAIN ir = BlockNames(s)
        /\ req.hasHarnessBody => ir[B("entry")] = <<Ret>>
        /\ \A n \in NamedBlocks : ir[B(n)] = NamedCode(n, s)
        /\ s >= 4 => \A i \in OutboundArgs : ir[Cond(i)] = ComparisonCode(i) /\ ir[Fail(i)] = FailCode
        /\ s >= 5 => \A b \in LoopNames(1) : ir[b] = LoopBlocks(1)[b]
        /\ s >= 6 => \A b \in LoopNames(2) : ir[b] = LoopBlocks(2)[b]
    BY DEF CodeShape
  <1>2. /\ BlockNames(s + 1)' = BlockNames(s + 1) /\ OutboundArgs' = OutboundArgs
        /\ \A n : NamedCode(n, s + 1)' = NamedCode(n, s + 1)
        /\ \A i : ComparisonCode(i)' = ComparisonCode(i)
    BY CodeStable
  <1>3. /\ req.hasHarnessBody => B("entry") \in DOMAIN ir
        /\ \A n \in NamedBlocks : B(n) \in DOMAIN ir
        /\ s >= 4 => \A i \in OutboundArgs : Cond(i) \in DOMAIN ir /\ Fail(i) \in DOMAIN ir
        /\ s >= 5 => \A b \in LoopNames(1) : b \in DOMAIN ir
        /\ s >= 6 => \A b \in LoopNames(2) : b \in DOMAIN ir
    BY <1>1 DEF BlockNames, AssertionNames
  <1>4. /\ B("entry") \notin {B(n) : n \in W}
        /\ \A n \in NamedBlocks : n \notin W => B(n) \notin {B(m) : m \in W}
        /\ \A i : Cond(i) \notin {B(n) : n \in W} /\ Fail(i) \notin {B(n) : n \in W}
        /\ \A k : \A b \in LoopNames(k) : b \notin {B(n) : n \in W}
    <2>1. "entry" \notin NamedBlocks
      BY DEF NamedBlocks
    <2>2. ASSUME NEW k, NEW b \in LoopNames(k) PROVE b \notin {B(n) : n \in W}
      <3>1. b = <<"hdr", k>> \/ b = <<"latch", k>> \/ b = <<"loop.exit", k>>
        BY <2>2 DEF LoopNames
      <3> QED BY <3>1, NamesDiffer
    <2> QED BY <2>1, <2>2, NamesDiffer
  <1>5. req.hasHarnessBody => ir'[B("entry")] = <<Ret>>
    BY <1>1, <1>3, <1>4
  <1>6. \A n \in NamedBlocks : ir'[B(n)] = NamedCode(n, s + 1)
    BY <1>1, <1>3, <1>4
  <1>7. s + 1 >= 4 => \A i \in OutboundArgs : ir'[Cond(i)] = ComparisonCode(i) /\ ir'[Fail(i)] = FailCode
    <2>1. s + 1 >= 4 => s >= 4 \/ s = 3
      OBVIOUS
    <2> QED BY <1>1, <1>3, <1>4, <2>1
  <1>8. s + 1 >= 5 => \A b \in LoopNames(1) : ir'[b] = LoopBlocks(1)[b]
    <2>1. s + 1 >= 5 => s >= 5 \/ s = 4
      OBVIOUS
    <2> QED BY <1>1, <1>3, <1>4, <2>1
  <1>9. s + 1 >= 6 => \A b \in LoopNames(2) : ir'[b] = LoopBlocks(2)[b]
    <2>1. s + 1 >= 6 => s >= 6 \/ s = 5
      OBVIOUS
    <2> QED BY <1>1, <1>3, <1>4, <2>1
  <1> QED BY <1>2, <1>5, <1>6, <1>7, <1>8, <1>9 DEF CodeShape

\* A step that only changes the stage, and what depends on it, keeps the shape.
LEMMA ShapeStep ==
  ASSUME SymbolsKept', phase' \in Phases, NEW s, Stage' = s,
         CodeShape(s)', ArgShape(s)', LoopShape(s)', Passed(s)'
  PROVE  Shape'
  BY DEF Shape

\* What Shape says at a phase.
LEMMA ShapeAt ==
  ASSUME Shape, phase \in Phases
  PROVE  /\ CodeShape(Order[phase]) /\ ArgShape(Order[phase])
         /\ LoopShape(Order[phase]) /\ Passed(Order[phase])
  BY DEF Shape, Stage

\* The arguments and the loops stay where their shape does.
LEMMA ArgsStay ==
  ASSUME req' = req, argSpecs' = argSpecs, callArgs1' = callArgs1, callArgs2' = callArgs2,
         NEW s \in 2 .. 9, s # 6, ArgShape(s)
  PROVE  ArgShape(s + 1)'
  <1>1. s + 1 >= 2 /\ s >= 2 /\ (s + 1 >= 7 <=> s >= 7)
    OBVIOUS
  <1>2. /\ NumParams' = NumParams /\ \A i, k : CallArg(i, k)' = CallArg(i, k)
        /\ \A i : SecondCopy(i)' = SecondCopy(i)
    BY CodeStable
  <1> QED BY <1>1, <1>2 DEF ArgShape

LEMMA LoopsStay ==
  ASSUME req' = req, loops' = loops, NEW s \in 0 .. 9, s # 4, s # 5, LoopShape(s)
  PROVE  LoopShape(s + 1)'
  <1>1. Loop1' = Loop1 /\ Loop2' = Loop2
    BY DEF Loop1, Loop2
  <1>2. (s < 5 /\ s + 1 < 5) \/ (s > 5 /\ s + 1 > 5)
    OBVIOUS
  <1>3. CASE s < 5 /\ s + 1 < 5
    <2>1. loops = <<>>
      BY <1>3 DEF LoopShape
    <2> QED BY <1>3, <2>1 DEF LoopShape
  <1>4. CASE s > 5 /\ s + 1 > 5
    <2>1. loops = <<Loop1, Loop2>>
      BY <1>4 DEF LoopShape
    <2> QED BY <1>1, <1>4, <2>1 DEF LoopShape
  <1> QED BY <1>2, <1>3, <1>4


\* se.setup gets its code.
LEMMA CreateSymbolicDeclarationsShape ==
  ASSUME req \in Requests, Shape, CreateSymbolicDeclarations PROVE Shape'
  <1> USE DEF FailedCast
  <1>1. /\ phase = "createSymbolicDeclarations" /\ req' = req /\ argSpecs' = argSpecs
        /\ loops' = loops /\ callArgs1' = callArgs1 /\ callArgs2' = callArgs2
    BY DEF CreateSymbolicDeclarations
  <1>2. SymbolsKept'
    BY <1>1, SymbolsStay DEF CreateSymbolicDeclarations, Shape
  <1>3. CASE phase' \in {"aborted", "undefined"}
    BY <1>2, <1>3 DEF Shape, Phases
  <1>4. CASE phase' = "createSymbolicAssertions"
    <2>1. CodeShape(2) /\ ArgShape(2) /\ LoopShape(2) /\ Passed(2)
      BY <1>1, ShapeAt, PhaseStages DEF Phases
    <2>2. Stage' = 3 /\ phase' \in Phases
      BY <1>4 DEF Stage, Order, Phases
    <2>3. /\ callArgs1 # <<>> \/ req.NDEBUG
          /\ CanDeclare(syms, SymbolicDecls) /\ ~BadMemcpySignature
          /\ ir' = Emit(ir, B("se.setup"), FlattenSeq([i \in 1 .. NumParams |-> SymbolicCode(i)]))
      BY <1>4 DEF CreateSymbolicDeclarations
    <2>4. ASSUME NEW i \in 1 .. NumParams PROVE SymbolicCode(i) = SymbolicCodeOf(i)
      <3>1. callArgs1[i] = Obj(i, 1) /\ callArgs2[i] = SecondCopy(i)
        BY <2>1 DEF ArgShape
      <3>2. CASE isOnlyOutbound(Direction(i))
        BY <3>2 DEF SymbolicCode, SymbolicCodeOf
      <3>3. CASE ~isOnlyOutbound(Direction(i)) /\ isOutbound(Direction(i))
        <4>1. callArgs2[i] = Obj(i, 2)
          BY <3>1, <3>3 DEF SecondCopy
        <4> DEFINE x == Symbolize(Obj(i, 1), AllocSize(i))
                   y == Symbolize(Obj(i, 2), AllocSize(i))
                   z == Memcpy(Obj(i, 2), Obj(i, 1), AllocSize(i))
        <4>2. SymbolicCode(i) = <<x>> \o <<y, z>> /\ SymbolicCodeOf(i) = <<x, y, z>>
          BY <3>1, <3>3, <4>1 DEF SymbolicCode, SymbolicCodeOf
        <4> HIDE DEF x, y, z
        <4>3. <<x>> \o <<y, z>> = <<x, y, z>>
          BY SmallSequences
        <4> QED BY <4>2, <4>3
      <3>4. CASE ~isOnlyOutbound(Direction(i)) /\ ~isOutbound(Direction(i))
        <4> DEFINE x == Symbolize(Obj(i, 1), AllocSize(i))
        <4>1. SymbolicCode(i) = <<x>> \o <<>> /\ SymbolicCodeOf(i) = <<x>>
          BY <3>1, <3>4 DEF SymbolicCode, SymbolicCodeOf
        <4> HIDE DEF x
        <4>2. <<x>> \o <<>> = <<x>>
          OBVIOUS
        <4> QED BY <4>1, <4>2
      <3> QED BY <3>2, <3>3, <3>4
    <2>5. ir' = Emit(ir, B("se.setup"), SymbolizeCode)
      <3>1. [i \in 1 .. NumParams |-> SymbolicCode(i)] = [i \in 1 .. NumParams |-> SymbolicCodeOf(i)]
        BY <2>4
      <3> QED BY <2>3, <3>1 DEF SymbolizeCode
    <2>6. "se.setup" \in NamedBlocks /\ B("se.setup") \in DOMAIN ir /\ ir[B("se.setup")] = <<>>
      BY <2>1, CodeChanges DEF CodeShape, BlockNames, NamedBlocks
    <2>7. /\ DOMAIN ir' = DOMAIN ir /\ ir'[B("se.setup")] = SymbolizeCode
          /\ \A b \in DOMAIN ir : b # B("se.setup") => ir'[b] = ir[b]
      <3> DEFINE new == Emit(ir, B("se.setup"), SymbolizeCode)
      <3>1. /\ DOMAIN new = DOMAIN ir /\ new[B("se.setup")] = ir[B("se.setup")] \o SymbolizeCode
            /\ \A b \in DOMAIN ir : b # B("se.setup") => new[b] = ir[b]
        BY <2>6, EmitAt
      <3> HIDE DEF new
      <3>2. ir' = new
        BY <2>5 DEF new
      <3>3. <<>> \o SymbolizeCode = SymbolizeCode
        BY SymbolizeCodeIs, ConcatEmptySeq
      <3> QED BY <2>6, <3>1, <3>2, <3>3
    <2>8. CodeShape(3)'
      <3> DEFINE W == {"se.setup"}
      <3>1. W \in SUBSET NamedBlocks /\ {B(n) : n \in W} = {B("se.setup")}
        BY <2>6
      <3>2. \A n \in NamedBlocks : n \notin W => NamedCode(n, 3) = NamedCode(n, 2)
        BY CodeStays
      <3>3. DOMAIN ir' = BlockNames(3)
        BY <2>1, <2>7 DEF CodeShape, BlockNames
      <3>4. \A n \in W : ir'[B(n)] = NamedCode(n, 3)
        BY <2>7, CodeChanges
      <3>5. \A b \in DOMAIN ir : b \notin {B(n) : n \in W} => ir'[b] = ir[b]
        BY <2>7, <3>1
      <3> HIDE DEF W
      <3>6. 2 + 1 = 3 /\ 2 \in 1 .. 9 /\ 2 # 3 /\ 2 # 4 /\ 2 # 5
        OBVIOUS
      <3> QED BY <1>1, <2>1, <3>1, <3>2, <3>3, <3>4, <3>5, <3>6, CodeStep
    <2>9. ArgShape(3)'
      <3>1. 2 + 1 = 3 /\ 2 \in 2 .. 9 /\ 2 # 6
        OBVIOUS
      <3> QED BY <1>1, <2>1, <3>1, ArgsStay
    <2>10. LoopShape(3)'
      BY <1>1, <2>1 DEF LoopShape
    <2>11. Passed(3)'
      <3>1. Passed(3)
        BY <2>1, <2>3, RoomBefore DEF Passed, Shape, ArgShape
      <3> QED BY <1>1, <3>1, CodeStable
    <2> QED BY <1>2, <2>2, <2>8, <2>9, <2>10, <2>11, ShapeStep
  <1> QED BY <1>3, <1>4 DEF CreateSymbolicDeclarations

\* se.start.teardown gets its branch, and the comparisons get their blocks.
LEMMA CreateSymbolicAssertionsShape ==
  ASSUME req \in Requests, Shape, CreateSymbolicAssertions PROVE Shape'
  <1> USE DEF FailedCast
  <1>1. /\ phase = "createSymbolicAssertions" /\ req' = req /\ argSpecs' = argSpecs
        /\ loops' = loops /\ callArgs1' = callArgs1 /\ callArgs2' = callArgs2
    BY DEF CreateSymbolicAssertions
  <1>2. SymbolsKept'
    BY <1>1, SymbolsStay DEF CreateSymbolicAssertions, Shape
  <1>3. CASE phase' \in {"aborted", "undefined"}
    BY <1>2, <1>3 DEF Shape, Phases
  <1>4. CASE phase' = "createLoop1"
    <2>1. CodeShape(3) /\ ArgShape(3) /\ LoopShape(3) /\ Passed(3)
      BY <1>1, ShapeAt, PhaseStages DEF Phases
    <2>2. Stage' = 4 /\ phase' \in Phases
      BY <1>4 DEF Stage, Order, Phases
    <2>3. /\ CanDeclare(syms, AssertDecls)
          /\ ir' = AddBlocks(Emit(ir, B("se.start.teardown"), StartCode), AssertionBlocks)
      BY <1>4 DEF CreateSymbolicAssertions
    <2>4. ASSUME NEW i \in OutboundArgs PROVE CondCode(i) = ComparisonCode(i)
      <3>1. i \in 1 .. NumParams /\ isOutbound(Direction(i))
        BY DEF OutboundArgs
      <3>2. callArgs1[i] = Obj(i, 1) /\ callArgs2[i] = Obj(i, 2)
        BY <2>1, <3>1 DEF ArgShape, SecondCopy
      <3> QED BY <3>2 DEF CondCode, ComparisonCode
    <2>5. /\ "se.start.teardown" \in NamedBlocks /\ B("se.start.teardown") \in DOMAIN ir
          /\ ir[B("se.start.teardown")] = <<>>
      BY <2>1, CodeChanges DEF CodeShape, BlockNames, NamedBlocks
    <2> DEFINE mid == Emit(ir, B("se.start.teardown"), StartCode)
               new == AddBlocks(mid, AssertionBlocks)
    <2>6. /\ DOMAIN mid = DOMAIN ir
          /\ mid[B("se.start.teardown")] = ir[B("se.start.teardown")] \o StartCode
          /\ \A b \in DOMAIN ir : b # B("se.start.teardown") => mid[b] = ir[b]
      BY <2>5, EmitAt
    <2>7. ir' = new
      BY <2>3
    <2> HIDE DEF mid
    <2>8. /\ DOMAIN new = DOMAIN mid \cup DOMAIN AssertionBlocks
          /\ \A b \in DOMAIN mid : new[b] = mid[b]
          /\ \A b \in DOMAIN AssertionBlocks : b \notin DOMAIN mid => new[b] = AssertionBlocks[b]
      BY AddAt
    <2> HIDE DEF new
    <2>9. <<>> \o StartCode = StartCode
      BY DEF StartCode
    <2>10. /\ DOMAIN AssertionBlocks = AssertionNames
           /\ \A i \in OutboundArgs : /\ AssertionBlocks[Cond(i)] = CondCode(i)
                                      /\ AssertionBlocks[Fail(i)] = FailCode
      <3>1. DOMAIN AssertionBlocks = AssertionNames
        BY DEF AssertionBlocks, AssertionNames
      <3>2. ASSUME NEW i \in OutboundArgs
            PROVE  /\ AssertionBlocks[Cond(i)] = CondCode(i)
                   /\ AssertionBlocks[Fail(i)] = FailCode
        <4>1. Cond(i) \in AssertionNames /\ Fail(i) \in AssertionNames
          BY DEF AssertionNames
        <4>2. Cond(i)[1] = "cond" /\ Cond(i)[2] = i /\ Fail(i)[1] = "fail"
          BY DEF Cond, Fail
        <4> QED BY <4>1, <4>2 DEF AssertionBlocks, AssertionNames
      <3> QED BY <3>1, <3>2
    <2>11. \A i \in OutboundArgs : Cond(i) \notin DOMAIN ir /\ Fail(i) \notin DOMAIN ir
      <3>1. \A b \in DOMAIN ir : \E n \in NamedBlocks \cup {"entry"} : b = B(n)
        BY <2>1 DEF CodeShape, BlockNames
      <3> QED BY <3>1, NamesDiffer
    <2>12. CodeShape(4)'
      <3> DEFINE W == {"se.start.teardown"}
      <3>1. W \in SUBSET NamedBlocks /\ {B(n) : n \in W} = {B("se.start.teardown")}
        BY <2>5
      <3>2. \A n \in NamedBlocks : n \notin W => NamedCode(n, 4) = NamedCode(n, 3)
        BY CodeStays
      <3>3. DOMAIN ir' = BlockNames(4)
        <4>1. BlockNames(4) = BlockNames(3) \cup AssertionNames
          BY DEF BlockNames
        <4> QED BY <2>1, <2>6, <2>7, <2>8, <2>10, <4>1 DEF CodeShape
      <3>4. \A n \in W : ir'[B(n)] = NamedCode(n, 4)
        BY <2>5, <2>6, <2>7, <2>8, <2>9, CodeChanges
      <3>5. \A b \in DOMAIN ir : b \notin {B(n) : n \in W} => ir'[b] = ir[b]
        BY <2>6, <2>7, <2>8, <3>1
      <3>6. \A i \in OutboundArgs : ir'[Cond(i)] = ComparisonCode(i) /\ ir'[Fail(i)] = FailCode
        <4>1. \A i \in OutboundArgs : Cond(i) \in DOMAIN AssertionBlocks /\ Fail(i) \in DOMAIN AssertionBlocks
          BY <2>10 DEF AssertionNames
        <4> QED BY <2>4, <2>6, <2>7, <2>8, <2>10, <2>11, <4>1
      <3> HIDE DEF W
      <3>7. 3 + 1 = 4 /\ 3 \in 1 .. 9 /\ 3 # 4 /\ 3 # 5
        OBVIOUS
      <3> QED BY <1>1, <2>1, <3>1, <3>2, <3>3, <3>4, <3>5, <3>6, <3>7, CodeStep
    <2>13. ArgShape(4)'
      <3>1. 3 + 1 = 4 /\ 3 \in 2 .. 9 /\ 3 # 6
        OBVIOUS
      <3> QED BY <1>1, <2>1, <3>1, ArgsStay
    <2>14. LoopShape(4)'
      BY <1>1, <2>1 DEF LoopShape
    <2>15. Passed(4)'
      <3>1. Passed(4)
        BY <2>1, <2>3, RoomBefore DEF Passed, Shape
      <3> QED BY <1>1, <3>1, CodeStable
    <2> QED BY <1>2, <2>2, <2>12, <2>13, <2>14, <2>15, ShapeStep
  <1> QED BY <1>3, <1>4 DEF CreateSymbolicAssertions


\* The blocks CreateLoop branches out of.
PreName(k)  == IF k = 1 THEN "call1.setup" ELSE "call2.setup"
BodyName(k) == IF k = 1 THEN "call1.body" ELSE "call2.body"

\* What CreateLoop does to the code.
LEMMA LoopCode ==
  ASSUME NEW k \in {1, 2}, req \in Requests, CodeShape(3 + k),
         ir' = AddBlocks(Emit(Emit(ir, Names(k).pre, <<Br(<<"hdr", k>>)>>),
                              Names(k).body, <<Br(<<"latch", k>>)>>),
                         LoopBlocks(k)),
         req' = req, argSpecs' = argSpecs
  PROVE  CodeShape(4 + k)'
  <1> DEFINE pre  == B(PreName(k))
             body == B(BodyName(k))
             one  == Emit(ir, pre, <<Br(<<"hdr", k>>)>>)
             two  == Emit(one, body, <<Br(<<"latch", k>>)>>)
             new  == AddBlocks(two, LoopBlocks(k))
  <1>1. ir' = new
    BY DEF Names, PreName, BodyName
  <1>2. /\ PreName(k) \in NamedBlocks /\ BodyName(k) \in NamedBlocks /\ pre # body
        /\ NamedCode(PreName(k), 3 + k) = <<>> /\ NamedCode(BodyName(k), 3 + k) = <<>>
        /\ NamedCode(PreName(k), 4 + k) = <<Br(<<"hdr", k>>)>>
        /\ NamedCode(BodyName(k), 4 + k) = <<Br(<<"latch", k>>)>>
        /\ \A n \in NamedBlocks : n \notin {PreName(k), BodyName(k)} =>
             NamedCode(n, 4 + k) = NamedCode(n, 3 + k)
    <2>1. PreName(k) \in NamedBlocks /\ BodyName(k) \in NamedBlocks /\ PreName(k) # BodyName(k)
      BY DEF PreName, BodyName, NamedBlocks
    <2>2. CASE k = 1
      <3>1. PreName(k) = "call1.setup" /\ BodyName(k) = "call1.body" /\ 3 + k = 4 /\ 4 + k = 5
        BY <2>2 DEF PreName, BodyName
      <3> QED BY <2>1, <2>2, <3>1, CodeStays, CodeChanges, NamesDiffer
    <2>3. CASE k = 2
      <3>1. PreName(k) = "call2.setup" /\ BodyName(k) = "call2.body" /\ 3 + k = 5 /\ 4 + k = 6
        BY <2>3 DEF PreName, BodyName
      <3> QED BY <2>1, <2>3, <3>1, CodeStays, CodeChanges, NamesDiffer
    <2> QED BY <2>2, <2>3
  <1>3. /\ DOMAIN ir = BlockNames(3 + k)
        /\ \A n \in NamedBlocks : B(n) \in DOMAIN ir /\ ir[B(n)] = NamedCode(n, 3 + k)
    BY DEF CodeShape, BlockNames
  <1>4. pre \in DOMAIN ir /\ body \in DOMAIN ir /\ ir[pre] = <<>> /\ ir[body] = <<>>
    BY <1>2, <1>3
  <1> HIDE DEF pre, body
  <1>5. /\ DOMAIN one = DOMAIN ir /\ one[pre] = ir[pre] \o <<Br(<<"hdr", k>>)>>
        /\ \A b \in DOMAIN ir : b # pre => one[b] = ir[b]
    BY <1>4, EmitAt
  <1> HIDE DEF one
  <1>19. body \in DOMAIN one
    BY <1>4, <1>5
  <1>6. /\ DOMAIN two = DOMAIN one /\ two[body] = one[body] \o <<Br(<<"latch", k>>)>>
        /\ \A b \in DOMAIN one : b # body => two[b] = one[b]
    <2> DEFINE more == <<Br(<<"latch", k>>)>>
    <2> HIDE DEF more
    <2>1. two = Emit(one, body, more)
      BY DEF more
    <2> HIDE DEF two
    <2>2. /\ DOMAIN two = DOMAIN one /\ two[body] = one[body] \o more
          /\ \A b \in DOMAIN one : b # body => two[b] = one[b]
      BY <1>19, <2>1 DEF Emit
    <2> QED BY <2>2 DEF more
  <1> HIDE DEF two
  <1>7. /\ DOMAIN new = DOMAIN two \cup DOMAIN LoopBlocks(k)
        /\ \A b \in DOMAIN two : new[b] = two[b]
        /\ \A b \in DOMAIN LoopBlocks(k) : b \notin DOMAIN two => new[b] = LoopBlocks(k)[b]
    BY AddAt
  <1> HIDE DEF new
  <1>8. /\ <<>> \o <<Br(<<"hdr", k>>)>> = <<Br(<<"hdr", k>>)>>
        /\ <<>> \o <<Br(<<"latch", k>>)>> = <<Br(<<"latch", k>>)>>
    OBVIOUS
  <1>9. /\ DOMAIN ir' = DOMAIN ir \cup LoopNames(k)
        /\ ir'[pre] = <<Br(<<"hdr", k>>)>> /\ ir'[body] = <<Br(<<"latch", k>>)>>
        /\ \A b \in DOMAIN ir : b # pre /\ b # body => ir'[b] = ir[b]
        /\ \A b \in LoopNames(k) : b \notin DOMAIN ir => ir'[b] = LoopBlocks(k)[b]
    <2>1. DOMAIN LoopBlocks(k) = LoopNames(k)
      BY DEF LoopBlocks, LoopNames
    <2> QED BY <1>1, <1>2, <1>4, <1>5, <1>6, <1>7, <1>8, <2>1
  <1>10. \A b \in LoopNames(k) : b \notin DOMAIN ir
    <2> SUFFICES ASSUME NEW b \in LoopNames(k) PROVE b \notin DOMAIN ir
      OBVIOUS
    <2>1. b = <<"hdr", k>> \/ b = <<"latch", k>> \/ b = <<"loop.exit", k>>
      BY DEF LoopNames
    <2>2. ASSUME NEW c \in DOMAIN ir
          PROVE  \/ \E n \in NamedBlocks \cup {"entry"} : c = B(n)
                 \/ \E i : c = Cond(i) \/ c = Fail(i)
                 \/ k = 2 /\ (c = <<"hdr", 1>> \/ c = <<"latch", 1>> \/ c = <<"loop.exit", 1>>)
      <3>1. CASE k = 1
        BY <1>3, <2>2, <3>1 DEF BlockNames, AssertionNames
      <3>2. CASE k = 2
        BY <1>3, <2>2, <3>2 DEF BlockNames, AssertionNames, LoopNames
      <3> QED BY <3>1, <3>2
    <2>3. \A n \in NamedBlocks \cup {"entry"} : b # B(n)
      BY <2>1, NamesDiffer
    <2>4. \A i : b # Cond(i) /\ b # Fail(i)
      BY <2>1, NamesDiffer
    <2>5. k = 2 => b # <<"hdr", 1>> /\ b # <<"latch", 1>> /\ b # <<"loop.exit", 1>>
      BY <2>1
    <2> QED BY <2>2, <2>3, <2>4, <2>5
  <1> DEFINE W == {PreName(k), BodyName(k)}
  <1>11. W \in SUBSET NamedBlocks /\ {B(n) : n \in W} = {pre, body}
    BY <1>2 DEF pre, body
  <1>12. \A n \in NamedBlocks : n \notin W => NamedCode(n, 4 + k) = NamedCode(n, 3 + k)
    BY <1>2
  <1>13. DOMAIN ir' = BlockNames(4 + k)
    <2>1. BlockNames(4 + k) = BlockNames(3 + k) \cup LoopNames(k)
      <3>1. CASE k = 1
        BY <3>1 DEF BlockNames
      <3>2. CASE k = 2
        BY <3>2 DEF BlockNames
      <3> QED BY <3>1, <3>2
    <2> QED BY <1>3, <1>9, <2>1
  <1>14. \A n \in W : ir'[B(n)] = NamedCode(n, 4 + k)
    BY <1>2, <1>9 DEF pre, body
  <1>15. \A b \in DOMAIN ir : b \notin {B(n) : n \in W} => ir'[b] = ir[b]
    BY <1>9, <1>11
  <1>16. \A b \in LoopNames(k) : ir'[b] = LoopBlocks(k)[b]
    BY <1>9, <1>10
  <1> HIDE DEF W
  <1>17. CASE k = 1
    <2>1. 3 + k = 4 /\ 4 + k = 4 + 1 /\ 4 \in 1 .. 9 /\ 4 # 3 /\ 4 # 5
      BY <1>17
    <2>2. \A b \in LoopNames(1) : ir'[b] = LoopBlocks(1)[b]
      BY <1>16, <1>17
    <2> QED BY <1>11, <1>12, <1>13, <1>14, <1>15, <2>1, <2>2, CodeStep
  <1>18. CASE k = 2
    <2>1. 3 + k = 5 /\ 4 + k = 5 + 1 /\ 5 \in 1 .. 9 /\ 5 # 3 /\ 5 # 4
      BY <1>18
    <2>2. \A b \in LoopNames(2) : ir'[b] = LoopBlocks(2)[b]
      BY <1>16, <1>18
    <2> QED BY <1>11, <1>12, <1>13, <1>14, <1>15, <2>1, <2>2, CodeStep
  <1> QED BY <1>17, <1>18

\* A loop is built between its blocks.
LEMMA CreateLoopShape ==
  ASSUME req \in Requests, Shape, NEW k \in {1, 2}, CreateLoop(k) PROVE Shape'
  <1>1. /\ phase = IF k = 1 THEN "createLoop1" ELSE "createLoop2"
        /\ req' = req /\ argSpecs' = argSpecs /\ syms' = syms
        /\ callArgs1' = callArgs1 /\ callArgs2' = callArgs2
    BY DEF CreateLoop
  <1>2. SymbolsKept'
    BY <1>1, SymbolsStay DEF Shape
  <1>3. CASE phase' = "aborted"
    BY <1>2, <1>3 DEF Shape, Phases
  <1>4. CASE phase' = IF k = 1 THEN "createLoop2" ELSE "passIterator"
    <2>1. CodeShape(3 + k) /\ ArgShape(3 + k) /\ LoopShape(3 + k) /\ Passed(3 + k)
      <3>1. phase \in Phases /\ Order[phase] = 3 + k
        BY <1>1, PhaseStages DEF Phases
      <3> QED BY <3>1, ShapeAt
    <2>2. Stage' = 4 + k /\ phase' \in Phases
      BY <1>4 DEF Stage, Order, Phases
    <2>3. /\ loops' = Append(loops, CreatedLoop(LoopBounds(k).start, LoopBounds(k).end, 1))
          /\ ir' = AddBlocks(Emit(Emit(ir, Names(k).pre, <<Br(<<"hdr", k>>)>>),
                                  Names(k).body, <<Br(<<"latch", k>>)>>),
                             LoopBlocks(k))
      BY <1>4 DEF CreateLoop
    <2>4. CodeShape(4 + k)'
      BY <1>1, <2>1, <2>3, LoopCode
    <2>5. ArgShape(4 + k)'
      <3>1. (3 + k) + 1 = 4 + k /\ 3 + k \in 2 .. 9 /\ 3 + k # 6
        OBVIOUS
      <3> QED BY <1>1, <2>1, <3>1, ArgsStay
    <2>6. LoopShape(4 + k)'
      <3>1. Loop1' = Loop1 /\ Loop2' = Loop2
        BY <1>1 DEF Loop1, Loop2
      <3>2. CreatedLoop(LoopBounds(k).start, LoopBounds(k).end, 1) = IF k = 1 THEN Loop1 ELSE Loop2
        BY DEF LoopBounds, Loop1, Loop2
      <3>3. CASE k = 1
        <4>1. loops = <<>> /\ loops' = Append(loops, Loop1)
          BY <2>1, <2>3, <3>2, <3>3 DEF LoopShape
        <4>2. loops' = <<Loop1>>
          BY <4>1
        <4> QED BY <3>1, <3>3, <4>2 DEF LoopShape
      <3>4. CASE k = 2
        <4>1. loops = <<Loop1>> /\ loops' = Append(loops, Loop2)
          BY <2>1, <2>3, <3>2, <3>4 DEF LoopShape
        <4>2. loops' = <<Loop1, Loop2>>
          BY <4>1, SmallSequences
        <4> QED BY <3>1, <3>4, <4>2 DEF LoopShape
      <3> QED BY <3>3, <3>4
    <2>7. Passed(4 + k)'
      <3>1. Passed(4 + k)
        BY <2>1 DEF Passed
      <3> QED BY <1>1, <3>1, CodeStable
    <2> QED BY <1>2, <2>2, <2>4, <2>5, <2>6, <2>7, ShapeStep
  <1> QED BY <1>3, <1>4 DEF CreateLoop


\* The iterator takes the place of the first argument.
LEMMA PassIteratorShape ==
  ASSUME req \in Requests, Shape, PassIterator PROVE Shape'
  <1>1. /\ phase = "passIterator" /\ req' = req /\ argSpecs' = argSpecs /\ syms' = syms
        /\ loops' = loops /\ ir' = ir
    BY DEF PassIterator
  <1>2. SymbolsKept'
    BY <1>1, SymbolsStay DEF Shape
  <1>3. CASE phase' = "undefined"
    BY <1>2, <1>3 DEF Shape, Phases
  <1>4. CASE phase' = "createCall1"
    <2>1. CodeShape(6) /\ ArgShape(6) /\ LoopShape(6) /\ Passed(6)
      BY <1>1, ShapeAt, PhaseStages DEF Phases
    <2>2. Stage' = 7 /\ phase' \in Phases
      BY <1>4 DEF Stage, Order, Phases
    <2>3. CodeShape(7)'
      <3>1. {} \in SUBSET NamedBlocks /\ {B(n) : n \in {}} = {}
        OBVIOUS
      <3>2. \A n \in NamedBlocks : n \notin {} => NamedCode(n, 7) = NamedCode(n, 6)
        BY CodeStays
      <3>3. DOMAIN ir' = BlockNames(7)
        BY <1>1, <2>1 DEF CodeShape, BlockNames
      <3>4. 6 + 1 = 7 /\ 6 \in 1 .. 9 /\ 6 # 3 /\ 6 # 4 /\ 6 # 5
        OBVIOUS
      <3>5. \A n \in {} : ir'[B(n)] = NamedCode(n, 7)
        OBVIOUS
      <3>6. \A b \in DOMAIN ir : b \notin {B(n) : n \in {}} => ir'[b] = ir[b]
        BY <1>1
      <3> QED BY <1>1, <2>1, <3>1, <3>2, <3>3, <3>4, <3>5, <3>6, CodeStep
    <2>4. ArgShape(7)'
      <3>1. /\ NumParams' = NumParams /\ \A i, k : CallArg(i, k)' = CallArg(i, k)
            /\ NumParams \in Nat
        BY <1>1, CodeStable, ParamFacts
      <3>2. /\ DOMAIN callArgs1 = 1 .. NumParams /\ DOMAIN callArgs2 = 1 .. NumParams
            /\ NumParams = 0 => callArgs1 = <<>>
            /\ \A i \in 1 .. NumParams : callArgs1[i] = Obj(i, 1) /\ callArgs2[i] = SecondCopy(i)
        BY <2>1 DEF ArgShape
      <3>3. CASE callArgs1 = <<>>
        <4>1. callArgs1' = callArgs1 /\ callArgs2' = callArgs2
          BY <3>3 DEF PassIterator
        <4>2. NumParams = 0
          BY <3>1, <3>2, <3>3
        <4> QED BY <3>1, <3>2, <4>1, <4>2 DEF ArgShape
      <3>4. CASE callArgs1 # <<>>
        <4>1. /\ callArgs1' = [callArgs1 EXCEPT ![1] = IndVar(1)]
              /\ callArgs2' = [callArgs2 EXCEPT ![1] = IndVar(2)]
          BY <3>4 DEF PassIterator
        <4>2. NumParams > 0
          BY <3>1, <3>2, <3>4
        <4>3. DOMAIN callArgs1' = 1 .. NumParams /\ DOMAIN callArgs2' = 1 .. NumParams
          BY <3>2, <4>1
        <4>4. ASSUME NEW i \in 1 .. NumParams
              PROVE  callArgs1'[i] = CallArg(i, 1) /\ callArgs2'[i] = CallArg(i, 2)
          BY <3>2, <4>1 DEF CallArg
        <4> QED BY <3>1, <4>2, <4>3, <4>4 DEF ArgShape
      <3> QED BY <3>3, <3>4
    <2>5. LoopShape(7)'
      <3>1. 6 + 1 = 7 /\ 6 \in 0 .. 9 /\ 6 # 4 /\ 6 # 5
        OBVIOUS
      <3> QED BY <1>1, <2>1, <3>1, LoopsStay
    <2>6. Passed(7)'
      <3>1. Passed(7)
        BY <2>1 DEF Passed
      <3> QED BY <1>1, <3>1, CodeStable
    <2> QED BY <1>2, <2>2, <2>3, <2>4, <2>5, <2>6, ShapeStep
  <1> QED BY <1>3, <1>4 DEF PassIterator

\* In front of the branch of a block that has nothing else.
LEMMA InsertIntoBody ==
  ASSUME NEW to, NEW inst
  PROVE  InsertBeforeTerminator(<<Br(to)>>, inst) = <<inst, Br(to)>>
  <1> DEFINE b == Br(to)
  <1>1. IsTerminator(b)
    BY DEF IsTerminator, Br
  <1> HIDE DEF b
  <1>2. <<b>> # <<>> /\ Last(<<b>>) = b /\ Len(<<b>>) = 1
    BY DEF Last
  <1>3. InsertBeforeTerminator(<<b>>, inst) = InsertAt(<<b>>, 1, inst)
    BY <1>1, <1>2 DEF InsertBeforeTerminator
  <1>4. InsertAt(<<b>>, 1, inst) = SubSeq(<<b>>, 1, 0) \o <<inst>> \o SubSeq(<<b>>, 1, 1)
    BY <1>2 DEF InsertAt
  <1>5. SubSeq(<<b>>, 1, 0) = <<>> /\ SubSeq(<<b>>, 1, 1) = <<b>>
    <2>1. <<b>> \in Seq({b}) /\ Len(<<b>>) = 1 /\ <<b>>[1] = b
      OBVIOUS
    <2>2. SubSeq(<<b>>, 1, 0) \in Seq({b}) /\ Len(SubSeq(<<b>>, 1, 0)) = 0
      BY <2>1, SubSeqProperties
    <2>3. /\ SubSeq(<<b>>, 1, 1) \in Seq({b}) /\ Len(SubSeq(<<b>>, 1, 1)) = 1
          /\ SubSeq(<<b>>, 1, 1)[1] = b
      BY <2>1, SubSeqProperties
    <2>4. SubSeq(<<b>>, 1, 1) = <<b>>
      <3>1. \A i \in 1 .. 1 : i = 1
        OBVIOUS
      <3> QED BY <2>1, <2>3, <3>1, SeqEqual
    <2> QED BY <2>2, <2>4
  <1>6. <<>> \o <<inst>> \o <<b>> = <<inst, b>>
    <2>1. <<>> \o <<inst>> = <<inst>>
      OBVIOUS
    <2> QED BY <2>1, SmallSequences
  <1> QED BY <1>3, <1>4, <1>5, <1>6 DEF b

\* The call goes into the body of its loop.
LEMMA CreateCallShape ==
  ASSUME req \in Requests, Shape, NEW k \in {1, 2}, CreateCall(k) PROVE Shape'
  <1>1. /\ phase = IF k = 1 THEN "createCall1" ELSE "createCall2"
        /\ req' = req /\ argSpecs' = argSpecs /\ syms' = syms /\ loops' = loops
        /\ callArgs1' = callArgs1 /\ callArgs2' = callArgs2
    BY DEF CreateCall
  <1>2. SymbolsKept'
    BY <1>1, SymbolsStay DEF Shape
  <1>3. CASE phase' = "undefined"
    BY <1>2, <1>3 DEF Shape, Phases
  <1>4. CASE phase' = IF k = 1 THEN "createCall2" ELSE "controlFlow"
    <2>1. CodeShape(6 + k) /\ ArgShape(6 + k) /\ LoopShape(6 + k) /\ Passed(6 + k)
      <3>1. phase \in Phases /\ Order[phase] = 6 + k
        BY <1>1, PhaseStages DEF Phases
      <3> QED BY <3>1, ShapeAt
    <2>2. Stage' = 7 + k /\ phase' \in Phases
      BY <1>4 DEF Stage, Order, Phases
    <2>3. /\ DOMAIN callArgs1 = 1 .. NumParams /\ DOMAIN callArgs2 = 1 .. NumParams
          /\ \A i \in 1 .. NumParams : callArgs1[i] = CallArg(i, 1) /\ callArgs2[i] = CallArg(i, 2)
          /\ NumParams \in Nat
      <3>1. 6 + k >= 2 /\ 6 + k >= 7
        OBVIOUS
      <3> QED BY <2>1, <3>1, ParamFacts DEF ArgShape
    <2>4. ~NoSuchCast
      BY <1>4 DEF CreateCall
    <2>5. ir' = [ir EXCEPT ![Names(k).body] = InsertBeforeTerminator(@, CallInst(k))]
      <3> DEFINE vals == IF k = 1 THEN callArgs1 ELSE callArgs2
      <3>1. ir' = [ir EXCEPT ![Names(k).body] =
                     InsertBeforeTerminator(@, [op |-> "call",
                                                args |-> [i \in DOMAIN vals |-> Operand(vals[i], i)]])]
        BY <1>4 DEF CreateCall
      <3>2. [i \in DOMAIN vals |-> Operand(vals[i], i)]
              = [i \in 1 .. NumParams |-> Operand(CallArg(i, k), i)]
        <4>1. DOMAIN vals = 1 .. NumParams /\ \A i \in 1 .. NumParams : vals[i] = CallArg(i, k)
          BY <2>3
        <4> HIDE DEF vals
        <4> QED BY <4>1
      <3> HIDE DEF vals
      <3> QED BY <3>1, <3>2 DEF CallInst
    <2>6. /\ BodyName(k) \in NamedBlocks /\ Names(k).body = B(BodyName(k))
          /\ NamedCode(BodyName(k), 6 + k) = <<Br(<<"latch", k>>)>>
          /\ NamedCode(BodyName(k), 7 + k) = <<CallInst(k), Br(<<"latch", k>>)>>
          /\ \A n \in NamedBlocks : n # BodyName(k) => NamedCode(n, 7 + k) = NamedCode(n, 6 + k)
      <3>1. BodyName(k) \in NamedBlocks /\ Names(k).body = B(BodyName(k))
        BY DEF BodyName, NamedBlocks, Names
      <3>2. CASE k = 1
        <4>1. BodyName(k) = "call1.body" /\ 6 + k = 7 /\ 7 + k = 8
          BY <3>2 DEF BodyName
        <4> QED BY <3>1, <3>2, <4>1, CodeStays, CodeChanges
      <3>3. CASE k = 2
        <4>1. BodyName(k) = "call2.body" /\ 6 + k = 8 /\ 7 + k = 9
          BY <3>3 DEF BodyName
        <4> QED BY <3>1, <3>3, <4>1, CodeStays, CodeChanges
      <3> QED BY <3>2, <3>3
    <2> DEFINE body == B(BodyName(k))
    <2>7. body \in DOMAIN ir /\ ir[body] = <<Br(<<"latch", k>>)>>
      BY <2>1, <2>6 DEF CodeShape, BlockNames
    <2>8. /\ DOMAIN ir' = DOMAIN ir /\ ir'[body] = InsertBeforeTerminator(ir[body], CallInst(k))
          /\ \A b \in DOMAIN ir : b # body => ir'[b] = ir[b]
      <3>1. ir' = [ir EXCEPT ![body] = InsertBeforeTerminator(@, CallInst(k))]
        BY <2>5, <2>6
      <3> HIDE DEF body
      <3> QED BY <2>7, <3>1
    <2>9. ir'[body] = <<CallInst(k), Br(<<"latch", k>>)>>
      BY <2>7, <2>8, InsertIntoBody
    <2>10. CodeShape(7 + k)'
      <3> DEFINE W == {BodyName(k)}
      <3>1. W \in SUBSET NamedBlocks /\ {B(n) : n \in W} = {body}
        BY <2>6
      <3>2. \A n \in NamedBlocks : n \notin W => NamedCode(n, (6 + k) + 1) = NamedCode(n, 6 + k)
        <4>1. (6 + k) + 1 = 7 + k
          OBVIOUS
        <4> QED BY <2>6, <4>1
      <3>3. DOMAIN ir' = BlockNames((6 + k) + 1)
        BY <2>1, <2>8 DEF CodeShape, BlockNames
      <3>4. \A n \in W : ir'[B(n)] = NamedCode(n, (6 + k) + 1)
        <4>1. (6 + k) + 1 = 7 + k
          OBVIOUS
        <4> QED BY <2>6, <2>9, <4>1
      <3>5. \A b \in DOMAIN ir : b \notin {B(n) : n \in W} => ir'[b] = ir[b]
        BY <2>8, <3>1
      <3> HIDE DEF W
      <3>6. /\ (6 + k) + 1 = 7 + k /\ 6 + k \in 1 .. 9
            /\ 6 + k # 3 /\ 6 + k # 4 /\ 6 + k # 5
        OBVIOUS
      <3>7. CodeShape((6 + k) + 1)'
        BY <1>1, <2>1, <3>1, <3>2, <3>3, <3>4, <3>5, <3>6, CodeStep
      <3> QED BY <3>6, <3>7
    <2>11. ArgShape(7 + k)'
      <3>1. (6 + k) + 1 = 7 + k /\ 6 + k \in 2 .. 9 /\ 6 + k # 6
        OBVIOUS
      <3> QED BY <1>1, <2>1, <3>1, ArgsStay
    <2>12. LoopShape(7 + k)'
      <3>1. (6 + k) + 1 = 7 + k /\ 6 + k \in 0 .. 9 /\ 6 + k # 4 /\ 6 + k # 5
        OBVIOUS
      <3> QED BY <1>1, <2>1, <3>1, LoopsStay
    <2>13. Passed(7 + k)'
      <3>1. NumParams > 0 => callArgs1 # <<>>
        BY <2>3
      <3>2. NumParams > 0 => ~Param(1).ptr /\ ~(Param(1).size < IndSize)
        BY <2>4, <3>1 DEF NoSuchCast
      <3>3. Passed(7 + k)
        BY <2>1, <3>2 DEF Passed
      <3> QED BY <1>1, <3>3, CodeStable
    <2> QED BY <1>2, <2>2, <2>10, <2>11, <2>12, <2>13, ShapeStep
  <1> QED BY <1>3, <1>4 DEF CreateCall

\* The blocks that setupControlFlow ends, and with what.
LEMMA FlowCode ==
  /\ \A n \in NamedBlocks :
       n \notin DOMAIN Successor \cup {"exit"} => NamedCode(n, 10) = NamedCode(n, 9)
  /\ \A n \in DOMAIN Successor :
       n \in NamedBlocks /\ NamedCode(n, 10) = Append(NamedCode(n, 9), Br(B(Successor[n])))
  /\ NamedCode("exit", 10) = Append(NamedCode("exit", 9), Ret)
  <1>1. DOMAIN Successor = {"setup", "se.setup", "call1.teardown", "call2.teardown",
                            "se.end.teardown", "teardown"}
    BY DEF Successor
  <1>2. \A n \in NamedBlocks :
          n \notin DOMAIN Successor \cup {"exit"} => NamedCode(n, 10) = NamedCode(n, 9)
    <2>1. \A n \in NamedBlocks : n \notin DOMAIN Successor \cup {"exit"} =>
            n \in {"call1.setup", "call1.body", "call2.setup", "call2.body", "se.start.teardown"}
      BY <1>1 DEF NamedBlocks
    <2> QED BY <2>1, CodeStays
  <1>3. /\ Successor["setup"] = "se.setup" /\ Successor["se.setup"] = "call1.setup"
        /\ Successor["call1.teardown"] = "call2.setup"
        /\ Successor["call2.teardown"] = "se.start.teardown"
        /\ Successor["se.end.teardown"] = "teardown" /\ Successor["teardown"] = "exit"
    BY DEF Successor
  <1>4. \A x : Append(<<>>, x) = <<x>>
    OBVIOUS
  <1>5. ASSUME NEW n \in DOMAIN Successor
        PROVE  n \in NamedBlocks /\ NamedCode(n, 10) = Append(NamedCode(n, 9), Br(B(Successor[n])))
    <2>1. n \in NamedBlocks
      BY <1>1 DEF NamedBlocks
    <2>2. CASE n \in {"setup", "se.setup", "teardown"}
      BY <1>3, <2>1, <2>2, CodeChanges
    <2>3. CASE n \in {"call1.teardown", "call2.teardown", "se.end.teardown"}
      BY <1>3, <1>4, <2>1, <2>3, CodeChanges
    <2> QED BY <1>1, <2>2, <2>3
  <1>6. NamedCode("exit", 10) = Append(NamedCode("exit", 9), Ret)
    BY <1>4, CodeChanges
  <1> QED BY <1>2, <1>5, <1>6

\* The parts are connected.
LEMMA SetupControlFlowShape ==
  ASSUME req \in Requests, Shape, SetupControlFlow PROVE Shape'
  <1>1. /\ phase = "controlFlow" /\ phase' = "done"
        /\ req' = req /\ argSpecs' = argSpecs /\ syms' = syms /\ loops' = loops
        /\ callArgs1' = callArgs1 /\ callArgs2' = callArgs2
    BY DEF SetupControlFlow
  <1>2. SymbolsKept'
    BY <1>1, SymbolsStay DEF Shape
  <1>3. CodeShape(9) /\ ArgShape(9) /\ LoopShape(9) /\ Passed(9)
    BY <1>1, ShapeAt, PhaseStages DEF Phases
  <1>4. Stage' = 10 /\ phase' \in Phases
    BY <1>1 DEF Stage, Order, Phases
  <1>5. CodeShape(10)'
    <2> DEFINE W == DOMAIN Successor \cup {"exit"}
               ends == {B(n) : n \in DOMAIN Successor}
    <2>1. W \in SUBSET NamedBlocks
      BY FlowCode DEF NamedBlocks
    <2>2. {B(n) : n \in W} = ends \cup {B("exit")}
      OBVIOUS
    <2>3. \A n \in NamedBlocks : B(n) \in DOMAIN ir /\ ir[B(n)] = NamedCode(n, 9)
      BY <1>3 DEF CodeShape, BlockNames
    <2>4. ir' = [b \in DOMAIN ir |->
                   CASE b = B("exit") -> Append(ir[b], Ret)
                     [] b \in ends    -> Append(ir[b], Br(B(Successor[b[1]])))
                     [] OTHER         -> ir[b]]
      BY DEF SetupControlFlow
    <2>5. "exit" \notin DOMAIN Successor /\ B("exit") \notin ends
      BY NamesDiffer DEF Successor
    <2>6. DOMAIN ir' = DOMAIN ir
      BY <2>4
    <2>7. \A b \in DOMAIN ir : b \notin {B(n) : n \in W} => ir'[b] = ir[b]
      BY <2>2, <2>4
    <2>8. \A n \in W : ir'[B(n)] = NamedCode(n, 10)
      <3>1. ir'[B("exit")] = NamedCode("exit", 10)
        <4>1. "exit" \in NamedBlocks
          BY DEF NamedBlocks
        <4>2. B("exit") \in DOMAIN ir /\ ir[B("exit")] = NamedCode("exit", 9)
          BY <2>3, <4>1
        <4>3. ir'[B("exit")] = Append(ir[B("exit")], Ret)
          <5> HIDE DEF ends
          <5> QED BY <2>4, <2>5, <4>2
        <4> QED BY <4>2, <4>3, FlowCode
      <3>2. ASSUME NEW n \in DOMAIN Successor PROVE ir'[B(n)] = NamedCode(n, 10)
        <4>1. B(n) \in ends /\ B(n) # B("exit") /\ B(n)[1] = n /\ B(n) \in DOMAIN ir
          BY <2>1, <2>3, <2>5, NamesDiffer DEF B
        <4>2. ir'[B(n)] = Append(ir[B(n)], Br(B(Successor[n])))
          <5> HIDE DEF ends
          <5> QED BY <2>4, <4>1
        <4> QED BY <2>1, <2>3, <4>2, FlowCode
      <3> QED BY <3>1, <3>2
    <2>9. \A n \in NamedBlocks : n \notin W => NamedCode(n, 10) = NamedCode(n, 9)
      BY FlowCode
    <2>10. DOMAIN ir' = BlockNames(10)
      BY <1>3, <2>6 DEF CodeShape, BlockNames
    <2> HIDE DEF W
    <2>11. 9 + 1 = 10 /\ 9 \in 1 .. 9 /\ 9 # 3 /\ 9 # 4 /\ 9 # 5
      OBVIOUS
    <2> QED BY <1>1, <1>3, <2>1, <2>7, <2>8, <2>9, <2>10, <2>11, CodeStep
  <1>6. ArgShape(10)'
    <2>1. 9 + 1 = 10 /\ 9 \in 2 .. 9 /\ 9 # 6
      OBVIOUS
    <2> QED BY <1>1, <1>3, <2>1, ArgsStay
  <1>7. LoopShape(10)'
    <2>1. 9 + 1 = 10 /\ 9 \in 0 .. 9 /\ 9 # 4 /\ 9 # 5
      OBVIOUS
    <2> QED BY <1>1, <1>3, <2>1, LoopsStay
  <1>8. Passed(10)'
    <2>1. Passed(10)
      BY <1>3 DEF Passed
    <2> QED BY <1>1, <2>1, CodeStable
  <1> QED BY <1>2, <1>4, <1>5, <1>6, <1>7, <1>8, ShapeStep

\* Between the steps of other components nothing changes.
LEMMA ShapeUnchanged ==
  ASSUME UNCHANGED buildVars, Shape PROVE Shape'
  <1>1. /\ req' = req /\ phase' = phase /\ argSpecs' = argSpecs /\ syms' = syms
        /\ callArgs1' = callArgs1 /\ callArgs2' = callArgs2 /\ loops' = loops /\ ir' = ir
    BY DEF buildVars
  <1>2. SymbolsKept'
    BY <1>1 DEF SymbolsKept, Shape
  <1> SUFFICES ASSUME phase \in Phases
               PROVE  /\ CodeShape(Stage)' /\ ArgShape(Stage)'
                      /\ LoopShape(Stage)' /\ Passed(Stage)'
    BY <1>1, <1>2 DEF Shape
  <1>3. CodeShape(Stage) /\ ArgShape(Stage) /\ LoopShape(Stage) /\ Passed(Stage)
    BY DEF Shape
  <1>4. Stage' = Stage
    BY <1>1 DEF Stage
  <1> DEFINE s == Stage
  <1>5. CodeShape(s) /\ ArgShape(s) /\ LoopShape(s) /\ Passed(s) /\ s' = s
    BY <1>3, <1>4
  <1> HIDE DEF s
  <1>6. CodeShape(s)'
    BY <1>1, <1>5, CodeStable DEF CodeShape
  <1>7. ArgShape(s)'
    BY <1>1, <1>5, CodeStable DEF ArgShape
  <1>8. LoopShape(s)'
    BY <1>1, <1>5 DEF LoopShape, Loop1, Loop2
  <1>9. Passed(s)'
    BY <1>1, <1>5, CodeStable
  <1> QED BY <1>4, <1>6, <1>7, <1>8, <1>9 DEF s


-----------------------------------------------------------------------------
(***************************************************************************)
(* The invariant.                                                          *)
(***************************************************************************)

\* A call is entered with nothing built.
LEMMA ShapeAtEntry ==
  ASSUME phase = "encapsulateImpl", syms = req.syms, callArgs1 = <<>>, callArgs2 = <<>>,
         loops = <<>>, ir = InitialBlocks(req)
  PROVE  Shape
  <1>1. SymbolsKept
    BY DEF SymbolsKept
  <1>2. Stage = 0
    BY DEF Stage, Order
  <1>3. CodeShape(0)
    BY DEF CodeShape, BlockNames, InitialBlocks
  <1>4. ArgShape(0)
    BY DEF ArgShape
  <1>5. LoopShape(0) /\ Passed(0)
    BY DEF LoopShape, Passed
  <1> QED BY <1>1, <1>2, <1>3, <1>4, <1>5 DEF Shape

\* Every step keeps the shape.
LEMMA ShapeKept == ASSUME req \in Requests, Shape, BuildNext PROVE Shape'
  BY EncapsulateImplShape, SetupHarnessArgsShape, CreateSymbolicDeclarationsShape,
     CreateSymbolicAssertionsShape, CreateLoopShape, PassIteratorShape, CreateCallShape,
     SetupControlFlowShape
     DEF BuildNext

\* encapsulateImpl: at every stage, for every request it can be given, the blocks
\* of the harness, their code, the arguments of the calls, the loops and the
\* symbols are those of that stage.
THEOREM ShapeInvariance == BuildSpec => []Shape
  <1>1. Init => Shape
    BY ShapeAtEntry DEF Init
  <1>2. BuildInv /\ Shape /\ [BuildNext]_buildVars => Shape'
    BY ShapeKept, ShapeUnchanged DEF BuildInv
  <1> QED BY <1>1, <1>2, BuildInvariance, PTL DEF BuildSpec


-----------------------------------------------------------------------------
(***************************************************************************)
(* Types.                                                                  *)
(***************************************************************************)

\* A block has instructions of the kinds there are.
TypedCode(code) == \A j \in DOMAIN code : code[j].op \in Ops

LEMMA TypedSeqs ==
  /\ TypedCode(<<>>)
  /\ \A x : x.op \in Ops => TypedCode(<<x>>)
  /\ \A x, y : x.op \in Ops /\ y.op \in Ops => TypedCode(<<x, y>>)
  <1>1. TypedCode(<<>>)
    BY DEF TypedCode
  <1>2. ASSUME NEW x, x.op \in Ops PROVE TypedCode(<<x>>)
    <2>1. DOMAIN <<x>> = {1} /\ <<x>>[1] = x
      OBVIOUS
    <2> QED BY <1>2, <2>1 DEF TypedCode
  <1>3. ASSUME NEW x, NEW y, x.op \in Ops, y.op \in Ops PROVE TypedCode(<<x, y>>)
    <2>1. DOMAIN <<x, y>> = {1, 2} /\ <<x, y>>[1] = x /\ <<x, y>>[2] = y
      OBVIOUS
    <2> QED BY <1>3, <2>1 DEF TypedCode
  <1> QED BY <1>1, <1>2, <1>3

LEMMA TypedAppend ==
  ASSUME NEW S, NEW code \in Seq(S), \A x \in S : x.op \in Ops, NEW inst, inst.op \in Ops
  PROVE  TypedCode(code) /\ TypedCode(Append(code, inst))
  <1>1. Len(code) \in Nat /\ DOMAIN code = 1 .. Len(code) /\ \A j \in 1 .. Len(code) : code[j] \in S
    OBVIOUS
  <1>2. TypedCode(code)
    BY <1>1 DEF TypedCode
  <1>3. ASSUME NEW j \in DOMAIN Append(code, inst) PROVE Append(code, inst)[j].op \in Ops
    <2>1. j \in 1 .. (Len(code) + 1)
      BY <1>1
    <2>2. Append(code, inst)[j] = IF j = Len(code) + 1 THEN inst ELSE code[j]
      BY <1>1, <2>1
    <2> QED BY <1>1, <2>1, <2>2
  <1> QED BY <1>2, <1>3 DEF TypedCode

\* The kinds of instructions.
LEMMA OpsAre ==
  /\ \A to : Br(to).op \in Ops
  /\ Ret.op \in Ops
  /\ \A c, x, y : CondBr(c, x, y).op \in Ops
  /\ \A k : CallInst(k).op \in Ops
  /\ \A x \in AllocationInsts : x.op \in Ops
  /\ \A x \in SymbolizeInsts : x.op \in Ops
  /\ \A x \in {[op |-> "free", obj |-> o] : o \in HeapObjects} : x.op \in Ops
  <1>1. /\ \A to : Br(to).op \in Ops
        /\ Ret.op \in Ops
        /\ \A c, x, y : CondBr(c, x, y).op \in Ops
        /\ \A k : CallInst(k).op \in Ops
    BY DEF Br, Ret, CondBr, CallInst, Ops
  <1>2. \A x \in AllocationInsts : x.op \in Ops
    BY DEF AllocationInsts, Allocation, Ops
  <1>3. \A x \in SymbolizeInsts : x.op \in Ops
    BY DEF SymbolizeInsts, Symbolize, CopyInst, Memcpy, Ops
  <1>4. \A x \in {[op |-> "free", obj |-> o] : o \in HeapObjects} : x.op \in Ops
    BY DEF Ops
  <1> QED BY <1>1, <1>2, <1>3, <1>4

LEMMA TypedNamedCode ==
  ASSUME req \in Requests, NEW n \in NamedBlocks, NEW s \in 0 .. 10
  PROVE  TypedCode(NamedCode(n, s))
  <1>1. TypedCode(SetupCode) /\ \A to : TypedCode(Append(SetupCode, Br(to)))
    BY SetupCodeIs, OpsAre, TypedAppend
  <1>2. TypedCode(TeardownCode) /\ \A to : TypedCode(Append(TeardownCode, Br(to)))
    BY TeardownCodeIs, OpsAre, TypedAppend
  <1>3. TypedCode(SymbolizeCode) /\ \A to : TypedCode(Append(SymbolizeCode, Br(to)))
    BY SymbolizeCodeIs, OpsAre, TypedAppend
  <1>4. /\ TypedCode(<<>>) /\ TypedCode(<<Ret>>) /\ TypedCode(StartCode)
        /\ \A to : TypedCode(<<Br(to)>>)
        /\ \A k, to : TypedCode(<<CallInst(k), Br(to)>>)
    BY OpsAre, TypedSeqs DEF StartCode
  <1>5. CASE n = "setup"
    BY <1>1, <1>4, <1>5 DEF NamedCode
  <1>6. CASE n = "teardown"
    BY <1>2, <1>4, <1>6 DEF NamedCode
  <1>7. CASE n = "se.setup"
    BY <1>3, <1>4, <1>7 DEF NamedCode
  <1>8. CASE n \in {"se.start.teardown", "call1.setup", "call1.teardown", "exit"}
    BY <1>4, <1>8 DEF NamedCode
  <1>9. CASE n \in {"call1.body", "call2.body"}
    BY <1>4, <1>9 DEF NamedCode
  <1>10. CASE n \in {"call2.setup", "call2.teardown", "se.end.teardown"}
    BY <1>4, <1>10 DEF NamedCode
  <1> QED BY <1>5, <1>6, <1>7, <1>8, <1>9, <1>10 DEF NamedBlocks

LEMMA TypedBlocks ==
  ASSUME req \in Requests, Shape, phase \in Phases, NEW b \in DOMAIN ir
  PROVE  TypedCode(ir[b])
  <1>1. CodeShape(Stage) /\ Stage \in 0 .. 10
    BY StageIs DEF Shape
  <1> DEFINE s == Stage
  <1>2. CodeShape(s) /\ s \in 0 .. 10
    BY <1>1
  <1> HIDE DEF s
  <1>3. b \in BlockNames(s)
    BY <1>2 DEF CodeShape
  <1>4. CASE req.hasHarnessBody /\ b = B("entry")
    BY <1>2, <1>4, OpsAre, TypedSeqs DEF CodeShape
  <1>5. CASE s >= 1 /\ \E n \in NamedBlocks : b = B(n)
    BY <1>2, <1>5, TypedNamedCode DEF CodeShape
  <1>6. CASE s >= 4 /\ b \in AssertionNames
    <2>1. PICK i \in OutboundArgs : b = Cond(i) \/ b = Fail(i)
      BY <1>6 DEF AssertionNames
    <2>2. ir[b] = ComparisonCode(i) \/ ir[b] = FailCode
      BY <1>2, <1>6, <2>1 DEF CodeShape
    <2>3. TypedCode(ComparisonCode(i))
      <3> DEFINE x == [op |-> "memcmp", lhs |-> Obj(i, 1), rhs |-> Obj(i, 2), size |-> ComparedSize(i)]
                 y == CondBr("memcmp == 0", NextCond(i), Fail(i))
      <3>1. x.op \in Ops /\ y.op \in Ops
        BY DEF Ops, CondBr
      <3>2. ComparisonCode(i) = <<x, y>>
        BY DEF ComparisonCode
      <3> HIDE DEF x, y
      <3> QED BY <3>1, <3>2, TypedSeqs
    <2>4. TypedCode(FailCode)
      <3>1. [op |-> "__assert_fail"].op \in Ops /\ Unreachable.op \in Ops
        BY DEF Ops, Unreachable
      <3> QED BY <3>1, TypedSeqs DEF FailCode
    <2> QED BY <2>2, <2>3, <2>4
  <1>7. ASSUME NEW k \in {1, 2}, s >= 4 + k, b \in LoopNames(k) PROVE TypedCode(ir[b])
    <2>1. ir[b] = LoopBlocks(k)[b]
      BY <1>2, <1>7 DEF CodeShape
    <2>2. [op |-> "phi", loop |-> k, pre |-> Names(k).pre].op \in Ops
      BY DEF Ops
    <2>3. CASE b = <<"hdr", k>>
      <3> DEFINE x == [op |-> "phi", loop |-> k, pre |-> Names(k).pre]
                 y == CondBr("loop", Names(k).body, <<"loop.exit", k>>)
      <3>1. LoopBlocks(k)[b] = <<x, y>>
        BY <2>3 DEF LoopBlocks
      <3>2. x.op \in Ops /\ y.op \in Ops
        BY <2>2, OpsAre
      <3> HIDE DEF x, y
      <3> QED BY <2>1, <3>1, <3>2, TypedSeqs
    <2>4. CASE b = <<"latch", k>>
      <3>1. LoopBlocks(k)[b] = <<Br(<<"hdr", k>>)>>
        BY <2>4 DEF LoopBlocks
      <3> QED BY <2>1, <3>1, OpsAre, TypedSeqs
    <2>5. CASE b = <<"loop.exit", k>>
      <3>1. LoopBlocks(k)[b] = <<Br(Names(k).post)>>
        BY <2>5 DEF LoopBlocks
      <3> QED BY <2>1, <3>1, OpsAre, TypedSeqs
    <2> QED BY <1>7, <2>3, <2>4, <2>5 DEF LoopNames
  <1> QED BY <1>3, <1>4, <1>5, <1>6, <1>7 DEF BlockNames

\* The specifications and the symbols, whatever becomes of the request, and the
\* rest as long as it goes on.
Typed ==
  /\ argSpecs \in Seq(ArgSpecs)
  /\ \A n \in DOMAIN syms : syms[n] \in FunctionTypes
  /\ \A i \in DOMAIN callArgs1 : callArgs1[i] \in Nat \X {1, 2}
  /\ DOMAIN callArgs2 = DOMAIN callArgs1
  /\ loops \in Seq(Loops)
  /\ \A b \in DOMAIN ir : TypedCode(ir[b])
  /\ phase \in Phases \cup {"declined", "aborted", "undefined"}

\* As long as encapsulateImpl goes on, the shape gives the types.
ShapeTypes ==
  phase \in Phases =>
    /\ \A i \in DOMAIN callArgs1 : callArgs1[i] \in Nat \X {1, 2}
    /\ DOMAIN callArgs2 = DOMAIN callArgs1
    /\ loops \in Seq(Loops)
    /\ \A b \in DOMAIN ir : TypedCode(ir[b])

LEMMA ShapeTyped == ASSUME req \in Requests, Shape PROVE ShapeTypes
  <1> SUFFICES ASSUME phase \in Phases
               PROVE  /\ \A i \in DOMAIN callArgs1 : callArgs1[i] \in Nat \X {1, 2}
                      /\ DOMAIN callArgs2 = DOMAIN callArgs1
                      /\ loops \in Seq(Loops)
                      /\ \A b \in DOMAIN ir : TypedCode(ir[b])
    BY DEF ShapeTypes
  <1>1. ArgShape(Stage) /\ LoopShape(Stage) /\ Stage \in 0 .. 10 /\ NumParams \in Nat
    BY StageIs, ParamFacts DEF Shape
  <1>2. ASSUME NEW i \in DOMAIN callArgs1 PROVE callArgs1[i] \in Nat \X {1, 2}
    <2>1. i \in Nat
      BY <1>1 DEF ArgShape
    <2>2. callArgs1[i] = CallArg(i, 1) \/ callArgs1[i] = Obj(i, 1)
      BY <1>1 DEF ArgShape
    <2> QED BY <2>1, <2>2 DEF CallArg, IndVar, Obj
  <1>3. DOMAIN callArgs2 = DOMAIN callArgs1
    BY <1>1 DEF ArgShape
  <1>4. loops \in Seq(Loops)
    <2>1. U32Max \in Nat \ {0} /\ req.iterations \in 0 .. U32Max
      BY RequestsAssumption, WidthAssumption DEF U32
    <2>2. WrapU32(req.iterations - 1) \in 0 .. U32Max
      BY <2>1 DEF WrapU32
    <2>3. Loop1 \in Loops /\ Loop2 \in Loops
      BY <2>1, <2>2 DEF Loop1, Loop2, CreatedLoop, Loops, LoopDirection, Directions, U32
    <2>4. <<>> \in Seq(Loops) /\ <<Loop1>> \in Seq(Loops) /\ <<Loop1, Loop2>> \in Seq(Loops)
      BY <2>3
    <2> QED BY <1>1, <2>4 DEF LoopShape
  <1> QED BY <1>2, <1>3, <1>4, TypedBlocks

LEMMA TypedKept ==
  ASSUME req \in Requests, ShapeTypes', Typed, BuildNext PROVE Typed'
  <1>1. argSpecs' \in Seq(ArgSpecs)
    <2>1. req.argSpecs \in Seq(ArgSpecs) /\ NumParams \in Nat
      BY RequestsAssumption, ParamFacts
    <2>2. FillMissing(req.argSpecs, NumParams) \in Seq(ArgSpecs)
      BY <2>1, FillMissingType
    <2>3. argSpecs' = argSpecs \/ argSpecs' = FillMissing(req.argSpecs, NumParams)
      BY DEF BuildNext, EncapsulateImpl, SetupHarnessArgs, CreateSymbolicDeclarations,
             CreateSymbolicAssertions, CreateLoop, PassIterator, CreateCall, SetupControlFlow
    <2> QED BY <2>2, <2>3 DEF Typed
  <1>2. \A n \in DOMAIN syms' : syms'[n] \in FunctionTypes
    <2>1. syms' = syms \/ \E d \in DeclSets : syms' = Declare(syms, d)
      BY DEF BuildNext, EncapsulateImpl, SetupHarnessArgs, CreateSymbolicDeclarations,
             CreateSymbolicAssertions, CreateLoop, PassIterator, CreateCall, SetupControlFlow, DeclSets
    <2>2. \A d \in DeclSets : \A n \in DOMAIN d : d[n] \in FunctionTypes
      <3>1. \A n \in DOMAIN HarnessDecl : HarnessDecl[n] \in FunctionTypes
        BY DEF HarnessDecl, FunctionTypes
      <3>2. \A n \in DOMAIN HeapDecls : HeapDecls[n] \in FunctionTypes
        BY DEF HeapDecls, FunctionTypes
      <3>3. \A n \in DOMAIN SymbolicDecls : SymbolicDecls[n] \in FunctionTypes
        BY DEF SymbolicDecls, FunctionTypes
      <3>4. \A n \in DOMAIN AssertDecls : AssertDecls[n] \in FunctionTypes
        BY DEF AssertDecls, FunctionTypes
      <3> QED BY <3>1, <3>2, <3>3, <3>4 DEF DeclSets
    <2> QED BY <2>1, <2>2 DEF Declare, Typed
  <1>3. phase' \in Phases \/ /\ phase' \in {"declined", "aborted", "undefined"}
                             /\ callArgs1' = callArgs1 /\ callArgs2' = callArgs2
                             /\ loops' = loops /\ ir' = ir
    BY DEF BuildNext, EncapsulateImpl, SetupHarnessArgs, CreateSymbolicDeclarations,
           CreateSymbolicAssertions, CreateLoop, PassIterator, CreateCall, SetupControlFlow, Phases,
           FailedCast
  <1>4. CASE phase' \in Phases
    <2>1. /\ \A i \in DOMAIN callArgs1' : callArgs1'[i] \in Nat \X {1, 2}
          /\ DOMAIN callArgs2' = DOMAIN callArgs1'
          /\ loops' \in Seq(Loops)
          /\ \A b \in DOMAIN ir' : TypedCode(ir'[b])
      BY <1>4 DEF ShapeTypes, TypedCode
    <2> QED BY <1>1, <1>2, <1>4, <2>1 DEF Typed, TypedCode
  <1>5. CASE phase' \notin Phases
    BY <1>1, <1>2, <1>3, <1>5 DEF Typed, TypedCode
  <1> QED BY <1>4, <1>5

\* Every variable has its type, whatever the request and whatever becomes of it.
THEOREM BuildTypeCorrect == BuildSpec => []TypeOK
  <1>1. Init => Typed
    <2> SUFFICES ASSUME Init PROVE Typed
      OBVIOUS
    <2>1. /\ argSpecs = <<>> /\ syms = req.syms /\ callArgs1 = <<>> /\ callArgs2 = <<>>
          /\ loops = <<>> /\ ir = InitialBlocks(req) /\ req \in Requests
          /\ phase = "encapsulateImpl"
      BY DEF Init
    <2>2. \A b \in DOMAIN ir : ir[b] = <<Ret>>
      BY <2>1 DEF InitialBlocks
    <2>3. \A b \in DOMAIN ir : TypedCode(ir[b])
      BY <2>2, OpsAre, TypedSeqs
    <2>4. \A n \in DOMAIN syms : syms[n] \in FunctionTypes
      BY <2>1, RequestsAssumption
    <2> QED BY <2>1, <2>3, <2>4 DEF Typed, Phases
  <1>4. BuildInv /\ Shape => ShapeTypes
    BY ShapeTyped DEF BuildInv
  <1>2. BuildInv /\ ShapeTypes' /\ Typed /\ [BuildNext]_buildVars => Typed'
    <2>1. CASE BuildNext /\ BuildInv /\ ShapeTypes' /\ Typed
      BY <2>1, TypedKept DEF BuildInv
    <2>2. CASE UNCHANGED buildVars /\ Typed
      BY <2>2 DEF buildVars, Typed, TypedCode
    <2> QED BY <2>1, <2>2
  <1>3. BuildInv /\ Typed => TypeOK
    <2> SUFFICES ASSUME BuildInv, Typed PROVE TypeOK
      OBVIOUS
    <2>1. /\ req.NDEBUG \in BOOLEAN /\ req.params \in Seq(Types)
          /\ req.argSpecs \in Seq(ArgSpecs) /\ req.iterations \in U32
      BY RequestsAssumption DEF BuildInv
    <2>2. phase \in {"encapsulateImpl", "setupHarnessArgs", "createSymbolicDeclarations",
               "createSymbolicAssertions", "createLoop1", "createLoop2", "passIterator",
               "createCall1", "createCall2", "controlFlow",
               "done", "declined", "aborted", "undefined"}
      BY DEF Typed, Phases
    <2> QED BY <2>1, <2>2 DEF TypeOK, Typed, TypedCode
  <1> QED BY <1>1, <1>2, <1>3, <1>4, BuildInvariance, ShapeInvariance, PTL DEF BuildSpec


-----------------------------------------------------------------------------
(***************************************************************************)
(* The finished harness, and for which requests it is sound.               *)
(***************************************************************************)

\* The blocks of a finished harness.
DoneNames ==
  (IF req.hasHarnessBody THEN {B("entry")} ELSE {}) \cup {B(n) : n \in NamedBlocks}
  \cup AssertionNames \cup LoopNames(1) \cup LoopNames(2)

LEMMA DoneCode ==
  ASSUME Shape, phase = "done"
  PROVE  /\ DOMAIN ir = DoneNames
         /\ req.hasHarnessBody => ir[B("entry")] = <<Ret>>
         /\ ir[B("setup")] = Append(SetupCode, Br(B("se.setup")))
         /\ ir[B("se.setup")] = Append(SymbolizeCode, Br(B("call1.setup")))
         /\ ir[B("call1.setup")] = <<Br(<<"hdr", 1>>)>>
         /\ ir[B("call1.body")] = <<CallInst(1), Br(<<"latch", 1>>)>>
         /\ ir[B("call1.teardown")] = <<Br(B("call2.setup"))>>
         /\ ir[B("call2.setup")] = <<Br(<<"hdr", 2>>)>>
         /\ ir[B("call2.body")] = <<CallInst(2), Br(<<"latch", 2>>)>>
         /\ ir[B("call2.teardown")] = <<Br(B("se.start.teardown"))>>
         /\ ir[B("se.start.teardown")] = StartCode
         /\ ir[B("se.end.teardown")] = <<Br(B("teardown"))>>
         /\ ir[B("teardown")] = Append(TeardownCode, Br(B("exit")))
         /\ ir[B("exit")] = <<Ret>>
         /\ \A i \in OutboundArgs : ir[Cond(i)] = ComparisonCode(i) /\ ir[Fail(i)] = FailCode
         /\ \A k \in {1, 2} : \A b \in LoopNames(k) : ir[b] = LoopBlocks(k)[b]
  <1>1. CodeShape(10)
    BY PhaseStages, ShapeAt DEF Phases
  <1>2. DOMAIN ir = DoneNames
    BY <1>1 DEF CodeShape, BlockNames, DoneNames
  <1>3. \A n \in NamedBlocks : ir[B(n)] = NamedCode(n, 10)
    BY <1>1 DEF CodeShape
  <1>4. /\ ir[B("call1.setup")] = NamedCode("call1.setup", 10)
        /\ ir[B("call1.body")] = NamedCode("call1.body", 10)
        /\ ir[B("call2.setup")] = NamedCode("call2.setup", 10)
        /\ ir[B("call2.body")] = NamedCode("call2.body", 10)
        /\ ir[B("se.start.teardown")] = NamedCode("se.start.teardown", 10)
    BY <1>3 DEF NamedBlocks
  <1>5. /\ NamedCode("call1.setup", 10) = <<Br(<<"hdr", 1>>)>>
        /\ NamedCode("call1.body", 10) = <<CallInst(1), Br(<<"latch", 1>>)>>
        /\ NamedCode("call2.setup", 10) = <<Br(<<"hdr", 2>>)>>
        /\ NamedCode("call2.body", 10) = <<CallInst(2), Br(<<"latch", 2>>)>>
        /\ NamedCode("se.start.teardown", 10) = StartCode
    BY DEF NamedCode
  <1>6. /\ ir[B("setup")] = Append(SetupCode, Br(B("se.setup")))
        /\ ir[B("se.setup")] = Append(SymbolizeCode, Br(B("call1.setup")))
        /\ ir[B("call1.teardown")] = <<Br(B("call2.setup"))>>
        /\ ir[B("call2.teardown")] = <<Br(B("se.start.teardown"))>>
    BY <1>3, CodeChanges DEF NamedBlocks
  <1>7. /\ ir[B("se.end.teardown")] = <<Br(B("teardown"))>>
        /\ ir[B("teardown")] = Append(TeardownCode, Br(B("exit")))
        /\ ir[B("exit")] = <<Ret>>
    BY <1>3, CodeChanges DEF NamedBlocks
  <1>8. /\ req.hasHarnessBody => ir[B("entry")] = <<Ret>>
        /\ \A i \in OutboundArgs : ir[Cond(i)] = ComparisonCode(i) /\ ir[Fail(i)] = FailCode
        /\ \A k \in {1, 2} : \A b \in LoopNames(k) : ir[b] = LoopBlocks(k)[b]
    BY <1>1 DEF CodeShape
  <1> QED BY <1>2, <1>4, <1>5, <1>6, <1>7, <1>8

LEMMA LoopCodeIs ==
  ASSUME NEW k \in {1, 2}
  PROVE  /\ LoopBlocks(k)[<<"hdr", k>>] =
              <<[op |-> "phi", loop |-> k, pre |-> Names(k).pre],
                CondBr("loop", Names(k).body, <<"loop.exit", k>>)>>
         /\ LoopBlocks(k)[<<"latch", k>>] = <<Br(<<"hdr", k>>)>>
         /\ LoopBlocks(k)[<<"loop.exit", k>>] = <<Br(Names(k).post)>>
  <1>1. LoopBlocks(k)[<<"hdr", k>>] =
              <<[op |-> "phi", loop |-> k, pre |-> Names(k).pre],
                CondBr("loop", Names(k).body, <<"loop.exit", k>>)>>
    BY DEF LoopBlocks
  <1>2. LoopBlocks(k)[<<"latch", k>>] = <<Br(<<"hdr", k>>)>>
    BY DEF LoopBlocks
  <1>3. LoopBlocks(k)[<<"loop.exit", k>>] = <<Br(Names(k).post)>>
    BY DEF LoopBlocks
  <1> QED BY <1>1, <1>2, <1>3

\* A block of plain instructions with a branch at its end.
LEMMA WellFormedAppend ==
  ASSUME NEW S, NEW code \in Seq(S), NEW to \in DOMAIN ir,
         \A x \in S : ~IsTerminator(x) /\ x.op # "call"
  PROVE  WellFormedBlock(Append(code, Br(to)))
  <1> DEFINE n == Len(code)
             c == Append(code, Br(to))
  <1>1. n \in Nat /\ DOMAIN code = 1 .. n /\ \A j \in 1 .. n : code[j] \in S
    OBVIOUS
  <1>2. /\ Len(c) = n + 1 /\ DOMAIN c = 1 .. n + 1 /\ c[n + 1] = Br(to)
        /\ \A j \in 1 .. n : c[j] = code[j]
    BY <1>1
  <1> HIDE DEF c, n
  <1>3. Br(to).op = "br" /\ Br(to).to = to
    BY DEF Br
  <1>4. IsTerminator(Br(to)) /\ Targets(Br(to)) = {to} /\ Br(to).op # "call"
    BY <1>3 DEF IsTerminator, Targets
  <1>5. c # <<>> /\ Last(c) = Br(to)
    BY <1>1, <1>2 DEF Last
  <1>6. ASSUME NEW j \in DOMAIN c
        PROVE  /\ IsTerminator(c[j]) <=> j = Len(c)
               /\ c[j].op # "call"
    <2>1. CASE j = n + 1
      BY <1>2, <1>4, <2>1
    <2>2. CASE j \in 1 .. n
      <3>1. c[j] \in S /\ j # n + 1
        BY <1>1, <1>2, <2>2
      <3> QED BY <1>2, <3>1
    <2> QED BY <1>1, <1>2, <2>1, <2>2
  <1> QED BY <1>4, <1>5, <1>6 DEF WellFormedBlock, c

LEMMA WellFormedBranch ==
  ASSUME NEW to \in DOMAIN ir PROVE WellFormedBlock(<<Br(to)>>)
  <1> DEFINE x == Br(to)
             c == <<x>>
  <1>1. x.op = "br" /\ x.to = to
    BY DEF Br
  <1>2. IsTerminator(x) /\ Targets(x) = {to} /\ x.op # "call"
    BY <1>1 DEF IsTerminator, Targets
  <1> HIDE DEF x
  <1>3. Len(c) = 1 /\ DOMAIN c = {1} /\ c[1] = x /\ c # <<>>
    BY SmallTuples
  <1> HIDE DEF c
  <1>5. Last(c) = x
    BY <1>3 DEF Last
  <1>7. \A j \in DOMAIN c : j = 1
    BY <1>3
  <1>6. WellFormedBlock(c)
    BY <1>2, <1>3, <1>5, <1>7 DEF WellFormedBlock
  <1> QED BY <1>6 DEF c, x

\* A block of an instruction and a terminator.
LEMMA WellFormedPair ==
  ASSUME NEW x, NEW y, ~IsTerminator(x), IsTerminator(y), Targets(y) \subseteq DOMAIN ir,
         x.op = "call" => \A i \in DOMAIN x.args : x.args[i].kind # "detached cast"
  PROVE  WellFormedBlock(<<x, y>>)
  <1> DEFINE c == <<x, y>>
  <1>1. Len(c) = 2 /\ DOMAIN c = {1, 2} /\ c[1] = x /\ c[2] = y /\ c # <<>>
    BY SmallTuples
  <1> HIDE DEF c
  <1>2. Last(c) = y
    BY <1>1 DEF Last
  <1>3. y.op # "call"
    BY DEF IsTerminator
  <1>6. WellFormedBlock(c)
    BY <1>1, <1>2, <1>3 DEF WellFormedBlock
  <1> QED BY <1>6 DEF c


\* How many bytes of an object setup allocates.
LEMMA CoveredIs ==
  ASSUME req \in Requests, Shape, phase = "done", NEW o \in Objects, NEW n \in Nat
  PROVE  Covered(o, n) <=> n <= AllocSize(o[1])
  <1> DEFINE c == ir[B("setup")]
             m == Len(SetupCode)
  <1>1. /\ m \in Nat /\ DOMAIN SetupCode = 1 .. m
        /\ c = Append(SetupCode, Br(B("se.setup")))
    BY SetupCodeIs, DoneCode
  <1>2. /\ DOMAIN c = 1 .. m + 1 /\ c[m + 1] = Br(B("se.setup"))
        /\ \A j \in 1 .. m : c[j] = SetupCode[j]
    BY <1>1, SetupCodeIs
  <1>3. \A i, k : /\ Allocation(i, k).op \in {"alloca", "malloc"}
                  /\ Allocation(i, k).obj = <<i, k>> /\ Allocation(i, k).size = AllocSize(i)
    BY DEF Allocation, Obj
  <1>4. \A j \in 1 .. m : SetupCode[j] = Allocation(SetupCode[j].obj[1], SetupCode[j].obj[2])
    BY SetupCodeIs
  <1>5. PICK p \in 1 .. m : SetupCode[p].obj = o
    BY SetupCodeIs DEF OneForEach
  <1> HIDE DEF c, m
  <1>6. ASSUME n <= AllocSize(o[1]) PROVE Covered(o, n)
    <2>1. c[p] = Allocation(o[1], o[2]) /\ c[p].obj = o /\ p \in DOMAIN c
      BY <1>1, <1>2, <1>4, <1>5
    <2>2. c[p].op \in {"alloca", "malloc"} /\ c[p].size = AllocSize(o[1])
      BY <1>3, <2>1
    <2> QED BY <1>6, <2>1, <2>2 DEF Covered, c
  <1>7. ASSUME Covered(o, n) PROVE n <= AllocSize(o[1])
    <2>1. PICK j \in DOMAIN c : c[j].op \in {"alloca", "malloc"} /\ c[j].obj = o /\ n <= c[j].size
      BY <1>7 DEF Covered, c
    <2>2. j # m + 1
      BY <1>2, <2>1 DEF Br
    <2>3. j \in 1 .. m
      BY <1>1, <1>2, <2>2
    <2>4. c[j] = Allocation(o[1], o[2])
      BY <1>2, <1>4, <2>1, <2>3
    <2> QED BY <1>3, <2>1, <2>4
  <1> QED BY <1>6, <1>7

\* The names that the parts branch to.
LEMMA TargetsThere ==
  ASSUME req \in Requests, Shape, phase = "done"
  PROVE  /\ \A n \in NamedBlocks : B(n) \in DOMAIN ir
         /\ \A i \in OutboundArgs : Cond(i) \in DOMAIN ir /\ Fail(i) \in DOMAIN ir
         /\ \A k \in {1, 2} : LoopNames(k) \subseteq DOMAIN ir
         /\ \A i \in Nat : NextCond(i) \in DOMAIN ir
  <1>1. DOMAIN ir = DoneNames
    BY DoneCode
  <1>2. /\ \A n \in NamedBlocks : B(n) \in DOMAIN ir
        /\ \A i \in OutboundArgs : Cond(i) \in DOMAIN ir /\ Fail(i) \in DOMAIN ir
        /\ \A k \in {1, 2} : LoopNames(k) \subseteq DOMAIN ir
    BY <1>1 DEF DoneNames, AssertionNames
  <1>3. ASSUME NEW i \in Nat PROVE NextCond(i) \in DOMAIN ir
    <2>1. NextCond(i) = B("se.end.teardown") \/ \E j \in OutboundArgs : NextCond(i) = Cond(j)
      BY NextCondIs
    <2>2. "se.end.teardown" \in NamedBlocks
      BY DEF NamedBlocks
    <2> QED BY <1>2, <2>1, <2>2
  <1> QED BY <1>2, <1>3

\* No block is without its terminator, and none branches to a block that is not
\* there; the one thing the verifier may find is the cast of the iterator.
LEMMA DoneWellFormed ==
  ASSUME req \in Requests, Shape, phase = "done",
         NumParams > 0 => Param(1) = I64Type, NEW b \in DOMAIN ir
  PROVE  WellFormedBlock(ir[b])
  <1>1. /\ \A n \in NamedBlocks : B(n) \in DOMAIN ir
        /\ \A i \in OutboundArgs : Cond(i) \in DOMAIN ir /\ Fail(i) \in DOMAIN ir
        /\ \A k \in {1, 2} : LoopNames(k) \subseteq DOMAIN ir
        /\ \A i \in Nat : NextCond(i) \in DOMAIN ir
    BY TargetsThere
  <1>2. B("se.setup") \in DOMAIN ir /\ B("call1.setup") \in DOMAIN ir /\ B("call2.setup") \in DOMAIN ir
        /\ B("se.start.teardown") \in DOMAIN ir /\ B("teardown") \in DOMAIN ir /\ B("exit") \in DOMAIN ir
        /\ B("call1.body") \in DOMAIN ir /\ B("call2.body") \in DOMAIN ir
        /\ B("call1.teardown") \in DOMAIN ir /\ B("call2.teardown") \in DOMAIN ir
    BY <1>1 DEF NamedBlocks
  <1>3. WellFormedBlock(<<Ret>>)
    <2>1. Ret.op = "ret"
      BY DEF Ret
    <2>2. IsTerminator(Ret) /\ Targets(Ret) = {} /\ Ret.op # "call"
      BY <2>1 DEF IsTerminator, Targets
    <2> DEFINE c == <<Ret>>
    <2>3. Len(c) = 1 /\ DOMAIN c = {1} /\ c[1] = Ret /\ c # <<>>
      BY SmallTuples
    <2> HIDE DEF c
    <2>4. Last(c) = Ret /\ \A j \in DOMAIN c : j = 1
      BY <2>3 DEF Last
    <2>5. WellFormedBlock(c)
      BY <2>2, <2>3, <2>4 DEF WellFormedBlock
    <2> QED BY <2>5 DEF c
  <1>4. WellFormedBlock(ir[B("setup")])
    <2>1. \A x \in AllocationInsts : ~IsTerminator(x) /\ x.op # "call"
      BY DEF AllocationInsts, Allocation, IsTerminator
    <2> QED BY <1>2, <2>1, SetupCodeIs, DoneCode, WellFormedAppend
  <1>5. WellFormedBlock(ir[B("se.setup")])
    <2>1. \A x \in SymbolizeInsts : ~IsTerminator(x) /\ x.op # "call"
      BY DEF SymbolizeInsts, Symbolize, CopyInst, Memcpy, IsTerminator
    <2>2. SymbolizeCode \in Seq(SymbolizeInsts)
      BY SymbolizeCodeIs
    <2>3. WellFormedBlock(Append(SymbolizeCode, Br(B("call1.setup"))))
      BY <1>2, <2>1, <2>2, WellFormedAppend
    <2> QED BY <2>3, DoneCode
  <1>6. WellFormedBlock(ir[B("teardown")])
    <2>1. \A x \in {[op |-> "free", obj |-> o] : o \in HeapObjects} : ~IsTerminator(x) /\ x.op # "call"
      BY DEF IsTerminator
    <2> QED BY <1>2, <2>1, TeardownCodeIs, DoneCode, WellFormedAppend
  <1>7. /\ WellFormedBlock(ir[B("call1.setup")]) /\ WellFormedBlock(ir[B("call2.setup")])
        /\ WellFormedBlock(ir[B("call1.teardown")]) /\ WellFormedBlock(ir[B("call2.teardown")])
        /\ WellFormedBlock(ir[B("se.end.teardown")]) /\ WellFormedBlock(ir[B("se.start.teardown")])
        /\ WellFormedBlock(ir[B("exit")])
    <2>1. <<"hdr", 1>> \in DOMAIN ir /\ <<"hdr", 2>> \in DOMAIN ir /\ NextCond(0) \in DOMAIN ir
      BY <1>1 DEF LoopNames
    <2> QED BY <1>2, <1>3, <2>1, DoneCode, WellFormedBranch DEF StartCode
  <1>8. ASSUME NEW k \in {1, 2} PROVE WellFormedBlock(<<CallInst(k), Br(<<"latch", k>>)>>)
    <2>1. <<"latch", k>> \in DOMAIN ir
      BY <1>1 DEF LoopNames
    <2>2. ~IsTerminator(CallInst(k))
      BY DEF CallInst, IsTerminator
    <2>3. IsTerminator(Br(<<"latch", k>>)) /\ Targets(Br(<<"latch", k>>)) = {<<"latch", k>>}
      BY DEF Br, IsTerminator, Targets
    <2>4. ASSUME NEW i \in DOMAIN CallInst(k).args
          PROVE  CallInst(k).args[i].kind # "detached cast"
      <3>1. i \in 1 .. NumParams /\ CallInst(k).args[i] = Operand(CallArg(i, k), i) /\ NumParams \in Nat
        BY <2>4, ParamFacts DEF CallInst
      <3>2. CASE i = 1
        <4>1. CallArg(i, k) \in {IndVar(1), IndVar(2)} /\ Param(i) = I64Type
          BY <3>1, <3>2 DEF CallArg
        <4>2. Operand(CallArg(i, k), i).kind = "value"
          BY <4>1 DEF Operand
        <4> QED BY <3>1, <4>2
      <3>3. CASE i # 1
        <4>1. CallArg(i, k)[1] = i /\ i # 0
          BY <3>1, <3>3 DEF CallArg, Obj, SecondCopy
        <4>2. CallArg(i, k) \notin {IndVar(1), IndVar(2)}
          BY <4>1 DEF IndVar
        <4>3. Operand(CallArg(i, k), i).kind \in {"pointer", "load"}
          BY <4>2 DEF Operand
        <4> QED BY <3>1, <4>3
      <3> QED BY <3>2, <3>3
    <2> QED BY <2>1, <2>2, <2>3, <2>4, WellFormedPair
  <1>9. WellFormedBlock(ir[B("call1.body")]) /\ WellFormedBlock(ir[B("call2.body")])
    BY <1>8, DoneCode
  <1>10. ASSUME NEW i \in OutboundArgs
         PROVE  WellFormedBlock(ir[Cond(i)]) /\ WellFormedBlock(ir[Fail(i)])
    <2>1. i \in Nat
      BY ParamFacts DEF OutboundArgs
    <2> DEFINE x == [op |-> "memcmp", lhs |-> Obj(i, 1), rhs |-> Obj(i, 2), size |-> ComparedSize(i)]
               y == CondBr("memcmp == 0", NextCond(i), Fail(i))
               z == [op |-> "__assert_fail"]
    <2>2. /\ x.op = "memcmp" /\ y.op = "condbr" /\ y.then = NextCond(i) /\ y.els = Fail(i)
          /\ z.op = "__assert_fail" /\ Unreachable.op = "unreachable"
      BY DEF CondBr, Unreachable
    <2>3. ir[Cond(i)] = <<x, y>> /\ ir[Fail(i)] = <<z, Unreachable>>
      BY DoneCode DEF ComparisonCode, FailCode
    <2> HIDE DEF x, y, z
    <2>4. ~IsTerminator(x) /\ IsTerminator(y) /\ ~IsTerminator(z) /\ IsTerminator(Unreachable)
      BY <2>2 DEF IsTerminator
    <2>5. Targets(y) = {NextCond(i), Fail(i)} /\ Targets(Unreachable) = {}
      BY <2>2 DEF Targets
    <2>6. x.op # "call" /\ z.op # "call"
      BY <2>2
    <2>7. Targets(y) \subseteq DOMAIN ir /\ Targets(Unreachable) \subseteq DOMAIN ir
      BY <1>1, <2>1, <2>5
    <2> QED BY <2>3, <2>4, <2>6, <2>7, WellFormedPair
  <1>11. ASSUME NEW k \in {1, 2}, NEW c \in LoopNames(k) PROVE WellFormedBlock(ir[c])
    <2>1. ir[c] = LoopBlocks(k)[c]
      BY DoneCode
    <2>2. <<"hdr", k>> \in DOMAIN ir /\ <<"loop.exit", k>> \in DOMAIN ir
      BY <1>1 DEF LoopNames
    <2>3. Names(k).post \in DOMAIN ir /\ Names(k).body \in DOMAIN ir
      BY <1>2 DEF Names
    <2>4. WellFormedBlock(LoopBlocks(k)[<<"latch", k>>]) /\ WellFormedBlock(LoopBlocks(k)[<<"loop.exit", k>>])
      BY <2>2, <2>3, LoopCodeIs, WellFormedBranch
    <2>5. WellFormedBlock(LoopBlocks(k)[<<"hdr", k>>])
      <3> DEFINE x == [op |-> "phi", loop |-> k, pre |-> Names(k).pre]
                 y == CondBr("loop", Names(k).body, <<"loop.exit", k>>)
      <3>1. x.op = "phi" /\ y.op = "condbr" /\ y.then = Names(k).body /\ y.els = <<"loop.exit", k>>
        BY DEF CondBr
      <3>2. LoopBlocks(k)[<<"hdr", k>>] = <<x, y>>
        BY LoopCodeIs
      <3> HIDE DEF x, y
      <3>3. /\ ~IsTerminator(x) /\ IsTerminator(y) /\ x.op # "call"
            /\ Targets(y) = {Names(k).body, <<"loop.exit", k>>}
        BY <3>1 DEF IsTerminator, Targets
      <3>4. Targets(y) \subseteq DOMAIN ir
        BY <2>2, <2>3, <3>3
      <3> QED BY <3>2, <3>3, <3>4, WellFormedPair
    <2> QED BY <1>11, <2>1, <2>4, <2>5 DEF LoopNames
  <1>12. ASSUME NEW n \in NamedBlocks PROVE WellFormedBlock(ir[B(n)])
    BY <1>4, <1>5, <1>6, <1>7, <1>9 DEF NamedBlocks
  <1>13. req.hasHarnessBody => WellFormedBlock(ir[B("entry")])
    BY <1>3, DoneCode
  <1>14. b \in DoneNames
    BY DoneCode
  <1> QED BY <1>10, <1>11, <1>12, <1>13, <1>14 DEF DoneNames, AssertionNames


\* Every instruction stays in the memory of the objects, if the comparisons do.
LEMMA DoneInBounds ==
  ASSUME req \in Requests, Shape, phase = "done",
         \A i \in OutboundArgs : ComparedSize(i) <= AllocSize(i),
         NEW b \in DOMAIN ir, NEW j \in DOMAIN ir[b]
  PROVE  InBounds(ir[b][j])
  <1> DEFINE inst == ir[b][j]
  <1>1. /\ NumParams \in Nat
        /\ \A i \in 1 .. NumParams : AllocSize(i) \in Nat /\ ComparedSize(i) \in Nat
    BY ParamFacts
  <1>2. \A o \in Objects : o[1] \in 1 .. NumParams /\ Covered(o, AllocSize(o[1]))
    <2> SUFFICES ASSUME NEW o \in Objects PROVE o[1] \in 1 .. NumParams /\ Covered(o, AllocSize(o[1]))
      OBVIOUS
    <2>1. o[1] \in 1 .. NumParams
      BY DEF Objects
    <2>2. AllocSize(o[1]) \in Nat /\ AllocSize(o[1]) <= AllocSize(o[1])
      BY <1>1, <2>1
    <2> QED BY <2>1, <2>2, CoveredIs
  <1>3. \A i \in OutboundArgs : /\ i \in 1 .. NumParams
                                /\ Obj(i, 1) \in Objects /\ Obj(i, 2) \in Objects
                                /\ Obj(i, 1)[1] = i /\ Obj(i, 2)[1] = i
    BY DEF OutboundArgs, Objects, Obj
  <1>4. ASSUME NEW n \in NamedBlocks, b = B(n), n \notin {"se.setup"} PROVE InBounds(inst)
    <2>1. inst.op \notin {"symbolize", "memcpy", "memcmp"}
      <3>1. CASE n = "setup"
        <4>1. \A x \in AllocationInsts : x.op \in {"alloca", "malloc"}
          BY DEF AllocationInsts, Allocation
        <4>2. ir[b] = Append(SetupCode, Br(B("se.setup")))
          BY <1>4, <3>1, DoneCode
        <4>3. inst = Br(B("se.setup")) \/ inst \in AllocationInsts
          BY <4>2, SetupCodeIs
        <4> QED BY <4>1, <4>3 DEF Br
      <3>2. CASE n = "teardown"
        <4>1. ir[b] = Append(TeardownCode, Br(B("exit")))
          BY <1>4, <3>2, DoneCode
        <4>2. inst = Br(B("exit")) \/ inst \in {[op |-> "free", obj |-> o] : o \in HeapObjects}
          BY <4>1, TeardownCodeIs
        <4> QED BY <4>2 DEF Br
      <3>3. CASE n \notin {"setup", "teardown"}
        <4>1. \/ \E to : ir[b] = <<Br(to)>>
              \/ ir[b] = <<Ret>>
              \/ \E k, to : ir[b] = <<CallInst(k), Br(to)>>
          <5>1. CASE n \in {"call1.setup", "call2.setup", "call1.teardown", "call2.teardown",
                            "se.end.teardown"}
            BY <1>4, <5>1, DoneCode
          <5>2. CASE n = "se.start.teardown"
            BY <1>4, <5>2, DoneCode DEF StartCode
          <5>3. CASE n = "exit"
            BY <1>4, <5>3, DoneCode
          <5>4. CASE n \in {"call1.body", "call2.body"}
            BY <1>4, <5>4, DoneCode
          <5> QED BY <1>4, <3>3, <5>1, <5>2, <5>3, <5>4 DEF NamedBlocks
        <4>2. inst = Ret \/ (\E to : inst = Br(to)) \/ (\E k : inst = CallInst(k))
          BY <4>1, SmallTuples
        <4> QED BY <4>2 DEF Ret, Br, CallInst
      <3> QED BY <3>1, <3>2, <3>3
    <2> QED BY <2>1 DEF InBounds
  <1>5. CASE b = B("se.setup")
    <2>1. ir[b] = Append(SymbolizeCode, Br(B("call1.setup")))
      BY <1>5, DoneCode
    <2>2. inst = Br(B("call1.setup")) \/ inst \in SymbolizeInsts
      BY <2>1, SymbolizeCodeIs
    <2>3. CASE inst = Br(B("call1.setup"))
      BY <2>3 DEF Br, InBounds
    <2>4. ASSUME NEW o \in Objects, inst = Symbolize(o, AllocSize(o[1])) PROVE InBounds(inst)
      BY <1>2, <2>4 DEF Symbolize, InBounds
    <2>5. ASSUME NEW i \in OutboundArgs, inst = CopyInst(i) PROVE InBounds(inst)
      <3>1. Covered(Obj(i, 1), AllocSize(i)) /\ Covered(Obj(i, 2), AllocSize(i))
        BY <1>2, <1>3
      <3> QED BY <2>5, <3>1 DEF CopyInst, Memcpy, InBounds
    <2> QED BY <2>2, <2>3, <2>4, <2>5 DEF SymbolizeInsts
  <1>6. ASSUME NEW i \in OutboundArgs, b = Cond(i) \/ b = Fail(i) PROVE InBounds(inst)
    <2> DEFINE x == [op |-> "memcmp", lhs |-> Obj(i, 1), rhs |-> Obj(i, 2), size |-> ComparedSize(i)]
               y == CondBr("memcmp == 0", NextCond(i), Fail(i))
               z == [op |-> "__assert_fail"]
    <2>1. ir[Cond(i)] = <<x, y>> /\ ir[Fail(i)] = <<z, Unreachable>>
      BY DoneCode DEF ComparisonCode, FailCode
    <2>2. InBounds(x)
      <3>1. ComparedSize(i) \in Nat /\ ComparedSize(i) <= AllocSize(i)
        BY <1>1, <1>3
      <3>2. Covered(Obj(i, 1), ComparedSize(i)) /\ Covered(Obj(i, 2), ComparedSize(i))
        BY <1>3, <3>1, CoveredIs
      <3>3. x.op = "memcmp" /\ x.lhs = Obj(i, 1) /\ x.rhs = Obj(i, 2) /\ x.size = ComparedSize(i)
        OBVIOUS
      <3> QED BY <3>2, <3>3 DEF InBounds
    <2>3. InBounds(y) /\ InBounds(z) /\ InBounds(Unreachable)
      BY DEF CondBr, Unreachable, InBounds
    <2> HIDE DEF x, y, z
    <2>4. inst = x \/ inst = y \/ inst = z \/ inst = Unreachable
      BY <1>6, <2>1, SmallTuples
    <2> QED BY <2>2, <2>3, <2>4
  <1>7. ASSUME NEW k \in {1, 2}, b \in LoopNames(k) PROVE InBounds(inst)
    <2>1. ir[b] = LoopBlocks(k)[b]
      BY <1>7, DoneCode
    <2>2. \/ ir[b] = <<[op |-> "phi", loop |-> k, pre |-> Names(k).pre],
                       CondBr("loop", Names(k).body, <<"loop.exit", k>>)>>
          \/ \E to : ir[b] = <<Br(to)>>
      BY <1>7, <2>1, LoopCodeIs DEF LoopNames
    <2>3. \/ inst = [op |-> "phi", loop |-> k, pre |-> Names(k).pre]
          \/ inst = CondBr("loop", Names(k).body, <<"loop.exit", k>>)
          \/ \E to : inst = Br(to)
      BY <2>2, SmallTuples
    <2>4. inst.op \in {"phi", "condbr", "br"}
      BY <2>3 DEF CondBr, Br
    <2> QED BY <2>4 DEF InBounds
  <1>8. CASE req.hasHarnessBody /\ b = B("entry")
    <2>1. inst = Ret
      BY <1>8, DoneCode, SmallTuples
    <2> QED BY <2>1 DEF Ret, InBounds
  <1>9. b \in DoneNames
    BY DoneCode
  <1> QED BY <1>4, <1>5, <1>6, <1>7, <1>8, <1>9 DEF DoneNames, AssertionNames


\* Products of sizes.
LEMMA Products ==
  /\ \A m \in Nat, s \in Nat : s > 0 => m * 1 <= m * s
  /\ \A m \in Nat, s \in Nat : m * 1 <= m * s /\ m > 0 => s > 0
  /\ \A m \in Nat, s \in Nat : m * s <= s /\ s > 0 => m <= 1
  <1>1. ASSUME NEW m \in Nat, NEW s \in Nat, s > 0 PROVE m * 1 <= m * s
    <2>1. m * s = m + m * (s - 1) /\ m * (s - 1) >= 0
      BY <1>1
    <2> QED BY <2>1
  <1>2. ASSUME NEW m \in Nat, NEW s \in Nat, m * 1 <= m * s, m > 0 PROVE s > 0
    BY <1>2
  <1>3. ASSUME NEW m \in Nat, NEW s \in Nat, m * s <= s, s > 0 PROVE m <= 1
    <2> SUFFICES ASSUME m >= 2 PROVE FALSE
      OBVIOUS
    <2>1. m * s = s + s + (m - 2) * s /\ (m - 2) * s >= 0
      BY <1>3
    <2> QED BY <1>3, <2>1
  <1> QED BY <1>1, <1>2, <1>3

\* A supported request keeps its comparisons within the memory.
LEMMA SupportedCompares ==
  ASSUME req \in Requests, Supported(req), argSpecs = FillMissing(req.argSpecs, NumParams),
         NEW i \in OutboundArgs
  PROVE  ComparedSize(i) <= AllocSize(i)
  <1>1. /\ NumParams \in Nat /\ i \in 1 .. NumParams /\ isOutbound(Direction(i))
        /\ Param(i).ptr \in BOOLEAN /\ Param(i).size \in Nat
        /\ ~Param(i).ptr => Param(i).size > 0 /\ Multiplier(i) \in Nat
    BY ParamFacts DEF OutboundArgs
  <1>2. SupportedArg(Param(i), argSpecs[i], req.NDEBUG)
    <2>1. req.params \in Seq(Types)
      BY RequestsAssumption
    <2>2. i \in DOMAIN req.params /\ NumParams = Len(req.params)
      BY <1>1, <2>1 DEF NumParams
    <2> QED BY <2>2 DEF Supported, Param
  <1>3. CASE Param(i).ptr
    <2>1. Param(i).size > 0
      BY <1>1, <1>2, <1>3 DEF SupportedArg, Direction
    <2>2. ComparedSize(i) = Multiplier(i) * 1 /\ AllocSize(i) = Multiplier(i) * Param(i).size
      BY <1>3 DEF ComparedSize, AllocSize
    <2>3. Multiplier(i) \in Nat
      BY <1>1, ParamFacts
    <2> QED BY <1>1, <2>1, <2>2, <2>3, Products
  <1>4. CASE ~Param(i).ptr
    <2>1. ~argSpecs[i].IteratorDependent
      BY <1>1, <1>2, <1>4 DEF SupportedArg, Direction
    <2>2. Multiplier(i) = 1
      BY <2>1 DEF Multiplier
    <2>3. ComparedSize(i) = 1 * Param(i).size /\ AllocSize(i) = Param(i).size
      BY <1>4, <2>2 DEF ComparedSize, AllocSize
    <2> QED BY <1>1, <2>3
  <1> QED BY <1>3, <1>4

\* A supported request ends with a sound harness.
LEMMA SoundIfSupported ==
  ASSUME BuildInv, SupportedServed, Shape, Ended, Supported(req)
  PROVE  phase = "done" /\ SoundHarness
  <1>1. phase = "done" /\ LoopsMirrored /\ req \in Requests
    BY DEF SupportedServed, Ended, BuildInv
  <1>2. argSpecs = FillMissing(req.argSpecs, NumParams)
    BY <1>1, ShapeAt, PhaseStages DEF Passed, Phases
  <1>3. \A i \in OutboundArgs : ComparedSize(i) <= AllocSize(i)
    BY <1>1, <1>2, SupportedCompares
  <1>4. Param(1) = I64Type
    BY DEF Supported, Param
  <1>5. \A b \in DOMAIN ir : WellFormedBlock(ir[b])
    BY <1>1, <1>4, DoneWellFormed
  <1>6. \A b \in DOMAIN ir : \A j \in DOMAIN ir[b] : InBounds(ir[b][j])
    BY <1>1, <1>3, DoneInBounds
  <1>7. EntryBlock(ir) = B("setup")
    <2>1. ~req.hasHarnessBody /\ DOMAIN ir = DoneNames
      BY <1>1, DoneCode DEF Supported
    <2>2. B("entry") \notin DoneNames
      <3>1. "entry" \notin NamedBlocks
        BY DEF NamedBlocks
      <3>2. \A n \in NamedBlocks : B("entry") # B(n)
        BY <3>1, NamesDiffer
      <3>3. B("entry") \notin AssertionNames \cup LoopNames(1) \cup LoopNames(2)
        BY NamesDiffer DEF AssertionNames, LoopNames
      <3> QED BY <2>1, <3>2, <3>3 DEF DoneNames
    <2> QED BY <2>1, <2>2 DEF EntryBlock
  <1> QED BY <1>1, <1>5, <1>6, <1>7 DEF SoundHarness

\* The iteration spaces of the two loops are the same only from two iterations on.
LEMMA MirroredOnlyFromTwo ==
  ASSUME req \in Requests, LoopsMirrored, loops = <<Loop1, Loop2>>
  PROVE  req.iterations >= 2
  <1>1. req.iterations \in 0 .. U32Max /\ U32Max \in Nat \ {0}
    BY RequestsAssumption, WidthAssumption DEF U32
  <1> DEFINE Space(l) == IterationSpaceOf(l.start, l.end, l.step)
  <1>2. loops[1] = Loop1 /\ loops[2] = Loop2
    OBVIOUS
  <1>3. Space(Loop1) = Space(Loop2) /\ Space(Loop1) # {}
    BY <1>2 DEF LoopsMirrored
  <1>4. CASE req.iterations = 0
    <2>1. Loop1.start = 0 /\ Loop1.end = 0
      BY <1>4 DEF Loop1, CreatedLoop
    <2>2. Space(Loop1) = {}
      BY <2>1 DEF IterationSpaceOf, IterationRange
    <2> QED BY <1>3, <2>2
  <1>5. CASE req.iterations = 1
    <2>1. WrapU32(req.iterations - 1) = 0
      BY <1>1, <1>5 DEF WrapU32
    <2>2. Loop2.start = 0 /\ Loop2.end = 0
      BY <2>1 DEF Loop2, CreatedLoop
    <2>3. Space(Loop2) = {}
      BY <2>2 DEF IterationSpaceOf, IterationRange
    <2> QED BY <1>3, <2>3
  <1> QED BY <1>1, <1>4, <1>5

\* Only a supported request ends with one, but for the build that goes on without
\* parameters.
LEMMA SupportedIfSound ==
  ASSUME BuildInv, Shape, phase = "done", SoundHarness
  PROVE  Supported(req) \/ (req.NDEBUG /\ req.params = <<>>)
  <1>1. /\ req \in Requests /\ ArgShape(10) /\ LoopShape(10) /\ Passed(10)
        /\ CanDeclare(req.syms, HarnessDecl)
    BY ShapeAt, PhaseStages DEF BuildInv, SymsInv, Phases
  <1>2. req.params \in Seq(Types) /\ NumParams \in Nat /\ NumParams = Len(req.params)
    BY <1>1, RequestsAssumption, ParamFacts DEF NumParams
  <1>3. CASE NumParams = 0
    <2>1. Len(req.params) = 0 /\ req.params \in Seq(Types)
      BY <1>2, <1>3
    <2>2. \A s \in Seq(Types) : s # <<>> => Len(s) \in Nat \ {0}
      BY EmptySeq
    <2>3. req.params = <<>>
      BY <2>1, <2>2
    <2>4. req.NDEBUG
      BY <1>1, <1>3 DEF Passed
    <2> QED BY <2>3, <2>4
  <1>4. CASE NumParams > 0
    <2>1. /\ ~req.isDeclaration /\ argSpecs = FillMissing(req.argSpecs, NumParams)
          /\ CanDeclare(req.syms, HeapDecls) /\ CanDeclare(req.syms, SymbolicDecls)
          /\ CanDeclare(req.syms, AssertDecls)
          /\ ZeroSized => req.NDEBUG
          /\ ~BadMemcpySignature
      BY <1>1, <1>4 DEF Passed
    <2>2. req.params # <<>> /\ 1 \in 1 .. NumParams
      BY <1>2, <1>4
    <2>3. req.params[1] = I64Type
      <3> DEFINE b == ir[B("call1.body")]
      <3>1. b = <<CallInst(1), Br(<<"latch", 1>>)>> /\ B("call1.body") \in DOMAIN ir
        BY <1>1, DoneCode, TargetsThere DEF NamedBlocks
      <3>2. 1 \in DOMAIN b /\ b[1] = CallInst(1)
        BY <3>1, SmallTuples
      <3>3. WellFormedBlock(b)
        BY <3>1 DEF SoundHarness
      <3>4. CallInst(1).op = "call" /\ CallInst(1).args = [i \in 1 .. NumParams |-> Operand(CallArg(i, 1), i)]
        BY DEF CallInst
      <3> HIDE DEF b
      <3> DEFINE args == CallInst(1).args
      <3>5. Operand(CallArg(1, 1), 1).kind # "detached cast"
        <4>1. 1 \in DOMAIN args /\ args[1] = Operand(CallArg(1, 1), 1)
          BY <2>2, <3>4
        <4>2. \A i \in DOMAIN args : args[i].kind # "detached cast"
          BY <3>2, <3>3, <3>4 DEF WellFormedBlock
        <4> HIDE DEF args
        <4> QED BY <4>1, <4>2
      <3>6. CallArg(1, 1) \in {IndVar(1), IndVar(2)}
        BY DEF CallArg
      <3> QED BY <3>5, <3>6 DEF Operand, Param
    <2>4. req.iterations >= 2
      BY <1>1, MirroredOnlyFromTwo DEF LoopShape, SoundHarness
    <2>5. ~req.hasHarnessBody
      <3>1. req.hasHarnessBody => B("entry") \in DOMAIN ir
        BY DoneCode DEF DoneNames
      <3>2. B("entry") # B("setup")
        BY NamesDiffer
      <3> QED BY <3>1, <3>2 DEF SoundHarness, EntryBlock
    <2>6. ASSUME NEW i \in 1 .. NumParams PROVE SupportedArg(Param(i), argSpecs[i], req.NDEBUG)
      <3>1. /\ Param(i).ptr \in BOOLEAN /\ Param(i).size \in Nat
            /\ ~Param(i).ptr => Param(i).size > 0
            /\ Multiplier(i) \in Nat /\ ComparedSize(i) \in Nat
        BY <1>1, ParamFacts
      <3>2. isOutbound(Direction(i)) => ComparedSize(i) <= AllocSize(i)
        <4> SUFFICES ASSUME isOutbound(Direction(i)) PROVE ComparedSize(i) <= AllocSize(i)
          OBVIOUS
        <4>1. i \in OutboundArgs /\ Obj(i, 1) \in Objects /\ Obj(i, 1)[1] = i
          BY DEF OutboundArgs, Objects, Obj
        <4> DEFINE x == [op |-> "memcmp", lhs |-> Obj(i, 1), rhs |-> Obj(i, 2), size |-> ComparedSize(i)]
                   y == CondBr("memcmp == 0", NextCond(i), Fail(i))
        <4>2. ir[Cond(i)] = <<x, y>> /\ Cond(i) \in DOMAIN ir
          BY <1>1, <4>1, DoneCode, TargetsThere DEF ComparisonCode
        <4>3. x.op = "memcmp" /\ x.lhs = Obj(i, 1) /\ x.size = ComparedSize(i)
          OBVIOUS
        <4> HIDE DEF x, y
        <4>4. 1 \in DOMAIN ir[Cond(i)] /\ ir[Cond(i)][1] = x
          BY <4>2, SmallTuples
        <4>5. InBounds(x)
          BY <4>2, <4>4 DEF SoundHarness
        <4>6. Covered(Obj(i, 1), ComparedSize(i))
          BY <4>3, <4>5 DEF InBounds
        <4> QED BY <1>1, <3>1, <4>1, <4>6, CoveredIs
      <3>3. Multiplier(i) > 0 /\ (argSpecs[i].IteratorDependent => Multiplier(i) >= 2)
        <4>1. req.iterations \in Nat
          BY <1>1, RequestsAssumption, WidthAssumption DEF U32
        <4> QED BY <2>4, <4>1 DEF Multiplier
      <3>4. CASE Param(i).ptr
        <4>1. Param(i).size = 0 => req.NDEBUG
          BY <2>1, <3>4 DEF ZeroSized
        <4>2. isOutbound(Direction(i)) => Param(i).size > 0
          <5>1. ComparedSize(i) = Multiplier(i) * 1 /\ AllocSize(i) = Multiplier(i) * Param(i).size
            BY <3>4 DEF ComparedSize, AllocSize
          <5> QED BY <3>1, <3>2, <3>3, <5>1, Products
        <4> QED BY <3>1, <3>4, <4>1, <4>2 DEF SupportedArg, Direction
      <3>5. CASE ~Param(i).ptr
        <4>1. isOutbound(Direction(i)) /\ isInbound(Direction(i)) => Param(i).size = 1
          BY <2>1, <3>5 DEF BadMemcpySignature
        <4>2. isOutbound(Direction(i)) => ~argSpecs[i].IteratorDependent
          <5>1. ComparedSize(i) = Multiplier(i) * Param(i).size /\ AllocSize(i) = Param(i).size
            BY <3>5 DEF ComparedSize, AllocSize
          <5>2. isOutbound(Direction(i)) => Multiplier(i) <= 1
            BY <3>1, <3>2, <3>5, <5>1, Products
          <5> QED BY <3>1, <3>3, <5>2
        <4> QED BY <3>5, <4>1, <4>2 DEF SupportedArg, Direction
      <3> QED BY <3>1, <3>4, <3>5
    <2>7. \A i \in DOMAIN req.params :
            SupportedArg(req.params[i], FillMissing(req.argSpecs, Len(req.params))[i], req.NDEBUG)
      BY <1>2, <2>1, <2>6 DEF Param
    <2>8. Supported(req)
      BY <1>1, <2>1, <2>2, <2>3, <2>4, <2>5, <2>7 DEF Supported
    <2> QED BY <2>8
  <1> QED BY <1>2, <1>3, <1>4

\* encapsulateImpl: for all parameters, specifications, symbols and iterations, in
\* both builds and for all widths, it ends with a harness that is valid IR, stays
\* in the memory it allocates and mirrors its loops when the request is supported,
\* and for no other request, but without parameters and assertions.
THEOREM BuildSoundIffSupported == BuildSpec => []BuildsSoundHarness
  <1>1. BuildInv /\ SupportedServed /\ Shape => BuildsSoundHarness
    BY SoundIfSupported, SupportedIfSound DEF BuildsSoundHarness
  <1> QED BY <1>1, BuildInvariance, BuildServesSupported, ShapeInvariance, PTL

=============================================================================
