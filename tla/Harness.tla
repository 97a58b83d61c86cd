------------------------------- MODULE Harness -------------------------------
(***************************************************************************)
(* A call of encapsulateImpl and the execution of the harness it built, as *)
(* KLEE would run it: one action per kind of instruction.  The memory is   *)
(* that of the generated code; an access outside of it ends the run with a *)
(* fault.                                                                  *)
(*                                                                         *)
(* The encapsulated function is external.  Apply(kernel, i, args) gives    *)
(* the contents of its arguments after a call with the iterator i, and     *)
(* Writes(kernel) the numbers of the pointer arguments it may change.      *)
(* malloc always succeeds, as it does in KLEE.                             *)
(***************************************************************************)
EXTENDS SymbolicEncapsulation

CONSTANTS
  Bytes,          \* the values of a byte
  Undef,          \* the value of a byte that was never written
  Kernels,        \* the functions to encapsulate
  Apply(_, _, _),
  Writes(_)

VARIABLES
  status,  \* "building", "running", or how the run ended
  at,      \* the block being executed
  next,    \* the position in it
  from,    \* the block executed before it
  mem,     \* the contents of every object allocated so far
  live,    \* the objects that are allocated
  phi,     \* the induction variables of the two loops
  cmp,     \* the last result of memcmp, compared with 0
  kernel,  \* the encapsulated function
  entry,   \* history: the contents of the arguments when each loop is entered
  visited  \* history: the iterators each loop passed to the function

runVars == <<status, at, next, from, mem, live, phi, cmp, kernel, entry, visited>>

vars == <<buildVars, runVars>>

Statuses == {"building", "running", "returned", "failed", "fault"}

Inst == ir[at][next]

Executes(op) == status = "running" /\ Inst.op = op

\* The next instruction of the block; none after a fault.
Proceed(ok) == /\ status' = IF ok THEN status ELSE "fault"
               /\ next' = IF ok THEN next + 1 ELSE next
               /\ UNCHANGED <<at, from>>

Goto(b) == at' = b /\ next' = 1 /\ from' = at

Accessible(o, n) == o \in live /\ n <= Len(mem[o])

Overwrite(old, new) == [j \in DOMAIN old |-> IF j <= Len(new) THEN new[j] ELSE old[j]]

\* The operands of the call in loop k.
CallArgs(k) == IF k = 1 THEN callArgs1 ELSE callArgs2

\* The memory behind the arguments of the calls in loop k.  That of the first
\* argument is there, but the calls get the iterator in its place.
View(k) == [i \in 1 .. NumParams |-> mem[IF k = 1 THEN Obj(i, 1) ELSE SecondCopy(i)]]

-----------------------------------------------------------------------------

HarnessInit ==
  /\ Init
  /\ status = "building"
  /\ at = B("setup") /\ next = 1 /\ from = B("setup")
  /\ mem = [o \in {} |-> <<>>]
  /\ live = {}
  /\ phi = <<0, 0>>
  /\ cmp = FALSE
  /\ kernel \in Kernels
  /\ entry = << <<>>, <<>> >>
  /\ visited = << <<>>, <<>> >>

Build == /\ status = "building"
         /\ BuildNext
         /\ UNCHANGED runVars

\* Only IR that passes opt's verifier is executed.
Start == /\ status = "building" /\ phase = "done"
         /\ \A b \in DOMAIN ir : WellFormedBlock(ir[b])
         /\ status' = "running"
         /\ at' = EntryBlock(ir)
         /\ UNCHANGED <<buildVars, next, from, mem, live, phi, cmp, kernel, entry, visited>>

Allocate ==
  /\ Executes("alloca") \/ Executes("malloc")
  /\ mem' = [o \in DOMAIN mem \cup {Inst.obj} |->
               IF o = Inst.obj THEN [j \in 1 .. Inst.size |-> Undef] ELSE mem[o]]
  /\ live' = live \cup {Inst.obj}
  /\ Proceed(TRUE)
  /\ UNCHANGED <<buildVars, phi, cmp, kernel, entry, visited>>

\* klee_make_symbolic: any bytes.
Symbolic ==
  /\ Executes("symbolize")
  /\ LET ok == Accessible(Inst.obj, Inst.size)
     IN  /\ mem' \in IF ok THEN {[mem EXCEPT ![Inst.obj] = Overwrite(@, bytes)] :
                                   bytes \in [1 .. Inst.size -> Bytes]}
                           ELSE {mem}
         /\ Proceed(ok)
  /\ UNCHANGED <<buildVars, live, phi, cmp, kernel, entry, visited>>

Copy ==
  /\ Executes("memcpy")
  /\ LET ok == Accessible(Inst.dst, Inst.size) /\ Accessible(Inst.src, Inst.size)
     IN  /\ mem' = IF ok THEN [mem EXCEPT ![Inst.dst] =
                                 Overwrite(@, SubSeq(mem[Inst.src], 1, Inst.size))]
                         ELSE mem
         /\ Proceed(ok)
  /\ UNCHANGED <<buildVars, live, phi, cmp, kernel, entry, visited>>

\* A byte that was never written can compare either way.
Outcomes(x, y) ==
  {equal \in BOOLEAN :
     IF equal THEN \A j \in DOMAIN x : x[j] = y[j] \/ Undef \in {x[j], y[j]}
              ELSE \E j \in DOMAIN x : x[j] # y[j] \/ Undef \in {x[j], y[j]}}

Compare ==
  /\ Executes("memcmp")
  /\ LET ok == Accessible(Inst.lhs, Inst.size) /\ Accessible(Inst.rhs, Inst.size)
     IN  /\ cmp' \in IF ok THEN Outcomes(SubSeq(mem[Inst.lhs], 1, Inst.size),
                                         SubSeq(mem[Inst.rhs], 1, Inst.size))
                           ELSE {cmp}
         /\ Proceed(ok)
  /\ UNCHANGED <<buildVars, mem, live, phi, kernel, entry, visited>>

\* The value comes from the preheader the first time, then from the latch.
InductionPhi ==
  /\ Executes("phi")
  /\ LET k == Inst.loop
         enters == from = Inst.pre
     IN  /\ phi' = [phi EXCEPT ![k] = IF enters THEN loops[k].start ELSE LatchStep(loops[k], @)]
         /\ entry' = [entry EXCEPT ![k] = IF enters THEN View(k) ELSE @]
  /\ Proceed(TRUE)
  /\ UNCHANGED <<buildVars, mem, live, cmp, kernel, visited>>

\* What a function leaves where it wrote: as many bytes, each with a value or
\* with none.
Written(old, new) == [j \in DOMAIN old |-> IF new[j] \in Bytes THEN new[j] ELSE Undef]

\* What a call makes of the arguments' memory: it changes what it may write.
Effect(fn, i, args) ==
  [p \in DOMAIN args |-> IF p \in Writes(fn) THEN Written(args[p], Apply(fn, i, args)[p])
                                             ELSE args[p]]

\* The function works on what its arguments point to.  It indexes the arrays
\* that were allocated for IterationsNum elements with the iterator.
Call ==
  /\ Executes("call")
  /\ LET k       == IF at = Names(1).body THEN 1 ELSE 2
         args    == CallArgs(k)
         others  == 2 .. Len(args)
         indexed == {i \in others : Param(i).ptr /\ argSpecs[i].IteratorDependent}
         ok      == /\ \A i \in others : args[i] \in live
                    /\ indexed # {} => phi[k] \in 0 .. (req.iterations - 1)
         changed == {args[i] : i \in {p \in others \cap Writes(kernel) : Param(p).ptr}}
         after   == Effect(kernel, phi[k], View(k))
     IN  /\ mem' = IF ok THEN [o \in DOMAIN mem |-> IF o \in changed THEN after[o[1]] ELSE mem[o]]
                         ELSE mem
         /\ visited' = IF ok THEN [visited EXCEPT ![k] = Append(@, phi[k])] ELSE visited
         /\ Proceed(ok)
  /\ UNCHANGED <<buildVars, live, phi, cmp, kernel, entry>>

Free ==
  /\ Executes("free")
  /\ live' = live \ {Inst.obj}
  /\ Proceed(Inst.obj \in live)
  /\ UNCHANGED <<buildVars, mem, phi, cmp, kernel, entry, visited>>

Branch ==
  /\ Executes("br")
  /\ Goto(Inst.to)
  /\ UNCHANGED <<buildVars, status, mem, live, phi, cmp, kernel, entry, visited>>

BranchOn ==
  /\ Executes("condbr")
  /\ LET taken == IF Inst.cond = "loop" THEN HdrTaken(loops[at[2]], phi[at[2]]) ELSE cmp
     IN  Goto(IF taken THEN Inst.then ELSE Inst.els)
  /\ UNCHANGED <<buildVars, status, mem, live, phi, cmp, kernel, entry, visited>>

AssertFail ==
  /\ Executes("__assert_fail")
  /\ status' = "failed"
  /\ UNCHANGED <<buildVars, at, next, from, mem, live, phi, cmp, kernel, entry, visited>>

Return ==
  /\ Executes("ret")
  /\ status' = "returned"
  /\ UNCHANGED <<buildVars, at, next, from, mem, live, phi, cmp, kernel, entry, visited>>

Next == \/ Build \/ Start
        \/ Allocate \/ Symbolic \/ Copy \/ Compare \/ Free
        \/ InductionPhi \/ Call \/ Branch \/ BranchOn
        \/ AssertFail \/ Return

Spec == HarnessInit /\ [][Next]_vars

\* The pass and the generated code are sequential and never wait.
FairSpec == Spec /\ WF_vars(Next)

\* The report calls everything that the function writes outbound, and that is
\* behind pointers.
TrueReport ==
  \A i \in Writes(kernel) :
    /\ i \in 1 .. NumParams /\ Param(i).ptr
    /\ isOutbound(FillMissing(req.argSpecs, NumParams)[i].Direction)

\* Supported requests with true reports.
TrueInit == HarnessInit /\ Supported(req) /\ TrueReport

TrueSpec     == TrueInit /\ [][Next]_vars
TrueFairSpec == TrueSpec /\ WF_vars(Next)

-----------------------------------------------------------------------------

\* Every variable has its type, and every object the size of its argument.
HarnessTypeOK ==
  /\ status \in Statuses
  /\ status # "building" => at \in DOMAIN ir /\ next \in DOMAIN ir[at]
  /\ \A o \in DOMAIN mem : mem[o] \in Seq(Bytes \cup {Undef}) /\ Len(mem[o]) = AllocSize(o[1])
  /\ live \subseteq DOMAIN mem
  /\ phi \in I64 \X I64
  /\ cmp \in BOOLEAN
  /\ kernel \in Kernels

\* encapsulateImpl: the harness of a supported request never touches memory it
\* did not allocate or has freed, and frees nothing twice.
NoFault == Supported(req) => status # "fault"

\* setupHarnessArgs: whatever the request, a harness that gets to its end has
\* freed everything it took from the heap.
LeakFree == status = "returned" => \A o \in live : ~Param(o[1]).ptr

\* createCall and CreateLoop: when the harness ends, the function has been
\* called for the same iterators in the first loop, ascending, and in the
\* second, descending.
MirroredVisits ==
  Supported(req) /\ status \in {"returned", "failed"} =>
    /\ visited[1] = [j \in 1 .. req.iterations |-> j - 1]
    /\ visited[2] = Reverse(visited[1])

\* The function changes nothing but arguments that are reported as outbound.
Truthful == \A i \in Writes(kernel) : Param(i).ptr => isOutbound(Direction(i))

\* setupHarnessArgs and createSymbolicDeclarations: as far as the report is
\* true, the reverse calls start from the inputs the forward calls had.
Isolation ==
  Supported(req) /\ entry[2] # <<>> /\ Truthful => entry[2] = entry[1]

\* How many bytes of each outbound argument decide: one for each element of a
\* pointer argument, whatever the size of the elements.
Widths ==
  LET specs == FillMissing(req.argSpecs, NumParams)
  IN  [i \in {p \in 1 .. NumParams : isOutbound(specs[p].Direction)} |->
         CASE ~Param(i).ptr               -> Param(i).size
           [] specs[i].IteratorDependent  -> req.iterations
           [] OTHER                       -> 1]

Check == INSTANCE CommutativityCheck WITH
           Apply      <- Effect,
           iterations <- req.iterations,
           width      <- Widths,
           input      <- entry[1],
           verdict    <- IF status \in {"returned", "failed"} THEN status ELSE "none"

\* The harness of a supported and true request implements the abstract check.
ImplementsCommutativityCheck == Check!Spec

\* The harness of a supported request is built and comes to an end.
Terminates == Supported(req) ~> status \in {"returned", "failed"}

=============================================================================
