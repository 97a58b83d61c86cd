----------------------------- MODULE LoopProofs -----------------------------
(***************************************************************************)
(* For all bounds, steps and widths: the loop CreateLoop emits stays in    *)
(* range, never repeats an index, is complete when it is left, and         *)
(* implements the abstract counted loop of IterationSpace.                 *)
(***************************************************************************)
EXTENDS LoopExec, TLAPS

At(k) == Nth(loop.start, loop.end, loop.step, k)

DoneUpTo(k) == {At(j) : j \in 0 .. (k - 1)}

Range == IterationRange(loop.start, loop.end)

(***************************************************************************)
(* The inductive invariant.  None of the three properties is inductive on  *)
(* its own: they follow from the phi being the k-th member of the          *)
(* progression and 'done' being exactly its first k members.               *)
(***************************************************************************)
DirectionChosen ==
  pc \notin {"CreateLoop", "aborted"} => loop.dir = LoopDirection(loop.start, loop.end)

NothingDone == pc \in {"CreateLoop", "aborted", "preheader"} => done = {}

Progress ==
  /\ pc \in {"hdr", "body", "exit", "postexit"} =>
       \E k \in Nat : ind = At(k) /\ done = DoneUpTo(k)
  /\ pc = "latch" => \E k \in Nat : ind = At(k) /\ done = DoneUpTo(k + 1)

InBody == pc \in {"body", "latch"} => ind \in Range

LeftLoop == pc \in {"exit", "postexit"} => ~HdrTaken(loop, ind)

DoneInRange == done \subseteq Range

LoopInv == /\ TypeOK
           /\ DirectionChosen
           /\ NothingDone
           /\ Progress
           /\ InBody
           /\ LeftLoop
           /\ DoneInRange

-----------------------------------------------------------------------------
(***************************************************************************)
(* Arithmetic.                                                             *)
(***************************************************************************)

\* 64-bit arithmetic is exact as long as the result is a 64-bit number.
LEMMA WrapIdentity == ASSUME NEW x \in I64 PROVE WrapI64(x) = x
  <1>1. /\ x + I64Half \in 0 .. (2 * I64Half - 1)
        /\ 2 * I64Half \in Nat \ {0}
    BY WidthAssumption DEF I64
  <1>2. ASSUME NEW a \in Nat, NEW b \in Nat \ {0}, a < b PROVE a % b = a
    BY <1>2
  <1>3. (x + I64Half) % (2 * I64Half) = x + I64Half
    BY <1>1, <1>2, WidthAssumption
  <1> QED BY <1>3, WidthAssumption DEF WrapI64, I64

\* A multiple of a step is at least its index.
LEMMA ProductBound ==
  ASSUME NEW j \in Nat, NEW s \in Nat \ {0} PROVE j * s \in Nat /\ j * s >= j
  OBVIOUS

\* Consecutive multiples of a step are one step apart.
LEMMA ProductStep ==
  ASSUME NEW j \in Nat, NEW s \in Nat PROVE (j + 1) * s = j * s + s
  OBVIOUS

\* Multiples of a step grow with their index.
LEMMA ProductMonotone ==
  ASSUME NEW j \in Nat, NEW k \in Nat, NEW s \in Nat \ {0}, j < k
  PROVE  j * s + s <= k * s
  OBVIOUS

\* The types of a loop's fields.
LEMMA LoopFields ==
  ASSUME TypeOK
  PROVE  /\ loop.start \in 0 .. U32Max /\ loop.end \in 0 .. U32Max
         /\ loop.step \in 1 .. U32Max /\ loop.step \in Nat \ {0}
         /\ U32Max \in Nat /\ I64Half \in Nat /\ I64Half > 2 * U32Max
         /\ Range \subseteq 0 .. U32Max
  BY WidthAssumption, StepsAssumption DEF TypeOK, Loops, U32, Range, IterationRange

\* A member of the progression that is in range has a 32-bit index.
LEMMA ProgressionIndex ==
  ASSUME TypeOK, NEW k \in Nat, At(k) \in Range
  PROVE  k \in 0 .. U32Max
  <1>1. /\ loop.step \in Nat \ {0} /\ loop.start \in 0 .. U32Max
        /\ At(k) \in 0 .. U32Max /\ U32Max \in Nat
    BY LoopFields
  <1>2. k * loop.step \in Nat /\ k * loop.step >= k
    BY <1>1, ProductBound
  <1> QED BY <1>1, <1>2 DEF At, Nth

\* The first k + 1 members of the progression are the first k and the k-th.
LEMMA DoneUpToNext ==
  ASSUME NEW k \in Nat PROVE DoneUpTo(k + 1) = DoneUpTo(k) \cup {At(k)}
  <1>1. 0 .. ((k + 1) - 1) = (0 .. (k - 1)) \cup {k}
    OBVIOUS
  <1> QED BY <1>1 DEF DoneUpTo

-----------------------------------------------------------------------------

\* Before CreateLoop is called nothing is done and nothing is chosen.
LEMMA LoopInvInit == Init => LoopInv
  <1> SUFFICES ASSUME Init PROVE LoopInv
    OBVIOUS
  <1>1. TypeOK
    BY WidthAssumption, StepsAssumption
    DEF Init, TypeOK, Loops, Directions, U32, I64, Blocks
  <1> QED
    BY <1>1 DEF Init, LoopInv, DirectionChosen, NothingDone, Progress, InBody, LeftLoop, DoneInRange

\* Every block keeps the invariant; only the body and the latch move along the
\* progression.
LEMMA LoopInvStep == LoopInv /\ [Next]_vars => LoopInv'
  <1> SUFFICES ASSUME LoopInv, [Next]_vars PROVE LoopInv'
    OBVIOUS
  <1> USE DEF LoopInv
  <1>0. ASSUME UNCHANGED <<loop.start, loop.end, loop.step>>
        PROVE  /\ \A k : At(k)' = At(k)
               /\ \A k : DoneUpTo(k)' = DoneUpTo(k)
               /\ Range' = Range
    BY <1>0 DEF At, DoneUpTo, Range
  <1>a. NDEBUG' \in BOOLEAN
    BY DEF TypeOK, Next, vars, CreateLoop, Preheader, Hdr, Body, Latch, Exit
  <1>1. CASE CreateLoop
    <2>1. UNCHANGED <<loop.start, loop.end, loop.step, ind, done>>
      BY <1>1 DEF CreateLoop, CreatedLoop
    <2>2. TypeOK'
      BY <1>1, <1>a DEF CreateLoop, CreatedLoop, LoopDirection, TypeOK, Loops, Directions, Blocks
    <2> QED
      BY <1>1, <2>1, <2>2, <1>0
      DEF CreateLoop, CreatedLoop, LoopDirection, DirectionChosen, NothingDone, Progress, InBody,
          LeftLoop, DoneInRange
  <1>2. CASE Preheader
    <2>1. TypeOK'
      BY <1>2, <1>a, LoopFields DEF Preheader, TypeOK, Blocks, I64
    <2>2. ind' = At(0) /\ done' = DoneUpTo(0)
      BY <1>2, LoopFields DEF Preheader, At, Nth, DoneUpTo, NothingDone
    <2>3. UNCHANGED <<At(0), DoneUpTo(0), Range>>
      BY <1>2 DEF Preheader, At, DoneUpTo, Range
    <2> QED
      BY <1>2, <2>1, <2>2, <2>3
      DEF Preheader, DirectionChosen, NothingDone, Progress, InBody, LeftLoop, DoneInRange
  <1>3. CASE Hdr
    <2>0. UNCHANGED <<loop, ind, done>> /\ pc = "hdr" /\ pc' \in {"body", "exit"}
      BY <1>3 DEF Hdr
    <2>1. TypeOK'
      BY <2>0, <1>a DEF TypeOK, Blocks
    <2>2. PICK k \in Nat : ind = At(k) /\ done = DoneUpTo(k)
      BY <2>0 DEF Progress
    <2>3. Progress'
      BY <2>0, <2>2, <1>0 DEF Progress
    <2>4. pc' = "body" => ind \in Range
      <3> DEFINE distance == k * loop.step
      <3>1. distance \in Nat /\ loop.start \in Int /\ loop.end \in Int
        BY LoopFields, ProductBound
      <3>2. ind = IF loop.start > loop.end THEN loop.start - distance ELSE loop.start + distance
        BY <2>2 DEF At, Nth
      <3>3. pc' = "body" => IF loop.start > loop.end THEN ind >= loop.end ELSE ind < loop.end
        BY <1>3, <2>0 DEF Hdr, HdrTaken, DirectionChosen, LoopDirection
      <3> HIDE DEF distance
      <3> QED BY <3>1, <3>2, <3>3 DEF Range, IterationRange
    <2> QED
      BY <1>3, <2>0, <2>1, <2>3, <2>4, <1>0
      DEF Hdr, DirectionChosen, NothingDone, InBody, LeftLoop, DoneInRange
  <1>4. CASE Body
    <2>0. UNCHANGED <<loop, ind>> /\ pc = "body" /\ pc' = "latch" /\ done' = done \cup {ind}
      BY <1>4 DEF Body
    <2>1. TypeOK'
      BY <2>0, <1>a DEF TypeOK, Blocks
    <2>2. PICK k \in Nat : ind = At(k) /\ done = DoneUpTo(k)
      BY <2>0 DEF Progress
    <2>3. done' = DoneUpTo(k + 1)
      BY <2>0, <2>2, DoneUpToNext
    <2> QED
      BY <2>0, <2>1, <2>2, <2>3, <1>0
      DEF DirectionChosen, NothingDone, Progress, InBody, LeftLoop, DoneInRange
  <1>5. CASE Latch
    <2>0. UNCHANGED <<loop, done>> /\ pc = "latch" /\ pc' = "hdr" /\ ind' = LatchStep(loop, ind)
      BY <1>5 DEF Latch
    <2>1. PICK k \in Nat : ind = At(k) /\ done = DoneUpTo(k + 1)
      BY <2>0 DEF Progress
    <2>2. ind \in 0 .. U32Max /\ loop.dir = LoopDirection(loop.start, loop.end)
      BY <2>0, LoopFields DEF InBody, DirectionChosen
    <2>3. /\ ind + loop.step \in I64 /\ ind - loop.step \in I64
      BY <2>2, LoopFields DEF I64
    <2>4. ind' = IF loop.start > loop.end THEN ind - loop.step ELSE ind + loop.step
      BY <2>0, <2>2, <2>3, WrapIdentity DEF LatchStep, LoopDirection
    <2>5. ind' = At(k + 1)
      <3>1. loop.step \in Nat \ {0} /\ loop.start \in Int
        BY LoopFields
      <3>2. (k + 1) * loop.step = k * loop.step + loop.step /\ k * loop.step \in Nat
        BY <3>1, ProductStep, ProductBound
      <3> QED BY <2>1, <2>4, <3>1, <3>2 DEF At, Nth
    <2>6. TypeOK'
      BY <2>0, <2>3, <2>4, <1>a DEF TypeOK, Blocks
    <2> QED
      BY <2>0, <2>1, <2>5, <2>6, <1>0
      DEF DirectionChosen, NothingDone, Progress, InBody, LeftLoop, DoneInRange
  <1>6. CASE Exit
    <2>0. UNCHANGED <<loop, ind, done>> /\ pc = "exit" /\ pc' = "postexit"
      BY <1>6 DEF Exit
    <2> QED
      BY <2>0, <1>0, <1>a
      DEF TypeOK, Blocks, DirectionChosen, NothingDone, Progress, InBody, LeftLoop, DoneInRange
  <1>7. CASE UNCHANGED vars
    BY <1>7, <1>0
    DEF vars, TypeOK, DirectionChosen, NothingDone, Progress, InBody, LeftLoop, DoneInRange
  <1> QED BY <1>1, <1>2, <1>3, <1>4, <1>5, <1>6, <1>7 DEF Next

\* CreateLoop: the invariant holds in every state of every loop.
THEOREM LoopInvariance == Spec => []LoopInv
  BY LoopInvInit, LoopInvStep, PTL DEF Spec

\* The 64-bit phi never leaves its type, and neither does any other variable.
THEOREM LoopTypeCorrect == Spec => []TypeOK
  <1>1. LoopInv => TypeOK
    BY DEF LoopInv
  <1> QED BY <1>1, LoopInvariance, PTL

\* The body runs only for an index within the bounds CreateLoop was given.
THEOREM LoopIndexInRange == Spec => []IndexInRange
  <1>1. LoopInv => IndexInRange
    BY DEF LoopInv, InBody, IndexInRange, Range
  <1> QED BY <1>1, LoopInvariance, PTL

\* An index of the body is in the iteration space and has not been executed.
LEMMA BodyIsNew == LoopInv /\ pc = "body" => ind \in Space \ done
  <1> SUFFICES ASSUME LoopInv, pc = "body" PROVE ind \in Space \ done
    OBVIOUS
  <1>1. PICK k \in Nat : ind = At(k) /\ done = DoneUpTo(k)
    BY DEF LoopInv, Progress
  <1>2. k \in 0 .. U32Max
    BY <1>1, ProgressionIndex DEF LoopInv, InBody
  <1>3. ind \in Space
    BY <1>1, <1>2 DEF LoopInv, InBody, Space, IterationSpaceOf, Range, At
  <1>4. ASSUME NEW j \in 0 .. (k - 1) PROVE At(j) # At(k)
    <2>1. /\ loop.step \in Nat \ {0} /\ loop.start \in Int
          /\ j \in Nat /\ j < k
      BY LoopFields DEF LoopInv
    <2>2. /\ j * loop.step + loop.step <= k * loop.step
          /\ j * loop.step \in Nat /\ k * loop.step \in Nat
      BY <2>1, ProductMonotone, ProductBound
    <2> QED BY <2>1, <2>2 DEF At, Nth
  <1> QED BY <1>1, <1>3, <1>4 DEF DoneUpTo

\* No index is executed twice.
THEOREM LoopNeverTwice == Spec => []NeverTwice
  <1>1. LoopInv => NeverTwice
    BY BodyIsNew DEF NeverTwice
  <1> QED BY <1>1, LoopInvariance, PTL

\* When the loop is left, every index of its iteration space was executed.
THEOREM LoopCompleteAtExit == Spec => []CompleteAtExit
  <1>1. LoopInv => CompleteAtExit
    <2> SUFFICES ASSUME LoopInv, pc \in {"exit", "postexit"} PROVE done = Space
      BY DEF CompleteAtExit
    <2>1. PICK k \in Nat : ind = At(k) /\ done = DoneUpTo(k)
      BY DEF LoopInv, Progress
    <2>2. loop.dir = LoopDirection(loop.start, loop.end) /\ ~HdrTaken(loop, ind)
      BY DEF LoopInv, DirectionChosen, LeftLoop
    <2>3. ASSUME NEW x \in done PROVE x \in Space
      <3>1. PICK j \in 0 .. (k - 1) : x = At(j)
        BY <2>1, <2>3 DEF DoneUpTo
      <3>2. x \in Range
        BY <2>3 DEF LoopInv, DoneInRange
      <3>3. j \in 0 .. U32Max
        BY <3>1, <3>2, ProgressionIndex DEF LoopInv
      <3> QED BY <3>1, <3>2, <3>3 DEF Space, IterationSpaceOf, Range, At
    <2>4. ASSUME NEW x \in Space PROVE x \in done
      <3>1. x \in Range /\ \E j \in 0 .. U32Max : x = At(j)
        BY <2>4 DEF Space, IterationSpaceOf, Range, At
      <3>2. PICK j \in 0 .. U32Max : x = At(j)
        BY <3>1
      <3>3. j \in Nat /\ ~(k <= j)
        <4>1. j \in Nat
          BY LoopFields DEF LoopInv
        <4>2. k < j => k * loop.step + loop.step <= j * loop.step
          BY <4>1, ProductMonotone, LoopFields DEF LoopInv
        <4>3. k <= j => k * loop.step <= j * loop.step /\ k * loop.step \in Nat /\ j * loop.step \in Nat
          BY <4>1, <4>2, ProductBound, LoopFields DEF LoopInv
        <4>4. /\ loop.start \in Int /\ loop.end \in Int
              /\ ind = At(k) /\ x = At(j)
          BY <3>2, <2>1, LoopFields DEF LoopInv
        <4>5. CASE loop.start > loop.end
          <5>1. ind < loop.end /\ x >= loop.end
            BY <4>4, <4>5, <3>1, <2>2 DEF Range, IterationRange, HdrTaken, LoopDirection, At, Nth
          <5> QED BY <4>1, <4>3, <4>4, <4>5, <5>1 DEF At, Nth
        <4>6. CASE ~(loop.start > loop.end)
          <5>1. ~(ind < loop.end) /\ x < loop.end
            BY <4>4, <4>6, <3>1, <2>2 DEF Range, IterationRange, HdrTaken, LoopDirection, At, Nth
          <5> QED BY <4>1, <4>3, <4>4, <4>6, <5>1 DEF At, Nth
        <4> QED BY <4>5, <4>6
      <3> QED BY <3>2, <3>3, <2>1 DEF DoneUpTo
    <2> QED BY <2>3, <2>4
  <1> QED BY <1>1, LoopInvariance, PTL

-----------------------------------------------------------------------------

\* The emitted loop implements the abstract counted loop: the body's step is
\* the abstract step for its index and every other step is a stutter.
THEOREM LoopRefinement == Spec => ImplementsIterationSpace
  <1>1. Init => Abstract!Init
    <2> SUFFICES ASSUME Init PROVE Abstract!Init
      OBVIOUS
    <2>1. Space \subseteq Int
      BY LoopInvInit, LoopFields DEF LoopInv, Space, IterationSpaceOf, Range
    <2> QED BY <2>1 DEF Init, Abstract!Init
  <1>2. LoopInv /\ [Next]_vars => [Abstract!Next]_Abstract!vars
    <2> SUFFICES ASSUME LoopInv, [Next]_vars PROVE [Abstract!Next]_Abstract!vars
      OBVIOUS
    <2>1. Space' = Space
      BY DEF Next, vars, CreateLoop, CreatedLoop, Preheader, Hdr, Body, Latch, Exit, Space
    <2>2. CASE Body
      <3>1. ind \in Space \ done /\ done' = done \cup {ind}
        BY <2>2, BodyIsNew DEF Body
      <3> QED BY <3>1, <2>1 DEF Abstract!Next, Abstract!Visit
    <2>3. CASE ~Body
      <3>1. done' = done
        BY <2>3 DEF Next, vars, CreateLoop, Preheader, Hdr, Latch, Exit
      <3> QED BY <3>1, <2>1 DEF Abstract!vars
    <2> QED BY <2>2, <2>3
  <1> QED BY <1>1, <1>2, LoopInvariance, PTL DEF Spec, Abstract!Spec, ImplementsIterationSpace

=============================================================================
