---------------------------- MODULE LoopIRBuilder ----------------------------
(***************************************************************************)
(* What LoopIRBuilder::CreateLoop (lib/Support/IR/LoopIRBuilder.cpp) emits *)
(* for a loop: the induction phi with its start value, the header's        *)
(* comparison and the latch's step.  The module has no state; LoopExec     *)
(* runs one such loop and Harness runs the two of a harness.               *)
(*                                                                         *)
(* Start, End and Step are uint32_t; the phi is a signed 64-bit integer    *)
(* and its arithmetic wraps.  The two widths are parameters so that TLC    *)
(* can use small ones: U32Max stands for 2^32 - 1, I64Half for 2^63.       *)
(***************************************************************************)
EXTENDS Integers

CONSTANTS U32Max, I64Half

\* The induction variable is wide enough for one step past either end of the
\* 32-bit range, as 64 bits are for 32.
ASSUME WidthAssumption == /\ U32Max \in Nat \ {0}
                          /\ I64Half \in Nat
                          /\ I64Half > 2 * U32Max

U32 == 0 .. U32Max

\* uint32_t arithmetic at the call sites of CreateLoop.
WrapU32(x) == x % (U32Max + 1)

\* A 64-bit two's complement add or sub, read back as a signed number.
WrapI64(x) == ((x + I64Half) % (2 * I64Half)) - I64Half

I64 == -I64Half .. (I64Half - 1)

Directions == {"LD_Increasing", "LD_Decreasing"}

LoopDirection(start, end) ==
  IF start > end THEN "LD_Decreasing" ELSE "LD_Increasing"

CreatedLoopSwapped(start, end, step) ==
  [dir |-> LoopDirection(start, end), start |-> start, end |-> step, step |-> end]

\* The loop CreateLoop builds, without the blocks it is built from.
CreatedLoop(start, end, step) ==
  [dir |-> LoopDirection(start, end), start |-> start, end |-> end, step |-> step]

Loops == [dir : Directions, start : U32, end : U32, step : U32]

HdrTakenInclusive(loop, ind) ==
  IF loop.dir = "LD_Decreasing" THEN ind >= loop.end ELSE ind <= loop.end

HdrTakenExclusive(loop, ind) ==
  IF loop.dir = "LD_Decreasing" THEN ind > loop.end ELSE ind < loop.end

HdrTakenUnsigned(loop, ind) ==
  LET u == ind % (2 * I64Half)
  IN  IF loop.dir = "LD_Decreasing" THEN u >= loop.end ELSE u < loop.end

\* hdr: icmp slt against End when increasing, icmp sge when decreasing.
HdrTaken(loop, ind) ==
  IF loop.dir = "LD_Decreasing" THEN ind >= loop.end ELSE ind < loop.end

LatchStepSelf(loop, ind) == ind

\* latch: the value the phi receives on the back edge.
LatchStep(loop, ind) ==
  IF loop.dir = "LD_Decreasing" THEN WrapI64(ind - loop.step)
                                ELSE WrapI64(ind + loop.step)

-----------------------------------------------------------------------------
(***************************************************************************)
(* The iteration space a caller expects: 'start, start + step, ...' up to  *)
(* but without 'end', or 'start, start - step, ...' down to and with       *)
(* 'end'.  Stated independently of the emitted comparison and step.        *)
(***************************************************************************)
Nth(start, end, step, k) == IF start > end THEN start - k * step ELSE start + k * step

IterationRange(start, end) == IF start > end THEN end .. start ELSE start .. (end - 1)

IterationSpaceOf(start, end, step) ==
  {i \in IterationRange(start, end) : \E k \in 0 .. U32Max : i = Nth(start, end, step, k)}

=============================================================================
