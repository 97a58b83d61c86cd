----------------------------- MODULE MCLoopExec -----------------------------
(***************************************************************************)
(* LoopExec with a 4-bit "uint32_t" and a 6-bit "int64_t": every pair of   *)
(* bounds and steps of up to MaxStep, in both builds.                      *)
(***************************************************************************)
EXTENDS LoopExec

CONSTANT MaxStep

MCSteps == 1 .. MaxStep

=============================================================================
