------------------------------ MODULE LoopExec ------------------------------
(***************************************************************************)
(* One call of LoopIRBuilder::CreateLoop and the execution of the loop it  *)
(* builds.  The control state is the block being executed; the body is a   *)
(* call that returns, so it is one step that only records its index.       *)
(***************************************************************************)
EXTENDS LoopIRBuilder

CONSTANT Steps \* the values of Step to consider

ASSUME StepsAssumption == Steps \subseteq U32 \ {0}

VARIABLES NDEBUG, \* TRUE when the build compiles assert() out; never changes
          loop,   \* the arguments of the call, and the direction once it is chosen
          pc,     \* the block that is executed next
          ind,    \* the induction phi
          done    \* history: the indices the body has been executed for

vars == <<NDEBUG, loop, pc, ind, done>>

Blocks == {"preheader", "hdr", "body", "latch", "exit", "postexit"}

Terminal == pc \in {"postexit", "aborted"}

-----------------------------------------------------------------------------

\* LD_Increasing is the direction CreateLoop starts from.
Init == /\ NDEBUG \in BOOLEAN
        /\ \E start, end \in U32, step \in Steps :
             loop = [dir |-> "LD_Increasing", start |-> start, end |-> end, step |-> step]
        /\ pc = "CreateLoop"
        /\ ind = 0
        /\ done = {}

\* assert(Start != End) stops a build with assertions; without them the two
\* equal bounds give an increasing loop.  (assert(Body.size()) cannot fail:
\* both callers pass one block.)
CreateLoop ==
  /\ pc = "CreateLoop"
  /\ \/ /\ loop.start = loop.end /\ ~NDEBUG
        /\ pc' = "aborted"
        /\ UNCHANGED loop
     \/ /\ loop.start # loop.end \/ NDEBUG
        /\ pc' = "preheader"
        /\ loop' = CreatedLoop(loop.start, loop.end, loop.step)
  /\ UNCHANGED <<NDEBUG, ind, done>>

Preheader == /\ pc = "preheader"
             /\ pc' = "hdr"
             /\ ind' = loop.start
             /\ UNCHANGED <<NDEBUG, loop, done>>

Hdr == /\ pc = "hdr"
       /\ pc' = IF HdrTaken(loop, ind) THEN "body" ELSE "exit"
       /\ UNCHANGED <<NDEBUG, loop, ind, done>>

Body == /\ pc = "body"
        /\ pc' = "latch"
        /\ done' = done \cup {ind}
        /\ UNCHANGED <<NDEBUG, loop, ind>>

Latch == /\ pc = "latch"
         /\ pc' = "hdr"
         /\ ind' = LatchStep(loop, ind)
         /\ UNCHANGED <<NDEBUG, loop, done>>

Exit == /\ pc = "exit"
        /\ pc' = "postexit"
        /\ UNCHANGED <<NDEBUG, loop, ind, done>>

Next == CreateLoop \/ Preheader \/ Hdr \/ Body \/ Latch \/ Exit

Spec == Init /\ [][Next]_vars

\* The emitted code is sequential and nothing in it waits.
FairSpec == Spec /\ WF_vars(Next)

-----------------------------------------------------------------------------

\* Every variable has its type: the phi stays a 64-bit value.
TypeOK == /\ NDEBUG \in BOOLEAN
          /\ loop \in Loops
          /\ loop.step \in Steps
          /\ pc \in Blocks \cup {"CreateLoop", "aborted"}
          /\ ind \in I64
          /\ done \subseteq I64

Space == IterationSpaceOf(loop.start, loop.end, loop.step)

\* CreateLoop: the body only ever runs for an index between the bounds it was
\* given, never for a wrapped or a negative one.  Callees index buffers of
\* IterationsNum elements with it.
IndexInRange == pc = "body" => ind \in IterationRange(loop.start, loop.end)

\* CreateLoop: an index the body has run for is not met again.
NeverTwice == pc = "body" => ind \notin done

\* CreateLoop: the loop is left only when the whole iteration space is done.
CompleteAtExit == pc \in {"exit", "postexit"} => done = Space

\* The loop implements the abstract counted loop over its iteration space.
Abstract == INSTANCE IterationSpace WITH space <- Space, done <- done

ImplementsIterationSpace == Abstract!Spec

\* CreateLoop: the emitted loop terminates for every pair of bounds.
Terminates == <>Terminal

=============================================================================
