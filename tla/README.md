# A verification of Ephippion in TLA+

Ephippion is an LLVM 7 pass. For a function `F` and a report about its
arguments it generates a *harness* `symenc_F`: a function that allocates the
arguments of `F`, makes them symbolic for KLEE, calls `F` for the iterations
`0 .. N-1` on one copy of them and for `N-1 .. 0` on another, and fails with
`__assert_fail` if the outbound arguments of the two copies differ. A harness
that KLEE cannot make fail says that the iterations of `F` commute.

The modules here model the pass, the construction of the harness, the loops in
it and its execution. TLC checks them on small instances; TLAPS proves what is
marked as proved for every value of the constants. Paths below are relative to
the repository.

## The system

| Component | State | Operations | Hard about it |
|---|---|---|---|
| `lib/Support/IR/LoopIRBuilder.cpp` | none; emits IR | `CreateLoop` | inclusive lower end, signed comparison, equal bounds, wrap-around |
| `lib/Transforms/SymbolicEncapsulation.cpp` | the harness's blocks, the two argument lists, the module's symbols; for a whole module, its list of functions | `encapsulateImpl` and `setupHarnessArgs`, `createSymbolicDeclarations`, `createSymbolicAssertions`, `createCall`; `encapsulate(Module&)` | sizes that four places compute separately, the order in which blocks are filled and ended, types that are not checked, functions without parameters, a list that grows under the walk along it |
| the generated harness | memory objects, two induction variables, the position | the emitted instructions | memory safety, equal inputs for the two directions, uninitialised bytes, order of the frees |
| `lib/Transforms/Passes/SymbolicEncapsulationPass.cpp` | white list, work list, specifications, the result; the module | the constructor, `run(Module)`, `run(Module, MAM)`, `runOnModule` | reports in any order and of any kind, state kept from one to the next, a module that grows meanwhile, options that are reset and parsed again |
| `lib/Exchange/JSONTransfer.cpp`, `ArgSpec.hpp`, `ArgDirection.hpp` | the file of a report | `WriteJSONToFile`, `ReadJSONFromFile`, `fromJSON`, the direction predicates | failing writes, crashes, a file that is rewritten while it is read, ignored results, a narrowing cast |
| `lib/Support/Utils/FuncUtils.cpp` | the module's symbol table | `Declare*Func` | symbols that exist with another type |
| `lib/Passes/PassCommandLineOptions.cpp`, `ArgSpecParser.hpp` | the options | `parser<ArgSpec>::parse`; LLVM's `cl` library | two sources of values, positions that a reset leaves, options that nothing reads |
| `lib/Passes/RegisterPasses.cpp`, `Passes.def` | none | `parseModulePipeline` | – |
| `Debug.hpp`, `Util.hpp`, `Info.hpp`, scripts, tests | – | – | – |

A run of the pass is sequential. The constructor fills the options from the
environment; `run` reads them, selects functions, and for each report in a
directory calls `SymbolicEncapsulation::encapsulate`, which adds a function and
declarations to the module that `run` goes on to look functions up in.
`encapsulateImpl` calls `LoopIRBuilder::CreateLoop` twice. The harness runs
later, under KLEE, with the module's own functions. What is hard in all this is
what one step leaves for the next: the order of the reports, what the previous
one left behind, the symbols a module already has, the boundary values of the
number of iterations, two executions of a function whose inputs must be the
same. Concurrency comes in at one place: the reports are files, and the program
that writes one with `WriteJSONToFile` is another process, without a lock
between the two.

What makes each part correct:

* the loop executes its iteration space, each index once, and ends;
* the harness is valid IR, stays inside the memory it allocates, has both
  loops over the same iterations, and is the harness's entry; and every request
  that is in the builder's unwritten contract gets one;
* the harness compares what it says, from equal inputs, frees what it took;
* the pass makes a harness only for a selected function, from the one report
  about it, serves every report that calls for a harness, goes by the options
  of its environment, and reports truthfully whether it changed the module;
* the walk along a module gives each of its functions a harness, and ends;
* a report that is kept is complete as long as it is there, and is what a reader
  gets.

## Modules

| Module | Models | Corresponds to |
|---|---|---|
| `LoopIRBuilder` | what `CreateLoop` emits: direction, header comparison, latch step; and, independently, the iteration space a caller expects | `LoopIRBuilder.cpp:21-98` |
| `IterationSpace` | abstract: a counted loop executes each member of a set once | – |
| `LoopExec` | one call of `CreateLoop` and the execution of its loop, block by block | `LoopIRBuilder.cpp:21-98` |
| `ArgSpec` | direction bits, default specifications, `fromJSON` | `ArgDirection.hpp`, `ArgSpec.hpp`, `JSONTransfer.cpp:116-127`, `SymbolicEncapsulation.cpp:77-91` |
| `SymbolicEncapsulation` | `encapsulateImpl`: one action for each function it calls, in its order; the harness is built as data, `ir` | `SymbolicEncapsulation.cpp:62-463`, `FuncUtils.cpp` |
| `ModuleEncapsulation` | `encapsulate(Module&, N)`; composes the walk with the actions of the builder | `SymbolicEncapsulation.cpp:46-60` |
| `CommutativityCheck` | abstract: the verdict a harness owes for its input | – |
| `Harness` | composes the builder with an execution of the `ir` it built, one action per kind of instruction | the emitted code |
| `PassOptions` | the options, `parser<ArgSpec>`, a command line, and what the constructor makes of both | `PassCommandLineOptions.cpp`, `ArgSpecParser.hpp`, `SymbolicEncapsulationPass.cpp:108-111` |
| `SymbolicEncapsulationPass` | the lookup, the constructor, `run(Module)` and what the wrappers answer; composes them with the actions of the builder for a call of `encapsulate` | `RegisterPasses.cpp`, `SymbolicEncapsulationPass.cpp:71-252`, `JSONTransfer.cpp:74-127` |
| `ReportExchange` | a writer and a reader of one report file, with failing writes, crashes and restarts | `JSONTransfer.cpp:49-109` |
| `LoopProofs`, `BuilderProofs`, `ShapeProofs`, `HarnessProofs`, `PassProofs`, `ModuleProofs`, `ExchangeProofs` | theorems about `LoopExec`, `SymbolicEncapsulation` (the first its tables and requests, the second what is in the harness), `Harness`, `SymbolicEncapsulationPass`, `ModuleEncapsulation`, `ReportExchange` | – |
| `SequenceLemmas` | lemmas about flattened and short sequences | – |
| `MCLoopExec`, `MCEncapsulation`, `MCHarness`, `MCPass`, `MCModuleEncapsulation`, `MCReportExchange` | instances for TLC | – |

`SymbolicEncapsulationPass`, `ModuleEncapsulation` and `Harness` all EXTEND
`SymbolicEncapsulation`, and that extends `LoopIRBuilder` and `ArgSpec`; so a
change of the loop or of the builder is seen in all of them. `Enter` and
`RequestIn` are the call of `encapsulate` that both callers make.
`ReportExchange` stands for itself: the pass needs of a read no more than its
outcome, and `ReportExchange` shows where the outcomes come from.

### How the state corresponds to the code

* `ir` is the harness function: a function from block names to sequences of
  instructions. `"se.setup"`, `"call1.body"` and so on are the code's names;
  `<<"cond", i>>`, `<<"fail", i>>`, `<<"hdr", k>>` and the like stand for the
  blocks made for argument `i` and loop `k`. Emitting is appending, or inserting
  before a terminator where `createCall` does that.
* `callArgs1`, `callArgs2`, `argSpecs` are the vectors of `encapsulateImpl`.
  Argument `i` owns the object `<<i, 1>>`, an outbound one `<<i, 2>>` too; the
  first element of both vectors is replaced by the induction variable as in the
  code. Arguments count from 1.
* `syms` is the part of the module's symbol table that `getOrInsertFunction`
  is asked for. A symbol with another type ends the build at `FailedCast`:
  `llvm::cast` of something that is no `Function`.
* `phase` is the position in `encapsulateImpl`, `pc` the position in its
  caller. `"aborted"` is a failed assertion, `"undefined"` undefined behaviour.
  Whether the build has assertions is part of a request: `NDEBUG`. It decides
  for the assertions of this code and of `llvm::cast`, a template that is
  compiled with it. A cast instruction that does not exist (`NoSuchCast`) and a
  call of the wrong signature (`BadMemcpySignature`) would be noticed by
  assertions inside LLVM's own library, whose build is another one: both are
  `"undefined"`.
* Types are reduced to *pointer or integer* and a size in bytes (of the scalar
  or of the pointee). `IndSize` is the size of an `i64`; to keep memories
  small, TLC's i64 has 2 "bytes". An `i1` and other integers that are no whole
  number of bytes, and pointers to types without a size, are left out.
* Functions are named `<<name, k>>`, `k` harness prefixes in front of a name.
  That is how `symenc_f` and `symenc_symenc_f` are told apart.
* An entry of the reports directory is what the code can tell of it: the
  prefixes that fit its name, whether it can be examined, opened and parsed, the
  function it names, and its entries. The iterator returns entries in any order
  and may fail at any point. A malformed report always stops the program: the
  error of LLVM's JSON parser has no error code, and `errorToErrorCode` accepts
  no other.
* An option has a value, a number of occurrences and a position, as in LLVM; a
  command line is a sequence of occurrences. `ResetAllOptionOccurrences` forgets
  the numbers and leaves the positions; whether it takes values back to their
  defaults differs between LLVM versions, so the model has both.
* In `ReportExchange` the text of a report is a sequence of chunks
  `<<version, number>>`. A file that is removed lives on for the one that has it
  open, so `files` has every file there has been and `entry` says which one has
  the name. A chunk that cannot be written is lost and the stream remembers an
  error; those after it are written all the same, as with `raw_fd_ostream`. A
  file that could not be opened for writing is already registered for removal,
  and the program ends over the stream that has no file, which may remove what
  was kept (`OpenFails`). A pass that a malformed report has stopped may be run
  again.

External, modelled from how the code uses it: malloc, free, memcpy, memcmp,
`klee_make_symbolic` and `__assert_fail`; LLVM's `IRBuilder`, verifier, option
and JSON libraries and `ToolOutputFile`; the file system; the encapsulated
function, an operator `Apply` on the contents of its arguments. `malloc`
succeeds. A byte that was never written is `Undef` and compares either way. In
`Harness`, a harness that the IR verifier rejects is not started.

## Runs

| Run | Shows | Bounds |
|---|---|---|
| `loop_exec` | type, range, no repetition, completeness at exit, the refinement of `IterationSpace`, termination | all pairs of 4-bit bounds, steps 1–15, 6-bit signed phi |
| `encapsulation` | `encapsulateImpl` ends with a sound harness exactly for the supported requests, and for all of them | both builds; up to 3 parameters of every kind, all directions, N = 0..3, too few and too many specifications, 6 symbol tables, a harness that already has a body |
| `harness_check` | the execution implements `CommutativityCheck`, mirrors the visits, starts the reverse calls from the forward calls' inputs, ends | two arguments besides the iterator, one or two bytes each element, N = 2, 3, five functions, all inputs; reports that are true of the function (`TrueInit`) |
| `harness_memory` | no fault and no leak | as above with all directions, unsupported requests, N = 0..2, functions that change more than is reported |
| `pass` | nine properties of the pass | up to five functions, one of them possibly with a harness's name; up to 3 reports out of 14 kinds, with and without force and white list; nine command lines times nine environments, three pass managers, the right and a wrong name |
| `module_walk` | `encapsulate(Module&)` gives each function its harness, returns from no module it has changed, and ends in a build with assertions | up to three of four functions in every order, two of them with names of harnesses, defined or declared; both builds; N = 1, 2; the list up to six functions |
| `report_exchange` | what is kept is complete unless it is removed, what is kept is read, and a read ends | three calls of the writer with reports of 2, 1 and 3 chunks, two of the reader, any failures and crashes |
| `loop_bounds_differ`, `value_sets_not_empty`, `iterator_passed`, `unreadable_skipped`, `description_file_served` | each finds a violation of what the source says of itself; see below | as in `pass` or `encapsulation` |

The bounds are small because the code has few thresholds. Of the number of
iterations, 0 (wraps), 1 (equal bounds), 2 (the first good value) and 3 differ.
Of the arguments, the iterator and two more are enough for a chain of two
comparisons, for frees in an order that matters and for an argument that is
read while another is written. A type is i8, i64, narrower or wider than i64.
Three reports allow two about one function and one in between. 4-bit bounds
include both ends of the unsigned range and steps that overshoot them; the
signed variable has two bits more than the bounds, as little as makes the
assumption `I64Half > 2 * U32Max` true. The environments and command lines hold
every option on either side, alone, repeated and with a value that is rejected.
A walk needs three functions: one to be given a harness, the harness's name
taken, and the harness of the harness. `MaxFunctions` cuts off a walk that the
program would go on with; the properties are about walks that return or, with
assertions, stop, and those are shorter. Reports that get shorter and longer
again leave something to truncate in either direction. Deadlock is not checked:
every one of these systems stops when its work is done.

Each property is also known to depend on the code: a mutant of one definition
(an inclusive comparison, a wrong start, a skipped copy, a missing clear, ...)
violates it. The mutated forms stand beside the definitions they replace, and
`PROJECT.json` says which belongs to which.

### Properties, and which of them are the important ones

* `BuildsSoundHarness` is an equivalence: `Supported` lists what a request
  must satisfy, and for nothing else does the builder produce a sound harness
  (but where a function has no parameters and assertions are off: then a store
  out of bounds has anything follow). `Supported` is therefore the contract of
  `encapsulate`, which the pass does not check: first parameter `i64`, at least
  two iterations, no body under the harness's name, no scalar that is both
  inbound and outbound other than an `i8`, no outbound scalar that depends on
  the iterator, no outbound pointer to nothing, the runtime symbols free or of
  the right type. The other direction is the one callers need: the contract is
  enough, in every build.
* `ImplementsCommutativityCheck` says what a verdict is worth. `Widths` holds a
  surprise of the code: of each element of a pointer argument, one *byte* is
  compared, because the size is taken from malloc's `i8*`. And bytes that an
  only-outbound argument leaves alone are uninitialised and can make either
  verdict true; the abstract specification allows that explicitly.
* `Isolation` needs the report to be true: inbound memory is shared between the
  directions.
* `SelectedOnly` and `EveryReportServed` measure the pass by what the user
  gave: `Eligible` asks for a function of the input that is defined and, if a
  white list is named on the command line or in the environment
  (`WhiteListNamed`), on it. The pass itself goes by the position of an option
  that its constructor resets and parses again, and by a work list.
* `UnforcedCompares`: the pass asks for a harness because a report has an
  outbound entry; the builder fills up the entries and links the comparisons on
  its own account. In a harness that was not forced the loops are followed by a
  comparison. A report with more entries than the function has parameters is
  excepted, and has to be: the entry it was called for may be beyond the last
  parameter, and the harness then compares nothing.
* `StillSupported` says that what the pass adds to the module for one report
  never spoils the first harness of another function.
* `EnvironmentDecides` says what is left of two sources of options: whatever the
  command line gave, an option that the environment names has its value there,
  and a command line by itself cannot make the constructor end the program.
* `NeverReturnsChanged` is the surprise of `encapsulate(Module&)`: a new function
  goes to the end of the list being walked, so the harnesses are visited in
  their turn, then the harnesses of the harnesses. The walk ends only where one
  of them fails: with assertions the first one does, as a harness has no
  parameters (`DebugWalkEnds`); without them the call is undefined or goes on
  without end. The one exception is a module that declares, without defining, a
  function with the prefix in its name; hence the premise.
* `KeptIsComplete` allows one thing to happen to a kept report: the name may
  lose it, and only to a later call that failed. What the name stands for is
  never torn unless a later call has opened the file.
* `KeptIsRead` is about two processes: a read that starts when a report has been
  kept gives that very report, if no writer opens the file again before it is
  over. Without the premise the text may be torn, and `ReadJSONFromFile` cannot
  tell if it parses.

### Findings

1. `loop_bounds_differ`: the default of `eph-iterations` is 1, for which the
   reverse loop has equal bounds; `LoopIRBuilder.cpp:25` asserts it has not.
2. `value_sets_not_empty`: a function without parameters reaches the assertion
   at `SymbolicEncapsulation.cpp:251` (and, without assertions, an access out
   of bounds at `:146`).
3. `iterator_passed`: the cast of the iterator at `:454` is put in no block.
4. `unreadable_skipped`: `run` skips a report that it cannot read, with a
   message that says so, but a text that is not JSON ends the program in
   `errorToErrorCode` (`JSONTransfer.cpp:105`).
5. `description_file_served`: `eph-argspec-json` is accepted and not read.

Two more things are modelled as they are, without a run of their own, as the
repository says nothing they could be held against. `run(Module, MAM)` answers
`all()` for a module that it has changed and `none()` for one it has not
(`SymbolicEncapsulationPass.cpp:238`), the wrong way round; `ChangeReported`
states what it does. And the value of `eph-argspec` is parsed and read by
nothing.

## Fairness

`FairSpec` is weak fairness of the whole next-state relation, in `LoopExec`,
`Harness`, `SymbolicEncapsulationPass` and `ModuleEncapsulation`. The pass and
the code it generates are single threads of control that wait for nothing, so a
step that can be taken is taken. No action has fairness of its own, so the
choice of the directory's order, of an error or of the symbolic values is never
forced. In `ReportExchange` only the steps of a read that is under way are fair
(`ReaderStep`): nothing makes a writer go on or a program be run again. The
read ends although the file may grow, because a writer ends its report or is
stopped, and calls of it are finitely many here. The safety runs use
specifications without fairness.

## Proofs

`LoopProofs` proves, for all widths, bounds and steps (assuming
`WidthAssumption`: the phi is more than one bit wider than the bounds; and
`StepsAssumption`: steps are positive), that type, range, no repetition and
completeness are invariants of `LoopExec`, and that it implements
`IterationSpace`. None of the four is inductive: that an index is new, or that
nothing is missing when the loop is left, depends on how the phi got there. The
invariant `LoopInv` says that the phi is the k-th member of the progression,
`done` its first k members, and that the phi is in range in the body; the range
gives that the latch does not wrap, and the monotonicity of `k * step` that no
index repeats and none is left out.

`BuilderProofs` proves for every request, build and symbol table that a
supported request is neither declined nor fails, and that its loops mirror each
other (assuming `RequestsAssumption`, the types of a request, in which a scalar has at
least one byte). The invariant
follows two things. `Stems`: the module's symbols are at any time those of the
request and some that `encapsulateImpl` declares, so a later declaration cannot
meet a wrong type that an earlier one brought in. `Progress`: which variables
a supported request has set when it reaches a phase; there is an argument to
overwrite by the iterator, and the two loops are those of the bounds `(0, N)`
and `(N - 1, 0)`, which `MirroredSpaces` shows to have the same iterations for
every `N >= 2`.

`ShapeProofs` proves `TypeOK` and `BuildsSoundHarness`, both directions, for
every request. Its invariant `Shape` says what has been emitted at each phase:
which blocks there are, what is in each (`SetupCode`, `TeardownCode`, the chain
of comparisons, the blocks of a loop), what the argument lists hold and which
argument has the iterator. That a harness is sound is a statement about every
instruction of every block, so it needs all of it. The code of `setup` and
`se.setup` is made with `FlattenSeq`, a fold; `SequenceLemmas` shows by an
induction over a *set* of lengths (`SetInduction`) where each element of a
flattened sequence comes from, and the rest of the proof knows only that. For
the other direction (`SupportedIfSound`) there is one step for each clause of
`Supported`, which reads it off the finished harness: a block that the verifier
accepts, comparisons within their objects, loops that mirror each other.

`HarnessProofs` proves every safety property of `Harness`. `HarnessBuilds` gives
it the builder's invariants: what is executed is a run of the builder first, and
it changes nothing afterwards. None of the properties is inductive, as each
speaks of the end of a run; `HarnessInv` says what every block leaves to the next:

* `Control`, `Memory`: the run is at an instruction of the harness, so at one of
  the places `Shape` knows; objects keep the size of their argument.
* `Freed`: what `teardown` has gone past is not allocated. It does not need a
  supported request, and so `NothingLeaks` does not either.
* `Allocated`: which objects are live in each block of a supported harness. It
  gives `SupportedNeverFaults` with the sizes that `Supported` requires, and with
  `Visited`, as an index into an array must be one of an iteration.
* `Visited`: how many iterators each loop has passed, as a function of its
  induction variable, in each of its blocks. `VisitsMirrored` is its last clause.
* `Isolated`: from the copies `se.setup` makes to the entry of loop 2. The view of
  loop 2 is the input of loop 1 as long as loop 1 writes only memory that loop 2
  has a copy of; which is where a true report comes in (`Truthful`).

`HarnessImplementsCheck` is the refinement: with a supported request and a true
report (`TrueSpec`), every step of the harness is a step of `CommutativityCheck`
or a stutter. The entry of loop 1 chooses the input, `ret` and `__assert_fail`
decide. It rests on `CheckInv`: what a loop sees is what its iterations so far
make of the input (`Computed`), and the comparisons passed have found their
arguments equal (`Compared`). `RunOver` is a recursive function; that it exists
and that there is only one is again an induction over a set (`RunsExist`,
`RunsAgree`), and `RanStep` says what one iteration adds. The theorem is for all
functions `Apply` and `Writes`, all contents and all sizes; the only assumptions
are those of the builder (`RequestsAssumption`: scalars have at least one byte)
and of the widths.

`PassProofs` proves eight properties of the pass for any module, options and
reports (assuming `RunsAssumption`: the types of a run, that a function of the
type `i32()` has no parameters, and that a command line or environment gives
options of the pass, as the model has no others). The invariant `PassInv`
carries what is known of the report under way from the action that reads it to
the one that returns from `encapsulate`: that it is read and not used, whose it
is, that the specifications are a decoding of it. Without it `OneReport` and
`EveryReportServed` are not inductive, because a report passes through five
actions before anything is recorded. For `ChangeReported` the invariant says
that bodies are only ever added, and that `hasChanged` comes with a function
that has more of them than at the start. For `StillSupported` a second
invariant, `ModuleInv`, says that a function of the module is as it was given
or the harness of one already encapsulated, and that the runtime symbols stem
from those given; harness names being injective, a function without a harness
yet meets nobody else's. For `UnforcedCompares` a third one, `ComparingInv`,
follows one block through the builder: it is empty up to
`createSymbolicAssertions`, and what it gets there no later step changes; that
it goes to a comparison follows from the outbound entry that `PassInv` carries.
`EnvironmentDecides` needs two parses compared that begin
with different options: `Alike` relates them occurrence by occurrence along the
fold of `ParseOptions`, once more by an induction over a set. So does
`ParsedPositions`: options that are accepted have a position exactly when they
have occurred, and the reset of the constructor keeps it. `SelectedOnly` and
`EveryReportServed` rest on that, as they say what the user gave, and
`PassInv` what the options have (`Admitted`) and the work list holds.

`ModuleProofs` proves the safety properties of the walk for any module. The
invariant has a frontier: once the module has changed there is, at or after the
position of the walk, a function that is defined, is a harness, and has as many
prefixes in its name as any. Visiting it makes a harness with one prefix more,
which is new and so at the end of the list. So the walk cannot be at the end of
a changed list. That a greatest number of prefixes exists in the first place is
a lemma, from the well-foundedness of the naturals.

`ExchangeProofs` proves type correctness, `KeptIsComplete` and `KeptIsRead` for
any number of reports of any length and any number of reads. `WriterInv`: what
the file has while it is written is the report so far, unless the stream has
an error. What was kept came from a call before the one
that removes it (`KeptBefore`). `ReaderInv`: a read that began with a kept report, in a file that
nobody has opened since, has a prefix of that report in hand and the file still
has the whole. `KeptIsRead` needs both, and that equal texts are of the same
version.

Model-checked only: termination and everything else under fairness
(`Terminates` of the loop, the harness and the pass, `DebugWalkEnds`,
`ReaderEnds`), as
liveness and ENABLED are out of the prover's reach; and the five violations, of
which a counterexample is all there is to say. Every safety property that a
passing run checks is also a theorem.

## Not modelled, and why

* `DeclareMemcmpLikeFunc`, `Exchange/Info.hpp`, the part of
  `SymbolicEncapsulation.hpp` that only declares: nothing happens in them, or
  nothing calls them.
* `Debug.hpp`, `Util.hpp`: preprocessor switches and output to a stream.
* The registration callbacks of LLVM and the plugin's version record: the model
  has what they amount to, the name the pass is found by.
* Names of values and of global strings, floating-point and aggregate scalars:
  the code treats them as it does integers of the same size, or not at all.
* `CreateLoop` with an empty body or a body of several blocks: both callers
  pass one block.
* A failing `malloc` in the generated code, and a report without the keys that
  `run` dereferences: the first does not happen in KLEE, the second ends the
  model as undefined behaviour, of which nothing more can be said.
* The tests parse IR and run another pass; the scripts start `opt`. They have
  no state to model.
