------------------------------ MODULE MCHarness ------------------------------
(***************************************************************************)
(* Harnesses of functions F(i64 i, T *a, U b): the iterator, an array and  *)
(* an argument that is an array or a scalar, for reports that name them    *)
(* inbound, outbound or both, iterator-dependent or not.                   *)
(*                                                                         *)
(* The functions update one byte of one argument from one of another.  A   *)
(* byte is 0 or 1.                                                         *)
(***************************************************************************)
EXTENDS Harness

CONSTANT MaxIterations

MCBytes == {0, 1}

Type(p, n) == [ptr |-> p, size |-> n]

Report(d, b) == [Direction |-> d, IteratorDependent |-> b]

Request(params, specs, n) ==
  [isDeclaration |-> FALSE, params |-> params, argSpecs |-> specs, iterations |-> n,
   syms |-> NoSymbols, hasHarnessBody |-> FALSE, NDEBUG |-> TRUE]

(***************************************************************************)
(* A function: the argument it writes, the one it reads, what it does with *)
(* the two bytes, and the number of the byte within an element of two.     *)
(***************************************************************************)
Kernel(dst, src, f, byte) == [dst |-> dst, src |-> src, f |-> f, byte |-> byte]

\* a[i] := a[i] + 1;  a[i] += b[i];  a[i] := b[i];  a[i] := a[0] + b[i].
Increment  == Kernel(2, 2, "increment", 0)
Accumulate == Kernel(2, 3, "add", 0)
Assign     == Kernel(2, 3, "set", 0)
Chain      == Kernel(2, 3, "chain", 0)
\* The function changes its other argument; it changes the upper byte.
Other      == Kernel(3, 2, "add", 0)
Upper      == Kernel(2, 3, "set", 1)

\* The function changes its last argument; the last iteration decides on it.
Latest     == Kernel(3, 2, "set", 0)

CheckKernels == {Increment, Accumulate, Assign, Chain, Latest}
AllKernels   == {Increment, Accumulate, Assign, Chain, Other, Upper}

Plus(x, y) == IF Undef \in {x, y} THEN Undef ELSE (x + y) % 2

\* An argument with one element has that one for every iterator.
Slot(bytes, i, byte) == 1 + ((i * (byte + 1) + byte) % Len(bytes))

MCApply(k, i, args) ==
  LET d == Slot(args[k.dst], i, k.byte)
      s == args[k.src][Slot(args[k.src], i, k.byte)]
  IN  [args EXCEPT ![k.dst][d] = CASE k.f = "increment" -> Plus(@, 1)
                                   [] k.f = "add"       -> Plus(@, s)
                                   [] k.f = "set"       -> s
                                   [] k.f = "chain"     -> Plus(args[k.dst][1], s)]

MCWrites(k) == {k.dst}

\* Supported requests, with one outbound argument or with two.
CheckRequests ==
  {Request(<<I64Type, Type(TRUE, 1), t>>, <<Report(1, FALSE), Report(d, b), Report(1, t.ptr)>>, n) :
     t \in {Type(TRUE, 1), Type(FALSE, 1)}, d \in {2, 3}, b \in BOOLEAN, n \in 2 .. MaxIterations}
  \cup
  {Request(<<I64Type, Type(TRUE, 2), Type(TRUE, 1)>>,
           <<Report(1, FALSE), Report(d, FALSE), Report(3, b)>>, 2) : d \in {2, 3}, b \in BOOLEAN}

\* All directions, unsupported requests and reports that are not true.
MemoryRequests ==
  {Request(<<I64Type, Type(TRUE, 1), t>>, <<Report(d1, FALSE), Report(d2, b), Report(d3, b)>>, n) :
     t \in {Type(TRUE, 2), Type(FALSE, 2)}, d1 \in {0, 2}, d2 \in {0, 2, 3}, d3 \in 0 .. 2,
     b \in BOOLEAN, n \in 0 .. 2}

=============================================================================
