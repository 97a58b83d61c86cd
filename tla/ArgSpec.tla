------------------------------- MODULE ArgSpec -------------------------------
(***************************************************************************)
(* Argument specifications: the ArgDirection bit set, the ArgSpec struct   *)
(* and its decoding from a report (fromJSON in lib/Exchange).  The Name    *)
(* field is left out: nothing reads it.                                    *)
(***************************************************************************)
EXTENDS Integers, Sequences

\* enum ArgDirection : uint8_t.  A cast can put any byte into it.
AD_Inbound  == 1
AD_Outbound == 2
AD_Both     == 3
ArgDirection == 0 .. 255

\* toInt(AD) & toInt(AD_Inbound), toInt(AD) & toInt(AD_Outbound)
isInbound(d)  == d % 2 = 1
isOutbound(d) == (d \div 2) % 2 = 1

isOnlyInbound(d)  == isInbound(d) /\ ~isOutbound(d)
isOnlyOutbound(d) == isOutbound(d) /\ ~isInbound(d)

ArgSpecs == [Direction : ArgDirection, IteratorDependent : BOOLEAN]

\* What encapsulateImpl uses for an argument without a specification.
DefaultArgSpec == [Direction |-> AD_Inbound, IteratorDependent |-> FALSE]

\* specs, lengthened with the default up to n entries (never shortened).
FillMissing(specs, n) ==
  [i \in 1 .. (IF Len(specs) < n THEN n ELSE Len(specs)) |->
     IF i <= Len(specs) THEN specs[i] ELSE DefaultArgSpec]

-----------------------------------------------------------------------------
(***************************************************************************)
(* fromJSON of one entry of "argspecs".  'complete' says that the entry is *)
(* an object with both keys and the right types.  If it is not, fromJSON   *)
(* returns FALSE before it sets Direction, and the caller goes on with the *)
(* uninitialised fields of the struct.  Only the two lowest bits of a      *)
(* direction are ever read, so 0 .. 3 stand for all bytes.                 *)
(***************************************************************************)
Entries == [complete : BOOLEAN, direction : Int, iteratorDependent : BOOLEAN]

Uninitialised == [Direction : 0 .. 3, IteratorDependent : BOOLEAN]

FromJSONUncast(e) ==
  IF e.complete
  THEN {[Direction |-> e.direction, IteratorDependent |-> e.iteratorDependent]}
  ELSE Uninitialised

\* static_cast of an int to an enum of type uint8_t keeps the lowest byte.
FromJSON(e) ==
  IF e.complete
  THEN {[Direction |-> e.direction % 256, IteratorDependent |-> e.iteratorDependent]}
  ELSE Uninitialised

=============================================================================
