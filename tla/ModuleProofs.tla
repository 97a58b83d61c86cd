---------------------------- MODULE ModuleProofs ----------------------------
(***************************************************************************)
(* For every module: the walk of encapsulate(Module&) keeps its list and   *)
(* its table together, gives each function its harness, and does not       *)
(* return once it has made one.                                            *)
(***************************************************************************)
EXTENDS ModuleEncapsulation, BuilderProofs, WellFoundedInduction

\* The premise of NeverReturnsChanged.
NoHarnessDeclared ==
  \A n \in DOMAIN given.functions : n[2] > 0 => ~given.functions[n].isDeclaration

\* The name of the i-th function has the most prefixes of all, and it is a harness
\* that is yet to be visited: so its own harness is yet to be made.
Frontier(i) ==
  /\ i \in position .. Len(list)
  /\ list[i][2] > 0
  /\ ~functions[list[i]].isDeclaration
  /\ \A j \in DOMAIN list : list[j][2] <= list[i][2]

WalkInv ==
  /\ given \in Modules
  /\ WalkTypeOK
  /\ \A i \in DOMAIN list : list[i][2] \in Nat
  /\ \A n \in DOMAIN given.functions :
       /\ n \in DOMAIN functions
       /\ ~given.functions[n].isDeclaration => ~functions[n].isDeclaration
  /\ pc = "encapsulate" => req.isDeclaration = functions[list[position]].isDeclaration /\ Decided
  /\ \A i \in 1 .. position - 1 :
       list[i] \in DOMAIN given.functions /\ ~given.functions[list[i]].isDeclaration =>
         /\ HarnessName(list[i]) \in DOMAIN functions
         /\ ~functions[HarnessName(list[i])].isDeclaration
  /\ ~hasChanged => /\ functions = given.functions /\ list = given.list
                    /\ \A i \in 1 .. position - 1 : functions[list[i]].isDeclaration
  /\ NoHarnessDeclared /\ hasChanged /\ pc \in {"walk", "encapsulate"} => \E i \in DOMAIN list : Frontier(i)
  /\ pc = "returned" => position = Len(list) + 1
  /\ NoHarnessDeclared /\ pc = "returned" => ~hasChanged

-----------------------------------------------------------------------------

\* A bounded set of naturals has a greatest element.
LEMMA GreatestExists ==
  ASSUME NEW K \in Nat, NEW S, S \subseteq 0 .. K, S # {}
  PROVE  \E m \in S : \A x \in S : x <= m
  <1> DEFINE T == {t \in 0 .. K : K - t \in S}
  <1>1. T \subseteq Nat /\ T # {}
    <2>1. PICK s \in S : TRUE
      OBVIOUS
    <2>2. s \in 0 .. K
      OBVIOUS
    <2>3. K - s \in 0 .. K /\ K - (K - s) = s
      BY <2>2
    <2>4. \E t \in 0 .. K : K - t \in S
      <3>1. K - (K - s) \in S
        BY <2>1, <2>3
      <3> QED BY <2>3, <3>1
    <2> QED BY <2>4
  <1>2. PICK t \in T : \A y \in T : ~(<<y, t>> \in OpToRel(<, Nat))
    BY <1>1, WFMin, NatLessThanWellFounded
  <1>3. \A y \in T : ~(y < t)
    BY <1>1, <1>2 DEF OpToRel
  <1>4. ASSUME NEW x \in S PROVE x <= K - t
    <2>1. x \in 0 .. K
      OBVIOUS
    <2>2. K - x \in 0 .. K /\ K - (K - x) = x
      BY <2>1
    <2>3. K - x \in T
      BY <2>2
    <2> QED BY <1>3, <2>1, <2>2, <2>3
  <1> QED BY <1>4

LEMMA WalkInvInit == WalkInit => WalkInv
  <1> SUFFICES ASSUME WalkInit PROVE WalkInv
    OBVIOUS
  <1>1. /\ given.list \in Seq(DOMAIN given.functions)
        /\ DOMAIN given.functions = {given.list[i] : i \in DOMAIN given.list}
        /\ \A n \in DOMAIN given.functions : n[2] \in 0 .. MaxPrefixes
        /\ MaxPrefixes \in Nat
    BY ModulesAssumption DEF WalkInit
  <1>2. WalkTypeOK
    <2>1. Len(list) \in Nat /\ list = given.list /\ functions = given.functions
      BY <1>1 DEF WalkInit
    <2>2. position \in 1 .. Len(list) + 1 /\ pc = "walk"
      BY <2>1 DEF WalkInit
    <2> QED BY <1>1, <2>1, <2>2 DEF WalkInit, WalkTypeOK
  <1>3. \A i \in DOMAIN list : list[i][2] \in Nat
    BY <1>1 DEF WalkInit
  <1>4. position = 1 /\ pc = "walk" /\ hasChanged = FALSE
        /\ functions = given.functions /\ list = given.list /\ given \in Modules
    BY DEF WalkInit
  <1>5. 1 .. position - 1 = {}
    BY <1>4
  <1> QED BY <1>2, <1>3, <1>4, <1>5 DEF WalkInv

\* A call takes the function the walk is at.
LEMMA VisitStep == WalkInv /\ Visit => WalkInv'
  <1> SUFFICES ASSUME WalkInv, Visit PROVE WalkInv'
    OBVIOUS
  <1> USE DEF WalkInv
  <1>1. /\ pc = "walk" /\ pc' = "encapsulate" /\ position <= Len(list)
        /\ UNCHANGED <<given, list, functions, runtime, position, hasChanged>>
        /\ req'.isDeclaration = functions[list[position]].isDeclaration
        /\ phase' = "encapsulateImpl"
    BY DEF Visit, Enter, RequestIn
  <1>2. WalkTypeOK'
    BY <1>1 DEF WalkTypeOK
  <1>3. Decided'
    BY <1>1 DEF Decided
  <1> QED BY <1>1, <1>2, <1>3 DEF NoHarnessDeclared, Frontier

LEMMA EncapsulateWalkStep == WalkInv /\ Encapsulate => WalkInv'
  <1> SUFFICES ASSUME WalkInv, Encapsulate PROVE WalkInv'
    OBVIOUS
  <1> USE DEF WalkInv
  <1>1. UNCHANGED walkVars /\ pc = "encapsulate" /\ req' = req /\ Decided'
    BY BuildKeepsRequest DEF Encapsulate
  <1>2. WalkTypeOK'
    BY <1>1 DEF WalkTypeOK, walkVars
  <1> QED BY <1>1, <1>2 DEF NoHarnessDeclared, Frontier, walkVars

\* The walk has passed everything when it returns, so no frontier is left.
LEMMA EndOfModuleStep == WalkInv /\ EndOfModule => WalkInv'
  <1> SUFFICES ASSUME WalkInv, EndOfModule PROVE WalkInv'
    OBVIOUS
  <1> USE DEF WalkInv, EndOfModule
  <1>1. WalkTypeOK'
    BY DEF WalkTypeOK
  <1>2. position = Len(list) + 1
    BY DEF WalkTypeOK
  <1>3. NoHarnessDeclared => ~hasChanged
    <2>1. \A i : ~Frontier(i)
      BY <1>2 DEF Frontier, WalkTypeOK
    <2> QED BY <2>1
  <1> QED BY <1>1, <1>2, <1>3 DEF NoHarnessDeclared, Frontier

\* What a harness for F makes of the list and the table.
LEMMA HarnessAdded ==
  ASSUME WalkTypeOK, NEW F \in DOMAIN functions,
         list' = AtEnd(list, HarnessName(F)), functions' = WithHarness(functions, F)
  PROVE  /\ list' \in Seq(DOMAIN functions') /\ DOMAIN functions' = {list'[i] : i \in DOMAIN list'}
         /\ DOMAIN functions' = DOMAIN functions \cup {HarnessName(F)}
         /\ \A n \in DOMAIN functions : n # HarnessName(F) => functions'[n] = functions[n]
         /\ functions'[HarnessName(F)].isDeclaration = FALSE
         /\ \A i \in 1 .. Len(list) : list'[i] = list[i]
         /\ \/ HarnessName(F) \in DOMAIN functions /\ list' = list
            \/ /\ HarnessName(F) \notin DOMAIN functions
               /\ Len(list') = Len(list) + 1 /\ list'[Len(list) + 1] = HarnessName(F)
  <1> DEFINE h == HarnessName(F)
  <1>1. list \in Seq(DOMAIN functions) /\ DOMAIN functions = {list[i] : i \in DOMAIN list}
    BY DEF WalkTypeOK
  <1>2. /\ DOMAIN functions' = DOMAIN functions \cup {h}
        /\ \A n \in DOMAIN functions : n # h => functions'[n] = functions[n]
        /\ functions'[h].isDeclaration = FALSE
    BY DEF WithHarness
  <1>3. list' = IF h \in DOMAIN functions THEN list ELSE Append(list, h)
    BY DEF AtEnd
  <1> HIDE DEF h
  <1>4. CASE h \in DOMAIN functions
    <2>1. list' = list /\ DOMAIN functions' = DOMAIN functions
      BY <1>2, <1>3, <1>4
    <2>2. list' \in Seq(DOMAIN functions') /\ DOMAIN functions' = {list'[i] : i \in DOMAIN list'}
      BY <1>1, <2>1
    <2>3. \A i \in 1 .. Len(list) : list'[i] = list[i]
      BY <2>1
    <2> QED BY <1>2, <1>4, <2>1, <2>2, <2>3 DEF h
  <1>5. CASE h \notin DOMAIN functions
    <2>1. list' = Append(list, h) /\ list \in Seq(DOMAIN functions') /\ h \in DOMAIN functions'
      BY <1>1, <1>2, <1>3, <1>5
    <2>2. /\ list' \in Seq(DOMAIN functions') /\ Len(list') = Len(list) + 1
          /\ list'[Len(list) + 1] = h
          /\ \A i \in 1 .. Len(list) : list'[i] = list[i]
          /\ DOMAIN list' = 1 .. Len(list) + 1 /\ DOMAIN list = 1 .. Len(list) /\ Len(list) \in Nat
      BY <2>1
    <2>3. DOMAIN functions' = {list'[i] : i \in DOMAIN list'}
      BY <1>1, <1>2, <2>2
    <2> QED BY <1>2, <1>5, <2>2, <2>3 DEF h
  <1> QED BY <1>4, <1>5

\* Either the function has the most prefixes, and its harness is the new frontier;
\* or another one is, and the walk has yet to come to it.
LEMMA ReturnsStep == WalkInv /\ EncapsulateReturns => WalkInv'
  <1> SUFFICES ASSUME WalkInv, EncapsulateReturns PROVE WalkInv'
    OBVIOUS
  <1> DEFINE F == list[position]
             h == HarnessName(F)
  <1>1. /\ pc = "encapsulate" /\ UNCHANGED <<buildVars, given>>
        /\ list \in Seq(DOMAIN functions) /\ DOMAIN functions = {list[i] : i \in DOMAIN list}
        /\ position \in 1 .. Len(list) /\ F \in DOMAIN functions
        /\ req.isDeclaration = functions[F].isDeclaration /\ Decided
        /\ Len(list) \in Nat /\ DOMAIN list = 1 .. Len(list)
    BY DEF EncapsulateReturns, WalkInv, WalkTypeOK
  <1>2. CASE phase \in {"aborted", "undefined"}
    <2>1. pc' \in {"aborted", "undefined"} /\ UNCHANGED <<list, functions, runtime, position, hasChanged>>
      BY <1>2 DEF EncapsulateReturns
    <2>2. WalkTypeOK'
      BY <1>1, <2>1 DEF WalkInv, WalkTypeOK
    <2> QED BY <1>1, <2>1, <2>2 DEF WalkInv, NoHarnessDeclared, Frontier
  <1>3. CASE phase = "declined"
    <2>1. /\ pc' = "walk" /\ UNCHANGED <<given, list, functions, runtime, hasChanged>>
          /\ position' = position + 1
      BY <1>1, <1>3 DEF EncapsulateReturns, Advanced
    <2>2. functions[F].isDeclaration
      BY <1>1, <1>3 DEF Decided
    <2>3. WalkTypeOK'
      BY <1>1, <2>1 DEF WalkInv, WalkTypeOK
    <2>4. 1 .. position' - 1 = (1 .. position - 1) \cup {position}
      BY <1>1, <2>1
    <2>5. \A n \in DOMAIN given.functions : ~given.functions[n].isDeclaration => ~functions[n].isDeclaration
      BY DEF WalkInv
    <2>6. \A i : Frontier(i) => Frontier(i)'
      BY <1>1, <2>1, <2>2 DEF Frontier
    <2>7. (NoHarnessDeclared /\ hasChanged => \E i \in DOMAIN list : Frontier(i))'
      BY <1>1, <2>1, <2>6 DEF WalkInv, NoHarnessDeclared
    <2>8. (~hasChanged => \A i \in 1 .. position - 1 : functions[list[i]].isDeclaration)'
      BY <2>1, <2>2, <2>4 DEF WalkInv
    <2>9. (\A i \in 1 .. position - 1 :
             list[i] \in DOMAIN given.functions /\ ~given.functions[list[i]].isDeclaration =>
               /\ HarnessName(list[i]) \in DOMAIN functions
               /\ ~functions[HarnessName(list[i])].isDeclaration)'
      BY <2>1, <2>2, <2>4, <2>5 DEF WalkInv
    <2> QED BY <2>1, <2>3, <2>7, <2>8, <2>9 DEF WalkInv
  <1>4. CASE phase = "done"
    <2>1. /\ pc' = "walk" /\ hasChanged' = TRUE /\ position' = position + 1
          /\ list' = AtEnd(list, h) /\ functions' = WithHarness(functions, F)
      BY <1>4 DEF EncapsulateReturns, Advanced
    <2>2. ~functions[F].isDeclaration
      BY <1>1, <1>4 DEF Decided
    <2>3. WalkTypeOK
      BY DEF WalkInv
    <2>4. /\ list' \in Seq(DOMAIN functions') /\ DOMAIN functions' = {list'[i] : i \in DOMAIN list'}
          /\ DOMAIN functions' = DOMAIN functions \cup {h}
          /\ \A n \in DOMAIN functions : n # h => functions'[n] = functions[n]
          /\ functions'[h].isDeclaration = FALSE
          /\ \A i \in 1 .. Len(list) : list'[i] = list[i]
          /\ \/ h \in DOMAIN functions /\ list' = list
             \/ /\ h \notin DOMAIN functions
                /\ Len(list') = Len(list) + 1 /\ list'[Len(list) + 1] = h
      BY <1>1, <2>1, <2>3, HarnessAdded
    <2>5. /\ DOMAIN list' = 1 .. Len(list') /\ Len(list') \in Nat /\ Len(list) <= Len(list')
          /\ \A i \in DOMAIN list : i \in DOMAIN list'
          /\ h[2] = F[2] + 1 /\ F[2] \in Nat
      <3>1. h[2] = F[2] + 1
        BY DEF HarnessName
      <3>2. F[2] \in Nat
        BY <1>1 DEF WalkInv
      <3> HIDE DEF h, F
      <3>3. DOMAIN list' = 1 .. Len(list') /\ Len(list') \in Nat
        BY <2>4
      <3>4. Len(list) <= Len(list')
        BY <1>1, <2>4
      <3> QED BY <1>1, <3>1, <3>2, <3>3, <3>4
    <2> HIDE DEF h
    <2>6. WalkTypeOK'
      BY <1>1, <2>1, <2>4 DEF WalkTypeOK
    <2>7. \A i \in DOMAIN list' : (i \in DOMAIN list /\ list'[i] = list[i]) \/ list'[i] = h
      <3> SUFFICES ASSUME NEW i \in DOMAIN list', i \notin DOMAIN list PROVE list'[i] = h
        BY <1>1, <2>4
      <3>1. list' # list
        OBVIOUS
      <3>2. Len(list') = Len(list) + 1 /\ list'[Len(list) + 1] = h
        BY <2>4, <3>1
      <3>3. i = Len(list) + 1
        BY <1>1, <2>5, <3>2
      <3> QED BY <3>2, <3>3
    <2>8. \A i \in DOMAIN list' : list'[i][2] \in Nat
      BY <2>5, <2>7 DEF WalkInv
    <2>9. \A n \in DOMAIN functions : ~functions[n].isDeclaration => ~functions'[n].isDeclaration
      BY <2>4
    <2>10. \A n \in DOMAIN given.functions :
             /\ n \in DOMAIN functions'
             /\ ~given.functions[n].isDeclaration => ~functions'[n].isDeclaration
      BY <2>4, <2>9 DEF WalkInv
    <2>11. (\A i \in 1 .. position - 1 :
             list[i] \in DOMAIN given.functions /\ ~given.functions[list[i]].isDeclaration =>
               /\ HarnessName(list[i]) \in DOMAIN functions
               /\ ~functions[HarnessName(list[i])].isDeclaration)'
      <3> SUFFICES ASSUME NEW i \in 1 .. position, list'[i] \in DOMAIN given.functions,
                          ~given.functions[list'[i]].isDeclaration
                   PROVE  /\ HarnessName(list'[i]) \in DOMAIN functions'
                          /\ ~functions'[HarnessName(list'[i])].isDeclaration
        BY <1>1, <2>1
      <3>1. list'[i] = list[i]
        <4>1. i \in 1 .. Len(list)
          BY <1>1
        <4> QED BY <2>4, <4>1
      <3>2. CASE i = position
        BY <2>4, <3>1, <3>2 DEF h, F
      <3>3. CASE i \in 1 .. position - 1
        <4>1. HarnessName(list[i]) \in DOMAIN functions /\ ~functions[HarnessName(list[i])].isDeclaration
          BY <3>1, <3>3 DEF WalkInv
        <4> QED BY <2>4, <2>9, <3>1, <4>1
      <3> QED BY <1>1, <3>2, <3>3
    <2>12. ASSUME NoHarnessDeclared PROVE \E i \in DOMAIN list' : Frontier(i)'
      <3>1. ASSUME \A j \in DOMAIN list : list[j][2] <= F[2] 
            PROVE  \E i \in DOMAIN list' : Frontier(i)'
        <4>1. h \notin DOMAIN functions
          <5> SUFFICES ASSUME NEW j \in DOMAIN list, list[j] = h PROVE FALSE
            BY <1>1
          <5> QED BY <2>5, <3>1
        <4>2. Len(list') = Len(list) + 1 /\ list'[Len(list) + 1] = h
          BY <2>4, <4>1
        <4>3. \A j \in DOMAIN list' : list'[j][2] <= h[2]
          BY <2>5, <2>7, <3>1 DEF WalkInv
        <4>4. PICK i \in DOMAIN list' : i = Len(list) + 1
          BY <2>5, <4>2
        <4>5. i \in position' .. Len(list') /\ list'[i] = h /\ h[2] > 0
          BY <1>1, <2>1, <2>5, <4>2, <4>4
        <4> QED BY <2>4, <4>3, <4>5 DEF Frontier
      <3>2. ASSUME NEW j \in DOMAIN list, j # position, j \in position .. Len(list), list[j][2] > F[2],
                   ~functions[list[j]].isDeclaration,
                   \A k \in DOMAIN list : list[k][2] <= list[j][2]
            PROVE  Frontier(j)' /\ j \in DOMAIN list'
        <4>1. list[j][2] \in Nat
          BY DEF WalkInv
        <4> list'[j] = list[j] /\ j \in DOMAIN list' /\ list[j] \in DOMAIN functions
          BY <1>1, <2>4, <2>5
        <4>2. ~functions'[list'[j]].isDeclaration
          BY <2>9, <3>2, <4>1
        <4>3. \A k \in DOMAIN list' : list'[k][2] <= list'[j][2]
          BY <2>5, <2>7, <3>2, <4>1
        <4>4. j \in position' .. Len(list')
          BY <1>1, <2>1, <2>5, <3>2
        <4> QED BY <2>5, <3>2, <4>1, <4>2, <4>3, <4>4 DEF Frontier
      <3>3. CASE hasChanged
        <4>1. PICK i \in DOMAIN list : Frontier(i)
          BY <1>1, <2>12, <3>3 DEF WalkInv
        <4>2. list[i][2] \in Nat
          BY DEF WalkInv
        <4>3. CASE list[i][2] <= F[2]
          <5>1. \A j \in DOMAIN list : list[j][2] \in Nat
            BY DEF WalkInv
          <5>2. \A j \in DOMAIN list : list[j][2] <= F[2]
            BY <2>5, <4>1, <4>2, <4>3, <5>1 DEF Frontier
          <5> QED BY <3>1, <5>2
        <4>4. CASE list[i][2] > F[2]
          BY <2>5, <3>2, <4>1, <4>4 DEF Frontier
        <4> QED BY <2>5, <4>2, <4>3, <4>4
      <3>4. CASE ~hasChanged
        <4>1. /\ functions = given.functions /\ list = given.list
              /\ \A i \in 1 .. position - 1 : functions[list[i]].isDeclaration
          BY <3>4 DEF WalkInv
        <4>2. \A j \in DOMAIN list : list[j][2] \in 0 .. MaxPrefixes
          <5>1. \A n \in DOMAIN given.functions : n[2] \in 0 .. MaxPrefixes
            BY ModulesAssumption DEF WalkInv
          <5> QED BY <1>1, <4>1, <5>1
        <4> DEFINE S == {list[j][2] : j \in DOMAIN list}
        <4>3. PICK m \in S : \A x \in S : x <= m
          <5>1. S \subseteq 0 .. MaxPrefixes /\ S # {}
            BY <1>1, <4>2
          <5>2. MaxPrefixes \in Nat
            BY ModulesAssumption
          <5> HIDE DEF S
          <5> QED BY <5>1, <5>2, GreatestExists
        <4>4. PICK j \in DOMAIN list : list[j][2] = m
          BY <4>3
        <4>5. \A k \in DOMAIN list : list[k][2] <= list[j][2]
          BY <4>3, <4>4
        <4>6. list[j][2] \in Nat
          BY DEF WalkInv
        <4>7. CASE list[j][2] <= F[2]
          <5>1. \A k \in DOMAIN list : list[k][2] \in Nat
            BY DEF WalkInv
          <5>2. \A k \in DOMAIN list : list[k][2] <= F[2]
            BY <2>5, <4>5, <4>6, <4>7, <5>1
          <5> QED BY <3>1, <5>2
        <4>8. CASE list[j][2] > F[2]
          <5>1. list[j][2] > 0 /\ list[j] \in DOMAIN given.functions
            <6>1. list[j] \in DOMAIN functions
              BY <1>1
            <6> HIDE DEF F
            <6> QED BY <2>5, <4>1, <4>6, <4>8, <6>1
          <5>2. ~functions[list[j]].isDeclaration
            BY <2>12, <4>1, <5>1 DEF NoHarnessDeclared
          <5>3. j \notin 1 .. position - 1
            BY <4>1, <5>2
          <5>4. j # position
            BY <2>5, <4>6, <4>8
          <5>5. j \in position .. Len(list)
            BY <1>1, <5>3
          <5> QED BY <3>2, <4>5, <4>8, <5>2, <5>4, <5>5
        <4> QED BY <2>5, <4>6, <4>7, <4>8
      <3> QED BY <3>3, <3>4
    <2>13. NoHarnessDeclared' <=> NoHarnessDeclared
      BY <1>1 DEF NoHarnessDeclared
    <2> QED BY <1>1, <2>1, <2>6, <2>8, <2>10, <2>11, <2>12, <2>13 DEF WalkInv
  <1> QED BY <1>2, <1>3, <1>4 DEF EncapsulateReturns

LEMMA WalkInvStep == WalkInv /\ [Next]_vars => WalkInv'
  <1>1. WalkInv /\ UNCHANGED vars => WalkInv'
    <2> SUFFICES ASSUME WalkInv, UNCHANGED vars PROVE WalkInv'
      OBVIOUS
    <2>1. UNCHANGED walkVars /\ req' = req /\ phase' = phase
      BY DEF vars, buildVars
    <2>2. WalkTypeOK'
      BY <2>1 DEF WalkInv, WalkTypeOK, walkVars
    <2> QED BY <2>1, <2>2 DEF WalkInv, NoHarnessDeclared, Frontier, Decided, walkVars
  <1> QED BY <1>1, VisitStep, EncapsulateWalkStep, EndOfModuleStep, ReturnsStep DEF Next

-----------------------------------------------------------------------------

\* The inductive invariant holds of every walk.
THEOREM WalkInvariance == Spec => []WalkInv
  BY WalkInvInit, WalkInvStep, PTL DEF Spec

\* Every variable keeps its type, and the list holds the functions of the table.
THEOREM WalkTypeCorrect == Spec => []WalkTypeOK
  <1>1. WalkInv => WalkTypeOK
    BY DEF WalkInv
  <1> QED BY <1>1, WalkInvariance, PTL

\* encapsulate(Module&): whatever the module and the build, once a harness is made
\* the walk does not return, unless the module declares a harness itself.
THEOREM WalkNeverReturnsChanged == Spec => []NeverReturnsChanged
  <1>1. WalkInv => NeverReturnsChanged
    BY DEF WalkInv, NeverReturnsChanged, NoHarnessDeclared
  <1> QED BY <1>1, WalkInvariance, PTL

\* encapsulate(Module&): a walk that returns has made a harness for every function
\* that the module defined.
THEOREM WalkEachHasHarness == Spec => []EachHasHarness
  <1>1. WalkInv => EachHasHarness
    <2> SUFFICES ASSUME WalkInv, pc = "returned", NEW n \in DOMAIN given.functions,
                        ~given.functions[n].isDeclaration
                 PROVE  HarnessName(n) \in DOMAIN functions /\ ~functions[HarnessName(n)].isDeclaration
      BY DEF EachHasHarness
    <2>1. PICK i \in DOMAIN list : list[i] = n
      BY DEF WalkInv, WalkTypeOK
    <2>2. i \in 1 .. position - 1
      BY DEF WalkInv, WalkTypeOK
    <2> QED BY <2>1, <2>2 DEF WalkInv
  <1> QED BY <1>1, WalkInvariance, PTL

=============================================================================
