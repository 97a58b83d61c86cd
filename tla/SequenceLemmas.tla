---------------------------- MODULE SequenceLemmas ----------------------------
(***************************************************************************)
(* What FlattenSeq yields.  FlattenSeq is a recursive function, so the     *)
(* lemmas start from the existence of the function it chooses.  Induction  *)
(* is over sets of naturals, which need no operator as a parameter.        *)
(***************************************************************************)
EXTENDS SequencesExt, Integers, WellFoundedInduction, SequenceTheorems, TLAPS

LEMMA SetInduction ==
  ASSUME NEW P, 0 \in P, \A n \in Nat : n \in P => n + 1 \in P
  PROVE  \A n \in Nat : n \in P
  <1> SUFFICES ASSUME Nat \ P # {} PROVE FALSE
    OBVIOUS
  <1>1. PICK m \in Nat \ P : \A y \in Nat \ P : ~(<<y, m>> \in OpToRel(<, Nat))
    <2> DEFINE T == Nat \ P
    <2>1. T \subseteq Nat /\ T # {}
      OBVIOUS
    <2> HIDE DEF T
    <2>2. \E m \in T : \A y \in T : ~(<<y, m>> \in OpToRel(<, Nat))
      BY <2>1, WFMin, NatLessThanWellFounded
    <2> QED BY <2>2 DEF T
  <1>2. \A y \in Nat \ P : ~(y < m)
    BY <1>1 DEF OpToRel
  <1>3. m # 0
    OBVIOUS
  <1>4. m - 1 \in Nat /\ m - 1 < m /\ (m - 1) + 1 = m
    BY <1>3
  <1>5. m - 1 \in P
    BY <1>2, <1>4
  <1> QED BY <1>4, <1>5

-----------------------------------------------------------------------------

\* The first i sequences, one after the other, for every i up to n.
Joined(f, seqs, n) ==
  f = [i \in 1 .. n |-> IF i = 1 THEN seqs[i] ELSE f[i - 1] \o seqs[i]]

\* The i-th sequence comes after those before it.
Extended(f, seqs, i) == f[i - 1] \o seqs[i]

LEMMA JoinedStep ==
  ASSUME NEW f, NEW seqs, NEW n, Joined(f, seqs, n)
  PROVE  \A i \in 1 .. n : i # 1 => f[i] = Extended(f, seqs, i)
  <1> TAKE i \in 1 .. n
  <1> HAVE i # 1
  <1> DEFINE g == [j \in 1 .. n |-> IF j = 1 THEN seqs[j] ELSE f[j - 1] \o seqs[j]]
  <1>1. f = g
    BY Zenon DEF Joined
  <1>2. g[i] = Extended(f, seqs, i)
    BY DEF Extended
  <1> HIDE DEF g
  <1> QED BY <1>1, <1>2, Zenon

\* Such a function exists.
LEMMA JoinedExists ==
  ASSUME NEW S, NEW seqs \in Seq(Seq(S))
  PROVE  \E f \in [1 .. Len(seqs) -> Seq(S)] : Joined(f, seqs, Len(seqs))
  <1> DEFINE P == {n \in Nat : n <= Len(seqs) => \E f \in [1 .. n -> Seq(S)] : Joined(f, seqs, n)}
  <1>0. Len(seqs) \in Nat /\ \A i \in 1 .. Len(seqs) : seqs[i] \in Seq(S)
    OBVIOUS
  <1>1. 0 \in P
    <2> DEFINE f == [i \in 1 .. 0 |-> <<>>]
    <2>1. 1 .. 0 = {}
      OBVIOUS
    <2>2. f \in [1 .. 0 -> Seq(S)] /\ Joined(f, seqs, 0)
      BY <2>1 DEF Joined
    <2> QED BY <2>2
  <1>2. ASSUME NEW n \in Nat, n \in P PROVE n + 1 \in P
    <2> SUFFICES ASSUME n + 1 <= Len(seqs)
                 PROVE  \E f \in [1 .. n + 1 -> Seq(S)] : Joined(f, seqs, n + 1)
      OBVIOUS
    <2>1. PICK f \in [1 .. n -> Seq(S)] : Joined(f, seqs, n)
      BY <1>0, <1>2
    <2> DEFINE last == IF n = 0 THEN seqs[1] ELSE f[n] \o seqs[n + 1]
               g == [i \in 1 .. n + 1 |-> IF i = n + 1 THEN last ELSE f[i]]
    <2>2. last \in Seq(S)
      <3>1. CASE n = 0
        BY <1>0, <3>1
      <3>2. CASE n # 0
        <4>1. f[n] \in Seq(S) /\ seqs[n + 1] \in Seq(S)
          BY <1>0, <3>2
        <4>2. f[n] \o seqs[n + 1] \in Seq(S)
          BY <4>1
        <4> QED BY <3>2, <4>2
      <3> QED BY <3>1, <3>2
    <2>3. g \in [1 .. n + 1 -> Seq(S)]
      BY <2>2
    <2>4. \A i \in 1 .. n : g[i] = f[i]
      <3> SUFFICES ASSUME NEW i \in 1 .. n PROVE g[i] = f[i]
        OBVIOUS
      <3>1. i \in 1 .. n + 1 /\ i # n + 1
        OBVIOUS
      <3> QED BY <3>1
    <2>5. g[n + 1] = last
      OBVIOUS
    <2> HIDE DEF g
    <2>6. ASSUME NEW i \in 1 .. n + 1
          PROVE  g[i] = IF i = 1 THEN seqs[i] ELSE g[i - 1] \o seqs[i]
      <3>1. CASE i \in 1 .. n
        <4>1. f[i] = IF i = 1 THEN seqs[i] ELSE f[i - 1] \o seqs[i]
          BY <2>1, <3>1 DEF Joined
        <4>2. i # 1 => i - 1 \in 1 .. n
          BY <3>1
        <4> QED BY <2>4, <3>1, <4>1, <4>2
      <3>2. CASE i = n + 1
        <4>1. CASE n = 0
          BY <2>5, <3>2, <4>1
        <4>2. CASE n # 0
          <5>1. n \in 1 .. n /\ i # 1 /\ i - 1 = n
            BY <3>2, <4>2
          <5> QED BY <2>4, <2>5, <3>2, <4>2, <5>1
        <4> QED BY <4>1, <4>2
      <3> QED BY <3>1, <3>2
    <2>7. Joined(g, seqs, n + 1)
      BY <2>3, <2>6 DEF Joined
    <2> QED BY <2>3, <2>7
  <1>3. \A n \in Nat : n \in P
    <2> HIDE DEF P
    <2> QED BY <1>1, <1>2, SetInduction
  <1> QED BY <1>0, <1>3

\* FlattenSeq of a sequence of sequences that is not empty is the last of them.
LEMMA FlattenIsJoined ==
  ASSUME NEW S, NEW seqs \in Seq(Seq(S)), Len(seqs) # 0
  PROVE  \E f : Joined(f, seqs, Len(seqs)) /\ FlattenSeq(seqs) = f[Len(seqs)]
  <1> DEFINE f == CHOOSE f : f = [i \in 1 .. Len(seqs) |->
                                    IF i = 1 THEN seqs[i] ELSE f[i - 1] \o seqs[i]]
  <1>1. \E g : g = [i \in 1 .. Len(seqs) |-> IF i = 1 THEN seqs[i] ELSE g[i - 1] \o seqs[i]]
    <2>1. \E g : Joined(g, seqs, Len(seqs))
      BY JoinedExists
    <2> QED BY <2>1, Zenon DEF Joined
  <1>2. f = [i \in 1 .. Len(seqs) |-> IF i = 1 THEN seqs[i] ELSE f[i - 1] \o seqs[i]]
    BY <1>1, Zenon
  <1>3. FlattenSeq(seqs) = f[Len(seqs)]
    BY DEF FlattenSeq
  <1> HIDE DEF f
  <1> QED BY <1>2, <1>3 DEF Joined

\* F puts the first n sequences one after the other: its p-th element is element
\* within[p] of sequence piece[p], every element has a place, and the places are
\* in the order of the sequences.
Places(F, seqs, n, piece, within) ==
  /\ F \in Seq(UNION {Range(seqs[i]) : i \in 1 .. n})
  /\ piece \in [1 .. Len(F) -> 1 .. n]
  /\ within \in [1 .. Len(F) -> Nat]
  /\ \A p \in 1 .. Len(F) : /\ within[p] \in 1 .. Len(seqs[piece[p]])
                            /\ F[p] = seqs[piece[p]][within[p]]
  /\ \A p, r \in 1 .. Len(F) :
       p < r => \/ piece[p] < piece[r]
                \/ /\ piece[p] = piece[r]
                   /\ within[p] < within[r]
  /\ \A i \in 1 .. n : \A q \in 1 .. Len(seqs[i]) :
       \E p \in 1 .. Len(F) : piece[p] = i /\ within[p] = q

\* One more sequence.
LEMMA PlacesStep ==
  ASSUME NEW S, NEW seqs \in Seq(Seq(S)), NEW n \in Nat, n + 1 <= Len(seqs),
         NEW F, NEW piece, NEW within, Places(F, seqs, n, piece, within)
  PROVE  \E c, w : Places(F \o seqs[n + 1], seqs, n + 1, c, w)
  <1> DEFINE G == F \o seqs[n + 1]
             l == Len(F)
             c == [p \in 1 .. Len(G) |-> IF p <= l THEN piece[p] ELSE n + 1]
             w == [p \in 1 .. Len(G) |-> IF p <= l THEN within[p] ELSE p - l]
             T == UNION {Range(seqs[i]) : i \in 1 .. n + 1}
  <1>1. seqs[n + 1] \in Seq(T)
    <2>1. seqs[n + 1] \in Seq(S)
      OBVIOUS
    <2>2. \A j \in 1 .. Len(seqs[n + 1]) : seqs[n + 1][j] \in T
      BY <2>1 DEF Range
    <2> QED BY <2>1, <2>2, SeqDef
  <1>2. F \in Seq(T)
    BY DEF Places
  <1>3. G \in Seq(T) /\ l \in Nat /\ Len(G) = l + Len(seqs[n + 1]) /\ Len(seqs[n + 1]) \in Nat
    BY <1>1, <1>2
  <1>4. \A p \in 1 .. l : G[p] = F[p] /\ p \in 1 .. Len(G)
    BY <1>1, <1>2, <1>3
  <1>5. \A p \in l + 1 .. Len(G) : G[p] = seqs[n + 1][p - l] /\ p - l \in 1 .. Len(seqs[n + 1])
    BY <1>1, <1>2, <1>3
  <1> HIDE DEF G, l
  <1>6. c \in [1 .. Len(G) -> 1 .. n + 1] /\ w \in [1 .. Len(G) -> Nat]
    <2>1. ASSUME NEW p \in 1 .. Len(G) PROVE c[p] \in 1 .. n + 1 /\ w[p] \in Nat
      <3>1. CASE p <= l
        <4>1. p \in 1 .. l
          BY <1>3, <3>1
        <4>2. piece[p] \in 1 .. n /\ within[p] \in Nat
          BY <4>1 DEF Places, l
        <4> QED BY <3>1, <4>2
      <3>2. CASE ~(p <= l)
        BY <1>3, <3>2
      <3> QED BY <3>1, <3>2
    <2> QED BY <2>1
  <1>7. ASSUME NEW p \in 1 .. Len(G)
        PROVE  \/ p \in 1 .. l /\ c[p] = piece[p] /\ w[p] = within[p] /\ c[p] \in 1 .. n
               \/ p \in l + 1 .. Len(G) /\ c[p] = n + 1 /\ w[p] = p - l
    <2>1. CASE p <= l
      <3>1. p \in 1 .. l
        BY <1>3, <2>1
      <3>2. piece[p] \in 1 .. n
        BY <3>1 DEF Places, l
      <3> QED BY <2>1, <3>1, <3>2
    <2>2. CASE ~(p <= l)
      BY <1>3, <2>2
    <2> QED BY <2>1, <2>2
  <1> HIDE DEF c, w
  <1>8. ASSUME NEW p \in 1 .. Len(G)
        PROVE  w[p] \in 1 .. Len(seqs[c[p]]) /\ G[p] = seqs[c[p]][w[p]]
    <2>1. CASE p \in 1 .. l
      <3>1. c[p] = piece[p] /\ w[p] = within[p] /\ G[p] = F[p]
        BY <1>3, <1>4, <1>7, <2>1
      <3>2. within[p] \in 1 .. Len(seqs[piece[p]]) /\ F[p] = seqs[piece[p]][within[p]]
        BY <2>1 DEF Places, l
      <3> QED BY <3>1, <3>2
    <2>2. CASE p \in l + 1 .. Len(G)
      <3>1. c[p] = n + 1 /\ w[p] = p - l
        BY <1>3, <1>7, <2>2
      <3>2. G[p] = seqs[n + 1][p - l] /\ p - l \in 1 .. Len(seqs[n + 1])
        BY <1>5, <2>2
      <3> QED BY <3>1, <3>2
    <2> QED BY <1>7, <2>1, <2>2
  <1>9. ASSUME NEW p \in 1 .. Len(G), NEW r \in 1 .. Len(G), p < r
        PROVE  \/ c[p] < c[r]
               \/ /\ c[p] = c[r]
                  /\ w[p] < w[r]
    <2>1. CASE r \in 1 .. l
      <3>1. p \in 1 .. l
        BY <1>3, <1>9, <2>1
      <3>2. c[p] = piece[p] /\ w[p] = within[p] /\ c[r] = piece[r] /\ w[r] = within[r]
        BY <1>3, <1>7, <2>1, <3>1
      <3> QED BY <1>9, <2>1, <3>1, <3>2 DEF Places, l
    <2>2. CASE r \in l + 1 .. Len(G)
      <3>1. c[r] = n + 1 /\ w[r] = r - l
        BY <1>3, <1>7, <2>2
      <3>2. CASE p \in 1 .. l
        <4>1. c[p] \in 1 .. n
          BY <1>3, <1>7, <3>2
        <4> QED BY <3>1, <4>1
      <3>3. CASE p \in l + 1 .. Len(G)
        BY <1>3, <1>7, <1>9, <3>1, <3>3
      <3> QED BY <1>7, <3>2, <3>3
    <2> QED BY <1>7, <2>1, <2>2
  <1>10. ASSUME NEW i \in 1 .. n + 1, NEW q \in 1 .. Len(seqs[i])
         PROVE  \E p \in 1 .. Len(G) : c[p] = i /\ w[p] = q
    <2>1. CASE i \in 1 .. n
      <3>1. PICK p \in 1 .. l : piece[p] = i /\ within[p] = q
        BY <2>1 DEF Places, l
      <3>2. p \in 1 .. Len(G) /\ ~(p \in l + 1 .. Len(G))
        BY <1>3, <1>4
      <3> QED BY <1>7, <3>1, <3>2
    <2>2. CASE i = n + 1
      <3>1. l + q \in l + 1 .. Len(G) /\ l + q \in 1 .. Len(G) /\ ~(l + q \in 1 .. l) /\ (l + q) - l = q
        BY <1>3, <2>2
      <3>2. c[l + q] = n + 1 /\ w[l + q] = q
        BY <1>7, <3>1
      <3> QED BY <2>2, <3>1, <3>2
    <2> QED BY <2>1, <2>2
  <1>11. Places(G, seqs, n + 1, c, w)
    BY <1>3, <1>6, <1>8, <1>9, <1>10 DEF Places
  <1> QED BY <1>11 DEF G

\* The elements of FlattenSeq(seqs) are those of the sequences, in order.
LEMMA FlattenPlaces ==
  ASSUME NEW S, NEW seqs \in Seq(Seq(S))
  PROVE  \E piece, within : Places(FlattenSeq(seqs), seqs, Len(seqs), piece, within)
  <1>1. CASE Len(seqs) = 0
    <2>1. seqs = <<>> /\ FlattenSeq(seqs) = <<>>
      BY <1>1, EmptySeq DEF FlattenSeq
    <2>2. Places(<<>>, seqs, 0, [p \in 1 .. 0 |-> 0], [p \in 1 .. 0 |-> 0])
      <3>1. 1 .. 0 = {} /\ Len(<<>>) = 0
        OBVIOUS
      <3>2. \A U : <<>> \in Seq(U)
        OBVIOUS
      <3> QED BY <3>1, <3>2 DEF Places
    <2> QED BY <1>1, <2>1, <2>2
  <1>2. CASE Len(seqs) # 0
    <2>1. PICK f : Joined(f, seqs, Len(seqs)) /\ FlattenSeq(seqs) = f[Len(seqs)]
      BY <1>2, FlattenIsJoined
    <2> DEFINE P == {n \in Nat : n < Len(seqs) =>
                       \E piece, within : Places(f[n + 1], seqs, n + 1, piece, within)}
    <2>2. Len(seqs) \in Nat
      OBVIOUS
    <2>3. 0 \in P
      <3>1. f[1] = seqs[1] /\ 0 + 1 = 1
        BY <1>2, <2>1, <2>2 DEF Joined
      <3>2. seqs[1] \in Seq(S) /\ <<>> \o seqs[1] = seqs[1]
        BY <1>2, <2>2
      <3>3. Places(<<>>, seqs, 0, [p \in 1 .. 0 |-> 0], [p \in 1 .. 0 |-> 0])
        <4>1. 1 .. 0 = {} /\ Len(<<>>) = 0
          OBVIOUS
        <4>2. \A U : <<>> \in Seq(U)
          OBVIOUS
        <4> QED BY <4>1, <4>2 DEF Places
      <3>4. \E c, w : Places(<<>> \o seqs[0 + 1], seqs, 0 + 1, c, w)
        <4>1. 0 \in Nat /\ 0 + 1 <= Len(seqs)
          BY <1>2, <2>2
        <4> QED BY <3>3, <4>1, PlacesStep
      <3> QED BY <3>1, <3>2, <3>4
    <2>4. ASSUME NEW n \in Nat, n \in P PROVE n + 1 \in P
      <3> SUFFICES ASSUME n + 1 < Len(seqs)
                   PROVE  \E piece, within : Places(f[(n + 1) + 1], seqs, (n + 1) + 1, piece, within)
        OBVIOUS
      <3>1. PICK piece, within : Places(f[n + 1], seqs, n + 1, piece, within)
        BY <2>2, <2>4
      <3>2. f[(n + 1) + 1] = f[n + 1] \o seqs[(n + 1) + 1]
        <4>1. (n + 1) + 1 \in 1 .. Len(seqs) /\ (n + 1) + 1 # 1 /\ ((n + 1) + 1) - 1 = n + 1
          BY <2>2
        <4> DEFINE k == (n + 1) + 1
        <4>2. k \in 1 .. Len(seqs) /\ k # 1 /\ k - 1 = n + 1
          BY <4>1
        <4> HIDE DEF k
        <4>3. f[k] = f[k - 1] \o seqs[k]
          <5>1. f[k] = Extended(f, seqs, k)
            BY <2>1, <4>2, JoinedStep
          <5> QED BY <5>1 DEF Extended
        <4>4. f[k] = f[n + 1] \o seqs[k]
          BY <4>2, <4>3, Zenon
        <4> QED BY <4>4 DEF k
      <3>3. n + 1 \in Nat /\ (n + 1) + 1 <= Len(seqs)
        BY <2>2
      <3>4. \E c, w : Places(f[n + 1] \o seqs[(n + 1) + 1], seqs, (n + 1) + 1, c, w)
        BY <3>1, <3>3, PlacesStep
      <3> QED BY <3>2, <3>4
    <2>5. \A n \in Nat : n \in P
      <3> HIDE DEF P
      <3> QED BY <2>3, <2>4, SetInduction
    <2>6. Len(seqs) - 1 \in Nat /\ (Len(seqs) - 1) + 1 = Len(seqs)
      BY <1>2, <2>2
    <2>7. \E piece, within : Places(f[Len(seqs)], seqs, Len(seqs), piece, within)
      <3>1. Len(seqs) - 1 \in P /\ Len(seqs) - 1 < Len(seqs)
        BY <2>2, <2>5, <2>6
      <3> QED BY <2>6, <3>1
    <2> QED BY <2>1, <2>7
  <1> QED BY <1>1, <1>2

=============================================================================
