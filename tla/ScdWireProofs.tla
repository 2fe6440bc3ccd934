---------------------------- MODULE ScdWireProofs ----------------------------
(***************************************************************************)
(* Proofs about the Assuan client (ScdWire), for every answer of the card, *)
(* every way of cutting it into responses and lines, and any number of     *)
(* status lines: what the client collects is what the card answered        *)
(* (FullResponse).                                                         *)
(*                                                                         *)
(* Two recursive functions stand between the two, the one that escapes a   *)
(* line and the one that decodes it.  That they undo each other is proved  *)
(* by induction on the length, from the well-foundedness of < on Nat.      *)
(***************************************************************************)
EXTENDS ScdWire, SequenceTheorems, WellFoundedInduction, TLAPS

\* Less on the natural numbers, as a set of pairs.
Less == {p \in Nat \X Nat : p[1] < p[2]}

LEMMA LessWF == IsWellFoundedOn(Less, Nat)
<1>1. Less = OpToRel(<, Nat)
  BY DEF Less, OpToRel
<1> QED
  BY <1>1, NatLessThanWellFounded

\* Induction, for a set of numbers.
LEMMA Induct ==
  ASSUME NEW T, T \subseteq Nat, 0 \in T, \A n \in T : n + 1 \in T
  PROVE  Nat \subseteq T
<1> SUFFICES ASSUME NEW z \in Nat, z \notin T PROVE FALSE
  OBVIOUS
<1> DEFINE U == Nat \ T
<1>1. \E x \in U : \A y \in U : ~ (<<y, x>> \in Less)
  <2>1. U \subseteq Nat /\ U # {}
    OBVIOUS
  <2> HIDE DEF U
  <2> QED
    BY <2>1, LessWF, WFMin
<1>2. PICK x \in U : \A y \in U : ~ (<<y, x>> \in Less)
  BY <1>1
<1>3. x # 0 /\ x \in Nat
  OBVIOUS
<1>4. x - 1 \in Nat /\ x - 1 < x
  BY <1>3
<1>5. <<x - 1, x>> \in Less
  BY <1>3, <1>4 DEF Less
<1>6. x - 1 \in T
  BY <1>2, <1>4, <1>5
<1>7. (x - 1) + 1 = x
  BY <1>3
<1> QED
  BY <1>6, <1>7
-----------------------------------------------------------------------------
(* Decoding *)

\* An escape stands for a byte.
LEMMA EscapeIsByte ==
  ASSUME NEW b \in Seq(Byte), NEW i \in 1 .. Len(b)
  PROVE  /\ PercentEscape(b, i) \in Seq(Byte)
         /\ <<b[i]>> \in Seq(Byte)
<1>1. \A c \in Byte : HexVal(c) \in -1 .. 15
  BY DEF HexVal, Byte
<1>2. b[i] \in Byte
  BY ElementOfSeq
<1>3. CASE PercentEscape(b, i) # <<>>
  <2>1. /\ i + 2 <= Len(b) /\ HexVal(b[i + 1]) >= 0 /\ HexVal(b[i + 2]) >= 0
        /\ PercentEscape(b, i) = <<16 * HexVal(b[i + 1]) + HexVal(b[i + 2])>>
    <3>1. Len(b) \in Nat /\ i \in Int
      BY LenProperties
    <3>2. b[i] = Percent /\ ~ (i + 2 > Len(b)) /\ ~ (HexVal(b[i + 1]) < 0) /\ ~ (HexVal(b[i + 2]) < 0)
      BY <1>3 DEF PercentEscape
    <3>3. PercentEscape(b, i) = <<16 * HexVal(b[i + 1]) + HexVal(b[i + 2])>>
      BY <3>2 DEF PercentEscape
    <3>4. i + 2 <= Len(b) /\ i + 1 \in 1 .. Len(b) /\ i + 2 \in 1 .. Len(b)
      BY <3>1, <3>2
    <3>5. HexVal(b[i + 1]) \in Int /\ HexVal(b[i + 2]) \in Int
      <4>1. b[i + 1] \in Byte /\ b[i + 2] \in Byte
        BY <3>4, ElementOfSeq
      <4>2. \A x \in -1 .. 15 : x \in Int
        OBVIOUS
      <4> QED
        BY <1>1, <4>1, <4>2
    <3> QED
      BY <3>2, <3>3, <3>4, <3>5
  <2>2. i + 1 \in 1 .. Len(b) /\ i + 2 \in 1 .. Len(b)
    BY <2>1, LenProperties
  <2>3. HexVal(b[i + 1]) \in 0 .. 15 /\ HexVal(b[i + 2]) \in 0 .. 15
    <3>1. b[i + 1] \in Byte /\ b[i + 2] \in Byte
      BY <2>2, ElementOfSeq
    <3>2. HexVal(b[i + 1]) \in -1 .. 15 /\ HexVal(b[i + 2]) \in -1 .. 15
      BY <1>1, <3>1
    <3>3. \A x \in -1 .. 15 : x >= 0 => x \in 0 .. 15
      OBVIOUS
    <3> QED
      BY <2>1, <3>2, <3>3
  <2>4. \A x, y \in 0 .. 15 : 16 * x + y \in Byte
    BY DEF Byte
  <2>5. 16 * HexVal(b[i + 1]) + HexVal(b[i + 2]) \in Byte
    BY <2>3, <2>4
  <2> QED
    BY <2>1, <2>5
<1>4. <<b[i]>> \in Seq(Byte) /\ <<>> \in Seq(Byte)
  BY <1>2
<1> QED
  BY <1>3, <1>4

\* What DecodePercent does at a place of the line.
Turn(f, b, i) ==
  IF i > Len(b) THEN <<>>
  ELSE IF PercentEscape(b, i) # <<>> THEN PercentEscape(b, i) \o f[i + 3]
  ELSE <<b[i]>> \o f[i + 1]

\* `f' is what is decoded from each place on, from lo to the end.
Decodes(f, b, lo) ==
  /\ f \in [lo .. Len(b) + 3 -> Seq(Byte)]
  /\ \A i \in lo .. Len(b) + 3 : f[i] = Turn(f, b, i)

\* One place more.
LEMMA DecodesFurther ==
  ASSUME NEW b \in Seq(Byte), NEW f, NEW lo \in 1 .. Len(b), Decodes(f, b, lo + 1)
  PROVE  \E g : Decodes(g, b, lo)
<1> DEFINE g == [i \in lo .. Len(b) + 3 |-> IF i = lo THEN Turn(f, b, lo) ELSE f[i]]
<1>1. Len(b) \in Nat /\ lo \in Nat /\ lo >= 1 /\ lo <= Len(b)
  BY LenProperties
<1>2. f[lo + 1] \in Seq(Byte) /\ f[lo + 3] \in Seq(Byte)
  BY <1>1 DEF Decodes
<1>3. Turn(f, b, lo) \in Seq(Byte)
  BY <1>1, <1>2, EscapeIsByte, ConcatProperties DEF Turn
<1>4. g \in [lo .. Len(b) + 3 -> Seq(Byte)]
  BY <1>1, <1>3 DEF Decodes
<1>5. \A i \in lo + 1 .. Len(b) + 3 : g[i] = f[i]
  BY <1>1
<1>6. ASSUME NEW i \in lo .. Len(b) + 3 PROVE Turn(g, b, i) = Turn(f, b, i)
  <2>1. i \in Int /\ i >= lo
    BY <1>1
  <2>2. i <= Len(b) => i + 1 \in lo + 1 .. Len(b) + 3 /\ i + 3 \in lo + 1 .. Len(b) + 3
    BY <1>1, <2>1
  <2>3. i <= Len(b) => g[i + 1] = f[i + 1] /\ g[i + 3] = f[i + 3]
    BY <1>5, <2>2
  <2> HIDE DEF g
  <2>4. i > Len(b) \/ i <= Len(b)
    BY <1>1, <2>1
  <2> QED
    BY <2>3, <2>4 DEF Turn
<1>7. ASSUME NEW i \in lo .. Len(b) + 3 PROVE g[i] = Turn(g, b, i)
  <2>1. CASE i = lo
    BY <1>6, <2>1
  <2>2. CASE i # lo
    <3>1. i \in lo + 1 .. Len(b) + 3
      BY <1>1, <2>2
    <3>2. g[i] = f[i] /\ f[i] = Turn(f, b, i)
      BY <1>5, <3>1 DEF Decodes
    <3> QED
      BY <1>6, <3>2
  <2> QED
    BY <2>1, <2>2
<1>8. Decodes(g, b, lo)
  <2> HIDE DEF g
  <2> QED
    BY <1>4, <1>7 DEF Decodes
<1> QED
  BY <1>8

\* There is such a function for the whole line.
LEMMA DecoderExists ==
  ASSUME NEW b \in Seq(Byte)
  PROVE  \E f : Decodes(f, b, 1)
<1> DEFINE n == Len(b)
           T == {k \in Nat : k <= n => \E f : Decodes(f, b, n + 1 - k)}
<1>1. n \in Nat
  BY LenProperties
<1>2. 0 \in T
  <2> DEFINE f == [i \in n + 1 .. n + 3 |-> <<>>]
  <2>1. Decodes(f, b, n + 1)
    <3>1. f \in [n + 1 .. n + 3 -> Seq(Byte)]
      BY EmptySeq
    <3>2. \A i \in n + 1 .. n + 3 : f[i] = <<>> /\ i > n
      BY <1>1
    <3> HIDE DEF f
    <3> QED
      BY <3>1, <3>2 DEF Decodes, Turn
  <2>2. n + 1 - 0 = n + 1
    BY <1>1
  <2> HIDE DEF f
  <2> QED
    BY <2>1, <2>2
<1>3. ASSUME NEW k \in T PROVE k + 1 \in T
  <2>1. k \in Nat
    OBVIOUS
  <2>2. ASSUME k + 1 <= n PROVE \E f : Decodes(f, b, n + 1 - (k + 1))
    <3>1. k <= n /\ n - k \in 1 .. n /\ n + 1 - k = (n - k) + 1 /\ n + 1 - (k + 1) = n - k
      BY <1>1, <2>1, <2>2
    <3>2. PICK f : Decodes(f, b, (n - k) + 1)
      BY <3>1
    <3> QED
      BY <3>1, <3>2, DecodesFurther
  <2> QED
    BY <2>1, <2>2
<1>4. n \in T
  <2>1. T \subseteq Nat
    OBVIOUS
  <2> HIDE DEF T
  <2> QED
    BY <1>1, <1>2, <1>3, <2>1, Induct
<1>5. n + 1 - n = 1 /\ n <= n
  BY <1>1
<1> QED
  BY <1>4, <1>5

\* And every one gives bytes.
LEMMA DecodesBytes ==
  ASSUME NEW b \in Seq(Byte), NEW f, f = [i \in 1 .. Len(b) + 3 |-> Turn(f, b, i)]
  PROVE  Decodes(f, b, 1)
<1> DEFINE n == Len(b)
           T == {k \in Nat : \A i \in 1 .. n + 3 : i > n - k => f[i] \in Seq(Byte)}
<1>1. n \in Nat
  BY LenProperties
<1>2. 0 \in T
  <2>1. ASSUME NEW i \in 1 .. n + 3, i > n PROVE f[i] \in Seq(Byte)
    BY <2>1, EmptySeq DEF Turn
  <2>2. n - 0 = n
    BY <1>1
  <2> QED
    BY <2>1, <2>2
<1>3. ASSUME NEW k \in T PROVE k + 1 \in T
  <2>1. ASSUME NEW i \in 1 .. n + 3, i > n - (k + 1) PROVE f[i] \in Seq(Byte)
    <3>1. CASE i > n - k
      BY <3>1
    <3>2. CASE i > n
      BY <3>2, EmptySeq DEF Turn
    <3>3. CASE i = n - k /\ i <= n
      <4>1. i \in 1 .. n /\ i + 1 \in 1 .. n + 3 /\ i + 3 \in 1 .. n + 3
            /\ i + 1 > n - k /\ i + 3 > n - k
        BY <1>1, <3>3
      <4>2. f[i + 1] \in Seq(Byte) /\ f[i + 3] \in Seq(Byte)
        BY <4>1
      <4>3. f[i] = Turn(f, b, i)
        OBVIOUS
      <4>4. PercentEscape(b, i) \in Seq(Byte) /\ <<b[i]>> \in Seq(Byte)
        BY <4>1, EscapeIsByte
      <4>5. PercentEscape(b, i) \o f[i + 3] \in Seq(Byte) /\ <<b[i]>> \o f[i + 1] \in Seq(Byte)
        BY <4>2, <4>4, ConcatProperties
      <4>6. Turn(f, b, i) \in Seq(Byte)
        BY <4>5, EmptySeq DEF Turn
      <4> QED
        BY <4>3, <4>6
    <3> QED
      BY <1>1, <2>1, <3>1, <3>2, <3>3
  <2> QED
    BY <2>1
<1>4. n \in T
  <2>1. T \subseteq Nat
    OBVIOUS
  <2> HIDE DEF T
  <2> QED
    BY <1>1, <1>2, <1>3, <2>1, Induct
<1>5. \A i \in 1 .. n + 3 : f[i] \in Seq(Byte)
  <2>1. \A i \in 1 .. n + 3 : i > n - n
    BY <1>1
  <2> QED
    BY <1>4, <2>1
<1> QED
  BY <1>5 DEF Decodes

\* DecodePercent is what that function gives from the first byte on.
LEMMA DecodedFrom ==
  ASSUME NEW b \in Seq(Byte)
  PROVE  \E f : Decodes(f, b, 1) /\ DecodePercent(b) = f[1]
<1> DEFINE from ==
      CHOOSE from : from = [i \in 1 .. Len(b) + 3 |->
        IF i > Len(b) THEN <<>>
        ELSE IF PercentEscape(b, i) # <<>> THEN PercentEscape(b, i) \o from[i + 3]
        ELSE <<b[i]>> \o from[i + 1]]
<1>1. PICK f : Decodes(f, b, 1)
  BY DecoderExists
<1>2. f = [i \in 1 .. Len(b) + 3 |->
        IF i > Len(b) THEN <<>>
        ELSE IF PercentEscape(b, i) # <<>> THEN PercentEscape(b, i) \o f[i + 3]
        ELSE <<b[i]>> \o f[i + 1]]
  BY <1>1 DEF Decodes, Turn
<1>3. from = [i \in 1 .. Len(b) + 3 |->
        IF i > Len(b) THEN <<>>
        ELSE IF PercentEscape(b, i) # <<>> THEN PercentEscape(b, i) \o from[i + 3]
        ELSE <<b[i]>> \o from[i + 1]]
  BY <1>2
<1>4. DecodePercent(b) = from[1]
  BY DEF DecodePercent
<1> HIDE DEF from
<1>5. from = [i \in 1 .. Len(b) + 3 |-> Turn(from, b, i)]
  BY <1>3 DEF Turn
<1>6. Decodes(from, b, 1)
  BY <1>5, DecodesBytes
<1> QED
  BY <1>4, <1>6

\* Whatever a line holds, it decodes to bytes.
LEMMA DecodedBytes == ASSUME NEW b \in Seq(Byte) PROVE DecodePercent(b) \in Seq(Byte)
<1>1. PICK f : Decodes(f, b, 1) /\ DecodePercent(b) = f[1]
  BY DecodedFrom
<1>2. 1 \in 1 .. Len(b) + 3
  BY LenProperties
<1> QED
  BY <1>1, <1>2 DEF Decodes

\* The second part of a line decodes as it would alone.
LEMMA TailDecodes ==
  ASSUME NEW e \in Seq(Byte), NEW t \in Seq(Byte), NEW f, NEW g,
         Decodes(f, e \o t, 1), Decodes(g, t, 1)
  PROVE  f[Len(e) + 1] = g[1]
<1> DEFINE b == e \o t
           m == Len(e)
           n == Len(t)
           T == {k \in Nat : \A i \in 1 .. n + 3 : i > n - k => f[m + i] = g[i]}
<1>1. m \in Nat /\ n \in Nat /\ b \in Seq(Byte) /\ Len(b) = m + n
  BY LenProperties, ConcatProperties
<1>2. \A i \in 1 .. n : b[m + i] = t[i]
  <2> SUFFICES ASSUME NEW i \in 1 .. n PROVE b[m + i] = t[i]
    OBVIOUS
  <2>1. m + i \in 1 .. m + n /\ ~ (m + i <= m) /\ (m + i) - m = i
    BY <1>1
  <2> QED
    BY <2>1, ConcatProperties
<1>3. \A i \in 1 .. n : PercentEscape(b, m + i) = PercentEscape(t, i)
  <2> SUFFICES ASSUME NEW i \in 1 .. n PROVE PercentEscape(b, m + i) = PercentEscape(t, i)
    OBVIOUS
  <2> HIDE DEF b
  <2>1. (m + i) + 2 > Len(b) <=> i + 2 > n
    BY <1>1
  <2>2. ~ (i + 2 > n) => /\ b[(m + i) + 1] = t[i + 1]
                         /\ b[(m + i) + 2] = t[i + 2]
    <3> SUFFICES ASSUME ~ (i + 2 > n) PROVE b[(m + i) + 1] = t[i + 1] /\ b[(m + i) + 2] = t[i + 2]
      OBVIOUS
    <3>1. i + 1 \in 1 .. n /\ i + 2 \in 1 .. n /\ (m + i) + 1 = m + (i + 1) /\ (m + i) + 2 = m + (i + 2)
      BY <1>1
    <3> QED
      BY <1>2, <3>1
  <2>3. b[m + i] = t[i]
    BY <1>2
  <2> HIDE DEF m, n
  <2> QED
    BY <2>1, <2>2, <2>3 DEF PercentEscape, n
<1>4. \A i \in 1 .. n + 3 : /\ g[i] = Turn(g, t, i)
                            /\ f[m + i] = Turn(f, b, m + i)
  <2> SUFFICES ASSUME NEW i \in 1 .. n + 3 PROVE g[i] = Turn(g, t, i) /\ f[m + i] = Turn(f, b, m + i)
    OBVIOUS
  <2>1. m + i \in 1 .. Len(b) + 3
    BY <1>1
  <2> HIDE DEF b
  <2> QED
    BY <2>1 DEF Decodes, b
<1>5. 0 \in T
  <2>1. ASSUME NEW i \in 1 .. n + 3, i > n PROVE f[m + i] = g[i]
    <3>1. m + i > Len(b)
      BY <1>1, <2>1
    <3> HIDE DEF b
    <3> QED
      BY <1>4, <2>1, <3>1 DEF Turn
  <2>2. n - 0 = n
    BY <1>1
  <2> QED
    BY <2>1, <2>2
<1>6. ASSUME NEW k \in T PROVE k + 1 \in T
  <2>1. ASSUME NEW i \in 1 .. n + 3, i > n - (k + 1), ~ (i > n - k), i <= n PROVE f[m + i] = g[i]
    <3>1. i \in 1 .. n /\ i + 1 \in 1 .. n + 3 /\ i + 3 \in 1 .. n + 3 /\ i + 1 > n - k /\ i + 3 > n - k
      BY <1>1, <2>1
    <3>2. f[m + (i + 1)] = g[i + 1] /\ f[m + (i + 3)] = g[i + 3]
      BY <3>1
    <3>3. (m + i) + 1 = m + (i + 1) /\ (m + i) + 3 = m + (i + 3) /\ ~ (m + i > Len(b)) /\ ~ (i > n)
      BY <1>1, <2>1
    <3>4. PercentEscape(b, m + i) = PercentEscape(t, i) /\ b[m + i] = t[i]
      BY <1>2, <1>3, <3>1
    <3> HIDE DEF b, m, T
    <3>5. Turn(f, b, m + i) = Turn(g, t, i)
      BY <3>2, <3>3, <3>4 DEF Turn
    <3> QED
      BY <1>4, <3>5
  <2>2. ASSUME NEW i \in 1 .. n + 3, i > n - (k + 1) PROVE f[m + i] = g[i]
    <3>1. i > n - k => f[m + i] = g[i]
      OBVIOUS
    <3>2. i > n => i > n - k
      BY <1>1
    <3>3. i > n \/ i <= n
      BY <1>1
    <3> QED
      BY <2>1, <2>2, <3>1, <3>2, <3>3
  <2> QED
    BY <2>2
<1>7. n \in T
  <2>1. T \subseteq Nat
    OBVIOUS
  <2> HIDE DEF T
  <2> QED
    BY <1>1, <1>5, <1>6, <2>1, Induct
<1>8. 1 \in 1 .. n + 3 /\ 1 > n - n
  BY <1>1
<1> QED
  BY <1>7, <1>8

\* A byte that was escaped is decoded to itself, whatever follows.
LEMMA EscapeDecodes ==
  ASSUME NEW x \in Byte, NEW t \in Seq(Byte)
  PROVE  /\ Escaped(x) \in Seq(Byte)
         /\ DecodePercent(Escaped(x) \o t) = <<x>> \o DecodePercent(t)
<1> DEFINE e == Escaped(x)
           b == e \o t
<1>1. e \in Seq(Byte)
  <2>1. {37, 50, 53, 48, 68, 65} \subseteq Byte
    BY DEF Byte
  <2>2. \A u, v, w \in Byte : <<u, v, w>> \in Seq(Byte)
    OBVIOUS
  <2>3. <<37, 50, 53>> \in Seq(Byte) /\ <<37, 48, 68>> \in Seq(Byte) /\ <<37, 48, 65>> \in Seq(Byte)
    BY <2>1, <2>2
  <2>4. <<x>> \in Seq(Byte)
    OBVIOUS
  <2>5. e \in { <<37, 50, 53>>, <<37, 48, 68>>, <<37, 48, 65>>, <<x>> }
    BY DEF Escaped
  <2> QED
    BY <2>3, <2>4, <2>5
<1>2. PICK f : Decodes(f, b, 1) /\ DecodePercent(b) = f[1]
  BY <1>1, ConcatProperties, DecodedFrom
<1>3. PICK g : Decodes(g, t, 1) /\ DecodePercent(t) = g[1]
  BY DecodedFrom
<1>4. f[Len(e) + 1] = g[1]
  BY <1>1, <1>2, <1>3, TailDecodes
<1>5. /\ Len(e) \in Nat /\ Len(t) \in Nat /\ Len(b) = Len(e) + Len(t)
      /\ \A i \in 1 .. Len(e) : b[i] = e[i]
  <2>1. Len(e) \in Nat /\ Len(t) \in Nat
    BY <1>1, LenProperties
  <2>2. \A i \in 1 .. Len(e) : i \in 1 .. Len(e) + Len(t) /\ i <= Len(e)
    BY <2>1
  <2> QED
    BY <1>1, <2>1, <2>2, ConcatProperties
<1>6. CASE x \in {Percent, 13, 10}
  <2>1. /\ e = IF x = Percent THEN <<37, 50, 53>> ELSE IF x = 13 THEN <<37, 48, 68>> ELSE <<37, 48, 65>>
    BY <1>6 DEF Escaped, Percent
  <2>2. Len(e) = 3 /\ e[1] = Percent /\ HexVal(e[2]) >= 0 /\ HexVal(e[3]) >= 0
        /\ HexVal(e[2]) \in Int /\ HexVal(e[3]) \in Int
        /\ 16 * HexVal(e[2]) + HexVal(e[3]) = x
    BY <1>6, <2>1 DEF HexVal, Percent
  <2> HIDE DEF e, b
  <2>3. b[1] = e[1] /\ b[2] = e[2] /\ b[3] = e[3] /\ Len(b) >= 3
    BY <1>5, <2>2
  <2>4. PercentEscape(b, 1) = <<x>>
    <3>1. ~ (1 + 2 > Len(b)) /\ 1 + 1 = 2 /\ 1 + 2 = 3
      BY <1>5, <2>2, <2>3
    <3> QED
      BY <2>2, <2>3, <3>1 DEF PercentEscape
  <2>5. f[1] = <<x>> \o f[4]
    <3>1. 1 \in 1 .. Len(b) + 3 /\ ~ (1 > Len(b)) /\ 1 + 3 = 4
      BY <1>5, <2>2
    <3>2. f[1] = Turn(f, b, 1)
      BY <1>2, <3>1 DEF Decodes
    <3>3. <<x>> # <<>>
      OBVIOUS
    <3> QED
      BY <2>4, <3>1, <3>2, <3>3 DEF Turn
  <2>6. Len(e) + 1 = 4
    BY <2>2
  <2> QED
    BY <1>1, <1>2, <1>3, <1>4, <2>5, <2>6 DEF e, b
<1>7. CASE x \notin {Percent, 13, 10}
  <2>1. e = <<x>>
    BY <1>7 DEF Escaped
  <2>2. Len(e) = 1 /\ e[1] = x
    BY <2>1
  <2> HIDE DEF e, b
  <2>3. b[1] = x /\ Len(b) >= 1
    BY <1>5, <2>2
  <2>4. PercentEscape(b, 1) = <<>>
    BY <1>7, <2>3 DEF PercentEscape
  <2>5. f[1] = <<x>> \o f[2]
    <3>1. 1 \in 1 .. Len(b) + 3 /\ ~ (1 > Len(b)) /\ 1 + 1 = 2
      BY <1>5, <2>2
    <3>2. f[1] = Turn(f, b, 1)
      BY <1>2, <3>1 DEF Decodes
    <3> QED
      BY <2>3, <2>4, <3>1, <3>2 DEF Turn
  <2>6. Len(e) + 1 = 2
    BY <2>2
  <2> QED
    BY <1>1, <1>2, <1>3, <1>4, <2>5, <2>6 DEF e, b
<1> QED
  BY <1>6, <1>7

\* And no bytes decode to none.
LEMMA NothingDecodes == DecodePercent(<<>>) = <<>>
<1>1. <<>> \in Seq(Byte) /\ Len(<<>>) = 0
  OBVIOUS
<1>2. PICK f : Decodes(f, <<>>, 1) /\ DecodePercent(<<>>) = f[1]
  BY <1>1, DecodedFrom
<1>3. f[1] = Turn(f, <<>>, 1)
  <2>1. 1 \in 1 .. Len(<<>>) + 3
    OBVIOUS
  <2> QED
    BY <1>2, <2>1 DEF Decodes
<1>4. Turn(f, <<>>, 1) = <<>>
  BY DEF Turn
<1> QED
  BY <1>2, <1>3, <1>4
-----------------------------------------------------------------------------
(* A line of data *)

\* `fl' joins the first i of the sequences, for each i.
Joins(fl, ss, n) ==
  fl = [i \in 1 .. n |-> IF i = 1 THEN ss[i] ELSE fl[i - 1] \o ss[i]]

\* There is such a function.
LEMMA JoinsExists ==
  ASSUME NEW ss, NEW n \in Nat
  PROVE  \E fl : Joins(fl, ss, n)
<1> DEFINE T == {k \in Nat : \E fl : Joins(fl, ss, k)}
<1>1. 0 \in T
  <2>1. Joins([i \in 1 .. 0 |-> 0], ss, 0)
    BY DEF Joins
  <2> QED
    BY <2>1
<1>2. ASSUME NEW k \in T PROVE k + 1 \in T
  <2>1. k \in Nat
    OBVIOUS
  <2>2. PICK fl : Joins(fl, ss, k)
    BY <1>2
  <2> DEFINE gl == [i \in 1 .. k + 1 |-> IF i = 1 THEN ss[i] ELSE fl[i - 1] \o ss[i]]
  <2>3. \A i \in 1 .. k : gl[i] = fl[i]
    <3> SUFFICES ASSUME NEW i \in 1 .. k PROVE gl[i] = fl[i]
      OBVIOUS
    <3>1. i \in 1 .. k + 1
      BY <2>1
    <3>2. fl[i] = IF i = 1 THEN ss[i] ELSE fl[i - 1] \o ss[i]
      BY <2>2 DEF Joins
    <3> QED
      BY <3>1, <3>2
  <2>4. \A i \in 1 .. k + 1 : i = 1 \/ gl[i - 1] = fl[i - 1]
    <3> SUFFICES ASSUME NEW i \in 1 .. k + 1, i # 1 PROVE gl[i - 1] = fl[i - 1]
      OBVIOUS
    <3>1. i - 1 \in 1 .. k
      BY <2>1
    <3> QED
      BY <2>3, <3>1
  <2>5. gl = [i \in 1 .. k + 1 |-> IF i = 1 THEN ss[i] ELSE gl[i - 1] \o ss[i]]
    <3>1. \A i \in 1 .. k + 1 : gl[i] = IF i = 1 THEN ss[i] ELSE gl[i - 1] \o ss[i]
      BY <2>4
    <3>2. gl = [i \in 1 .. k + 1 |-> gl[i]]
      OBVIOUS
    <3> HIDE DEF gl
    <3> QED
      BY <3>1, <3>2
  <2> HIDE DEF gl
  <2>6. Joins(gl, ss, k + 1)
    BY <2>5 DEF Joins
  <2> QED
    BY <2>1, <2>6
<1>3. Nat \subseteq T
  <2>1. T \subseteq Nat
    OBVIOUS
  <2> HIDE DEF T
  <2> QED
    BY <1>1, <1>2, <2>1, Induct
<1> QED
  BY <1>3

\* FlattenSeq is the last of what it gives.
LEMMA FlattenJoins ==
  ASSUME NEW ss, Len(ss) \in Nat, Len(ss) # 0
  PROVE  \E fl : Joins(fl, ss, Len(ss)) /\ FlattenSeq(ss) = fl[Len(ss)]
<1> DEFINE flatten ==
      CHOOSE flatten : flatten = [i \in 1 .. Len(ss) |-> IF i = 1 THEN ss[i] ELSE flatten[i - 1] \o ss[i]]
<1>1. flatten = [i \in 1 .. Len(ss) |-> IF i = 1 THEN ss[i] ELSE flatten[i - 1] \o ss[i]]
  BY JoinsExists DEF Joins
<1>2. FlattenSeq(ss) = flatten[Len(ss)]
  BY DEF FlattenSeq
<1> QED
  BY <1>1, <1>2 DEF Joins

\* Bytes are joined in any order.
LEMMA BytesAssociate ==
  \A u, v, w \in Seq(Byte) : (u \o v) \o w = u \o (v \o w) /\ u \o v \in Seq(Byte)
BY ConcatAssociative, ConcatProperties

LEMMA ByteAssociates ==
  ASSUME NEW u \in Seq(Byte), NEW y \in Byte, NEW w \in Seq(Byte)
  PROVE  (u \o <<y>>) \o w = u \o (<<y>> \o w)
<1>1. <<y>> \in Seq(Byte)
  OBVIOUS
<1> QED
  BY <1>1, BytesAssociate

\* What the agent escapes is what the client decodes.
LEMMA LineDecodes ==
  ASSUME NEW out \in Seq(Byte), NEW k \in 1 .. Len(out)
  PROVE  LET bytes == FlattenSeq([i \in 1 .. k |-> Escaped(out[i])])
         IN  bytes \in Seq(Byte) /\ DecodePercent(bytes) = SubSeq(out, 1, k)
<1> DEFINE ss == [i \in 1 .. k |-> Escaped(out[i])]
<1>1. k \in Nat /\ k # 0 /\ Len(out) \in Nat /\ Len(ss) = k
  BY LenProperties
<1>2. PICK fl : Joins(fl, ss, k) /\ FlattenSeq(ss) = fl[k]
  BY <1>1, FlattenJoins
<1> DEFINE Good(i) == /\ fl[i] \in Seq(Byte)
                      /\ \A t \in Seq(Byte) :
                           DecodePercent(fl[i] \o t) = SubSeq(out, 1, i) \o DecodePercent(t)
           T == {j \in Nat : j + 1 <= k => Good(j + 1)}
<1>3. \A i \in 1 .. k : fl[i] = IF i = 1 THEN Escaped(out[i]) ELSE fl[i - 1] \o Escaped(out[i])
  <2> HIDE DEF ss
  <2>1. \A i \in 1 .. k : fl[i] = IF i = 1 THEN ss[i] ELSE fl[i - 1] \o ss[i]
    BY <1>2 DEF Joins
  <2>2. \A i \in 1 .. k : ss[i] = Escaped(out[i])
    BY DEF ss
  <2> QED
    BY <2>1, <2>2
<1>4. \A i \in 1 .. k : out[i] \in Byte /\ SubSeq(out, 1, i) \in Seq(Byte)
  <2> SUFFICES ASSUME NEW i \in 1 .. k PROVE out[i] \in Byte /\ SubSeq(out, 1, i) \in Seq(Byte)
    OBVIOUS
  <2>1. \A j \in 1 .. i : j \in 1 .. Len(out)
    BY <1>1
  <2>2. i \in 1 .. i /\ i \in Int
    BY <1>1
  <2> QED
    BY <2>1, <2>2, ElementOfSeq, SubSeqProperties
<1>5. 0 \in T
  <2>1. fl[1] = Escaped(out[1]) /\ SubSeq(out, 1, 1) = <<out[1]>> /\ 1 \in 1 .. k
    <3>1. 1 \in 1 .. k /\ 1 \in 1 .. Len(out) /\ 1 \in 1 .. 1 /\ 1 + 1 = 2
      BY <1>1
    <3>2. out[1] \in Byte
      BY <1>4, <3>1
    <3>3. SubSeq(out, 1, 1) = <<out[1]>> \o SubSeq(out, 2, 1)
      <4> HIDE DEF ss
      <4>1. 1 \in 1 .. Len(out)
        BY <3>1
      <4> QED
        BY <4>1, SubSeqRecursiveFirst
    <3>4. SubSeq(out, 2, 1) = <<>> /\ <<out[1]>> \o <<>> = <<out[1]>>
      BY <3>2, SubSeqEmpty, ConcatEmptySeq
    <3> QED
      BY <1>3, <3>1, <3>3, <3>4
  <2>2. Good(1)
    BY <1>4, <2>1, EscapeDecodes
  <2> QED
    BY <2>2
<1>6. ASSUME NEW j \in T PROVE j + 1 \in T
  <2> SUFFICES ASSUME (j + 1) + 1 <= k PROVE Good((j + 1) + 1)
    OBVIOUS
  <2> DEFINE i == j + 1
             x == out[i + 1]
  <2>1. j \in Nat /\ i \in 1 .. k /\ i + 1 \in 1 .. k /\ (i + 1) - 1 = i /\ i + 1 # 1 /\ i <= k
    BY <1>1
  <2>2. Good(i)
    BY <2>1
  <2>3. x \in Byte /\ SubSeq(out, 1, i) \in Seq(Byte) /\ fl[i + 1] = fl[i] \o Escaped(x)
    BY <1>3, <1>4, <2>1
  <2>4. SubSeq(out, 1, i + 1) = SubSeq(out, 1, i) \o <<x>>
    <3>1. 1 \in 1 .. Len(out) /\ i + 1 \in 1 .. Len(out)
      BY <1>1, <2>1
    <3> QED
      BY <2>1, <3>1, SubSeqRecursiveSecond
  <2>5. Escaped(x) \in Seq(Byte) /\ <<x>> \in Seq(Byte)
    <3>1. <<x>> \in Seq(Byte)
      BY <2>3
    <3> HIDE DEF x, i, T, ss
    <3>2. Escaped(x) \in Seq(Byte)
      BY <2>3, EscapeDecodes, EmptySeq
    <3> QED
      BY <3>1, <3>2
  <2> HIDE DEF x, i, T
  <2>6. fl[i + 1] \in Seq(Byte)
    BY <2>2, <2>3, <2>5, ConcatProperties
  <2>7. ASSUME NEW t \in Seq(Byte)
        PROVE  DecodePercent(fl[i + 1] \o t) = SubSeq(out, 1, i + 1) \o DecodePercent(t)
    <3>1. Escaped(x) \o t \in Seq(Byte) /\ DecodePercent(t) \in Seq(Byte)
      BY <2>5, ConcatProperties, DecodedBytes
    <3>2. fl[i + 1] \o t = fl[i] \o (Escaped(x) \o t)
      <4>1. fl[i] \in Seq(Byte)
        BY <2>2
      <4>2. (fl[i] \o Escaped(x)) \o t = fl[i] \o (Escaped(x) \o t)
        BY <2>5, <4>1, BytesAssociate
      <4> QED
        BY <2>3, <4>2
    <3>3. DecodePercent(fl[i] \o (Escaped(x) \o t)) = SubSeq(out, 1, i) \o DecodePercent(Escaped(x) \o t)
      BY <2>2, <3>1
    <3>4. DecodePercent(Escaped(x) \o t) = <<x>> \o DecodePercent(t)
      BY <2>3, EscapeDecodes
    <3>5. SubSeq(out, 1, i) \o (<<x>> \o DecodePercent(t)) = SubSeq(out, 1, i + 1) \o DecodePercent(t)
      <4>1. (SubSeq(out, 1, i) \o <<x>>) \o DecodePercent(t) = SubSeq(out, 1, i) \o (<<x>> \o DecodePercent(t))
        BY <2>3, <3>1, ByteAssociates
      <4> QED
        BY <2>4, <4>1
    <3> QED
      BY <3>2, <3>3, <3>4, <3>5
  <2>8. Good(i + 1)
    BY <2>6, <2>7
  <2> HIDE DEF Good
  <2> QED
    BY <2>8 DEF i
<1>7. Nat \subseteq T
  <2>1. T \subseteq Nat
    OBVIOUS
  <2> HIDE DEF T
  <2> QED
    BY <1>5, <1>6, <2>1, Induct
<1>8. Good(k)
  <2>1. k - 1 \in Nat /\ (k - 1) + 1 = k /\ k <= k
    BY <1>1
  <2>2. k - 1 \in T
    BY <1>7, <2>1
  <2> QED
    BY <2>1, <2>2
<1>9. DecodePercent(fl[k] \o <<>>) = SubSeq(out, 1, k) \o <<>>
  BY <1>8, NothingDecodes, EmptySeq
<1>10. fl[k] \o <<>> = fl[k] /\ SubSeq(out, 1, k) \o <<>> = SubSeq(out, 1, k)
  BY <1>4, <1>8, ConcatEmptySeq
<1> QED
  BY <1>2, <1>8, <1>9, <1>10
-----------------------------------------------------------------------------
(* The invariant *)

Kinds == {"OK", "ERR", "EOF", "D", "S", "#", "INQUIRE"}
Lines == [is : Kinds, bytes : Seq(Byte)]

Whole == full[1].data \o full[1].sw

\* Bytes are bytes, whoever holds them.
WireTypes ==
  /\ card.rest \in Seq(Byte) /\ card.sw \in Byte \X Byte /\ card.sw[1] # 97
  /\ agent = [pc |-> agent.pc, out |-> agent.out, noise |-> agent.noise]
  /\ agent.pc \in {"greet", "idle", "answer", "inquire", "closed"}
  /\ agent.out \in Seq(Byte) /\ agent.noise \in 0 .. MaxNoise
  /\ wire \in Seq(Lines)
  /\ client = [pc |-> client.pc, data |-> client.data, resp |-> client.resp, result |-> client.result]
  /\ client.pc \in {"greeting", "serialno", "apdu", "done"}
  /\ client.data \in Seq(Byte) /\ client.resp \in Seq(Byte)
  /\ full # <<>> => full[1] \in CardAnswer
  /\ mixed \in BOOLEAN
  /\ agent.pc = "greet" => client.pc = "greeting"

\* A line takes what is decoded of R from lo to hi.
Carries(line, R, lo, hi) ==
  IF line.is = "D" THEN lo <= hi /\ DecodePercent(line.bytes) = SubSeq(R, lo + 1, hi) ELSE hi = lo

\* The response R is cut into what the client has, the lines on the wire, and what the agent
\* has still to send; an OK says that nothing is.
Cut(R, at) ==
  /\ R \in Seq(Byte)
  /\ at \in [1 .. Len(wire) + 1 -> 0 .. Len(R)]
  /\ client.data = SubSeq(R, 1, at[1])
  /\ \A k \in 1 .. Len(wire) :
       /\ Carries(wire[k], R, at[k], at[k + 1])
       /\ wire[k].is = "OK" => k = Len(wire) /\ at[k] = Len(R) /\ agent.pc = "idle"
  /\ agent.pc = "answer" => agent.out = SubSeq(R, at[Len(wire) + 1] + 1, Len(R))

\* A response is the end of what the card answers, or says that the rest is yet to be asked
\* for.
Settled(R) ==
  ~ mixed =>
    /\ full # <<>>
    /\ \/ Len(R) >= 2 /\ R[Len(R) - 1] # 97 /\ client.resp \o R = Whole
       \/ \E chunk \in Seq(Byte), left \in Byte :
            /\ R = chunk \o <<97, left>>
            /\ (client.resp \o chunk) \o (card.rest \o card.sw) = Whole

\* The command is on its way, or its answer is.
Asking ==
  /\ agent.pc = "idle" /\ wire = <<>> /\ client.data = <<>>
  /\ \/ client.pc = "serialno" /\ command = <<"SERIALNO">> /\ agent.out = <<>> /\ client.resp = <<>>
     \/ client.pc = "apdu" /\ command = <<"APDU">> /\ client.resp = <<>>
     \/ /\ client.pc = "apdu" /\ \E left \in Byte : command = <<"GET RESPONSE", left>>
        /\ ~ mixed => full # <<>> /\ client.resp \o (card.rest \o card.sw) = Whole

Answering ==
  /\ command = <<>>
  /\ \E R, at : /\ Cut(R, at)
                /\ client.pc = "serialno" => R = <<>> /\ client.resp = <<>>
                /\ client.pc = "apdu" => Settled(R)

Greeted ==
  /\ command = <<>> /\ client.data = <<>> /\ client.resp = <<>> /\ agent.out = <<>>
  /\ \/ agent.pc = "greet" /\ wire = <<>>
     \/ agent.pc = "idle" /\ wire = << Line("OK", <<>>) >>
     \/ agent.pc = "closed" /\ wire = << Line("ERR", <<>>) >>

Done ==
  /\ command = <<>>
  /\ Answered => /\ client.result.status.retries \in 0 .. 15
                 /\ client.result.cert = CertOf(SplitSw(client.resp)[1])
                 /\ ~ mixed => full # <<>> /\ client.resp = Whole

ScdIInv ==
  /\ WireTypes
  /\ client.pc = "greeting" => Greeted
  /\ client.pc \in {"serialno", "apdu"} => Asking \/ Answering
  /\ client.pc = "done" => Done

\* It holds when the client connects.
LEMMA InitScdIInv == ScdInit => ScdIInv
<1> SUFFICES ASSUME ScdInit PROVE ScdIInv
  OBVIOUS
<1>1. 105 \in Byte /\ 133 \in Byte
  BY DEF Byte
<1>2. 0 \in 0 .. MaxNoise
  BY ScdAssumption DEF ScdAssumption
<1>3. WireTypes
  <2>1. <<105, 133>> \in Byte \X Byte /\ <<105, 133>>[1] # 97
    BY <1>1
  <2> QED
    BY <1>2, <2>1, EmptySeq DEF ScdInit, WireTypes
<1>4. client.pc = "greeting" /\ Greeted
  BY DEF ScdInit, Greeted
<1> QED
  BY <1>3, <1>4 DEF ScdIInv
-----------------------------------------------------------------------------
(* A response of the card *)

\* The least of two numbers is one of them.
LEMMA MinOfTwo == \A x, y \in Nat : Min({x, y}) \in Nat
<1> SUFFICES ASSUME NEW x \in Nat, NEW y \in Nat PROVE Min({x, y}) \in Nat
  OBVIOUS
<1>1. \E z \in {x, y} : \A w \in {x, y} : z <= w
  <2>1. x <= y \/ y <= x
    OBVIOUS
  <2>2. x <= x /\ y <= y
    OBVIOUS
  <2> QED
    BY <2>1, <2>2
<1>2. Min({x, y}) \in {x, y}
  BY <1>1 DEF Min
<1> QED
  BY <1>2

\* The two bytes of a status.
LEMMA PairIsSeq == \A sw \in Byte \X Byte : sw \in Seq(Byte) /\ Len(sw) = 2
<1> SUFFICES ASSUME NEW sw \in Byte \X Byte PROVE sw \in Seq(Byte) /\ Len(sw) = 2
  OBVIOUS
<1>1. PICK u \in Byte, v \in Byte : sw = <<u, v>>
  OBVIOUS
<1>2. <<u, v>> \in Seq(Byte) /\ Len(<<u, v>>) = 2
  OBVIOUS
<1> QED
  BY <1>1, <1>2

\* Two pieces and what follows.
LEMMA PiecesJoin ==
  ASSUME NEW rest \in Seq(Byte), NEW w \in Seq(Byte), NEW n \in 0 .. Len(rest)
  PROVE  /\ SubSeq(rest, 1, n) \in Seq(Byte) /\ SubSeq(rest, n + 1, Len(rest)) \in Seq(Byte)
         /\ SubSeq(rest, 1, n) \o SubSeq(rest, n + 1, Len(rest)) = rest
         /\ SubSeq(rest, 1, n) \o (SubSeq(rest, n + 1, Len(rest)) \o w) = rest \o w
<1> DEFINE chunk == SubSeq(rest, 1, n)
           more == SubSeq(rest, n + 1, Len(rest))
<1>1. Len(rest) \in Nat /\ n \in Nat /\ n <= Len(rest)
  BY LenProperties
<1>2. 1 \in 1 .. Len(rest) + 1 /\ 1 - 1 = 0 /\ Len(rest) \in n .. Len(rest) /\ n \in (1 - 1) .. Len(rest)
  BY <1>1
<1>3. \A i \in 1 .. n : i \in 1 .. Len(rest)
  BY <1>1
<1>4. \A i \in n + 1 .. Len(rest) : i \in 1 .. Len(rest)
  BY <1>1
<1>5. chunk \in Seq(Byte) /\ more \in Seq(Byte)
  BY <1>1, <1>3, <1>4, ElementOfSeq, SubSeqProperties
<1>6. chunk \o more = SubSeq(rest, 1, Len(rest))
  BY <1>2, ConcatAdjacentSubSeq
<1>7. chunk \o more = rest
  BY <1>6, SubSeqFull
<1> HIDE DEF chunk, more
<1>8. (chunk \o more) \o w = chunk \o (more \o w)
  BY <1>5, BytesAssociate
<1> QED
  BY <1>5, <1>7, <1>8 DEF chunk, more

\* The response R gives w, or a piece of it and says that more is left.
Gives(R, w, more) ==
  \/ R = w
  \/ \E chunk \in Seq(Byte), left \in Byte : R = chunk \o <<97, left>> /\ chunk \o more = w

\* What a response holds is the whole of what is left, or a piece and how much more there is.
LEMMA RespondGives ==
  ASSUME NEW rest \in Seq(Byte), NEW sw \in Byte \X Byte, sw[1] # 97, NEW most \in Nat,
         Respond(rest, sw, most)
  PROVE  \E R \in Seq(Byte) :
           /\ agent' = [agent EXCEPT !.pc = "answer", !.out = R]
           /\ card'.rest \in Seq(Byte) /\ card'.sw \in Byte \X Byte /\ card'.sw[1] # 97
           /\ Gives(R, rest \o sw, card'.rest \o card'.sw)
<1> DEFINE n == Min({most, MaxChunk})
<1>1. n \in Nat
  BY MinOfTwo, ScdAssumption DEF ScdAssumption
<1>2. Len(rest) \in Nat
  BY LenProperties
<1>3. sw \in Seq(Byte)
  BY PairIsSeq
<1>4. CASE Len(rest) <= n
  <2>1. /\ agent' = [agent EXCEPT !.pc = "answer", !.out = rest \o sw]
        /\ card' = [rest |-> <<>>, sw |-> <<105, 133>>]
    BY <1>4 DEF Respond
  <2>2. 105 \in Byte /\ 133 \in Byte
    BY DEF Byte
  <2>3. card'.rest \in Seq(Byte) /\ card'.sw \in Byte \X Byte /\ card'.sw[1] # 97
    BY <2>1, <2>2, EmptySeq
  <2>4. rest \o sw \in Seq(Byte)
    BY <1>3, ConcatProperties
  <2> QED
    BY <2>1, <2>3, <2>4 DEF Gives
<1>5. CASE ~ (Len(rest) <= n)
  <2> DEFINE chunk == SubSeq(rest, 1, n)
             more == SubSeq(rest, n + 1, Len(rest))
             left == IF Len(rest) - n >= Wide THEN 0 ELSE Len(rest) - n
  <2>1. /\ agent' = [agent EXCEPT !.pc = "answer", !.out = chunk \o <<97, left>>]
        /\ card' = [rest |-> more, sw |-> sw]
    BY <1>5 DEF Respond
  <2>2. left \in Byte
    <3>1. Wide \in 0 .. 256
      BY ScdAssumption DEF ScdAssumption
    <3>2. Len(rest) - n \in Nat
      BY <1>1, <1>2, <1>5
    <3>3. ASSUME NEW d \in Nat, ~ (d >= Wide) PROVE d \in 0 .. 255
      BY <3>1, <3>3
    <3>4. 0 \in 0 .. 255
      OBVIOUS
    <3> HIDE DEF n
    <3> QED
      BY <3>2, <3>3, <3>4 DEF Byte
  <2>3. chunk \in Seq(Byte) /\ more \in Seq(Byte) /\ chunk \o (more \o sw) = rest \o sw
    <3> HIDE DEF n
    <3>1. n \in 0 .. Len(rest)
      BY <1>1, <1>2, <1>5
    <3> QED
      BY <1>3, <3>1, PiecesJoin
  <2>4. 97 \in Byte
    BY DEF Byte
  <2> HIDE DEF chunk, more, left, n
  <2>5. chunk \o <<97, left>> \in Seq(Byte)
    <3>1. <<97, left>> \in Seq(Byte)
      BY <2>2, <2>4
    <3> QED
      BY <2>3, <3>1, BytesAssociate
  <2>6. card'.rest = more /\ card'.sw = sw
    BY <2>1
  <2> QED
    BY <2>1, <2>2, <2>3, <2>5, <2>6 DEF Gives
<1> QED
  BY <1>4, <1>5
-----------------------------------------------------------------------------
(* The agent's lines *)

\* The end of a response, and the first k bytes of it.
LEMMA PieceOfRest ==
  ASSUME NEW R \in Seq(Byte), NEW lo \in 0 .. Len(R), NEW k \in 1 .. Len(R) - lo
  PROVE  LET out == SubSeq(R, lo + 1, Len(R))
         IN  /\ SubSeq(out, 1, k) = SubSeq(R, lo + 1, lo + k)
             /\ SubSeq(out, k + 1, Len(out)) = SubSeq(R, (lo + k) + 1, Len(R))
<1> DEFINE L == Len(R)
           out == SubSeq(R, lo + 1, L)
<1>1. L \in Nat /\ lo \in Nat /\ k \in Nat /\ k >= 1 /\ k <= L - lo /\ lo <= L
  BY LenProperties
<1>2. out \in Seq(Byte) /\ Len(out) = L - lo
  <2>1. \A i \in lo + 1 .. L : i \in 1 .. L
    BY <1>1
  <2>2. lo + 1 \in Int /\ L \in Int /\ lo + 1 <= L /\ L - (lo + 1) + 1 = L - lo
    BY <1>1
  <2> QED
    BY <2>1, <2>2, ElementOfSeq, SubSeqProperties
<1>3. \A i, j, m, n \in Int :
        i \in 1 .. L /\ j \in 1 .. L /\ m \in 1 .. j - i + 1 /\ n \in 1 .. j - i + 1
          => SubSeq(SubSeq(R, i, j), m, n) = SubSeq(R, i + m - 1, i + n - 1)
  BY SubSeqOfSubSeq
<1>4. lo + 1 \in 1 .. L /\ L \in 1 .. L /\ L - (lo + 1) + 1 = L - lo
  BY <1>1
<1>5. SubSeq(out, 1, k) = SubSeq(R, lo + 1, lo + k)
  <2>1. 1 \in 1 .. L - lo /\ k \in 1 .. L - lo /\ (lo + 1) + 1 - 1 = lo + 1 /\ (lo + 1) + k - 1 = lo + k
    BY <1>1
  <2>2. SubSeq(out, 1, k) = SubSeq(R, (lo + 1) + 1 - 1, (lo + 1) + k - 1)
    BY <1>1, <1>3, <1>4, <2>1
  <2> QED
    BY <2>1, <2>2
<1>6. SubSeq(out, k + 1, Len(out)) = SubSeq(R, (lo + k) + 1, L)
  <2>1. CASE k = L - lo
    <3>1. k + 1 \in Int /\ Len(out) \in Int /\ Len(out) < k + 1 /\ (lo + k) + 1 \in Int /\ L < (lo + k) + 1
      BY <1>1, <1>2, <2>1
    <3> HIDE DEF out, L
    <3> QED
      BY <1>1, <3>1, SubSeqEmpty
  <2>2. CASE k # L - lo
    <3>1. /\ k + 1 \in 1 .. L - lo /\ L - lo \in 1 .. L - lo
          /\ (lo + 1) + (k + 1) - 1 = (lo + k) + 1 /\ (lo + 1) + (L - lo) - 1 = L
      BY <1>1, <2>2
    <3>2. SubSeq(out, k + 1, L - lo) = SubSeq(R, (lo + 1) + (k + 1) - 1, (lo + 1) + (L - lo) - 1)
      BY <1>1, <1>3, <1>4, <3>1
    <3> QED
      BY <1>2, <3>1, <3>2
  <2> QED
    BY <2>1, <2>2
<1> QED
  BY <1>5, <1>6

\* A line more, and the response is cut once more.
LEMMA AppendsCut ==
  ASSUME wire \in Seq(Lines), NEW R, NEW at, Cut(R, at), agent.pc = "answer",
         NEW line \in Lines, wire' = Append(wire, line), client' = client,
         NEW hi \in 0 .. Len(R), Carries(line, R, at[Len(wire) + 1], hi),
         line.is = "OK" => at[Len(wire) + 1] = Len(R) /\ agent'.pc = "idle",
         agent'.pc = "answer" => agent'.out = SubSeq(R, hi + 1, Len(R))
  PROVE  \E at2 : Cut(R, at2)'
<1> DEFINE m == Len(wire)
           more == [k \in 1 .. m + 2 |-> IF k <= m + 1 THEN at[k] ELSE hi]
<1>1. m \in Nat
  BY LenProperties
<1>2. Len(wire') = m + 1 /\ wire'[m + 1] = line /\ \A k \in 1 .. m : wire'[k] = wire[k]
  BY AppendProperties
<1>3. at \in [1 .. m + 1 -> 0 .. Len(R)] /\ R \in Seq(Byte)
  BY DEF Cut
<1>4. \A k \in 1 .. m + 2 : k <= m + 1 => k \in 1 .. m + 1
  BY <1>1
<1>0. PICK at2 : at2 = more
  OBVIOUS
<1>5. at2 \in [1 .. m + 2 -> 0 .. Len(R)]
  BY <1>0, <1>3, <1>4
<1>6. at2[1] = at[1] /\ at2[m + 1] = at[m + 1] /\ at2[m + 2] = hi
  <2>1. 1 \in 1 .. m + 2 /\ m + 1 \in 1 .. m + 2 /\ m + 2 \in 1 .. m + 2
        /\ 1 <= m + 1 /\ m + 1 <= m + 1 /\ ~ (m + 2 <= m + 1)
    BY <1>1
  <2> QED
    BY <1>0, <2>1
<1>7. \A k \in 1 .. m : at2[k] = at[k] /\ at2[k + 1] = at[k + 1]
  <2>1. \A k \in 1 .. m : k \in 1 .. m + 2 /\ k + 1 \in 1 .. m + 2 /\ k <= m + 1 /\ k + 1 <= m + 1
    BY <1>1
  <2> QED
    BY <1>0, <2>1
<1>8. (m + 1) + 1 = m + 2 /\ \A k \in 1 .. m + 1 : k = m + 1 \/ k \in 1 .. m
  BY <1>1
<1> HIDE DEF more
<1>9. ASSUME NEW k \in 1 .. m + 1
      PROVE  /\ Carries(wire'[k], R, at2[k], at2[k + 1])
             /\ wire'[k].is = "OK" => k = m + 1 /\ at2[k] = Len(R) /\ agent'.pc = "idle"
  <2>1. CASE k = m + 1
    BY <1>2, <1>6, <1>8, <2>1
  <2>2. CASE k \in 1 .. m
    <3>1. wire'[k] = wire[k] /\ at2[k] = at[k] /\ at2[k + 1] = at[k + 1]
      BY <1>2, <1>7, <2>2
    <3>2. Carries(wire[k], R, at[k], at[k + 1]) /\ wire[k].is # "OK"
      BY <2>2 DEF Cut
    <3> QED
      BY <3>1, <3>2
  <2> QED
    BY <1>8, <2>1, <2>2
<1>10. client'.data = SubSeq(R, 1, at2[1])
  BY <1>6 DEF Cut
<1> HIDE DEF m
<1>11. Cut(R, at2)'
  <2>1. at2 \in [1 .. Len(wire') + 1 -> 0 .. Len(R)]
    BY <1>2, <1>5, <1>8
  <2>2. \A k \in 1 .. Len(wire') :
          /\ Carries(wire'[k], R, at2[k], at2[k + 1])
          /\ wire'[k].is = "OK" => k = Len(wire') /\ at2[k] = Len(R) /\ agent'.pc = "idle"
    BY <1>2, <1>9
  <2>3. agent'.pc = "answer" => agent'.out = SubSeq(R, at2[Len(wire') + 1] + 1, Len(R))
    BY <1>2, <1>6, <1>8
  <2> QED
    BY <1>3, <1>10, <2>1, <2>2, <2>3 DEF Cut, Carries
<1> QED
  BY <1>11

\* A line of the agent while it answers.
LEMMA LineKeeps ==
  ASSUME ScdIInv, agent.pc = "answer", WireTypes',
         UNCHANGED <<card, command, client, full, mixed>>,
         NEW line \in Lines, wire' = Append(wire, line),
         \A R \in Seq(Byte) : \A lo \in 0 .. Len(R) : agent.out = SubSeq(R, lo + 1, Len(R)) =>
           \E hi \in 0 .. Len(R) :
             /\ Carries(line, R, lo, hi)
             /\ line.is = "OK" => lo = Len(R) /\ agent'.pc = "idle"
             /\ agent'.pc = "answer" => agent'.out = SubSeq(R, hi + 1, Len(R))
  PROVE  ScdIInv'
<1>1. client.pc # "greeting"
  BY DEF ScdIInv, Greeted
<1>2. ASSUME client.pc \in {"serialno", "apdu"} PROVE Answering'
  <2>1. Answering
    BY <1>2 DEF ScdIInv, Asking
  <2>2. PICK R, at : /\ Cut(R, at)
                     /\ client.pc = "serialno" => R = <<>> /\ client.resp = <<>>
                     /\ client.pc = "apdu" => Settled(R)
    BY <2>1 DEF Answering
  <2>3. R \in Seq(Byte) /\ at[Len(wire) + 1] \in 0 .. Len(R)
        /\ agent.out = SubSeq(R, at[Len(wire) + 1] + 1, Len(R))
    <3>1. wire \in Seq(Lines)
      BY DEF ScdIInv, WireTypes
    <3>2. Len(wire) + 1 \in 1 .. Len(wire) + 1
      BY <3>1, LenProperties
    <3> QED
      BY <2>2, <3>2 DEF Cut
  <2>4. PICK hi \in 0 .. Len(R) :
             /\ Carries(line, R, at[Len(wire) + 1], hi)
             /\ line.is = "OK" => at[Len(wire) + 1] = Len(R) /\ agent'.pc = "idle"
             /\ agent'.pc = "answer" => agent'.out = SubSeq(R, hi + 1, Len(R))
    BY <2>3
  <2>5. \E at2 : Cut(R, at2)'
    BY <2>2, <2>4, AppendsCut DEF ScdIInv, WireTypes
  <2>6. client.pc = "apdu" => Settled(R)'
    BY <2>2 DEF Settled, Whole
  <2>7. command' = <<>>
    BY <2>1 DEF Answering
  <2> QED
    BY <2>2, <2>5, <2>6, <2>7 DEF Answering
<1>3. ASSUME client.pc = "done" PROVE Done'
  BY <1>3 DEF ScdIInv, Done, Answered, Whole
<1> QED
  BY <1>1, <1>2, <1>3 DEF ScdIInv

\* What the agent sends is a line of bytes.
LEMMA LineTypes ==
  ASSUME WireTypes, agent.pc = "answer", UNCHANGED <<card, client, full, mixed>>,
         NEW line \in Lines, wire' = Append(wire, line),
         NEW pc \in {"answer", "idle", "closed", "inquire"}, NEW out \in Seq(Byte),
         NEW noise \in 0 .. MaxNoise, agent' = [pc |-> pc, out |-> out, noise |-> noise]
  PROVE  WireTypes'
<1>1. wire' \in Seq(Lines)
  BY AppendProperties DEF WireTypes
<1>2. /\ agent' = [pc |-> agent'.pc, out |-> agent'.out, noise |-> agent'.noise]
      /\ agent'.pc \in {"greet", "idle", "answer", "inquire", "closed"} /\ agent'.pc # "greet"
      /\ agent'.out \in Seq(Byte) /\ agent'.noise \in 0 .. MaxNoise
  OBVIOUS
<1> QED
  BY <1>1, <1>2 DEF WireTypes

\* An update of the agent, field by field.
LEMMA AgentFields ==
  ASSUME WireTypes, NEW pc, NEW out, NEW noise
  PROVE  /\ [agent EXCEPT !.pc = pc] = [pc |-> pc, out |-> agent.out, noise |-> agent.noise]
         /\ [agent EXCEPT !.out = out] = [pc |-> agent.pc, out |-> out, noise |-> agent.noise]
         /\ [agent EXCEPT !.noise = noise] = [pc |-> agent.pc, out |-> agent.out, noise |-> noise]
         /\ [agent EXCEPT !.pc = pc, !.out = out] = [pc |-> pc, out |-> out, noise |-> agent.noise]
<1>1. agent = [pc |-> agent.pc, out |-> agent.out, noise |-> agent.noise]
  BY DEF WireTypes
<1>2. [agent EXCEPT !.pc = pc] = [pc |-> pc, out |-> agent.out, noise |-> agent.noise]
  BY <1>1
<1>3. [agent EXCEPT !.out = out] = [pc |-> agent.pc, out |-> out, noise |-> agent.noise]
  BY <1>1
<1>4. [agent EXCEPT !.noise = noise] = [pc |-> agent.pc, out |-> agent.out, noise |-> noise]
  BY <1>1
<1>5. [agent EXCEPT !.pc = pc, !.out = out] = [pc |-> pc, out |-> out, noise |-> agent.noise]
  <2> DEFINE mid == [agent EXCEPT !.pc = pc]
  <2>1. [agent EXCEPT !.pc = pc, !.out = out] = [mid EXCEPT !.out = out]
    BY Zenon
  <2>2. mid = [pc |-> pc, out |-> agent.out, noise |-> agent.noise]
    BY <1>2
  <2> HIDE DEF mid
  <2>3. [mid EXCEPT !.out = out] = [pc |-> pc, out |-> out, noise |-> agent.noise]
    BY <2>2
  <2> QED
    BY <2>1, <2>3
<1> QED
  BY <1>2, <1>3, <1>4, <1>5

\* A line that carries no data takes nothing of the response.
LEMMA OtherLineKeeps ==
  ASSUME ScdIInv, agent.pc = "answer", UNCHANGED <<card, command, client, full, mixed>>,
         NEW line \in Lines, line.is \notin {"D", "OK"}, wire' = Append(wire, line),
         NEW pc \in {"answer", "idle", "closed", "inquire"}, NEW noise \in 0 .. MaxNoise,
         agent' = [pc |-> pc, out |-> agent.out, noise |-> noise]
  PROVE  ScdIInv'
<1>1. WireTypes'
  <2>1. WireTypes /\ agent.out \in Seq(Byte)
    BY DEF ScdIInv, WireTypes
  <2> QED
    BY <2>1, LineTypes
<1>2. ASSUME NEW R \in Seq(Byte), NEW lo \in 0 .. Len(R), agent.out = SubSeq(R, lo + 1, Len(R))
      PROVE  /\ Carries(line, R, lo, lo)
             /\ line.is = "OK" => lo = Len(R) /\ agent'.pc = "idle"
             /\ agent'.pc = "answer" => agent'.out = SubSeq(R, lo + 1, Len(R))
  BY <1>2 DEF Carries
<1> QED
  BY <1>1, <1>2, LineKeeps

LEMMA SendErrorKeeps == ScdIInv /\ SendError => ScdIInv'
<1> SUFFICES ASSUME ScdIInv, SendError PROVE ScdIInv'
  OBVIOUS
<1>1. WireTypes /\ agent.out \in Seq(Byte) /\ agent.noise \in 0 .. MaxNoise /\ agent.pc = "answer"
  BY DEF ScdIInv, WireTypes, SendError
<1>2. Line("ERR", <<>>) \in Lines /\ Line("EOF", <<>>) \in Lines
  BY EmptySeq DEF Line, Lines, Kinds
<1>3. CASE Send(Line("ERR", <<>>)) /\ agent' = [agent EXCEPT !.pc = "idle"]
  BY <1>1, <1>2, <1>3, AgentFields, OtherLineKeeps DEF SendError, Send, Line
<1>4. CASE Send(Line("EOF", <<>>)) /\ agent' = [agent EXCEPT !.pc = "closed"]
  BY <1>1, <1>2, <1>4, AgentFields, OtherLineKeeps DEF SendError, Send, Line
<1> QED
  BY <1>3, <1>4 DEF SendError

LEMMA SendNoiseKeeps == ScdIInv /\ SendNoise => ScdIInv'
<1> SUFFICES ASSUME ScdIInv, SendNoise PROVE ScdIInv'
  OBVIOUS
<1>1. WireTypes /\ agent.out \in Seq(Byte) /\ agent.noise \in 0 .. MaxNoise /\ agent.pc = "answer"
  BY DEF ScdIInv, WireTypes, SendNoise
<1>2. PICK is \in {"S", "#"} : Send(Line(is, <<>>))
  BY DEF SendNoise
<1>3. Line(is, <<>>) \in Lines /\ Line(is, <<>>).is \notin {"D", "OK"}
  BY EmptySeq DEF Line, Lines, Kinds
<1>4. agent.noise + 1 \in 0 .. MaxNoise
  BY <1>1, ScdAssumption DEF SendNoise, ScdAssumption
<1>5. agent' = [pc |-> "answer", out |-> agent.out, noise |-> agent.noise + 1]
  BY <1>1, AgentFields DEF SendNoise
<1> QED
  BY <1>1, <1>2, <1>3, <1>4, <1>5, OtherLineKeeps DEF SendNoise, Send

LEMMA InquireKeeps == ScdIInv /\ Inquire => ScdIInv'
<1> SUFFICES ASSUME ScdIInv, Inquire PROVE ScdIInv'
  OBVIOUS
<1>1. WireTypes /\ agent.noise \in 0 .. MaxNoise /\ agent.pc = "answer"
  BY DEF ScdIInv, WireTypes, Inquire
<1>2. Line("INQUIRE", <<>>) \in Lines
  BY EmptySeq DEF Line, Lines, Kinds
<1> QED
  BY <1>1, <1>2, AgentFields, OtherLineKeeps DEF Inquire, Send, Line

LEMMA SendEndKeeps == ScdIInv /\ SendEnd => ScdIInv'
<1> SUFFICES ASSUME ScdIInv, SendEnd PROVE ScdIInv'
  OBVIOUS
<1>1. /\ WireTypes /\ agent.out \in Seq(Byte) /\ agent.noise \in 0 .. MaxNoise
      /\ agent.pc = "answer" /\ agent.out = <<>>
  BY DEF ScdIInv, WireTypes, SendEnd
<1>2. PICK text \in {<<>>, <<67>>} : Send(Line("OK", text))
  BY DEF SendEnd
<1> DEFINE line == Line("OK", text)
<1>3. line \in Lines /\ line.is = "OK"
  <2>1. 67 \in Byte
    BY DEF Byte
  <2>2. <<67>> \in Seq(Byte) /\ <<>> \in Seq(Byte)
    BY <2>1
  <2>3. text \in Seq(Byte)
    BY <2>2
  <2> QED
    BY <2>3 DEF Line, Lines, Kinds
<1>4. agent' = [pc |-> "idle", out |-> agent.out, noise |-> agent.noise]
  BY <1>1, AgentFields DEF SendEnd
<1>5. wire' = Append(wire, line) /\ UNCHANGED <<card, command, client, full, mixed>>
  BY <1>2 DEF SendEnd, Send
<1> HIDE DEF line
<1>6. WireTypes'
  BY <1>1, <1>3, <1>4, <1>5, LineTypes
<1>7. ASSUME NEW R \in Seq(Byte), NEW lo \in 0 .. Len(R), agent.out = SubSeq(R, lo + 1, Len(R))
      PROVE  /\ Carries(line, R, lo, lo)
             /\ line.is = "OK" => lo = Len(R) /\ agent'.pc = "idle"
             /\ agent'.pc = "answer" => agent'.out = SubSeq(R, lo + 1, Len(R))
  <2>1. Len(R) \in Nat /\ lo \in Nat /\ lo <= Len(R)
    BY LenProperties
  <2>2. \A i \in lo + 1 .. Len(R) : R[i] \in Byte
    BY <2>1, ElementOfSeq
  <2>3. lo + 1 <= Len(R) => Len(SubSeq(R, lo + 1, Len(R))) = Len(R) - (lo + 1) + 1
    BY <2>1, <2>2, SubSeqProperties
  <2>4. lo = Len(R)
    BY <1>1, <1>7, <2>1, <2>3, EmptySeq
  <2> QED
    BY <1>3, <1>4, <2>4 DEF Carries
<1> QED
  BY <1>1, <1>3, <1>5, <1>6, <1>7, LineKeeps

LEMMA SendDataKeeps == ScdIInv /\ SendData => ScdIInv'
<1> SUFFICES ASSUME ScdIInv, SendData PROVE ScdIInv'
  OBVIOUS
<1>1. /\ WireTypes /\ agent.out \in Seq(Byte) /\ agent.noise \in 0 .. MaxNoise
      /\ agent.pc = "answer" /\ agent.out # <<>>
  BY DEF ScdIInv, WireTypes, SendData
<1> DEFINE bytes(k) == FlattenSeq([i \in 1 .. k |-> Escaped(agent.out[i])])
<1>2. PICK k \in {1, Len(agent.out)} :
        /\ Send(Line("D", bytes(k)))
        /\ agent' = [agent EXCEPT !.out = SubSeq(agent.out, k + 1, Len(agent.out))]
  BY DEF SendData
<1>3. Len(agent.out) \in Nat \ {0} /\ k \in 1 .. Len(agent.out)
  BY <1>1, EmptySeq
<1>4. bytes(k) \in Seq(Byte) /\ DecodePercent(bytes(k)) = SubSeq(agent.out, 1, k)
  BY <1>1, <1>3, LineDecodes
<1> HIDE DEF bytes
<1> DEFINE line == Line("D", bytes(k))
           rest == SubSeq(agent.out, k + 1, Len(agent.out))
<1>5. line \in Lines /\ line.is = "D" /\ line.bytes = bytes(k)
  BY <1>4 DEF Line, Lines, Kinds
<1>6. rest \in Seq(Byte)
  <2>1. \A i \in k + 1 .. Len(agent.out) : i \in 1 .. Len(agent.out)
    BY <1>3
  <2> QED
    BY <1>1, <1>3, <2>1, ElementOfSeq, SubSeqProperties
<1>7. wire' = Append(wire, line) /\ UNCHANGED <<card, command, client, full, mixed>>
  BY <1>2 DEF SendData, Send
<1>8. agent' = [pc |-> "answer", out |-> rest, noise |-> agent.noise]
  BY <1>1, <1>2, AgentFields
<1> HIDE DEF line
<1>9. WireTypes'
  <2> HIDE DEF rest
  <2> QED
    BY <1>1, <1>5, <1>6, <1>7, <1>8, LineTypes
<1>10. ASSUME NEW R \in Seq(Byte), NEW lo \in 0 .. Len(R), agent.out = SubSeq(R, lo + 1, Len(R))
       PROVE  /\ lo + k \in 0 .. Len(R)
              /\ Carries(line, R, lo, lo + k)
              /\ line.is = "OK" => lo = Len(R) /\ agent'.pc = "idle"
              /\ agent'.pc = "answer" => agent'.out = SubSeq(R, (lo + k) + 1, Len(R))
  <2>1. Len(R) \in Nat /\ lo \in Nat /\ lo <= Len(R)
    BY LenProperties
  <2>2. \A i \in lo + 1 .. Len(R) : R[i] \in Byte
    BY <2>1, ElementOfSeq
  <2>3. Len(agent.out) = IF lo + 1 <= Len(R) THEN Len(R) - (lo + 1) + 1 ELSE 0
    BY <1>10, <2>1, <2>2, SubSeqProperties
  <2>4. k \in 1 .. Len(R) - lo /\ lo <= lo + k /\ lo + k \in 0 .. Len(R)
    BY <1>3, <2>1, <2>3
  <2>5. /\ SubSeq(agent.out, 1, k) = SubSeq(R, lo + 1, lo + k)
        /\ rest = SubSeq(R, (lo + k) + 1, Len(R))
    BY <1>10, <2>4, PieceOfRest
  <2> HIDE DEF rest
  <2> QED
    BY <1>4, <1>5, <1>8, <2>4, <2>5 DEF Carries
<1> QED
  BY <1>1, <1>5, <1>7, <1>9, <1>10, LineKeeps

LEMMA GreetKeeps == ScdIInv /\ Greet => ScdIInv'
<1> SUFFICES ASSUME ScdIInv, Greet PROVE ScdIInv'
  OBVIOUS
<1>1. /\ WireTypes /\ Greeted /\ client.pc = "greeting" /\ agent.pc = "greet" /\ wire = <<>>
      /\ agent.out = <<>> /\ agent.noise \in 0 .. MaxNoise
  BY DEF ScdIInv, WireTypes, Greeted, Greet
<1>2. Line("OK", <<>>) \in Lines /\ Line("ERR", <<>>) \in Lines
  BY EmptySeq DEF Line, Lines, Kinds
<1>3. \A line \in Lines : Append(wire, line) = <<line>> /\ <<line>> \in Seq(Lines)
  BY <1>1
<1>4. PICK pc \in {"idle", "closed"} :
        /\ agent' = [pc |-> pc, out |-> <<>>, noise |-> agent.noise]
        /\ wire' = << Line(IF pc = "idle" THEN "OK" ELSE "ERR", <<>>) >>
  <2>1. CASE Send(Line("OK", <<>>)) /\ agent' = [agent EXCEPT !.pc = "idle"]
    BY <1>1, <1>2, <1>3, <2>1, AgentFields DEF Send
  <2>2. CASE Send(Line("ERR", <<>>)) /\ agent' = [agent EXCEPT !.pc = "closed"]
    BY <1>1, <1>2, <1>3, <2>2, AgentFields DEF Send
  <2> QED
    BY <2>1, <2>2 DEF Greet
<1>5. UNCHANGED <<card, command, client, full, mixed>>
  BY DEF Greet
<1>6. WireTypes'
  <2>1. wire' \in Seq(Lines)
    BY <1>2, <1>3, <1>4
  <2> QED
    BY <1>1, <1>4, <1>5, <2>1, EmptySeq DEF WireTypes
<1>7. Greeted'
  BY <1>1, <1>4, <1>5 DEF Greeted
<1> QED
  BY <1>1, <1>5, <1>6, <1>7 DEF ScdIInv

\* Another client may end a chain; nothing is promised from then on.
LEMMA OtherApduKeeps == ScdIInv /\ OtherApdu => ScdIInv'
<1> SUFFICES ASSUME ScdIInv, OtherApdu PROVE ScdIInv'
  OBVIOUS
<1>1. mixed' = TRUE /\ UNCHANGED <<agent, wire, command, client, full>>
  BY DEF OtherApdu
<1>2. card'.rest \in Seq(Byte) /\ card'.sw \in Byte \X Byte /\ card'.sw[1] # 97
  <2>1. 105 \in Byte /\ 133 \in Byte /\ 144 \in Byte /\ 0 \in Byte /\ 65 \in Byte
    BY DEF Byte
  <2>2. /\ <<105, 133>> \in Byte \X Byte /\ <<105, 133>>[1] # 97 /\ <<>> \in Seq(Byte)
        /\ <<144, 0>> \in Byte \X Byte /\ <<144, 0>>[1] # 97 /\ <<65>> \in Seq(Byte)
    BY <2>1
  <2>3. CASE card' = [rest |-> <<>>, sw |-> <<105, 133>>]
    BY <2>2, <2>3
  <2>4. CASE card' = [rest |-> <<65>>, sw |-> <<144, 0>>]
    BY <2>2, <2>4
  <2> QED
    BY <2>3, <2>4 DEF OtherApdu
<1>3. WireTypes'
  BY <1>1, <1>2 DEF ScdIInv, WireTypes
<1>4. Greeted => Greeted'
  BY <1>1 DEF Greeted
<1>5. Asking => Asking'
  BY <1>1 DEF Asking
<1>6. Answering => Answering'
  <2> SUFFICES ASSUME Answering PROVE Answering'
    OBVIOUS
  <2>1. PICK R, at : Cut(R, at) /\ (client.pc = "serialno" => R = <<>> /\ client.resp = <<>>)
    BY DEF Answering
  <2>2. Cut(R, at)'
    BY <1>1, <2>1 DEF Cut
  <2>3. Settled(R)'
    BY <1>1 DEF Settled
  <2> QED
    BY <1>1, <2>1, <2>2, <2>3 DEF Answering
<1>7. Done => Done'
  BY <1>1 DEF Done, Answered
<1> QED
  BY <1>1, <1>3, <1>4, <1>5, <1>6, <1>7 DEF ScdIInv
-----------------------------------------------------------------------------
(* The command *)

\* The last two bytes, and what comes before them.
LEMMA EndsWith ==
  ASSUME NEW rest \in Seq(Byte), NEW sw \in Seq(Byte), Len(sw) = 2, NEW R, R = rest \o sw
  PROVE  /\ R \in Seq(Byte) /\ Len(R) = Len(rest) + 2 /\ Len(R) >= 2
         /\ R[Len(R) - 1] = sw[1] /\ R[Len(R)] = sw[2]
         /\ SubSeq(R, 1, Len(R) - 2) = rest
<1>2. Len(rest) \in Nat
  BY LenProperties
<1>a. /\ rest \o sw \in Seq(Byte) /\ Len(rest \o sw) = Len(rest) + Len(sw)
      /\ \A i \in 1 .. Len(rest) + Len(sw) :
           (rest \o sw)[i] = IF i <= Len(rest) THEN rest[i] ELSE sw[i - Len(rest)]
  BY ConcatProperties
<1>3. R \in Seq(Byte) /\ Len(R) = Len(rest) + 2
  BY <1>a
<1>4. /\ Len(rest) + 1 \in 1 .. Len(rest) + Len(sw) /\ ~ (Len(rest) + 1 <= Len(rest))
      /\ Len(rest) + 2 \in 1 .. Len(rest) + Len(sw) /\ ~ (Len(rest) + 2 <= Len(rest))
      /\ (Len(rest) + 1) - Len(rest) = 1 /\ (Len(rest) + 2) - Len(rest) = 2
  BY <1>2
<1>5. R[Len(rest) + 1] = sw[1] /\ R[Len(rest) + 2] = sw[2]
  BY <1>a, <1>2, <1>4
<1>6. Len(R) - 1 = Len(rest) + 1 /\ Len(R) - 2 = Len(rest) /\ Len(R) >= 2
  BY <1>2, <1>3
<1>7. SubSeq(R, 1, Len(rest)) = rest
  <2>1. CASE rest = <<>>
    <3>1. Len(rest) = 0 /\ SubSeq(R, 1, 0) = <<>>
      BY <2>1, SubSeqEmpty
    <3> QED
      BY <2>1, <3>1
  <2>2. CASE rest # <<>>
    <3>1. 1 \in 1 .. Len(rest) /\ Len(rest) \in 1 .. Len(rest)
      BY <2>2, EmptySeq
    <3>2. SubSeq(rest \o sw, 1, Len(rest)) = SubSeq(rest, 1, Len(rest))
      BY <1>2, <3>1, SubSeqOfConcat1
    <3> QED
      BY <3>2, SubSeqFull
  <2> QED
    BY <2>1, <2>2
<1> QED
  BY <1>3, <1>5, <1>6, <1>7

\* The first line of an answer is still to come.
LEMMA FreshCut ==
  ASSUME NEW R \in Seq(Byte), wire' = <<>>, client'.data = <<>>, agent'.out = R
  PROVE  \E at : Cut(R, at)'
<1>1. PICK at : at = [k \in 1 .. 1 |-> 0]
  OBVIOUS
<1>2. Len(wire') = 0 /\ Len(R) \in Nat
  BY LenProperties
<1>3. at[1] = 0 /\ at \in [1 .. 0 + 1 -> 0 .. Len(R)]
  BY <1>1, <1>2
<1>4. SubSeq(R, 1, 0) = <<>> /\ SubSeq(R, 1, Len(R)) = R
  BY SubSeqEmpty, SubSeqFull
<1>5. 0 + 1 = 1
  OBVIOUS
<1>6. Cut(R, at)'
  BY <1>2, <1>3, <1>4, <1>5 DEF Cut
<1> QED
  BY <1>6

\* What the card gives settles the response.
LEMMA AnswerSettles ==
  ASSUME NEW rest \in Seq(Byte), NEW sw \in Seq(Byte), Len(sw) = 2, sw[1] # 97,
         NEW R \in Seq(Byte), client.resp \in Seq(Byte), client' = client,
         card'.rest \o card'.sw \in Seq(Byte),
         ~ mixed' => full' # <<>> /\ client.resp \o (rest \o sw) = Whole',
         Gives(R, rest \o sw, card'.rest \o card'.sw)
  PROVE  Settled(R)'
<1> SUFFICES ASSUME ~ mixed' PROVE Settled(R)'
  BY DEF Settled
<1>1. CASE R = rest \o sw
  <2>1. Len(R) >= 2 /\ R[Len(R) - 1] = sw[1]
    BY ONLY EndsWith, rest \in Seq(Byte), sw \in Seq(Byte), Len(sw) = 2, <1>1
  <2> QED
    BY <1>1, <2>1 DEF Settled
<1>2. CASE R # rest \o sw
  <2>1. PICK chunk \in Seq(Byte), left \in Byte :
          R = chunk \o <<97, left>> /\ chunk \o (card'.rest \o card'.sw) = rest \o sw
    BY <1>2 DEF Gives
  <2>2. PICK more \in Seq(Byte) : more = card'.rest \o card'.sw
    OBVIOUS
  <2>3. (client.resp \o chunk) \o more = client.resp \o (chunk \o more)
    BY ONLY BytesAssociate, client.resp \in Seq(Byte), chunk \in Seq(Byte), more \in Seq(Byte)
  <2>4. (client.resp \o chunk) \o (card'.rest \o card'.sw) = Whole'
    BY <2>1, <2>2, <2>3
  <2> QED
    BY <2>1, <2>4 DEF Settled
<1> QED
  BY <1>1, <1>2

LEMMA ExecuteKeeps == ScdIInv /\ ExecuteCommand => ScdIInv'
<1> SUFFICES ASSUME ScdIInv, ExecuteCommand PROVE ScdIInv'
  OBVIOUS
<1>1. WireTypes /\ Asking /\ client.pc \in {"serialno", "apdu"}
  BY DEF ScdIInv, WireTypes, Greeted, Answering, Done, ExecuteCommand
<1>2. /\ command' = <<>> /\ UNCHANGED <<wire, client, mixed>>
      /\ wire = <<>> /\ client.data = <<>> /\ client.resp \in Seq(Byte)
      /\ card.rest \in Seq(Byte) /\ card.sw \in Byte \X Byte /\ card.sw[1] # 97
  BY <1>1 DEF ExecuteCommand, Asking, WireTypes
<1>3. ASSUME NEW R \in Seq(Byte), agent' = [agent EXCEPT !.pc = "answer", !.out = R],
             card'.rest \in Seq(Byte), card'.sw \in Byte \X Byte, card'.sw[1] # 97,
             full' # <<>> => full'[1] \in CardAnswer,
             client.pc = "serialno" => R = <<>> /\ client.resp = <<>>,
             client.pc = "apdu" => Settled(R)'
      PROVE  ScdIInv'
  <2>1. agent' = [pc |-> "answer", out |-> R, noise |-> agent.noise]
    BY <1>1, <1>3, AgentFields
  <2>2. WireTypes'
    <3>1. /\ agent' = [pc |-> agent'.pc, out |-> agent'.out, noise |-> agent'.noise]
          /\ agent'.pc \in {"greet", "idle", "answer", "inquire", "closed"} /\ agent'.pc # "greet"
          /\ agent'.out = R /\ agent'.noise = agent.noise
      BY <2>1
    <3> QED
      BY <1>1, <1>2, <1>3, <3>1 DEF WireTypes
  <2>3. \E at : Cut(R, at)'
    BY <1>2, <2>1, FreshCut
  <2>4. Answering'
    BY <1>2, <1>3, <2>3 DEF Answering
  <2> QED
    BY <1>1, <1>2, <2>2, <2>4 DEF ScdIInv
<1>4. CASE client.pc = "serialno" /\ command = <<"SERIALNO">> /\ agent.out = <<>> /\ client.resp = <<>>
  <2>1. agent' = [agent EXCEPT !.pc = "answer"] /\ UNCHANGED <<card, full>>
    BY <1>4 DEF ExecuteCommand
  <2>2. agent' = [agent EXCEPT !.pc = "answer", !.out = <<>>]
    BY <1>1, <1>4, <2>1, AgentFields
  <2>3. full' # <<>> => full'[1] \in CardAnswer
    BY <1>1, <2>1 DEF WireTypes
  <2> QED
    BY <1>2, <1>3, <1>4, <2>1, <2>2, <2>3, EmptySeq
<1>5. CASE client.pc = "apdu" /\ command = <<"APDU">> /\ client.resp = <<>>
  <2>1. PICK a \in CardAnswer : full' = <<a>> /\ Respond(a.data, a.sw, MaxChunk)
    BY <1>5 DEF ExecuteCommand
  <2>2. a.data \in Seq(Byte) /\ a.sw \in Byte \X Byte /\ a.sw[1] # 97 /\ MaxChunk \in Nat
    BY ScdAssumption DEF ScdAssumption
  <2>3. PICK R \in Seq(Byte) :
           /\ agent' = [agent EXCEPT !.pc = "answer", !.out = R]
           /\ card'.rest \in Seq(Byte) /\ card'.sw \in Byte \X Byte /\ card'.sw[1] # 97
           /\ Gives(R, a.data \o a.sw, card'.rest \o card'.sw)
    BY <2>1, <2>2, RespondGives
  <2>4. full' # <<>> /\ full'[1] = a
    BY <2>1
  <2>5. client.resp \o (a.data \o a.sw) = Whole'
    <3>1. a.data \o a.sw \in Seq(Byte)
      BY <2>2, PairIsSeq, BytesAssociate
    <3>2. <<>> \o (a.data \o a.sw) = a.data \o a.sw
      BY <3>1, ConcatEmptySeq
    <3> QED
      BY <1>5, <2>4, <3>2 DEF Whole
  <2>6. Settled(R)'
    <3>1. a.sw \in Seq(Byte) /\ Len(a.sw) = 2
      BY <2>2, PairIsSeq
    <3>2. card'.rest \o card'.sw \in Seq(Byte)
      BY <2>3, PairIsSeq, BytesAssociate
    <3> QED
      BY <1>2, <2>2, <2>3, <2>4, <2>5, <3>1, <3>2, AnswerSettles
  <2> QED
    BY <1>3, <1>5, <2>3, <2>4, <2>6
<1>6. CASE /\ client.pc = "apdu" /\ \E left \in Byte : command = <<"GET RESPONSE", left>>
           /\ ~ mixed => full # <<>> /\ client.resp \o (card.rest \o card.sw) = Whole
  <2>1. PICK left \in Byte : command = <<"GET RESPONSE", left>>
    BY <1>6
  <2>2. Respond(card.rest, card.sw, IF left = 0 THEN Wide ELSE left) /\ UNCHANGED full
    BY <2>1 DEF ExecuteCommand
  <2>3. (IF left = 0 THEN Wide ELSE left) \in Nat
    BY ScdAssumption DEF ScdAssumption, Byte
  <2>4. PICK R \in Seq(Byte) :
           /\ agent' = [agent EXCEPT !.pc = "answer", !.out = R]
           /\ card'.rest \in Seq(Byte) /\ card'.sw \in Byte \X Byte /\ card'.sw[1] # 97
           /\ Gives(R, card.rest \o card.sw, card'.rest \o card'.sw)
    BY <1>2, <2>2, <2>3, RespondGives
  <2>5. ~ mixed' => full' # <<>> /\ client.resp \o (card.rest \o card.sw) = Whole'
    BY <1>2, <1>6, <2>2 DEF Whole
  <2>6. Settled(R)'
    <3>1. card.sw \in Seq(Byte) /\ Len(card.sw) = 2
      BY <1>2, PairIsSeq
    <3>2. card'.rest \o card'.sw \in Seq(Byte)
      BY <2>4, PairIsSeq, BytesAssociate
    <3> QED
      BY <1>2, <2>4, <2>5, <3>1, <3>2, AnswerSettles
  <2>7. full' # <<>> => full'[1] \in CardAnswer
    BY <1>1, <2>2 DEF WireTypes
  <2> QED
    BY <1>3, <1>6, <2>4, <2>6, <2>7
<1> QED
  BY <1>1, <1>4, <1>5, <1>6 DEF Asking
-----------------------------------------------------------------------------
(* The client *)

\* An update of the client, field by field.
LEMMA ClientFields ==
  ASSUME WireTypes, NEW pc, NEW data, NEW resp, NEW result
  PROVE  /\ [client EXCEPT !.data = data]
              = [pc |-> client.pc, data |-> data, resp |-> client.resp, result |-> client.result]
         /\ [client EXCEPT !.pc = pc, !.data = data, !.resp = resp]
              = [pc |-> pc, data |-> data, resp |-> resp, result |-> client.result]
         /\ [client EXCEPT !.pc = pc, !.result = result]
              = [pc |-> pc, data |-> client.data, resp |-> client.resp, result |-> result]
         /\ [client EXCEPT !.pc = pc, !.resp = resp, !.result = result]
              = [pc |-> pc, data |-> client.data, resp |-> resp, result |-> result]
<1>1. client = [pc |-> client.pc, data |-> client.data, resp |-> client.resp, result |-> client.result]
  BY DEF WireTypes
<1> DEFINE one == [client EXCEPT !.pc = pc]
<1>2. one = [pc |-> pc, data |-> client.data, resp |-> client.resp, result |-> client.result]
  BY <1>1
<1>3. [client EXCEPT !.data = data]
        = [pc |-> client.pc, data |-> data, resp |-> client.resp, result |-> client.result]
  BY <1>1
<1>4. [client EXCEPT !.pc = pc, !.data = data, !.resp = resp]
        = [pc |-> pc, data |-> data, resp |-> resp, result |-> client.result]
  <2> DEFINE two == [one EXCEPT !.data = data]
  <2>1. [client EXCEPT !.pc = pc, !.data = data, !.resp = resp] = [two EXCEPT !.resp = resp]
    BY Zenon
  <2> HIDE DEF one
  <2>2. two = [pc |-> pc, data |-> data, resp |-> client.resp, result |-> client.result]
    BY <1>2
  <2> HIDE DEF two
  <2>3. [two EXCEPT !.resp = resp] = [pc |-> pc, data |-> data, resp |-> resp, result |-> client.result]
    BY <2>2
  <2> QED
    BY <2>1, <2>3
<1>5. [client EXCEPT !.pc = pc, !.result = result]
        = [pc |-> pc, data |-> client.data, resp |-> client.resp, result |-> result]
  <2>1. [client EXCEPT !.pc = pc, !.result = result] = [one EXCEPT !.result = result]
    BY Zenon
  <2> HIDE DEF one
  <2> QED
    BY <1>2, <2>1
<1>6. [client EXCEPT !.pc = pc, !.resp = resp, !.result = result]
        = [pc |-> pc, data |-> client.data, resp |-> resp, result |-> result]
  <2> DEFINE two == [one EXCEPT !.resp = resp]
  <2>1. [client EXCEPT !.pc = pc, !.resp = resp, !.result = result] = [two EXCEPT !.result = result]
    BY Zenon
  <2> HIDE DEF one
  <2>2. two = [pc |-> pc, data |-> client.data, resp |-> resp, result |-> client.result]
    BY <1>2
  <2> HIDE DEF two
  <2>3. [two EXCEPT !.result = result] = [pc |-> pc, data |-> client.data, resp |-> resp, result |-> result]
    BY <2>2
  <2> QED
    BY <2>1, <2>3
<1> QED
  BY <1>3, <1>4, <1>5, <1>6

\* What the client keeps is bytes.
LEMMA ClientTypes ==
  ASSUME WireTypes, UNCHANGED <<card, agent, full, mixed>>, wire # <<>>, wire' = Tail(wire),
         agent.pc # "greet", NEW pc \in {"greeting", "serialno", "apdu", "done"},
         NEW data \in Seq(Byte), NEW resp \in Seq(Byte), NEW result,
         client' = [pc |-> pc, data |-> data, resp |-> resp, result |-> result]
  PROVE  WireTypes'
<1>1. wire' \in Seq(Lines)
  BY HeadTailProperties DEF WireTypes
<1>2. /\ client' = [pc |-> client'.pc, data |-> client'.data, resp |-> client'.resp,
                    result |-> client'.result]
      /\ client'.pc \in {"greeting", "serialno", "apdu", "done"}
      /\ client'.data \in Seq(Byte) /\ client'.resp \in Seq(Byte)
  OBVIOUS
<1> QED
  BY <1>1, <1>2 DEF WireTypes

LEMMA GreetingKeeps == ScdIInv /\ Greeting => ScdIInv'
<1> SUFFICES ASSUME ScdIInv, Greeting PROVE ScdIInv'
  OBVIOUS
<1>1. /\ WireTypes /\ Greeted /\ wire # <<>> /\ wire' = Tail(wire)
      /\ UNCHANGED <<card, agent, full, mixed>>
  BY DEF ScdIInv, Greeting
<1>2. agent.pc # "greet" /\ agent.out = <<>> /\ client.resp = <<>> /\ client.data = <<>> /\ command = <<>>
  BY <1>1 DEF Greeted
<1>3. wire' = <<>> /\ (Head(wire).is = "OK" => agent.pc = "idle")
  <2>1. CASE agent.pc = "idle" /\ wire = << Line("OK", <<>>) >>
    BY <1>1, <2>1
  <2>2. CASE agent.pc = "closed" /\ wire = << Line("ERR", <<>>) >>
    BY <1>1, <2>2 DEF Line
  <2> QED
    BY <1>1, <1>2, <2>1, <2>2 DEF Greeted
<1>4. CASE Head(wire).is = "OK"
  <2>1. /\ client' = [client EXCEPT !.pc = "serialno", !.data = <<>>, !.resp = <<>>]
        /\ command' = <<"SERIALNO">>
    BY <1>4 DEF Greeting, Ask
  <2>2. client' = [pc |-> "serialno", data |-> <<>>, resp |-> <<>>, result |-> client.result]
    BY <1>1, <2>1, ClientFields
  <2>3. WireTypes'
    BY <1>1, <1>2, <2>2, ClientTypes, EmptySeq
  <2>4. Asking'
    BY <1>1, <1>2, <1>3, <1>4, <2>1, <2>2 DEF Asking
  <2> QED
    BY <2>2, <2>3, <2>4 DEF ScdIInv
<1>5. CASE Head(wire).is # "OK"
  <2>1. client' = [client EXCEPT !.pc = "done", !.result = [kind |-> "Agent"]] /\ command' = command
    BY <1>5 DEF Greeting, End
  <2>2. client' = [pc |-> "done", data |-> <<>>, resp |-> <<>>, result |-> [kind |-> "Agent"]]
    BY <1>1, <1>2, <2>1, ClientFields
  <2>3. WireTypes'
    BY <1>1, <1>2, <2>2, ClientTypes, EmptySeq
  <2>4. Done'
    BY <1>2, <2>1, <2>2 DEF Done, Answered
  <2> QED
    BY <2>2, <2>3, <2>4 DEF ScdIInv
<1> QED
  BY <1>4, <1>5

\* A line that was read, and the response is cut once less.
LEMMA TailCut ==
  ASSUME wire \in Seq(Lines), wire # <<>>, NEW R, NEW at, Cut(R, at),
         wire' = Tail(wire), agent' = agent, client'.data = SubSeq(R, 1, at[2])
  PROVE  \E at2 : Cut(R, at2)'
<1> DEFINE m == Len(wire)
<1>1. m \in Nat /\ m # 0
  BY EmptySeq
<1>2. Len(wire') = m - 1 /\ \A k \in 1 .. m - 1 : wire'[k] = wire[k + 1]
  BY HeadTailProperties
<1>3. PICK at2 : at2 = [k \in 1 .. m |-> at[k + 1]]
  OBVIOUS
<1>4. at \in [1 .. m + 1 -> 0 .. Len(R)] /\ R \in Seq(Byte)
  BY DEF Cut
<1>5. at2 \in [1 .. m -> 0 .. Len(R)]
  <2>1. \A k \in 1 .. m : k + 1 \in 1 .. m + 1
    BY <1>1
  <2> QED
    BY <1>3, <1>4, <2>1
<1>6. at2[1] = at[2] /\ at2[m] = at[m + 1]
  <2>1. 1 \in 1 .. m /\ m \in 1 .. m /\ 1 + 1 = 2
    BY <1>1
  <2> QED
    BY <1>3, <2>1
<1>7. \A k \in 1 .. m - 1 : at2[k] = at[k + 1] /\ at2[k + 1] = at[(k + 1) + 1]
  <2>1. \A k \in 1 .. m - 1 : k \in 1 .. m /\ k + 1 \in 1 .. m
    BY <1>1
  <2> QED
    BY <1>3, <2>1
<1>8. ASSUME NEW k \in 1 .. m - 1
      PROVE  /\ Carries(wire'[k], R, at2[k], at2[k + 1])
             /\ wire'[k].is = "OK" => k = m - 1 /\ at2[k] = Len(R) /\ agent.pc = "idle"
  <2>1. k + 1 \in 1 .. m /\ (k + 1 = m => k = m - 1)
    BY <1>1
  <2>2. /\ Carries(wire[k + 1], R, at[k + 1], at[(k + 1) + 1])
        /\ wire[k + 1].is = "OK" => k + 1 = m /\ at[k + 1] = Len(R) /\ agent.pc = "idle"
    BY <2>1 DEF Cut
  <2> QED
    BY <1>2, <1>7, <2>1, <2>2
<1>9. agent.pc = "answer" => agent.out = SubSeq(R, at2[m] + 1, Len(R))
  BY <1>6 DEF Cut
<1>10. Cut(R, at2)'
  <2>1. (m - 1) + 1 = m
    BY <1>1
  <2> HIDE DEF m
  <2>2. at2 \in [1 .. Len(wire') + 1 -> 0 .. Len(R)]
    BY <1>2, <1>5, <2>1
  <2>3. \A k \in 1 .. Len(wire') :
          /\ Carries(wire'[k], R, at2[k], at2[k + 1])
          /\ wire'[k].is = "OK" => k = Len(wire') /\ at2[k] = Len(R) /\ agent'.pc = "idle"
    BY <1>2, <1>8
  <2>4. agent'.pc = "answer" => agent'.out = SubSeq(R, at2[Len(wire') + 1] + 1, Len(R))
    BY <1>2, <1>9, <2>1
  <2> QED
    BY <1>4, <1>6, <2>2, <2>3, <2>4 DEF Cut, Carries
<1> QED
  BY <1>10

\* A count of attempts has four bits.
LEMMA FourBits == \A sw : ClassifySw(sw).retries \in 0 .. 15
<1> SUFFICES ASSUME NEW sw PROVE ClassifySw(sw).retries \in 0 .. 15
  OBVIOUS
<1>1. \A n \in 192 .. 207 : n % 16 \in 0 .. 15
  OBVIOUS
<1>2. <<144, 0>>[1] = 144 /\ <<105, 131>>[1] = 105 /\ <<144, 0>> # <<105, 131>>
  OBVIOUS
<1>3. CASE sw = <<144, 0>>
  BY <1>2, <1>3 DEF ClassifySw
<1>4. CASE sw[1] = 99 /\ sw[2] \in 192 .. 207
  BY <1>1, <1>2, <1>4 DEF ClassifySw
<1>5. CASE sw = <<105, 131>>
  BY <1>2, <1>5 DEF ClassifySw
<1>6. CASE sw # <<144, 0>> /\ ~ (sw[1] = 99 /\ sw[2] \in 192 .. 207) /\ sw # <<105, 131>>
  BY <1>6 DEF ClassifySw
<1> QED
  BY <1>3, <1>4, <1>5, <1>6

\* The status of a response is the status of its last piece.
LEMMA StatusIsLast ==
  ASSUME NEW u \in Seq(Byte), NEW v \in Seq(Byte), Len(v) >= 2
  PROVE  Len(u \o v) >= 2 /\ (u \o v)[Len(u \o v) - 1] = v[Len(v) - 1]
<1>1. Len(u) \in Nat /\ Len(v) \in Nat
  BY LenProperties
<1>2. /\ Len(u \o v) = Len(u) + Len(v)
      /\ \A i \in 1 .. Len(u) + Len(v) : (u \o v)[i] = IF i <= Len(u) THEN u[i] ELSE v[i - Len(u)]
  BY ConcatProperties
<1>3. /\ Len(u) + Len(v) - 1 \in 1 .. Len(u) + Len(v) /\ ~ (Len(u) + Len(v) - 1 <= Len(u))
      /\ (Len(u) + Len(v) - 1) - Len(u) = Len(v) - 1 /\ Len(u) + Len(v) >= 2
  BY <1>1
<1> QED
  BY <1>2, <1>3

\* The answer is complete: it is the end, or the rest is asked for.
LEMMA CollectKeeps ==
  ASSUME ScdIInv, client.pc \in {"serialno", "apdu"}, wire # <<>>, wire' = Tail(wire), wire' = <<>>,
         agent.pc = "idle", command = <<>>, UNCHANGED <<card, agent, full, mixed>>,
         NEW R \in Seq(Byte), client.data = R,
         client.pc = "serialno" => R = <<>> /\ client.resp = <<>>,
         client.pc = "apdu" => Settled(R),
         Collect
  PROVE  ScdIInv'
<1>1. WireTypes /\ client.resp \in Seq(Byte)
  BY DEF ScdIInv, WireTypes
<1> DEFINE resp == client.resp \o R
           n == Len(resp)
<1>2. resp \in Seq(Byte) /\ n \in Nat
  BY ONLY <1>1, R \in Seq(Byte), ConcatProperties, LenProperties
<1>3. ASSUME NEW pc \in {"serialno", "apdu"}, NEW keep \in Seq(Byte), NEW cmd, Ask(pc, cmd, keep),
             \/ pc = "apdu" /\ cmd = <<"APDU">> /\ keep = <<>>
             \/ /\ pc = "apdu" /\ \E left \in Byte : cmd = <<"GET RESPONSE", left>>
                /\ ~ mixed => full # <<>> /\ keep \o (card.rest \o card.sw) = Whole
      PROVE  ScdIInv'
  <2>1. /\ client' = [pc |-> pc, data |-> <<>>, resp |-> keep, result |-> client.result]
        /\ command' = cmd
    BY <1>1, <1>3, ClientFields DEF Ask
  <2>2. WireTypes'
    BY <1>1, <2>1, ClientTypes, EmptySeq
  <2>3. Whole' = Whole
    BY DEF Whole
  <2>4. Asking'
    BY <1>3, <2>1, <2>3 DEF Asking
  <2> QED
    BY <1>3, <2>1, <2>2, <2>4 DEF ScdIInv
<1>4. CASE client.pc = "serialno"
  <2>1. Ask("apdu", <<"APDU">>, <<>>)
    BY <1>4 DEF Collect
  <2> QED
    BY <1>3, <2>1, EmptySeq
<1>5. CASE client.pc = "apdu"
  <2>1. ~ mixed => /\ full # <<>> /\ n >= 2
                   /\ \/ resp[n - 1] # 97 /\ resp = Whole
                      \/ resp[n - 1] = 97 /\ SubSeq(resp, 1, n - 2) \o (card.rest \o card.sw) = Whole
    <3> SUFFICES ASSUME ~ mixed
                 PROVE  /\ full # <<>> /\ n >= 2
                        /\ \/ resp[n - 1] # 97 /\ resp = Whole
                           \/ resp[n - 1] = 97 /\ SubSeq(resp, 1, n - 2) \o (card.rest \o card.sw) = Whole
      OBVIOUS
    <3>1. CASE Len(R) >= 2 /\ R[Len(R) - 1] # 97 /\ client.resp \o R = Whole
      <4>1. n >= 2 /\ resp[n - 1] = R[Len(R) - 1]
        BY ONLY StatusIsLast, <1>1, R \in Seq(Byte), <3>1
      <4> QED
        BY <1>5, <3>1, <4>1 DEF Settled
    <3>2. CASE \E chunk \in Seq(Byte), left \in Byte :
                 /\ R = chunk \o <<97, left>>
                 /\ (client.resp \o chunk) \o (card.rest \o card.sw) = Whole
      <4>1. PICK chunk \in Seq(Byte), left \in Byte :
                 /\ R = chunk \o <<97, left>>
                 /\ (client.resp \o chunk) \o (card.rest \o card.sw) = Whole
        BY <3>2
      <4>2. <<97, left>> \in Seq(Byte) /\ Len(<<97, left>>) = 2 /\ <<97, left>>[1] = 97
        BY DEF Byte
      <4>3. PICK sw \in Seq(Byte) : sw = <<97, left>> /\ Len(sw) = 2 /\ sw[1] = 97
        BY <4>2
      <4>4. PICK keep \in Seq(Byte) : keep = client.resp \o chunk
        BY ONLY <1>1, chunk \in Seq(Byte), ConcatProperties
      <4>5. resp = keep \o sw
        <5>1. client.resp \in Seq(Byte)
          BY <1>1
        <5>2. (client.resp \o chunk) \o sw = client.resp \o (chunk \o sw)
          BY ONLY BytesAssociate, <5>1, chunk \in Seq(Byte), sw \in Seq(Byte)
        <5> QED
          BY <4>1, <4>3, <4>4, <5>2
      <4> HIDE DEF resp
      <4>6. n >= 2 /\ resp[n - 1] = sw[1] /\ SubSeq(resp, 1, n - 2) = keep
        BY ONLY EndsWith, keep \in Seq(Byte), sw \in Seq(Byte), <4>3, <4>5
      <4> QED
        BY <1>5, <4>1, <4>3, <4>4, <4>6 DEF Settled
    <3> QED
      BY <1>5, <3>1, <3>2 DEF Settled
  <2>2. CASE n < 2
    <3>1. End([kind |-> "TooShort"])
      BY <1>5, <2>2 DEF Collect, Extend
    <3>2. /\ client' = [pc |-> "done", data |-> client.data, resp |-> client.resp,
                        result |-> [kind |-> "TooShort"]]
          /\ command' = command
      BY <1>1, <3>1, ClientFields DEF End
    <3>3. WireTypes'
      BY <1>1, <3>2, ClientTypes
    <3>4. Done'
      BY <3>2 DEF Done, Answered
    <3> QED
      BY <3>2, <3>3, <3>4 DEF ScdIInv
  <2>3. CASE ~ (n < 2) /\ resp[n - 1] = 97
    <3>1. Ask("apdu", <<"GET RESPONSE", resp[n]>>, SubSeq(resp, 1, n - 2))
      BY <1>5, <2>3 DEF Collect, Extend
    <3> HIDE DEF resp
    <3>2. resp[n] \in Byte /\ SubSeq(resp, 1, n - 2) \in Seq(Byte)
      <4>1. n \in 1 .. n /\ n - 2 \in Int /\ \A i \in 1 .. n - 2 : i \in 1 .. n
        BY <1>2, <2>3
      <4> QED
        BY <1>2, <4>1, ElementOfSeq, SubSeqProperties
    <3> QED
      BY <1>3, <2>1, <2>3, <3>1, <3>2
  <2>4. CASE ~ (n < 2) /\ resp[n - 1] # 97
    <3> DEFINE result == [kind |-> "answered", status |-> ClassifySw(SplitSw(resp)[2]),
                          cert |-> CertOf(SplitSw(resp)[1])]
    <3>1. client' = [client EXCEPT !.pc = "done", !.resp = resp, !.result = result] /\ UNCHANGED command
      BY <1>5, <2>4 DEF Collect, Extend
    <3> HIDE DEF resp, n
    <3>2. result.status.retries \in 0 .. 15 /\ result.cert = CertOf(SplitSw(resp)[1])
      BY FourBits
    <3> HIDE DEF result
    <3>3. client' = [pc |-> "done", data |-> client.data, resp |-> resp, result |-> result]
      BY <1>1, <3>1, ClientFields
    <3>4. WireTypes'
      BY <1>1, <1>2, <3>3, ClientTypes
    <3>5. Whole' = Whole
      BY DEF Whole
    <3>6. Done'
      BY <2>1, <2>4, <3>1, <3>2, <3>3, <3>5 DEF Done
    <3> QED
      BY <3>3, <3>4, <3>6 DEF ScdIInv
  <2> QED
    BY <2>2, <2>3, <2>4
<1> QED
  BY <1>4, <1>5

LEMMA ReadLineKeeps == ScdIInv /\ ReadLine => ScdIInv'
<1> SUFFICES ASSUME ScdIInv, ReadLine PROVE ScdIInv'
  OBVIOUS
<1>1. /\ WireTypes /\ client.pc \in {"serialno", "apdu"} /\ wire # <<>> /\ wire' = Tail(wire)
      /\ wire \in Seq(Lines) /\ agent.pc # "greet" /\ client.resp \in Seq(Byte)
      /\ UNCHANGED <<card, agent, full, mixed>>
  BY DEF ScdIInv, WireTypes, ReadLine
<1>2. Answering
  BY <1>1 DEF ScdIInv, Asking
<1>3. PICK R, at : /\ Cut(R, at)
                   /\ client.pc = "serialno" => R = <<>> /\ client.resp = <<>>
                   /\ client.pc = "apdu" => Settled(R)
  BY <1>2 DEF Answering
<1>4. command = <<>>
  BY <1>2 DEF Answering
<1> DEFINE line == Head(wire)
<1>5. Len(wire) \in Nat /\ 1 \in 1 .. Len(wire) /\ line = wire[1] /\ line \in Lines
  <2>1. Len(wire) \in Nat \ {0}
    BY <1>1, EmptySeq
  <2> QED
    BY <1>1, <2>1, HeadTailProperties
<1>6. /\ R \in Seq(Byte) /\ at[1] \in 0 .. Len(R) /\ at[2] \in 0 .. Len(R)
      /\ client.data = SubSeq(R, 1, at[1])
      /\ Carries(line, R, at[1], at[2])
      /\ line.is = "OK" => Len(wire) = 1 /\ at[1] = Len(R) /\ agent.pc = "idle"
  <2>1. 1 \in 1 .. Len(wire) + 1 /\ 2 \in 1 .. Len(wire) + 1 /\ 1 + 1 = 2
    BY <1>5
  <2> QED
    BY <1>3, <1>5, <2>1 DEF Cut
<1>7. ASSUME NEW data \in Seq(Byte), data = SubSeq(R, 1, at[2]), command' = command,
             client' = [pc |-> client.pc, data |-> data, resp |-> client.resp, result |-> client.result]
      PROVE  ScdIInv'
  <2>1. WireTypes'
    BY <1>1, <1>7, ClientTypes
  <2>2. client'.data = SubSeq(R, 1, at[2]) /\ client'.resp = client.resp /\ client'.pc = client.pc
    BY <1>7
  <2>3. \E at2 : Cut(R, at2)'
    BY <1>1, <1>3, <2>2, TailCut
  <2>4. client.pc = "apdu" => Settled(R)'
    BY <1>1, <1>3, <2>2 DEF Settled, Whole
  <2>5. Answering'
    BY <1>3, <1>4, <1>7, <2>2, <2>3, <2>4 DEF Answering
  <2> QED
    BY <1>1, <2>1, <2>2, <2>5 DEF ScdIInv
<1>8. CASE line.is = "OK"
  <2>1. Collect
    BY <1>8 DEF ReadLine, EndsAnswer
  <2>2. client.data = R
    BY <1>6, <1>8, SubSeqFull
  <2>3. wire' = <<>>
    <3>1. Tail(wire) \in Seq(Lines) /\ Len(Tail(wire)) = 0
      BY <1>1, <1>6, <1>8, HeadTailProperties
    <3> QED
      BY <1>1, <3>1, EmptySeq
  <2> QED
    BY <1>1, <1>3, <1>4, <1>6, <1>8, <2>1, <2>2, <2>3, CollectKeeps
<1>9. CASE line.is = "D"
  <2>1. /\ client' = [client EXCEPT !.data = client.data \o DecodePercent(line.bytes)]
        /\ command' = command
    BY <1>9 DEF ReadLine, EndsAnswer
  <2>2. at[1] <= at[2] /\ DecodePercent(line.bytes) = SubSeq(R, at[1] + 1, at[2])
    BY <1>6, <1>9 DEF Carries
  <2>3. SubSeq(R, 1, at[1]) \o SubSeq(R, at[1] + 1, at[2]) = SubSeq(R, 1, at[2])
    <3>1. Len(R) \in Nat
      BY <1>6, LenProperties
    <3>2. 1 \in 1 .. Len(R) + 1 /\ at[1] \in 1 - 1 .. Len(R) /\ at[2] \in at[1] .. Len(R)
      BY <1>6, <2>2, <3>1
    <3> QED
      BY ONLY <1>6, <3>2, ConcatAdjacentSubSeq
  <2>4. SubSeq(R, 1, at[2]) \in Seq(Byte)
    <3>1. Len(R) \in Nat
      BY <1>6, LenProperties
    <3>2. at[2] \in Int /\ \A i \in 1 .. at[2] : i \in 1 .. Len(R)
      BY <1>6, <3>1
    <3> QED
      BY ONLY <1>6, <3>2, ElementOfSeq, SubSeqProperties
  <2>5. client' = [pc |-> client.pc, data |-> SubSeq(R, 1, at[2]), resp |-> client.resp,
                   result |-> client.result]
    BY <1>1, <1>6, <2>1, <2>2, <2>3, ClientFields
  <2> QED
    BY <1>7, <2>1, <2>4, <2>5
<1>10. CASE line.is \in {"ERR", "EOF"}
  <2>1. End([kind |-> "Agent"])
    BY <1>10 DEF ReadLine, EndsAnswer
  <2>2. /\ client' = [pc |-> "done", data |-> client.data, resp |-> client.resp,
                      result |-> [kind |-> "Agent"]]
        /\ command' = command
    BY <1>1, <2>1, ClientFields DEF End
  <2>3. WireTypes'
    <3>1. client.data \in Seq(Byte)
      BY <1>1 DEF WireTypes
    <3> QED
      BY <1>1, <2>2, <3>1, ClientTypes
  <2>4. Done'
    BY <1>4, <2>2 DEF Done, Answered
  <2> QED
    BY <2>2, <2>3, <2>4 DEF ScdIInv
<1>11. CASE line.is \notin {"OK", "D", "ERR", "EOF"}
  <2>1. client' = client /\ command' = command
    BY <1>11 DEF ReadLine, EndsAnswer
  <2>2. at[2] = at[1]
    BY <1>6, <1>11 DEF Carries
  <2>3. /\ client' = [pc |-> client.pc, data |-> client.data, resp |-> client.resp,
                      result |-> client.result]
        /\ client.data \in Seq(Byte)
    BY <1>1, <2>1 DEF WireTypes
  <2> QED
    BY <1>6, <1>7, <2>1, <2>2, <2>3
<1> QED
  BY <1>8, <1>9, <1>10, <1>11
-----------------------------------------------------------------------------
(* The specification *)

LEMMA StepScdIInv == ScdIInv /\ [ScdNext]_scdVars => ScdIInv'
<1> SUFFICES ASSUME ScdIInv, [ScdNext]_scdVars PROVE ScdIInv'
  OBVIOUS
<1>1. CASE Greet
  BY <1>1, GreetKeeps
<1>2. CASE ExecuteCommand
  BY <1>2, ExecuteKeeps
<1>3. CASE SendData
  BY <1>3, SendDataKeeps
<1>4. CASE SendEnd
  BY <1>4, SendEndKeeps
<1>5. CASE SendError
  BY <1>5, SendErrorKeeps
<1>6. CASE SendNoise
  BY <1>6, SendNoiseKeeps
<1>7. CASE Inquire
  BY <1>7, InquireKeeps
<1>8. CASE OtherApdu
  BY <1>8, OtherApduKeeps
<1>9. CASE Greeting
  BY <1>9, GreetingKeeps
<1>10. CASE ReadLine
  BY <1>10, ReadLineKeeps
<1>11. CASE UNCHANGED scdVars
  <2>1. UNCHANGED <<card, agent, wire, command, client, full, mixed>>
    BY <1>11 DEF scdVars
  <2>2. WireTypes'
    BY <2>1 DEF ScdIInv, WireTypes
  <2>3. /\ Greeted => Greeted'
        /\ Done => Done'
    BY <2>1 DEF Greeted, Done, Answered, Whole
  <2>4. Asking => Asking'
    BY <2>1 DEF Asking, Whole
  <2>5. Answering => Answering'
    <3> SUFFICES ASSUME Answering PROVE Answering'
      OBVIOUS
    <3>1. PICK R, at : /\ Cut(R, at)
                       /\ client.pc = "serialno" => R = <<>> /\ client.resp = <<>>
                       /\ client.pc = "apdu" => Settled(R)
      BY DEF Answering
    <3>2. Cut(R, at)'
      BY <2>1, <3>1 DEF Cut
    <3>3. client.pc = "apdu" => Settled(R)'
      BY <2>1, <3>1 DEF Settled, Whole
    <3> QED
      BY <2>1, <3>1, <3>2, <3>3 DEF Answering
  <2> QED
    BY <2>1, <2>2, <2>3, <2>4, <2>5 DEF ScdIInv
<1> QED
  BY <1>1, <1>2, <1>3, <1>4, <1>5, <1>6, <1>7, <1>8, <1>9, <1>10, <1>11 DEF ScdNext

\* The client's data, the lines on the wire and what the agent has still to send are one
\* response, in that order; and what was kept, that response and what the card has left are
\* what it answered (scd.rs: `command', apdu, apdu_ok).
THEOREM ScdInvariance == ScdSpec => []ScdIInv
<1>1. ScdInit => ScdIInv
  BY InitScdIInv
<1>2. ScdIInv /\ [ScdNext]_scdVars => ScdIInv'
  BY StepScdIInv
<1> QED
  BY <1>1, <1>2, PTL DEF ScdSpec

\* The full response, data and status, is what the card answered, whatever the pieces it comes
\* in, the lines and the escapes, and however the data resembles a status, as long as no other
\* client's APDU comes between two pieces (scd.rs: apdu).
THEOREM WholeAnswerArrives == ScdSpec => []FullResponse
<1>1. ScdIInv => FullResponse
  BY DEF ScdIInv, Done, FullResponse, Answered, Whole
<1> QED
  BY <1>1, ScdInvariance, PTL

\* What the client holds is bytes, and a count of attempts has four bits (scd.rs: classify_sw).
THEOREM ScdTypeCorrect == ScdSpec => []ScdTypeOK
<1>1. ASSUME ScdIInv PROVE ScdTypeOK
  <2>1. WireTypes
    BY <1>1 DEF ScdIInv
  <2>2. \A s \in Seq(Byte) : Range(s) \subseteq Byte
    <3>1. ASSUME NEW s \in Seq(Byte) PROVE Range(s) \subseteq Byte
      BY ElementOfSeq, LenProperties DEF Range
    <3> QED
      BY <3>1
  <2>3. Answered => client.result.status.retries \in 0 .. 15
    BY <1>1 DEF ScdIInv, Done, Answered
  <2> QED
    BY <2>1, <2>2, <2>3 DEF WireTypes, ScdTypeOK
<1> QED
  BY <1>1, ScdInvariance, PTL

\* Where the certificate is the one that the reader of the card's own object finds, the client
\* gives that certificate, and none where that reader finds none: neither the transport nor
\* the split of the status off the data (split_sw) adds to the object or takes from it.
THEOREM CertArrives ==
  ASSUME \A a \in CardAnswer : CertOf(a.data) = a.cert
  PROVE  ScdSpec => []CertIsFound
<1>1. ASSUME ScdIInv PROVE CertIsFound
  <2> SUFFICES ASSUME Answered, ~ mixed PROVE client.result.cert = full[1].cert
    BY DEF CertIsFound
  <2>1. /\ full # <<>> /\ client.resp = full[1].data \o full[1].sw
        /\ client.result.cert = CertOf(SplitSw(client.resp)[1])
        /\ full[1] \in CardAnswer
    BY <1>1 DEF ScdIInv, Done, Answered, Whole, WireTypes
  <2>2. PICK a \in CardAnswer : a = full[1]
    BY <2>1
  <2>3. a.data \in Seq(Byte) /\ a.sw \in Seq(Byte) /\ Len(a.sw) = 2
    BY PairIsSeq, ScdAssumption DEF ScdAssumption
  <2>4. SubSeq(client.resp, 1, Len(client.resp) - 2) = a.data
    <3>1. client.resp = a.data \o a.sw
      BY <2>1, <2>2
    <3>2. PICK d \in Seq(Byte), w \in Seq(Byte) : d = a.data /\ w = a.sw
      BY <2>3
    <3> DEFINE r == client.resp
    <3>3. Len(w) = 2 /\ r = d \o w
      BY <2>3, <3>1, <3>2
    <3> HIDE DEF r
    <3>4. SubSeq(r, 1, Len(r) - 2) = d
      BY ONLY EndsWith, d \in Seq(Byte), w \in Seq(Byte), <3>3
    <3> QED
      BY <3>2, <3>4 DEF r
  <2>5. SplitSw(client.resp)[1] = a.data
    BY <2>4 DEF SplitSw
  <2> QED
    BY <2>1, <2>2, <2>5
<1> QED
  BY <1>1, ScdInvariance, PTL
=============================================================================
