------------------------------ MODULE ToolsProofs ------------------------------
(* Proofs about the post-process of mem_ss, for trackers of any length: what *)
(* the ordering keeps of a tracker, and what the verdict says, however often *)
(* the script runs over its own output; and about the scripts that turn the  *)
(* log of the VGA memory into text, override parameters and make the image   *)
(* of a program the contents of a memory.                                    *)
EXTENDS Tools, SequenceTheorems, FiniteSetTheorems, WellFoundedInduction, TLAPS

(* Induction over numbers and over sequences, from a least counterexample.  *)
Less == {p \in Nat \X Nat : p[1] < p[2]}

LEMMA NatSetInduction ==
  ASSUME NEW T, 0 \in T, \A n \in Nat : n \in T => n + 1 \in T
  PROVE  \A n \in Nat : n \in T
<1> SUFFICES ASSUME NEW m \in Nat, m \notin T PROVE FALSE
  OBVIOUS
<1> DEFINE Bad == {n \in Nat : n \notin T}
<1>1. IsWellFoundedOn(Less, Nat)
  BY NatLessThanWellFounded DEF OpToRel, Less
<1>2. Bad \subseteq Nat /\ Bad # {}
  OBVIOUS
<1>3. PICK i \in Bad : \A j \in Bad : <<j, i>> \notin Less
  BY <1>1, <1>2, WFMin
<1>4. i \in Nat /\ i \notin T /\ i # 0
  BY <1>3
<1>5. i - 1 \in Nat /\ i - 1 < i /\ (i - 1) + 1 = i
  BY <1>4
<1>6. i - 1 \notin Bad
  BY <1>3, <1>4, <1>5 DEF Less
<1>. QED BY <1>4, <1>5, <1>6

LEMMA SeqSetInduction ==
  ASSUME NEW S, NEW T, << >> \in T,
         \A t \in Seq(S), x \in S : t \in T => Append(t, x) \in T
  PROVE  \A t \in Seq(S) : t \in T
<1> DEFINE Lengths == {n \in Nat : \A t \in Seq(S) : Len(t) = n => t \in T}
<1>1. 0 \in Lengths
  <2>1. \A t \in Seq(S) : Len(t) = 0 => t = << >>
    OBVIOUS
  <2>. QED BY <2>1
<1>2. ASSUME NEW n \in Nat, n \in Lengths PROVE n + 1 \in Lengths
  <2> SUFFICES ASSUME NEW t \in Seq(S), Len(t) = n + 1 PROVE t \in T
    OBVIOUS
  <2> DEFINE f == SubSeq(t, 1, n)
  <2>1. f \in Seq(S) /\ Len(f) = n /\ t[n + 1] \in S
    OBVIOUS
  <2>2. t = Append(f, t[n + 1])
    OBVIOUS
  <2>3. f \in T
    BY <1>2, <2>1
  <2>. QED BY <2>1, <2>2, <2>3
<1> HIDE DEF Lengths
<1>3. \A n \in Nat : n \in Lengths
  BY <1>1, <1>2, NatSetInduction
<1>. QED BY <1>3 DEF Lengths
-------------------------------------------------------------------------------
(* The recursion of OfKind over the first n lines.                          *)
Picked(f, x, kind) == IF Kind(x) = kind THEN Append(f, x) ELSE f
Picks(t, kind, n, g) == g = [i \in 0 .. n |-> IF i = 0 THEN << >> ELSE Picked(g[i - 1], t[i], kind)]

LEMMA PicksExists ==
  ASSUME NEW t, NEW kind
  PROVE  \A n \in Nat : \E g : Picks(t, kind, n, g)
<1> DEFINE T == {n \in Nat : \E g : Picks(t, kind, n, g)}
<1>1. 0 \in T
  <2>1. Picks(t, kind, 0, [i \in 0 .. 0 |-> << >>])
    BY DEF Picks
  <2>. QED BY <2>1
<1>2. ASSUME NEW n \in Nat, n \in T PROVE n + 1 \in T
  <2>1. PICK g : Picks(t, kind, n, g)
    BY <1>2
  <2> DEFINE h == [i \in 0 .. (n + 1) |-> IF i = n + 1 THEN Picked(g[n], t[n + 1], kind) ELSE g[i]]
  <2>2. g = [i \in 0 .. n |-> IF i = 0 THEN << >> ELSE Picked(g[i - 1], t[i], kind)]
    BY <2>1 DEF Picks
  <2>3. h = [i \in 0 .. (n + 1) |-> IF i = 0 THEN << >> ELSE Picked(h[i - 1], t[i], kind)]
    <3> SUFFICES ASSUME NEW i \in 0 .. (n + 1)
                 PROVE  h[i] = IF i = 0 THEN << >> ELSE Picked(h[i - 1], t[i], kind)
      BY Zenon
    <3>1. \A j \in 0 .. n : h[j] = g[j]
      OBVIOUS
    <3>2. CASE i = n + 1
      <4>1. i # 0 /\ i - 1 = n /\ h[i - 1] = g[n] /\ h[i] = Picked(g[n], t[i], kind)
        BY <3>1, <3>2
      <4>. QED BY <4>1
    <3>3. CASE i \in 0 .. n
      <4>1. h[i] = g[i] /\ (i # 0 => h[i - 1] = g[i - 1])
        BY <3>1, <3>3
      <4>2. g[i] = IF i = 0 THEN << >> ELSE Picked(g[i - 1], t[i], kind)
        BY <2>2, <3>3, Zenon
      <4>. QED BY <4>1, <4>2, Zenon
    <3>4. i = n + 1 \/ i \in 0 .. n
      OBVIOUS
    <3>. QED BY <3>2, <3>3, <3>4, Zenon
  <2> HIDE DEF h
  <2>4. Picks(t, kind, n + 1, h)
    BY <2>3, Zenon DEF Picks
  <2>. QED BY <2>4
<1> HIDE DEF T
<1>3. \A n \in Nat : n \in T
  BY <1>1, <1>2, NatSetInduction
<1>. QED BY <1>3 DEF T

LEMMA PicksStep ==
  ASSUME NEW t, NEW kind, NEW n \in Nat, NEW g, Picks(t, kind, n, g)
  PROVE  g[0] = << >> /\ \A i \in 1 .. n : g[i] = Picked(g[i - 1], t[i], kind)
<1>1. g = [i \in 0 .. n |-> IF i = 0 THEN << >> ELSE Picked(g[i - 1], t[i], kind)]
  BY DEF Picks
<1>. QED BY <1>1

(* What is picked of the first n lines depends on these lines only.         *)
LEMMA PicksPrefix ==
  ASSUME NEW s, NEW t, NEW kind, NEW m \in Nat, NEW n \in Nat, NEW g, NEW h,
         n <= m, \A i \in 1 .. n : s[i] = t[i],
         Picks(s, kind, m, g), Picks(t, kind, n, h)
  PROVE  \A i \in 0 .. n : g[i] = h[i]
<1>a. g[0] = << >> /\ \A i \in 1 .. m : g[i] = Picked(g[i - 1], s[i], kind)
  <2>1. g = [i \in 0 .. m |-> IF i = 0 THEN << >> ELSE Picked(g[i - 1], s[i], kind)]
    BY DEF Picks
  <2>. QED BY <2>1
<1>b. h[0] = << >> /\ \A i \in 1 .. n : h[i] = Picked(h[i - 1], t[i], kind)
  BY PicksStep
<1> DEFINE T == {i \in Nat : i <= n => g[i] = h[i]}
<1>1. 0 \in T
  BY <1>a, <1>b
<1>2. ASSUME NEW i \in Nat, i \in T PROVE i + 1 \in T
  <2> SUFFICES ASSUME i + 1 <= n PROVE g[i + 1] = h[i + 1]
    OBVIOUS
  <2>1. i + 1 \in 1 .. n /\ i + 1 \in 1 .. m /\ (i + 1) - 1 = i /\ g[i] = h[i]
    BY <1>2
  <2>2. g[i + 1] = Picked(g[i], s[i + 1], kind)
    BY <2>1, <1>a
  <2>3. h[i + 1] = Picked(h[i], t[i + 1], kind)
    BY <2>1, <1>b
  <2>. QED BY <2>1, <2>2, <2>3
<1> HIDE DEF T
<1>3. \A i \in Nat : i \in T
  BY <1>1, <1>2, NatSetInduction
<1>. QED BY <1>3 DEF T

LEMMA OfKindPicks ==
  ASSUME NEW S, NEW t \in Seq(S), NEW kind
  PROVE  \E g : Picks(t, kind, Len(t), g) /\ OfKind(t, kind) = g[Len(t)]
<1> DEFINE g == CHOOSE f : Picks(t, kind, Len(t), f)
<1>1. Picks(t, kind, Len(t), g)
  <2>1. Len(t) \in Nat
    OBVIOUS
  <2>. QED BY <2>1, PicksExists
<1>2. OfKind(t, kind) = g[Len(t)]
  BY DEF OfKind, Picks, Picked
<1>. QED BY <1>1, <1>2

(* The lines of a kind, one line after the other.                           *)
LEMMA OfKindEmpty == ASSUME NEW kind PROVE OfKind(<< >>, kind) = << >>
<1>1. << >> \in Seq(Lines) /\ Len(<< >>) = 0
  OBVIOUS
<1>2. PICK g : Picks(<< >>, kind, 0, g) /\ OfKind(<< >>, kind) = g[0]
  BY <1>1, OfKindPicks
<1>. QED BY <1>2, PicksStep

LEMMA OfKindAppend ==
  ASSUME NEW t \in Seq(Lines), NEW x \in Lines, NEW kind
  PROVE  OfKind(Append(t, x), kind) = Picked(OfKind(t, kind), x, kind)
<1> DEFINE n == Len(t)
           s == Append(t, x)
<1>1. n \in Nat /\ s \in Seq(Lines) /\ Len(s) = n + 1 /\ s[n + 1] = x
      /\ \A i \in 1 .. n : s[i] = t[i]
  OBVIOUS
<1>2. PICK g : Picks(t, kind, n, g) /\ OfKind(t, kind) = g[n]
  BY OfKindPicks
<1>3. PICK h : Picks(s, kind, n + 1, h) /\ OfKind(s, kind) = h[n + 1]
  BY <1>1, OfKindPicks
<1> HIDE DEF n, s
<1>4. h[n] = g[n]
  <2>1. n + 1 \in Nat /\ n <= n + 1 /\ n \in 0 .. n
    BY <1>1
  <2>2. \A i \in 0 .. n : h[i] = g[i]
    BY <1>1, <1>2, <1>3, <2>1, PicksPrefix
  <2>. QED BY <2>1, <2>2
<1>5. h[n + 1] = Picked(h[n], x, kind)
  <2>1. n + 1 \in 1 .. (n + 1) /\ (n + 1) - 1 = n /\ n + 1 \in Nat
    BY <1>1
  <2>. QED BY <1>1, <1>3, <2>1, PicksStep
<1>. QED BY <1>2, <1>3, <1>4, <1>5 DEF s

(* The lines of a kind are of that kind.                                    *)
LinesOf(kind) == {x \in Lines : Kind(x) = kind}

LEMMA OfKindType ==
  ASSUME NEW kind
  PROVE  \A t \in Seq(Lines) : OfKind(t, kind) \in Seq(LinesOf(kind))
<1> DEFINE T == {t \in Seq(Lines) : OfKind(t, kind) \in Seq(LinesOf(kind))}
<1>1. << >> \in T
  <2>1. << >> \in Seq(Lines) /\ << >> \in Seq(LinesOf(kind))
    OBVIOUS
  <2>2. OfKind(<< >>, kind) = << >>
    BY OfKindEmpty
  <2>. QED BY <2>1, <2>2
<1>2. ASSUME NEW t \in Seq(Lines), NEW x \in Lines, t \in T PROVE Append(t, x) \in T
  <2>1. OfKind(t, kind) \in Seq(LinesOf(kind)) /\ Append(t, x) \in Seq(Lines)
    BY <1>2
  <2>2. OfKind(Append(t, x), kind) = Picked(OfKind(t, kind), x, kind)
    BY OfKindAppend
  <2>3. Picked(OfKind(t, kind), x, kind) \in Seq(LinesOf(kind))
    BY <2>1 DEF Picked, LinesOf
  <2>. QED BY <2>1, <2>2, <2>3
<1> HIDE DEF T
<1>3. \A t \in Seq(Lines) : t \in T
  BY <1>1, <1>2, SeqSetInduction
<1>. QED BY <1>3 DEF T

(* They are picked of each part of a tracker.                               *)
LEMMA OfKindConcat ==
  ASSUME NEW kind, NEW s \in Seq(Lines)
  PROVE  \A t \in Seq(Lines) : OfKind(s \o t, kind) = OfKind(s, kind) \o OfKind(t, kind)
<1> DEFINE T == {t \in Seq(Lines) : OfKind(s \o t, kind) = OfKind(s, kind) \o OfKind(t, kind)}
<1>0. OfKind(s, kind) \in Seq(LinesOf(kind))
  BY OfKindType
<1>1. << >> \in T
  <2>1. s \o << >> = s /\ OfKind(s, kind) \o << >> = OfKind(s, kind)
    BY <1>0, ConcatEmptySeq
  <2>2. << >> \in Seq(Lines)
    OBVIOUS
  <2>. QED BY <2>1, <2>2, OfKindEmpty
<1>2. ASSUME NEW t \in Seq(Lines), NEW x \in Lines, t \in T PROVE Append(t, x) \in T
  <2>1. /\ OfKind(t, kind) \in Seq(LinesOf(kind))
        /\ OfKind(s \o t, kind) = OfKind(s, kind) \o OfKind(t, kind)
        /\ s \o t \in Seq(Lines) /\ Append(t, x) \in Seq(Lines)
    BY <1>2, OfKindType
  <2>2. s \o Append(t, x) = Append(s \o t, x)
    OBVIOUS
  <2>3. /\ OfKind(Append(t, x), kind) = Picked(OfKind(t, kind), x, kind)
        /\ OfKind(Append(s \o t, x), kind) = Picked(OfKind(s \o t, kind), x, kind)
    BY <2>1, OfKindAppend
  <2>4. Picked(OfKind(s, kind) \o OfKind(t, kind), x, kind)
          = OfKind(s, kind) \o Picked(OfKind(t, kind), x, kind)
    <3>1. ASSUME NEW f \in Seq(LinesOf(kind)), NEW g \in Seq(LinesOf(kind)), Kind(x) = kind
          PROVE  Append(f \o g, x) = f \o Append(g, x)
      <4>1. x \in LinesOf(kind)
        BY <3>1 DEF LinesOf
      <4>2. /\ Append(f \o g, x) = (f \o g) \o <<x>> /\ Append(g, x) = g \o <<x>>
            /\ (f \o g) \o <<x>> = f \o (g \o <<x>>)
        <5>1. f \o g \in Seq(LinesOf(kind)) /\ <<x>> \in Seq(LinesOf(kind))
          BY <3>1, <4>1
        <5>. QED BY <3>1, <4>1, <5>1, AppendIsConcat, ConcatAssociative
      <4>. QED BY <4>2
    <3>2. CASE Kind(x) = kind
      BY <1>0, <2>1, <3>1, <3>2 DEF Picked
    <3>3. CASE Kind(x) # kind
      BY <3>3, Zenon DEF Picked
    <3>. QED BY <3>2, <3>3
  <2>. QED BY <2>1, <2>2, <2>3, <2>4
<1> HIDE DEF T
<1>3. \A t \in Seq(Lines) : t \in T
  BY <1>1, <1>2, SeqSetInduction
<1>. QED BY <1>3 DEF T

LEMMA OfKindSame ==
  ASSUME NEW kind
  PROVE  \A t \in Seq(LinesOf(kind)) : OfKind(t, kind) = t
<1> DEFINE T == {t \in Seq(LinesOf(kind)) : OfKind(t, kind) = t}
<1>1. << >> \in T
  BY OfKindEmpty
<1>2. ASSUME NEW t \in Seq(LinesOf(kind)), NEW x \in LinesOf(kind), t \in T PROVE Append(t, x) \in T
  <2>1. t \in Seq(Lines) /\ x \in Lines /\ Kind(x) = kind
        /\ Append(t, x) \in Seq(LinesOf(kind)) /\ OfKind(t, kind) = t
    BY <1>2 DEF LinesOf
  <2>2. OfKind(Append(t, x), kind) = Picked(OfKind(t, kind), x, kind)
    BY <2>1, OfKindAppend
  <2>3. Picked(t, x, kind) = Append(t, x)
    BY <2>1, Zenon DEF Picked
  <2>. QED BY <2>1, <2>2, <2>3
<1> HIDE DEF T
<1>3. \A t \in Seq(LinesOf(kind)) : t \in T
  BY <1>1, <1>2, SeqSetInduction
<1>. QED BY <1>3 DEF T

LEMMA OfKindNone ==
  ASSUME NEW kind, NEW another, another # kind
  PROVE  \A t \in Seq(LinesOf(another)) : OfKind(t, kind) = << >>
<1> DEFINE T == {t \in Seq(LinesOf(another)) : OfKind(t, kind) = << >>}
<1>1. << >> \in T
  BY OfKindEmpty
<1>2. ASSUME NEW t \in Seq(LinesOf(another)), NEW x \in LinesOf(another), t \in T
      PROVE  Append(t, x) \in T
  <2>1. t \in Seq(Lines) /\ x \in Lines /\ Kind(x) # kind
        /\ Append(t, x) \in Seq(LinesOf(another)) /\ OfKind(t, kind) = << >>
    BY <1>2 DEF LinesOf
  <2>2. OfKind(Append(t, x), kind) = Picked(OfKind(t, kind), x, kind)
    BY <2>1, OfKindAppend
  <2>3. Picked(<< >>, x, kind) = << >>
    BY <2>1, Zenon DEF Picked
  <2>. QED BY <2>1, <2>2, <2>3
<1> HIDE DEF T
<1>3. \A t \in Seq(LinesOf(another)) : t \in T
  BY <1>1, <1>2, SeqSetInduction
<1>. QED BY <1>3 DEF T
-------------------------------------------------------------------------------
(* The first n requests and responses, in turn.                             *)
InTurn(q, r, n) == [i \in 1 .. (2 * n) |-> IF i % 2 = 1 THEN q[(i + 1) \div 2] ELSE r[i \div 2]]

LEMMA Halves ==
  ASSUME NEW i \in Nat
  PROVE  /\ (i % 2 = 0 \/ i % 2 = 1) /\ i \div 2 \in Nat /\ (i + 1) \div 2 \in Nat
         /\ i % 2 = 0 => i = 2 * (i \div 2)
         /\ i % 2 = 1 => i = 2 * ((i + 1) \div 2) - 1
OBVIOUS

LEMMA InTurnType ==
  ASSUME NEW q \in Seq(Lines), NEW r \in Seq(Lines), NEW n \in Nat, n <= Len(q), n <= Len(r)
  PROVE  InTurn(q, r, n) \in Seq(Lines) /\ Len(InTurn(q, r, n)) = 2 * n
<1>1. ASSUME NEW i \in 1 .. (2 * n)
      PROVE  (IF i % 2 = 1 THEN q[(i + 1) \div 2] ELSE r[i \div 2]) \in Lines
  <2>1. i % 2 = 1 => (i + 1) \div 2 \in 1 .. n
    BY Halves
  <2>2. i % 2 # 1 => i \div 2 \in 1 .. n
    BY Halves
  <2>. QED BY <2>1, <2>2
<1>. QED BY <1>1 DEF InTurn

LEMMA InTurnStep ==
  ASSUME NEW q \in Seq(Lines), NEW r \in Seq(Lines), NEW n \in Nat, n < Len(q), n < Len(r)
  PROVE  InTurn(q, r, n + 1) = Append(Append(InTurn(q, r, n), q[n + 1]), r[n + 1])
<1> DEFINE z == InTurn(q, r, n)
           y == InTurn(q, r, n + 1)
           a == Append(Append(z, q[n + 1]), r[n + 1])
<1>1. z \in Seq(Lines) /\ Len(z) = 2 * n /\ y \in Seq(Lines) /\ Len(y) = 2 * (n + 1)
  <2>1. n <= Len(q) /\ n <= Len(r) /\ n + 1 <= Len(q) /\ n + 1 <= Len(r) /\ n + 1 \in Nat
    OBVIOUS
  <2>. QED BY <2>1, InTurnType
<1>2. q[n + 1] \in Lines /\ r[n + 1] \in Lines
  OBVIOUS
<1>3. \A i \in 1 .. (2 * n) : y[i] = z[i]
  BY DEF InTurn
<1>4. y[2 * n + 1] = q[n + 1]
  <2>1. (2 * n + 1) % 2 = 1 /\ ((2 * n + 1) + 1) \div 2 = n + 1 /\ 2 * n + 1 \in 1 .. (2 * (n + 1))
    OBVIOUS
  <2>. QED BY <2>1 DEF InTurn
<1>5. y[2 * n + 2] = r[n + 1]
  <2>1. (2 * n + 2) % 2 # 1 /\ (2 * n + 2) \div 2 = n + 1 /\ 2 * n + 2 \in 1 .. (2 * (n + 1))
    OBVIOUS
  <2>. QED BY <2>1 DEF InTurn
<1> HIDE DEF z, y
<1>6. /\ a \in Seq(Lines) /\ Len(a) = 2 * n + 2
      /\ \A i \in 1 .. (2 * n) : a[i] = z[i]
      /\ a[2 * n + 1] = q[n + 1] /\ a[2 * n + 2] = r[n + 1]
  BY <1>1, <1>2
<1> HIDE DEF a
<1>7. \A i \in 1 .. (2 * n + 2) : a[i] = y[i]
  <2>1. \A i \in 1 .. (2 * n + 2) : i \in 1 .. (2 * n) \/ i = 2 * n + 1 \/ i = 2 * n + 2
    OBVIOUS
  <2>. QED BY <2>1, <1>3, <1>4, <1>5, <1>6
<1>8. a = y
  <2>1. Len(y) = Len(a) /\ \A i \in 1 .. Len(a) : a[i] = y[i]
    BY <1>1, <1>6, <1>7
  <2>. QED BY <1>1, <1>6, <2>1, SeqEqual
<1>. QED BY <1>8 DEF a, y, z

LEMMA InTurnKinds ==
  ASSUME NEW q \in Seq(LinesOf("req")), NEW r \in Seq(LinesOf("rsp"))
  PROVE  \A n \in Nat : n <= Len(q) /\ n <= Len(r) =>
           /\ OfKind(InTurn(q, r, n), "req") = SubSeq(q, 1, n)
           /\ OfKind(InTurn(q, r, n), "rsp") = SubSeq(r, 1, n)
           /\ OfKind(InTurn(q, r, n), "other") = << >>
<1> DEFINE T == {n \in Nat : n <= Len(q) /\ n <= Len(r) =>
                   /\ OfKind(InTurn(q, r, n), "req") = SubSeq(q, 1, n)
                   /\ OfKind(InTurn(q, r, n), "rsp") = SubSeq(r, 1, n)
                   /\ OfKind(InTurn(q, r, n), "other") = << >>}
<1>0. q \in Seq(Lines) /\ r \in Seq(Lines)
  BY DEF LinesOf
<1>1. 0 \in T
  <2>1. InTurn(q, r, 0) = << >>
    BY DEF InTurn
  <2>2. SubSeq(q, 1, 0) = << >> /\ SubSeq(r, 1, 0) = << >>
    BY SubSeqEmpty
  <2>. QED BY <2>1, <2>2, OfKindEmpty
<1>2. ASSUME NEW n \in Nat, n \in T PROVE n + 1 \in T
  <2> SUFFICES ASSUME n + 1 <= Len(q), n + 1 <= Len(r)
               PROVE  /\ OfKind(InTurn(q, r, n + 1), "req") = SubSeq(q, 1, n + 1)
                      /\ OfKind(InTurn(q, r, n + 1), "rsp") = SubSeq(r, 1, n + 1)
                      /\ OfKind(InTurn(q, r, n + 1), "other") = << >>
    OBVIOUS
  <2> DEFINE z == InTurn(q, r, n)
  <2>1. /\ OfKind(z, "req") = SubSeq(q, 1, n) /\ OfKind(z, "rsp") = SubSeq(r, 1, n)
        /\ OfKind(z, "other") = << >>
    BY <1>2
  <2>2. z \in Seq(Lines) /\ InTurn(q, r, n + 1) = Append(Append(z, q[n + 1]), r[n + 1])
    <3>1. n <= Len(q) /\ n <= Len(r) /\ n < Len(q) /\ n < Len(r)
      BY <1>0
    <3>. QED BY <1>0, <3>1, InTurnType, InTurnStep
  <2> HIDE DEF z, T
  <2>3. /\ q[n + 1] \in Lines /\ Kind(q[n + 1]) = "req"
        /\ r[n + 1] \in Lines /\ Kind(r[n + 1]) = "rsp"
    BY DEF LinesOf
  <2>4. Append(z, q[n + 1]) \in Seq(Lines)
    BY <2>2, <2>3
  <2>5. ASSUME NEW kind
        PROVE  OfKind(InTurn(q, r, n + 1), kind)
                 = Picked(Picked(OfKind(z, kind), q[n + 1], kind), r[n + 1], kind)
    BY <2>2, <2>3, <2>4, OfKindAppend
  <2>6. /\ SubSeq(q, 1, n + 1) = Append(SubSeq(q, 1, n), q[n + 1])
        /\ SubSeq(r, 1, n + 1) = Append(SubSeq(r, 1, n), r[n + 1])
    <3>1. n + 1 \in 1 .. Len(q) /\ n + 1 \in 1 .. Len(r)
      OBVIOUS
    <3>. QED BY <3>1
  <2>7. OfKind(InTurn(q, r, n + 1), "req") = SubSeq(q, 1, n + 1)
    <3>1. Picked(Picked(SubSeq(q, 1, n), q[n + 1], "req"), r[n + 1], "req") = Append(SubSeq(q, 1, n), q[n + 1])
      BY <2>3 DEF Picked
    <3>. QED BY <2>1, <2>5, <2>6, <3>1
  <2>8. OfKind(InTurn(q, r, n + 1), "rsp") = SubSeq(r, 1, n + 1)
    <3>1. Picked(Picked(SubSeq(r, 1, n), q[n + 1], "rsp"), r[n + 1], "rsp") = Append(SubSeq(r, 1, n), r[n + 1])
      BY <2>3 DEF Picked
    <3>. QED BY <2>1, <2>5, <2>6, <3>1
  <2>9. OfKind(InTurn(q, r, n + 1), "other") = << >>
    <3>1. Picked(Picked(<< >>, q[n + 1], "other"), r[n + 1], "other") = << >>
      BY <2>3 DEF Picked
    <3>. QED BY <2>1, <2>5, <3>1
  <2>. QED BY <2>7, <2>8, <2>9
<1> HIDE DEF T
<1>3. \A n \in Nat : n \in T
  BY <1>1, <1>2, NatSetInduction
<1>. QED BY <1>3 DEF T

LEMMA KindsOfTracker ==
  ASSUME NEW t \in Seq(Lines)
  PROVE  /\ Reqs(t) \in Seq(LinesOf("req")) /\ Rsps(t) \in Seq(LinesOf("rsp"))
         /\ Others(t) \in Seq(LinesOf("other"))
         /\ Answered(t) \in Nat /\ Answered(t) <= Len(Reqs(t)) /\ Answered(t) <= Len(Rsps(t))
         /\ Answered(t) = Len(Reqs(t)) \/ Answered(t) = Len(Rsps(t))
<1>1. /\ Reqs(t) \in Seq(LinesOf("req")) /\ Rsps(t) \in Seq(LinesOf("rsp"))
      /\ Others(t) \in Seq(LinesOf("other"))
  BY OfKindType DEF Reqs, Rsps, Others
<1>2. Len(Reqs(t)) \in Nat /\ Len(Rsps(t)) \in Nat
  BY <1>1
<1>. QED BY <1>1, <1>2 DEF Answered

(* Putting a tracker in order keeps its events and its answered reads.      *)
LEMMA OrderedKeeps ==
  ASSUME NEW t \in Seq(Lines)
  PROVE  /\ Ordered(t) \in Seq(Lines)
         /\ Others(Ordered(t)) = Others(t)
         /\ Reqs(Ordered(t)) = SubSeq(Reqs(t), 1, Answered(t))
         /\ Rsps(Ordered(t)) = SubSeq(Rsps(t), 1, Answered(t))
<1> DEFINE o == Others(t)
           h == IF Len(o) < HeaderLines THEN Len(o) ELSE HeaderLines
           before == SubSeq(o, 1, h)
           after == SubSeq(o, h + 1, Len(o))
           pairs == InTurn(Reqs(t), Rsps(t), Answered(t))
<1>1. /\ Reqs(t) \in Seq(LinesOf("req")) /\ Rsps(t) \in Seq(LinesOf("rsp"))
      /\ o \in Seq(LinesOf("other"))
      /\ Answered(t) \in Nat /\ Answered(t) <= Len(Reqs(t)) /\ Answered(t) <= Len(Rsps(t))
  BY KindsOfTracker
<1>2. h \in 0 .. Len(o) /\ Len(o) \in Nat
  BY <1>1, HeaderAssumption
<1>3. Ordered(t) = (before \o pairs) \o after
  BY DEF Ordered, Pairs, InTurn
<1> HIDE DEF h, o
<1>4. /\ before \in Seq(LinesOf("other")) /\ after \in Seq(LinesOf("other"))
      /\ before \o after = o
  <2>1. before \in Seq(LinesOf("other")) /\ after \in Seq(LinesOf("other"))
    BY <1>1, <1>2
  <2>2. 1 \in 1 .. Len(o) + 1 /\ h \in 1 - 1 .. Len(o) /\ Len(o) \in h .. Len(o)
    BY <1>2
  <2>3. SubSeq(o, 1, Len(o)) = o
    BY <1>1, SubSeqFull
  <2>4. before \o after = SubSeq(o, 1, Len(o))
    BY <1>1, <2>2, ConcatAdjacentSubSeq
  <2>. QED BY <2>1, <2>3, <2>4
<1>5. pairs \in Seq(Lines)
  <2>1. Reqs(t) \in Seq(Lines) /\ Rsps(t) \in Seq(Lines)
    BY <1>1 DEF LinesOf
  <2>. QED BY <1>1, <2>1, InTurnType
<1>6. /\ OfKind(pairs, "req") = SubSeq(Reqs(t), 1, Answered(t))
      /\ OfKind(pairs, "rsp") = SubSeq(Rsps(t), 1, Answered(t))
      /\ OfKind(pairs, "other") = << >>
  BY <1>1, InTurnKinds
<1>7. before \in Seq(Lines) /\ after \in Seq(Lines)
  BY <1>4 DEF LinesOf
<1> HIDE DEF before, after, pairs
<1>8. before \o pairs \in Seq(Lines) /\ (before \o pairs) \o after \in Seq(Lines)
  BY <1>5, <1>7
<1>9. ASSUME NEW kind
      PROVE  OfKind(Ordered(t), kind) = (OfKind(before, kind) \o OfKind(pairs, kind)) \o OfKind(after, kind)
  <2>1. OfKind(before \o pairs, kind) = OfKind(before, kind) \o OfKind(pairs, kind)
    BY <1>5, <1>7, OfKindConcat
  <2>2. OfKind((before \o pairs) \o after, kind) = OfKind(before \o pairs, kind) \o OfKind(after, kind)
    BY <1>7, <1>8, OfKindConcat
  <2>. QED BY <1>3, <2>1, <2>2
<1>10. /\ OfKind(before, "other") = before /\ OfKind(after, "other") = after
       /\ OfKind(before, "req") = << >> /\ OfKind(after, "req") = << >>
       /\ OfKind(before, "rsp") = << >> /\ OfKind(after, "rsp") = << >>
  BY <1>4, OfKindSame, OfKindNone
<1>11. Others(Ordered(t)) = o
  <2>1. before \o << >> = before
    BY <1>7, ConcatEmptySeq
  <2>. QED BY <1>4, <1>6, <1>9, <1>10, <2>1 DEF Others
<1>12. /\ Reqs(Ordered(t)) = SubSeq(Reqs(t), 1, Answered(t))
       /\ Rsps(Ordered(t)) = SubSeq(Rsps(t), 1, Answered(t))
  <2>1. ASSUME NEW S, NEW q \in Seq(S) PROVE (<< >> \o q) \o << >> = q
    BY <2>1, ConcatEmptySeq
  <2>2. /\ SubSeq(Reqs(t), 1, Answered(t)) \in Seq(LinesOf("req"))
        /\ SubSeq(Rsps(t), 1, Answered(t)) \in Seq(LinesOf("rsp"))
    BY <1>1
  <2>. QED BY <1>6, <1>9, <1>10, <2>1, <2>2 DEF Reqs, Rsps
<1>. QED BY <1>3, <1>8, <1>11, <1>12 DEF o

(* Trackers agree when their events and their answered reads are the same.  *)
LEMMA AgreeMeans ==
  ASSUME NEW t \in Seq(Lines), NEW g \in Seq(Lines)
  PROVE  Agree(t, g) <=> /\ Others(t) = Others(g) /\ Answered(t) = Answered(g)
                         /\ SubSeq(Reqs(t), 1, Answered(t)) = SubSeq(Reqs(g), 1, Answered(g))
                         /\ SubSeq(Rsps(t), 1, Answered(t)) = SubSeq(Rsps(g), 1, Answered(g))
<1>1. ASSUME NEW S, NEW q \in Seq(S), NEW r \in Seq(S), NEW n \in Nat, n <= Len(q), n <= Len(r)
      PROVE  (\A i \in 1 .. n : q[i] = r[i]) <=> SubSeq(q, 1, n) = SubSeq(r, 1, n)
  <2>1. /\ SubSeq(q, 1, n) \in Seq(S) /\ Len(SubSeq(q, 1, n)) = n
        /\ SubSeq(r, 1, n) \in Seq(S) /\ Len(SubSeq(r, 1, n)) = n
        /\ \A i \in 1 .. n : SubSeq(q, 1, n)[i] = q[i] /\ SubSeq(r, 1, n)[i] = r[i]
    BY <1>1
  <2>. QED BY <2>1
<1>2. /\ Reqs(t) \in Seq(LinesOf("req")) /\ Reqs(g) \in Seq(LinesOf("req"))
      /\ Rsps(t) \in Seq(LinesOf("rsp")) /\ Rsps(g) \in Seq(LinesOf("rsp"))
      /\ Answered(t) \in Nat /\ Answered(t) <= Len(Reqs(t)) /\ Answered(t) <= Len(Rsps(t))
      /\ Answered(g) <= Len(Reqs(g)) /\ Answered(g) <= Len(Rsps(g))
  BY KindsOfTracker
<1>3. ASSUME Answered(t) = Answered(g)
      PROVE  /\ (\A i \in 1 .. Answered(t) : Reqs(t)[i] = Reqs(g)[i])
                  <=> SubSeq(Reqs(t), 1, Answered(t)) = SubSeq(Reqs(g), 1, Answered(g))
             /\ (\A i \in 1 .. Answered(t) : Rsps(t)[i] = Rsps(g)[i])
                  <=> SubSeq(Rsps(t), 1, Answered(t)) = SubSeq(Rsps(g), 1, Answered(g))
  BY <1>1, <1>2, <1>3
<1>4. Agree(t, g) <=> /\ Others(t) = Others(g) /\ Answered(t) = Answered(g)
                      /\ \A i \in 1 .. Answered(t) : Reqs(t)[i] = Reqs(g)[i]
                      /\ \A i \in 1 .. Answered(t) : Rsps(t)[i] = Rsps(g)[i]
  BY Zenon DEF Agree
<1>. QED BY <1>3, <1>4

LEMMA AgreeIsEquivalence ==
  ASSUME NEW t \in Seq(Lines), NEW g \in Seq(Lines), NEW u \in Seq(Lines), Agree(t, g)
  PROVE  Agree(g, t) /\ (Agree(g, u) => Agree(t, u)) /\ Agree(t, t)
BY AgreeMeans

LEMMA OrderedAgrees ==
  ASSUME NEW t \in Seq(Lines)
  PROVE  Ordered(t) \in Seq(Lines) /\ Agree(Ordered(t), t)
<1>1. /\ Ordered(t) \in Seq(Lines)
      /\ Others(Ordered(t)) = Others(t)
      /\ Reqs(Ordered(t)) = SubSeq(Reqs(t), 1, Answered(t))
      /\ Rsps(Ordered(t)) = SubSeq(Rsps(t), 1, Answered(t))
  BY OrderedKeeps
<1>2. /\ Reqs(t) \in Seq(LinesOf("req")) /\ Rsps(t) \in Seq(LinesOf("rsp"))
      /\ Answered(t) \in Nat /\ Answered(t) <= Len(Reqs(t)) /\ Answered(t) <= Len(Rsps(t))
  BY KindsOfTracker
<1>3. /\ Len(SubSeq(Reqs(t), 1, Answered(t))) = Answered(t)
      /\ Len(SubSeq(Rsps(t), 1, Answered(t))) = Answered(t)
  BY <1>2
<1>4. Answered(Ordered(t)) = Answered(t)
  BY <1>1, <1>2, <1>3 DEF Answered
<1>5. /\ SubSeq(SubSeq(Reqs(t), 1, Answered(t)), 1, Answered(t)) = SubSeq(Reqs(t), 1, Answered(t))
      /\ SubSeq(SubSeq(Rsps(t), 1, Answered(t)), 1, Answered(t)) = SubSeq(Rsps(t), 1, Answered(t))
  <2>1. /\ SubSeq(Reqs(t), 1, Answered(t)) \in Seq(LinesOf("req"))
        /\ SubSeq(Rsps(t), 1, Answered(t)) \in Seq(LinesOf("rsp"))
    BY <1>2
  <2>. QED BY <1>3, <2>1, SubSeqFull
<1>. QED BY <1>1, <1>4, <1>5, AgreeMeans

(* orderer_func decides what the post-process is about: two trackers are    *)
(* the same once in order exactly when they agree, whatever their length    *)
(* and however their reads and their other events interleave.               *)
THEOREM OrderingDecides ==
  \A t, g \in Seq(Lines) : Ordered(t) = Ordered(g) <=> Agree(t, g)
<1> SUFFICES ASSUME NEW t \in Seq(Lines), NEW g \in Seq(Lines)
             PROVE  Ordered(t) = Ordered(g) <=> Agree(t, g)
  OBVIOUS
<1>1. ASSUME Ordered(t) = Ordered(g) PROVE Agree(t, g)
  <2>1. /\ Ordered(t) \in Seq(Lines) /\ Agree(Ordered(t), t) /\ Agree(Ordered(t), g)
    BY <1>1, OrderedAgrees
  <2>2. Agree(t, Ordered(t))
    BY <2>1, AgreeIsEquivalence
  <2>. QED BY <2>1, <2>2, AgreeIsEquivalence
<1>2. ASSUME Agree(t, g) PROVE Ordered(t) = Ordered(g)
  <2>1. Others(t) = Others(g) /\ Answered(t) = Answered(g) /\ Answered(t) \in Nat
        /\ \A i \in 1 .. Answered(t) : Reqs(t)[i] = Reqs(g)[i] /\ Rsps(t)[i] = Rsps(g)[i]
    BY <1>2, KindsOfTracker DEF Agree
  <2>2. Pairs(t) = Pairs(g)
    <3> SUFFICES ASSUME NEW i \in 1 .. (2 * Answered(t))
                 PROVE  (IF i % 2 = 1 THEN Reqs(t)[(i + 1) \div 2] ELSE Rsps(t)[i \div 2])
                          = (IF i % 2 = 1 THEN Reqs(g)[(i + 1) \div 2] ELSE Rsps(g)[i \div 2])
      BY <2>1, Zenon DEF Pairs
    <3>1. i % 2 = 1 => (i + 1) \div 2 \in 1 .. Answered(t)
      BY <2>1, Halves
    <3>2. i % 2 # 1 => i \div 2 \in 1 .. Answered(t)
      BY <2>1, Halves
    <3>. QED BY <2>1, <3>1, <3>2
  <2>. QED BY <2>1, <2>2, Zenon DEF Ordered
<1>. QED BY <1>1, <1>2

COROLLARY OrderedTwice ==
  ASSUME NEW t \in Seq(Lines)
  PROVE  Ordered(Ordered(t)) = Ordered(t)
BY OrderedAgrees, OrderingDecides
-------------------------------------------------------------------------------
(* The inductive invariant: whatever was run and stopped, a file is gone, or *)
(* is what the simulation wrote, or is that put in order; at each stage the  *)
(* files that come next are there and those done with are in order.          *)
Stages == {"idle", "write_trk", "remove_trk", "rename_trk",
           "write_gold", "remove_gold", "rename_gold", "compare"}

Ran(s) == s # None
InOrder(f, s) == Ran(s) /\ f = Ordered(s)
Kept(f, s) == Ran(s) /\ (f = s \/ f = Ordered(s))

PPType ==
  /\ simulated \in (Trackers \cup {None}) \X (Trackers \cup {None})
  /\ transcript \in {"clean", "error", None} /\ stage \in Stages
  /\ verdict \in {"none", "pass", "fail"} /\ interrupted \in BOOLEAN

TrkInPlace ==
  /\ trk = None \/ Kept(trk, simulated[1])
  /\ stage \in {"write_trk", "remove_trk"} => Kept(trk, simulated[1])
  /\ stage \in {"remove_trk", "rename_trk"} => InOrder(output, simulated[1])
  /\ stage \in {"write_gold", "remove_gold", "rename_gold", "compare"} => InOrder(trk, simulated[1])
  /\ stage = "idle" /\ ~interrupted /\ Ran(simulated[1]) => trk # None

GoldInPlace ==
  /\ gold = None \/ Kept(gold, simulated[2])
  /\ stage \notin {"idle", "rename_gold", "compare"} => Kept(gold, simulated[2])
  /\ stage \in {"remove_gold", "rename_gold"} => InOrder(output, simulated[2])
  /\ stage = "compare" => InOrder(gold, simulated[2])
  /\ stage = "idle" /\ ~interrupted /\ Ran(simulated[2]) => gold # None

Judged == stage # "idle" => verdict = "none" /\ transcript # None

PPInv == PPType /\ TrkInPlace /\ GoldInPlace /\ Judged /\ PassIsHonest /\ FailIsDeserved

LEMMA KeptInOrder ==
  ASSUME NEW s \in Trackers \cup {None}, NEW f
  PROVE  /\ InOrder(f, s) => Kept(f, s)
         /\ Kept(f, s) => f # None /\ InOrder(Ordered(f), s)
<1> SUFFICES ASSUME Ran(s)
             PROVE  /\ InOrder(f, s) => Kept(f, s)
                    /\ Kept(f, s) => f # None /\ InOrder(Ordered(f), s)
  BY DEF InOrder, Kept
<1>1. s \in Seq(Lines)
  BY TrackersAssumption DEF Ran
<1>2. Ordered(s) \in Seq(Lines) /\ Ordered(Ordered(s)) = Ordered(s)
  BY <1>1, OrderedAgrees, OrderedTwice
<1>. QED BY <1>1, <1>2, TrackersAssumption DEF InOrder, Kept

(* At the comparison both files are in order, so that they are the same     *)
(* when what the simulations wrote agrees.                                  *)
LEMMA ComparesSimulations ==
  ASSUME NEW s \in Trackers \cup {None}, NEW r \in Trackers \cup {None}, NEW f, NEW g,
         InOrder(f, s), InOrder(g, r)
  PROVE  s # None /\ r # None /\ (f = g <=> Agree(s, r))
<1>1. s \in Seq(Lines) /\ r \in Seq(Lines) /\ s # None /\ r # None
  BY TrackersAssumption DEF InOrder, Ran
<1>. QED BY <1>1, OrderingDecides DEF InOrder

LEMMA InSimulated ==
  ASSUME PPType
  PROVE  /\ simulated[1] \in Trackers \cup {None} /\ simulated[2] \in Trackers \cup {None}
         /\ (None \in Range(simulated)) = (simulated[1] = None \/ simulated[2] = None)
<1>1. simulated \in (Trackers \cup {None}) \X (Trackers \cup {None})
  BY DEF PPType
<1>2. DOMAIN simulated = {1, 2}
  BY <1>1
<1>. QED BY <1>1, <1>2 DEF Range

LEMMA PPInitial == PPInit => PPInv
<1> SUFFICES ASSUME PPInit PROVE PPInv
  OBVIOUS
<1>1. simulated[1] = trk /\ simulated[2] = gold
  BY DEF PPInit
<1>2. PPType
  BY DEF PPInit, PPType, Stages
<1>. QED BY <1>1, <1>2 DEF PPInit, PPInv, TrkInPlace, GoldInPlace, Judged, PassIsHonest, FailIsDeserved,
           Kept, Ran

LEMMA PPInductive == PPInv /\ [PPNext]_ppvars => PPInv'
<1> SUFFICES ASSUME PPInv, [PPNext]_ppvars PROVE PPInv'
  OBVIOUS
<1> USE DEF PPInv
<1>0. /\ simulated[1] \in Trackers \cup {None} /\ simulated[2] \in Trackers \cup {None}
      /\ (None \in Range(simulated)) = (simulated[1] = None \/ simulated[2] = None)
  BY InSimulated
<1>1. CASE PPStart
  <2>1. None \notin {trk, gold} /\ stage = "idle" => Kept(trk, simulated[1]) /\ Kept(gold, simulated[2])
    BY DEF TrkInPlace, GoldInPlace
  <2>2. PPType'
    BY <1>1 DEF PPStart, PPType, Stages, files
  <2>3. TrkInPlace' /\ GoldInPlace'
    BY <1>1, <2>1 DEF PPStart, TrkInPlace, GoldInPlace, PPType, Stages, files
  <2>4. Judged' /\ PassIsHonest'
    BY <1>1 DEF PPStart, Judged, PassIsHonest, files
  <2>5. FailIsDeserved'
    BY <1>0, <1>1 DEF PPStart, FailIsDeserved, TrkInPlace, GoldInPlace, Ran, files
  <2>. QED BY <2>2, <2>3, <2>4, <2>5
<1>2. CASE OrderTrk
  <2>1. Kept(trk, simulated[1]) => InOrder(Ordered(trk), simulated[1])
    BY <1>0, KeptInOrder
  <2>2. InOrder(output, simulated[1]) => Kept(output, simulated[1])
    BY <1>0, KeptInOrder
  <2>3. PPType'
    BY <1>2 DEF OrderTrk, PPType, Stages
  <2>4. TrkInPlace' /\ GoldInPlace'
    BY <1>2, <2>1, <2>2 DEF OrderTrk, TrkInPlace, GoldInPlace
  <2>5. Judged' /\ PassIsHonest' /\ FailIsDeserved'
    BY <1>2 DEF OrderTrk, Judged, PassIsHonest, FailIsDeserved
  <2>. QED BY <2>3, <2>4, <2>5
<1>3. CASE OrderGold
  <2>1. Kept(gold, simulated[2]) => InOrder(Ordered(gold), simulated[2])
    BY <1>0, KeptInOrder
  <2>2. InOrder(output, simulated[2]) => Kept(output, simulated[2])
    BY <1>0, KeptInOrder
  <2>3. PPType'
    BY <1>3 DEF OrderGold, PPType, Stages
  <2>4. TrkInPlace' /\ GoldInPlace'
    BY <1>3, <2>1, <2>2 DEF OrderGold, TrkInPlace, GoldInPlace
  <2>5. Judged' /\ PassIsHonest' /\ FailIsDeserved'
    BY <1>3 DEF OrderGold, Judged, PassIsHonest, FailIsDeserved
  <2>. QED BY <2>3, <2>4, <2>5
<1>4. CASE Compare
  <2>1. InOrder(trk, simulated[1]) /\ InOrder(gold, simulated[2]) /\ transcript # None
    BY <1>4 DEF Compare, TrkInPlace, GoldInPlace, Judged
  <2>2. /\ simulated[1] # None /\ simulated[2] # None
        /\ trk = gold <=> Agree(simulated[1], simulated[2])
    BY <1>0, <2>1, ComparesSimulations
  <2>3. PPType'
    BY <1>4 DEF Compare, PPType, Stages, files
  <2>4. TrkInPlace' /\ GoldInPlace'
    <3>1. trk # None /\ gold # None
      BY <1>0, <2>1, KeptInOrder
    <3>. QED BY <1>4, <3>1 DEF Compare, TrkInPlace, GoldInPlace, files
  <2>5. Judged'
    BY <1>4 DEF Compare, Judged
  <2>6. PassIsHonest' /\ FailIsDeserved'
    BY <1>0, <1>4, <2>1, <2>2 DEF Compare, PassIsHonest, FailIsDeserved, PPType, files
  <2>. QED BY <2>3, <2>4, <2>5, <2>6
<1>5. CASE PPInterrupt
  <2>1. PPType'
    BY <1>5 DEF PPInterrupt, PPType, Stages, files
  <2>2. TrkInPlace' /\ GoldInPlace'
    BY <1>5 DEF PPInterrupt, TrkInPlace, GoldInPlace, files
  <2>3. Judged' /\ PassIsHonest' /\ FailIsDeserved'
    BY <1>5 DEF PPInterrupt, Judged, PassIsHonest, FailIsDeserved
  <2>. QED BY <2>1, <2>2, <2>3
<1>6. CASE UNCHANGED ppvars
  <2>1. PPType' /\ TrkInPlace' /\ GoldInPlace' /\ Judged'
    BY <1>6 DEF ppvars, files, PPType, TrkInPlace, GoldInPlace, Judged
  <2>2. PassIsHonest' /\ FailIsDeserved'
    BY <1>6 DEF ppvars, files, PassIsHonest, FailIsDeserved
  <2>. QED BY <2>1, <2>2
<1>. QED BY <1>1, <1>2, <1>3, <1>4, <1>5, <1>6 DEF PPNext

LEMMA PPInvariance == Spec => []PPInv
<1>1. Init => PPInv
  BY PPInitial DEF Init
<1>2. PPInv /\ [Next]_toolvars => PPInv'
  <2>1. [Next]_toolvars => [PPNext]_ppvars
    BY DEF Next, toolvars
  <2>. QED BY <2>1, PPInductive
<1>. QED BY <1>1, <1>2, PTL DEF Spec

(* A test passes only when its simulation agreed with the golden one and    *)
(* printed no error, for trackers of any length, however often the          *)
(* post-process ran over its own output or was stopped between two steps.   *)
THEOREM PassMeansAgreement == Spec => []PassIsHonest
<1>1. PPInv => PassIsHonest
  BY DEF PPInv
<1>. QED BY <1>1, PPInvariance, PTL

(* A test that is failed had no tracker or transcript, an error, or a       *)
(* simulation that disagreed, unless a post-process of it was interrupted.  *)
THEOREM FailMeansReason == Spec => []FailIsDeserved
<1>1. PPInv => FailIsDeserved
  BY DEF PPInv
<1>. QED BY <1>1, PPInvariance, PTL
-------------------------------------------------------------------------------
(* What an override leaves in a file.                                       *)
LEMMA OverriddenFile ==
  ASSUME NEW tree, NEW values, NEW f \in DOMAIN tree
  PROVE  Range(SearchAndReplace(tree, values)[f]) = {Replace(line, values) : line \in Range(tree[f])}
<1>1. SearchAndReplace(tree, values)[f] = [i \in DOMAIN tree[f] |-> Replace(tree[f][i], values)]
  BY DEF SearchAndReplace
<1>. QED BY <1>1 DEF Range

LEMMA Replaced ==
  ASSUME NEW line, NEW values
  PROVE  LET new == Replace(line, values) IN
         /\ line.kind \in Replaceable /\ line.name \in DOMAIN values =>
              new.kind = "declared" /\ new.name = line.name /\ new.value = values[line.name]
         /\ ~(line.kind \in Replaceable /\ line.name \in DOMAIN values) => new = line
         /\ new.kind = "other" <=> line.kind = "other"
         /\ new.name = line.name
BY DEF Replace, Replaceable

(* A row of the list is of a listed line of a file in verif/.               *)
LEMMA RowListed ==
  ASSUME NEW tree, NEW row
  PROVE  row \in ParameterList(tree) <=>
           \E f \in VerifFiles : \E l \in Range(tree[f]) : l.kind \in Listed /\ row = <<l.name, l.value>>
<1>1. "other" \notin Listed
  BY DEF Listed
<1>. QED BY <1>1 DEF ParameterList, ReadFiles

(* So is a row after an override, of a line with a new value, of another    *)
(* parameter, or of a line the override does not reach.                     *)
LEMMA RowAfterOverride ==
  ASSUME NEW tree, VerifFiles \subseteq DOMAIN tree, NEW values, NEW row
  PROVE  row \in ParameterList(SearchAndReplace(tree, values)) <=>
           \/ \E n \in Found(tree, VerifFiles, values) : row = <<n, values[n]>>
           \/ row \in ParameterList(tree) /\ row[1] \notin DOMAIN values
           \/ row \in Beyond(tree)
<1> DEFINE after == SearchAndReplace(tree, values)
<1>1. row \in ParameterList(after) <=>
        \E f \in VerifFiles : \E l \in Range(tree[f]) :
          Replace(l, values).kind \in Listed /\ row = <<Replace(l, values).name, Replace(l, values).value>>
  <2>1. \A f \in VerifFiles : Range(after[f]) = {Replace(line, values) : line \in Range(tree[f])}
    BY OverriddenFile
  <2>. HIDE DEF after
  <2>. QED BY <2>1, RowListed
<1> HIDE DEF after
<1>2. ASSUME NEW f \in VerifFiles, NEW l \in Range(tree[f]),
             Replace(l, values).kind \in Listed, row = <<Replace(l, values).name, Replace(l, values).value>>
      PROVE  \/ \E n \in Found(tree, VerifFiles, values) : row = <<n, values[n]>>
             \/ row \in ParameterList(tree) /\ row[1] \notin DOMAIN values
             \/ row \in Beyond(tree)
  <2>1. CASE l.kind \in Replaceable /\ l.name \in DOMAIN values
    <3>1. l.name \in Found(tree, VerifFiles, values)
      BY <2>1 DEF Found, Range
    <3>2. row = <<l.name, values[l.name]>>
      BY <1>2, <2>1, Replaced
    <3>. QED BY <3>1, <3>2
  <2>2. CASE ~(l.kind \in Replaceable /\ l.name \in DOMAIN values)
    <3>1. Replace(l, values) = l
      BY <2>2, Replaced
    <3>2. l.kind \in Listed /\ row = <<l.name, l.value>> /\ row[1] = l.name
      BY <1>2, <3>1
    <3>3. CASE l.kind = "behind"
      BY <3>2, <3>3 DEF Beyond
    <3>4. CASE l.kind # "behind"
      <4>1. l.kind \in Replaceable
        BY <3>2, <3>4 DEF Listed, Replaceable
      <4>. QED BY <2>2, <3>2, <4>1, RowListed
    <3>. QED BY <3>3, <3>4
  <2>. QED BY <2>1, <2>2
<1>3. ASSUME NEW n \in Found(tree, VerifFiles, values), row = <<n, values[n]>>
      PROVE  row \in ParameterList(after)
  <2>1. PICK f \in VerifFiles : \E i \in DOMAIN tree[f] : tree[f][i].kind \in Replaceable /\ tree[f][i].name = n
    BY DEF Found
  <2>2. PICK l \in Range(tree[f]) : l.kind \in Replaceable /\ l.name = n
    BY <2>1 DEF Range
  <2>3. n \in DOMAIN values
    BY DEF Found
  <2>4. /\ Replace(l, values).kind \in Listed
        /\ Replace(l, values).name = n /\ Replace(l, values).value = values[n]
    BY <2>2, <2>3, Replaced DEF Listed
  <2>. QED BY <1>1, <1>3, <2>4
<1>4. ASSUME row \in ParameterList(tree), row[1] \notin DOMAIN values
      PROVE  row \in ParameterList(after)
  <2>1. PICK f \in VerifFiles :
          \E l \in Range(tree[f]) : l.kind \in Listed /\ row = <<l.name, l.value>>
    BY <1>4, RowListed
  <2>2. PICK l \in Range(tree[f]) : l.kind \in Listed /\ row = <<l.name, l.value>>
    BY <2>1
  <2>3. l.name \notin DOMAIN values
    BY <1>4, <2>2
  <2>4. Replace(l, values) = l
    BY <2>3, Replaced
  <2>. QED BY <1>1, <2>2, <2>4
<1>5. ASSUME row \in Beyond(tree)
      PROVE  row \in ParameterList(after)
  <2>1. PICK f \in VerifFiles : \E l \in Range(tree[f]) : l.kind = "behind" /\ row = <<l.name, l.value>>
    BY <1>5 DEF Beyond
  <2>2. PICK l \in Range(tree[f]) : l.kind = "behind" /\ row = <<l.name, l.value>>
    BY <2>1
  <2>3. l.kind \notin Replaceable /\ l.kind \in Listed
    BY <2>2 DEF Replaceable, Listed
  <2>4. Replace(l, values) = l
    BY <2>3, Replaced
  <2>. QED BY <1>1, <2>2, <2>3, <2>4
<1>. QED BY <1>1, <1>2, <1>3, <1>4, <1>5 DEF after

(* A row of a parameter that is found nowhere is of a line that the         *)
(* override does not reach.                                                 *)
LEMMA RowOfMissing ==
  ASSUME NEW tree, VerifFiles \subseteq DOMAIN tree, NEW values,
         NEW row \in ParameterList(tree), row[1] \in DOMAIN values \ Found(tree, DOMAIN tree, values)
  PROVE  row \in Beyond(tree)
<1>1. PICK f \in VerifFiles : \E l \in Range(tree[f]) : l.kind \in Listed /\ row = <<l.name, l.value>>
  BY RowListed
<1>2. PICK l \in Range(tree[f]) : l.kind \in Listed /\ row = <<l.name, l.value>>
  BY <1>1
<1>3. l.name \in DOMAIN values /\ l.name \notin Found(tree, DOMAIN tree, values)
  BY <1>2
<1>4. f \in DOMAIN tree /\ \E i \in DOMAIN tree[f] : tree[f][i] = l
  BY <1>2 DEF Range
<1>5. l.kind \notin Replaceable
  BY <1>3, <1>4 DEF Found
<1>6. l.kind = "behind"
  BY <1>2, <1>5 DEF Listed, Replaceable
<1>. QED BY <1>2, <1>6 DEF Beyond

(* What OverrideListed says of one override.                                *)
ListRight(tree, values, missing, result) ==
  LET before == ParameterList(tree)
      after == ParameterList(result)
      given == DOMAIN values \ missing
  IN /\ \A n \in DOMAIN values : {row \in after : row[1] = n} =
          (IF n \in Found(tree, VerifFiles, values) THEN {<<n, values[n]>>} ELSE {})
            \cup {row \in Beyond(tree) : row[1] = n}
     /\ {row \in after : row[1] \notin given} = {row \in before : row[1] \notin given}

(* The list after an override has the new value of each parameter found in  *)
(* verif/ and what the lines say that it does not reach; the rows of those  *)
(* left alone or missing are the rows before.                               *)
LEMMA ListAfterOverride ==
  ASSUME NEW tree, VerifFiles \subseteq DOMAIN tree, NEW values,
         NEW missing, missing = DOMAIN values \ Found(tree, DOMAIN tree, values)
  PROVE  ListRight(tree, values, missing, SearchAndReplace(tree, values))
<1> DEFINE before == ParameterList(tree)
           after == ParameterList(SearchAndReplace(tree, values))
           given == DOMAIN values \ missing
           found == Found(tree, VerifFiles, values)
           beyond == Beyond(tree)
<1>1. \A row : row \in after <=> \/ \E n \in found : row = <<n, values[n]>>
                                 \/ row \in before /\ row[1] \notin DOMAIN values
                                 \/ row \in beyond
  BY RowAfterOverride
<1>2. found \subseteq given
  BY DEF Found
<1>3. beyond \subseteq before
  BY RowListed DEF Beyond, Listed
<1>4. \A row \in before : row[1] \in missing => row \in beyond
  BY RowOfMissing
<1>5. given \subseteq DOMAIN values /\ \A n \in DOMAIN values : n \in given \/ n \in missing
  OBVIOUS
<1> HIDE DEF before, after, found, given, beyond
<1>6. ASSUME NEW n \in DOMAIN values
      PROVE  {row \in after : row[1] = n} =
               (IF n \in found THEN {<<n, values[n]>>} ELSE {}) \cup {row \in beyond : row[1] = n}
  BY <1>1, <1>2, <1>5
<1>7. {row \in after : row[1] \notin given} = {row \in before : row[1] \notin given}
  <2>1. ASSUME NEW row \in after, row[1] \notin given PROVE row \in before
    BY <1>1, <1>2, <1>3, <2>1
  <2>2. ASSUME NEW row \in before, row[1] \notin given PROVE row \in after
    BY <1>1, <1>4, <1>5, <2>2
  <2>. QED BY <2>1, <2>2
<1>. QED BY <1>6, <1>7 DEF before, after, found, given, beyond, ListRight
-------------------------------------------------------------------------------
(* The address of a character is in its row.                                *)
LEMMA RowOfAddress ==
  ASSUME NEW r \in Nat, NEW c \in 0 .. (LineSize - 1)
  PROVE  RowOf(r * 2 * LineSize + c) = r
<1> DEFINE m == 2 * LineSize
<1>1. m \in Nat /\ m > 0 /\ c \in Nat /\ c < m
  BY ImageAssumption
<1>2. r * 2 * LineSize = r * m
  BY ImageAssumption
<1> HIDE DEF m
<1>3. r * m \in Nat
  BY <1>1
<1>4. (r * m + c) \div m = r
  BY <1>1, <1>3
<1>. QED BY <1>2, <1>4 DEF RowOf, m

(* How many of the first n numbers are in a set.                            *)
Count(S, n) == Cardinality({j \in 1 .. n : j \in S})

LEMMA CountStep ==
  ASSUME NEW S, NEW n \in Nat
  PROVE  /\ Count(S, n) \in Nat
         /\ n + 1 \in S => Count(S, n + 1) = Count(S, n) + 1
         /\ n + 1 \notin S => Count(S, n + 1) = Count(S, n)
<1> DEFINE A == {j \in 1 .. n : j \in S}
           B == {j \in 1 .. (n + 1) : j \in S}
<1>1. IsFiniteSet(A)
  <2>1. IsFiniteSet(1 .. n)
    BY FS_Interval
  <2>2. A \subseteq 1 .. n
    OBVIOUS
  <2>. QED BY <2>1, <2>2, FS_Subset
<1>2. n + 1 \notin A
  OBVIOUS
<1>3. n + 1 \in S => B = A \cup {n + 1}
  OBVIOUS
<1>4. n + 1 \notin S => B = A
  OBVIOUS
<1> HIDE DEF A, B
<1>5. Cardinality(A) \in Nat
  BY <1>1, FS_CardinalityType
<1>6. Cardinality(A \cup {n + 1}) = Cardinality(A) + 1
  BY <1>1, <1>2, FS_AddElement
<1>. QED BY <1>3, <1>4, <1>5, <1>6 DEF A, B, Count

LEMMA CountGrows ==
  ASSUME NEW S, NEW m \in Nat, NEW n \in Nat, m <= n
  PROVE  Count(S, m) <= Count(S, n)
<1> DEFINE A == {j \in 1 .. m : j \in S}
           B == {j \in 1 .. n : j \in S}
<1>1. IsFiniteSet(1 .. n) /\ B \subseteq 1 .. n /\ A \subseteq B
  BY FS_Interval
<1>2. IsFiniteSet(B)
  BY <1>1, FS_Subset
<1> HIDE DEF A, B
<1>3. Cardinality(A) <= Cardinality(B)
  BY <1>1, <1>2, FS_Subset
<1>. QED BY <1>3 DEF A, B, Count

LEMMA CountNone == ASSUME NEW S PROVE Count(S, 0) = 0
<1>1. {j \in 1 .. 0 : j \in S} = {}
  OBVIOUS
<1>. QED BY <1>1, FS_EmptySet DEF Count

Draws == Seq(Nat \X (0 .. (LineSize - 1)) \X VgaWords \X VgaWords)
NewRow(draws, j) == draws[j][1] # IF j = 1 THEN 0 ELSE draws[j - 1][1]

(* The line of a character, and its place there.                            *)
LEMMA LineSteps ==
  ASSUME NEW draws, NEW n \in Nat
  PROVE  /\ LineOf(draws, 0) = 1 /\ LineOf(draws, n) \in Nat \ {0}
         /\ LineOf(draws, n + 1) = IF NewRow(draws, n + 1) THEN LineOf(draws, n) + 1 ELSE LineOf(draws, n)
         /\ \A m \in 1 .. n : LineOf(draws, m) <= LineOf(draws, n)
<1> DEFINE S == {j \in Nat : NewRow(draws, j)}
<1>1. \A m \in Nat : LineOf(draws, m) = 1 + Count(S, m)
  <2> SUFFICES ASSUME NEW m \in Nat
               PROVE  LineOf(draws, m) = 1 + Count(S, m)
    OBVIOUS
  <2>1. {j \in 1 .. m : j \in S} = {j \in 1 .. m : draws[j][1] # IF j = 1 THEN 0 ELSE draws[j - 1][1]}
    BY DEF NewRow
  <2>. QED BY <2>1 DEF LineOf, Count
<1>2. n + 1 \in Nat /\ (n + 1 \in S <=> NewRow(draws, n + 1))
  OBVIOUS
<1> HIDE DEF S
<1>3. LineOf(draws, 0) = 1
  BY <1>1, CountNone
<1>4. LineOf(draws, n) \in Nat \ {0}
  BY <1>1, CountStep
<1>5. LineOf(draws, n + 1) = IF NewRow(draws, n + 1) THEN LineOf(draws, n) + 1 ELSE LineOf(draws, n)
  BY <1>1, <1>2, CountStep
<1>6. ASSUME NEW m \in 1 .. n PROVE LineOf(draws, m) <= LineOf(draws, n)
  <2>1. Count(S, m) <= Count(S, n)
    BY CountGrows
  <2>2. /\ Count(S, m) \in Nat
        /\ Count(S, n) \in Nat
    BY CountStep
  <2>. QED BY <1>1, <2>1, <2>2
<1>. QED BY <1>3, <1>4, <1>5, <1>6

LEMMA InLineSteps ==
  ASSUME NEW draws, NEW n \in Nat, NEW l
  PROVE  /\ InLine(draws, 0, l) = 0 /\ InLine(draws, n, l) \in Nat
         /\ InLine(draws, n + 1, l) = IF LineOf(draws, n + 1) = l THEN InLine(draws, n, l) + 1 ELSE InLine(draws, n, l)
         /\ \A m \in 1 .. n : InLine(draws, m, l) <= InLine(draws, n, l)
<1> DEFINE S == {j \in Nat : LineOf(draws, j) = l}
<1>1. \A m \in Nat : InLine(draws, m, l) = Count(S, m)
  <2> SUFFICES ASSUME NEW m \in Nat
               PROVE  InLine(draws, m, l) = Count(S, m)
    OBVIOUS
  <2>1. {j \in 1 .. m : j \in S} = {j \in 1 .. m : LineOf(draws, j) = l}
    OBVIOUS
  <2>. QED BY <2>1 DEF InLine, Count
<1>2. n + 1 \in Nat /\ (n + 1 \in S <=> LineOf(draws, n + 1) = l)
  OBVIOUS
<1> HIDE DEF S
<1>3. InLine(draws, 0, l) = 0
  BY <1>1, CountNone
<1>4. InLine(draws, n, l) \in Nat
  BY <1>1, CountStep
<1>5. InLine(draws, n + 1, l) = IF LineOf(draws, n + 1) = l THEN InLine(draws, n, l) + 1 ELSE InLine(draws, n, l)
  BY <1>1, <1>2, CountStep
<1>6. ASSUME NEW m \in 1 .. n PROVE InLine(draws, m, l) <= InLine(draws, n, l)
  BY <1>1, CountGrows
<1>. QED BY <1>3, <1>4, <1>5, <1>6

LEMMA PlaceInLine ==
  ASSUME NEW draws, NEW j \in Nat \ {0}, NEW n \in Nat, j <= n
  PROVE  LET l == LineOf(draws, j) IN
         InLine(draws, j, l) \in 1 .. InLine(draws, n, l)
<1> DEFINE l == LineOf(draws, j)
<1>1. j - 1 \in Nat /\ (j - 1) + 1 = j /\ j \in 1 .. n
  OBVIOUS
<1>2. InLine(draws, j, l) = InLine(draws, j - 1, l) + 1 /\ InLine(draws, j - 1, l) \in Nat
  <2> DEFINE k == j - 1
  <2> HIDE DEF k
  <2>1. InLine(draws, k, l) \in Nat /\ (LineOf(draws, k + 1) = l => InLine(draws, k + 1, l) = InLine(draws, k, l) + 1)
    <3>1. k \in Nat
      BY <1>1 DEF k
    <3>. QED BY <3>1, InLineSteps
  <2>. QED BY <1>1, <2>1 DEF k
<1>3. InLine(draws, j, l) <= InLine(draws, n, l) /\ InLine(draws, n, l) \in Nat
  BY <1>1, InLineSteps
<1>. QED BY <1>2, <1>3

(* The text after the first n characters.                                   *)
Characters == DOMAIN Glyphs \cup {Unknown}
Page(s) == Append(s.lines, s.line)

Typed(draws, n, s) ==
  /\ s \in [lines : Seq(Seq(Characters)), line : Seq(Characters), row : Nat]
  /\ s.row = IF n = 0 THEN 0 ELSE draws[n][1]
  /\ Len(Page(s)) = LineOf(draws, n)
  /\ \A l \in 1 .. Len(Page(s)) : Len(Page(s)[l]) = InLine(draws, n, l)
  /\ \A j \in 1 .. n : LET l == LineOf(draws, j) IN
       IsGlyph(Page(s)[l][InLine(draws, j, l)], draws[j][3], draws[j][4])
  /\ n > 0 => s.line # << >>

LEMMA AsciiOfGlyph ==
  ASSUME NEW top, NEW bottom
  PROVE  /\ DataToAscii(top, bottom) \in Characters
         /\ IsGlyph(DataToAscii(top, bottom), top, bottom)
<1>1. CASE \E c \in DOMAIN Glyphs : Glyphs[c] = <<top, bottom>>
  <2> DEFINE d == CHOOSE c \in DOMAIN Glyphs : Glyphs[c] = <<top, bottom>>
  <2>1. d \in DOMAIN Glyphs /\ Glyphs[d] = <<top, bottom>>
    BY <1>1
  <2>2. DataToAscii(top, bottom) = d
    BY <1>1, Zenon DEF DataToAscii
  <2>. QED BY <1>1, <2>1, <2>2 DEF IsGlyph, Characters
<1>2. CASE ~ \E c \in DOMAIN Glyphs : Glyphs[c] = <<top, bottom>>
  <2>1. DataToAscii(top, bottom) = Unknown
    BY <1>2, Zenon DEF DataToAscii
  <2>. QED BY <1>2, <2>1 DEF IsGlyph, Characters
<1>. QED BY <1>1, <1>2

LEMMA PageOf ==
  ASSUME NEW s, s \in [lines : Seq(Seq(Characters)), line : Seq(Characters), row : Nat]
  PROVE  /\ Page(s) \in Seq(Seq(Characters)) /\ Len(Page(s)) = Len(s.lines) + 1
         /\ Page(s)[Len(Page(s))] = s.line
         /\ \A l \in 1 .. Len(s.lines) : Page(s)[l] = s.lines[l]
BY DEF Page

LEMMA CharacterTyped ==
  ASSUME NEW draws \in Draws, NEW n \in Nat, n < Len(draws), NEW s, Typed(draws, n, s),
         NEW top, NEW bottom,
         RowOf(top[1]) = draws[n + 1][1], top[2] = draws[n + 1][3], bottom[2] = draws[n + 1][4]
  PROVE  Typed(draws, n + 1, AddCharacter(s, top, bottom))
<1> DEFINE t == AddCharacter(s, top, bottom)
           c == DataToAscii(top[2], bottom[2])
           row == draws[n + 1][1]
           ll == LineOf(draws, n)
           kk == LineOf(draws, n + 1)
<1>1. row \in Nat
  BY DEF Draws
<1>2. c \in Characters /\ IsGlyph(c, draws[n + 1][3], draws[n + 1][4])
  BY AsciiOfGlyph
<1>3. /\ s \in [lines : Seq(Seq(Characters)), line : Seq(Characters), row : Nat]
      /\ s.row = (IF n = 0 THEN 0 ELSE draws[n][1])
      /\ Len(Page(s)) = ll
      /\ \A l \in 1 .. Len(Page(s)) : Len(Page(s)[l]) = InLine(draws, n, l)
      /\ \A j \in 1 .. n :
           IsGlyph(Page(s)[LineOf(draws, j)][InLine(draws, j, LineOf(draws, j))], draws[j][3], draws[j][4])
  BY DEF Typed
<1>4. NewRow(draws, n + 1) <=> row # s.row
  BY <1>3 DEF NewRow
<1>5. ll \in Nat \ {0} /\ kk = (IF row # s.row THEN ll + 1 ELSE ll)
  BY <1>4, LineSteps
<1>6. \A l : /\ InLine(draws, n, l) \in Nat
             /\ InLine(draws, n + 1, l) = IF kk = l THEN InLine(draws, n, l) + 1 ELSE InLine(draws, n, l)
  BY InLineSteps
<1>7. \A j \in 1 .. n : /\ LineOf(draws, j) \in Nat /\ LineOf(draws, j) >= 1 /\ LineOf(draws, j) <= ll
                        /\ InLine(draws, j, LineOf(draws, j)) \in 1 .. InLine(draws, n, LineOf(draws, j))
  <2> SUFFICES ASSUME NEW j \in 1 .. n
               PROVE  /\ LineOf(draws, j) \in Nat \ {0} /\ LineOf(draws, j) <= ll
                      /\ InLine(draws, j, LineOf(draws, j)) \in 1 .. InLine(draws, n, LineOf(draws, j))
    OBVIOUS
  <2>1. j \in Nat \ {0} /\ j \in Nat /\ j <= n
    OBVIOUS
  <2>2. LineOf(draws, j) \in Nat \ {0} /\ LineOf(draws, j) <= ll
    BY <2>1, LineSteps
  <2>3. InLine(draws, j, LineOf(draws, j)) \in 1 .. InLine(draws, n, LineOf(draws, j))
    BY <2>1, PlaceInLine
  <2>. QED BY <2>2, <2>3
<1>8. /\ Page(s) \in Seq(Seq(Characters)) /\ Len(s.lines) + 1 = ll /\ Page(s)[ll] = s.line
      /\ \A l \in 1 .. Len(s.lines) : Page(s)[l] = s.lines[l]
  BY <1>3, PageOf
<1> HIDE DEF t, c, row, ll, kk
(* The page after the character.                                            *)
<1>9. /\ t \in [lines : Seq(Seq(Characters)), line : Seq(Characters), row : Nat]
      /\ t.row = row /\ t.line # << >>
      /\ Len(Page(t)) = kk
      /\ \A l \in 1 .. Len(Page(s)) : l # kk => Page(t)[l] = Page(s)[l]
      /\ Page(t)[kk] = IF row # s.row THEN <<c>> ELSE Append(s.line, c)
  <2>1. CASE row # s.row
    <3>1. t = [lines |-> Page(s), line |-> <<c>>, row |-> row]
      BY <2>1 DEF t, AddCharacter, Page, row, c
    <3>2. t \in [lines : Seq(Seq(Characters)), line : Seq(Characters), row : Nat]
      BY <1>1, <1>2, <1>8, <3>1
    <3>3. Len(Page(t)) = ll + 1 /\ Page(t)[ll + 1] = <<c>> /\ \A l \in 1 .. Len(Page(s)) : Page(t)[l] = Page(s)[l]
      <4>1. t.lines = Page(s) /\ t.line = <<c>>
        BY <3>1
      <4>2. /\ Len(Page(t)) = Len(t.lines) + 1 /\ Page(t)[Len(Page(t))] = t.line
            /\ \A l \in 1 .. Len(t.lines) : Page(t)[l] = t.lines[l]
        BY <3>2, PageOf
      <4>. QED BY <1>3, <4>1, <4>2
    <3>. QED BY <1>3, <1>5, <2>1, <3>1, <3>2, <3>3
  <2>2. CASE row = s.row
    <3>1. t = [s EXCEPT !.line = Append(s.line, c)]
      BY <2>2 DEF t, AddCharacter, row, c
    <3>2. t \in [lines : Seq(Seq(Characters)), line : Seq(Characters), row : Nat]
          /\ t.lines = s.lines /\ t.line = Append(s.line, c) /\ t.row = s.row
      <4>1. Append(s.line, c) \in Seq(Characters)
        BY <1>2, <1>3, AppendProperties
      <4>. QED BY <1>3, <3>1, <4>1
    <3>3. Append(s.line, c) # << >>
      BY <1>2, <1>3, AppendProperties
    <3>4. Len(Page(t)) = ll /\ Page(t)[ll] = Append(s.line, c)
          /\ \A l \in 1 .. Len(s.lines) : Page(t)[l] = s.lines[l]
      <4>1. /\ Len(Page(t)) = Len(t.lines) + 1 /\ Page(t)[Len(Page(t))] = t.line
            /\ \A l \in 1 .. Len(t.lines) : Page(t)[l] = t.lines[l]
        BY <3>2, PageOf
      <4>. QED BY <1>8, <3>2, <4>1
    <3>5. \A l \in 1 .. Len(Page(s)) : l # ll => l \in 1 .. Len(s.lines)
      BY <1>3, <1>8
    <3>. QED BY <1>5, <1>8, <2>2, <3>2, <3>3, <3>4, <3>5
  <2>. QED BY <2>1, <2>2
<1>10. \A l \in 1 .. Len(Page(t)) : Len(Page(t)[l]) = InLine(draws, n + 1, l)
  <2> SUFFICES ASSUME NEW l \in 1 .. Len(Page(t)) PROVE Len(Page(t)[l]) = InLine(draws, n + 1, l)
    OBVIOUS
  <2>1. CASE l # kk
    <3>1. l \in 1 .. Len(Page(s))
      BY <1>3, <1>5, <1>9, <2>1
    <3>. QED BY <1>3, <1>6, <1>9, <2>1, <3>1
  <2>2. CASE l = kk /\ row = s.row
    <3>1. Len(s.line) = InLine(draws, n, kk) /\ kk = ll
      BY <1>3, <1>5, <1>8, <2>2
    <3>2. Len(Append(s.line, c)) = Len(s.line) + 1
      BY <1>2, <1>3
    <3>. QED BY <1>6, <1>9, <2>2, <3>1, <3>2
  <2>3. CASE l = kk /\ row # s.row
    <3>1. InLine(draws, n, kk) = 0
      <4> DEFINE S == {j \in 1 .. n : LineOf(draws, j) = kk}
      <4>1. S = {}
        BY <1>5, <1>7, <2>3
      <4>2. InLine(draws, n, kk) = Cardinality(S)
        BY DEF InLine
      <4>. QED BY <4>1, <4>2, FS_EmptySet
    <3>2. InLine(draws, n + 1, kk) = 1
      BY <1>6, <3>1
    <3>3. Page(t)[l] = <<c>> /\ Len(<<c>>) = 1
      BY <1>9, <2>3
    <3>. QED BY <2>3, <3>2, <3>3
  <2>. QED BY <2>1, <2>2, <2>3
<1>11. \A j \in 1 .. (n + 1) :
         IsGlyph(Page(t)[LineOf(draws, j)][InLine(draws, j, LineOf(draws, j))], draws[j][3], draws[j][4])
  <2> SUFFICES ASSUME NEW j \in 1 .. (n + 1)
               PROVE  IsGlyph(Page(t)[LineOf(draws, j)][InLine(draws, j, LineOf(draws, j))], draws[j][3], draws[j][4])
    OBVIOUS
  <2> DEFINE l == LineOf(draws, j)
             p == InLine(draws, j, l)
  <2>1. CASE j = n + 1
    <3>1. l = kk /\ p = InLine(draws, n, kk) + 1
      BY <1>6, <2>1 DEF kk
    <3>2. p = Len(Page(t)[kk])
      <4>1. kk \in 1 .. Len(Page(t))
        BY <1>5, <1>9
      <4>. QED BY <1>6, <1>10, <3>1, <4>1
    <3>3. Page(t)[kk][p] = c
      BY <1>2, <1>3, <1>9, <3>2
    <3>. QED BY <1>2, <2>1, <3>1, <3>3
  <2>2. CASE j \in 1 .. n
    <3>1. l \in 1 .. ll /\ p \in 1 .. InLine(draws, n, l)
      BY <1>5, <1>7, <2>2
    <3>2. p \in 1 .. Len(Page(s)[l])
      BY <1>3, <3>1
    <3>3. Page(t)[l][p] = Page(s)[l][p]
      <4>1. CASE l # kk
        BY <1>3, <1>9, <3>1, <4>1
      <4>2. CASE l = kk /\ row = s.row
        <5>1. Page(s)[l] = s.line /\ Page(t)[l] = Append(s.line, c)
          BY <1>5, <1>8, <1>9, <4>2
        <5>. QED BY <1>2, <1>3, <3>2, <5>1
      <4>3. CASE l = kk /\ row # s.row
        BY <1>5, <3>1, <4>3
      <4>. QED BY <4>1, <4>2, <4>3
    <3>. QED BY <1>3, <2>2, <3>3
  <2>3. j = n + 1 \/ j \in 1 .. n
    OBVIOUS
  <2>. QED BY <2>1, <2>2, <2>3
<1>12. n + 1 > 0 /\ n + 1 # 0
  OBVIOUS
<1>. QED BY <1>9, <1>10, <1>11, <1>12 DEF Typed, t, row, kk

(* The recursion of TextOf, for the first n characters.                     *)
Blank == [lines |-> << >>, line |-> << >>, row |-> 0]
Adds(log, n, g) ==
  g = [i \in 0 .. n |-> IF i = 0 THEN Blank ELSE AddCharacter(g[i - 1], log[2 * i - 1], log[2 * i])]

LEMMA AddsExists ==
  ASSUME NEW log
  PROVE  \A n \in Nat : \E g : Adds(log, n, g)
<1> DEFINE T == {n \in Nat : \E g : Adds(log, n, g)}
<1>1. 0 \in T
  <2>1. Adds(log, 0, [i \in 0 .. 0 |-> Blank])
    BY DEF Adds
  <2>. QED BY <2>1
<1>2. ASSUME NEW n \in Nat, n \in T PROVE n + 1 \in T
  <2>1. PICK g : Adds(log, n, g)
    BY <1>2
  <2> DEFINE h == [i \in 0 .. (n + 1) |->
                     IF i = n + 1 THEN AddCharacter(g[n], log[2 * (n + 1) - 1], log[2 * (n + 1)]) ELSE g[i]]
  <2>2. g = [i \in 0 .. n |-> IF i = 0 THEN Blank ELSE AddCharacter(g[i - 1], log[2 * i - 1], log[2 * i])]
    BY <2>1 DEF Adds
  <2>3. h = [i \in 0 .. (n + 1) |-> IF i = 0 THEN Blank ELSE AddCharacter(h[i - 1], log[2 * i - 1], log[2 * i])]
    <3> SUFFICES ASSUME NEW i \in 0 .. (n + 1)
                 PROVE  h[i] = IF i = 0 THEN Blank ELSE AddCharacter(h[i - 1], log[2 * i - 1], log[2 * i])
      BY Zenon
    <3>1. \A j \in 0 .. n : h[j] = g[j]
      OBVIOUS
    <3>2. CASE i = n + 1
      <4>1. i # 0 /\ i - 1 = n /\ h[i - 1] = g[n] /\ h[i] = AddCharacter(g[n], log[2 * i - 1], log[2 * i])
        BY <3>1, <3>2
      <4>. QED BY <4>1
    <3>3. CASE i \in 0 .. n
      <4>1. h[i] = g[i] /\ (i # 0 => h[i - 1] = g[i - 1])
        BY <3>1, <3>3
      <4>2. g[i] = IF i = 0 THEN Blank ELSE AddCharacter(g[i - 1], log[2 * i - 1], log[2 * i])
        BY <2>2, <3>3, Zenon
      <4>. QED BY <4>1, <4>2, Zenon
    <3>4. i = n + 1 \/ i \in 0 .. n
      OBVIOUS
    <3>. QED BY <3>2, <3>3, <3>4, Zenon
  <2> HIDE DEF h
  <2>4. Adds(log, n + 1, h)
    BY <2>3, Zenon DEF Adds
  <2>. QED BY <2>4
<1> HIDE DEF T
<1>3. \A n \in Nat : n \in T
  BY <1>1, <1>2, NatSetInduction
<1>. QED BY <1>3 DEF T

(* The log of a drawing has two lines for each character.                   *)
LEMMA LogOfDraws ==
  ASSUME NEW draws \in Draws
  PROVE  /\ Len(draws) \in Nat /\ LogOf(draws) \in Seq(Int \X VgaWords)
         /\ Len(LogOf(draws)) = 2 * Len(draws)
         /\ \A i \in 1 .. Len(draws) :
              /\ RowOf(LogOf(draws)[2 * i - 1][1]) = draws[i][1]
              /\ LogOf(draws)[2 * i - 1][2] = draws[i][3] /\ LogOf(draws)[2 * i][2] = draws[i][4]
<1> DEFINE N == Len(draws)
           entry(i) == LET d == draws[(i + 1) \div 2] IN
                       IF i % 2 = 1 THEN <<d[1] * 2 * LineSize + d[2], d[3]>>
                       ELSE <<d[1] * 2 * LineSize + LineSize + d[2], d[4]>>
<1>1. N \in Nat
  BY DEF Draws
<1>2. \A i \in 1 .. N : /\ draws[i][1] \in Nat /\ draws[i][2] \in 0 .. (LineSize - 1)
                        /\ draws[i][3] \in VgaWords /\ draws[i][4] \in VgaWords
  BY DEF Draws
<1>3. LogOf(draws) = [i \in 1 .. (2 * N) |-> entry(i)]
  BY DEF LogOf
<1>4. ASSUME NEW i \in 1 .. (2 * N) PROVE entry(i) \in Int \X VgaWords
  <2>1. (i + 1) \div 2 \in 1 .. N
    BY <1>1
  <2>2. LineSize \in Int
    BY ImageAssumption
  <2> DEFINE d == draws[(i + 1) \div 2]
  <2>3. d[1] \in Int /\ d[2] \in Int /\ d[3] \in VgaWords /\ d[4] \in VgaWords
    BY <1>2, <2>1, <2>2
  <2> HIDE DEF d
  <2>4. d[1] * 2 * LineSize + d[2] \in Int /\ d[1] * 2 * LineSize + LineSize + d[2] \in Int
    BY <2>2, <2>3
  <2>. QED BY <2>3, <2>4 DEF d
<1>5. LogOf(draws) \in Seq(Int \X VgaWords) /\ Len(LogOf(draws)) = 2 * N
  <2> HIDE DEF entry
  <2>1. 2 * N \in Nat
    BY <1>1
  <2>2. [i \in 1 .. (2 * N) |-> entry(i)] \in [1 .. (2 * N) -> Int \X VgaWords]
    BY <1>4
  <2>. QED BY <1>3, <2>1, <2>2
<1>6. ASSUME NEW i \in 1 .. N
      PROVE  /\ RowOf(LogOf(draws)[2 * i - 1][1]) = draws[i][1]
             /\ LogOf(draws)[2 * i - 1][2] = draws[i][3] /\ LogOf(draws)[2 * i][2] = draws[i][4]
  <2>1. /\ 2 * i - 1 \in 1 .. (2 * N) /\ (2 * i - 1) % 2 = 1 /\ ((2 * i - 1) + 1) \div 2 = i
        /\ 2 * i \in 1 .. (2 * N) /\ (2 * i) % 2 # 1 /\ (2 * i + 1) \div 2 = i
    BY <1>1
  <2>2. LogOf(draws)[2 * i - 1] = <<draws[i][1] * 2 * LineSize + draws[i][2], draws[i][3]>>
    BY <1>3, <2>1
  <2>3. LogOf(draws)[2 * i][2] = draws[i][4]
    BY <1>3, <2>1
  <2>4. RowOf(draws[i][1] * 2 * LineSize + draws[i][2]) = draws[i][1]
    BY <1>2, RowOfAddress
  <2>. QED BY <2>2, <2>3, <2>4
<1>. QED BY <1>1, <1>5, <1>6

LEMMA TextShows ==
  ASSUME NEW draws \in Draws
  PROVE  Shows(TextOf(LogOf(draws)), draws)
<1> DEFINE N == Len(draws)
           log == LogOf(draws)
           g == CHOOSE f : Adds(log, N, f)
           end == g[N]
           text == IF end.line = << >> THEN end.lines ELSE Append(end.lines, end.line)
<1>1. /\ N \in Nat /\ Len(log) = 2 * N
      /\ \A i \in 1 .. N :
           /\ RowOf(log[2 * i - 1][1]) = draws[i][1]
           /\ log[2 * i - 1][2] = draws[i][3] /\ log[2 * i][2] = draws[i][4]
  BY LogOfDraws
<1>2. Len(log) % 2 # 1 /\ Len(log) \div 2 = N
  BY <1>1
<1>3. Adds(log, N, g)
  BY <1>1, AddsExists
<1>4. TextOf(log) = text
  <2> DEFINE m == Len(log) \div 2
             e == (CHOOSE f : Adds(log, m, f))[m]
  <2> HIDE DEF log
  <2>1. TextOf(log) = IF e.line = << >> THEN e.lines ELSE Append(e.lines, e.line)
    <3>1. Len(log) % 2 # 1
      BY <1>2
    <3>. QED BY <3>1, Zenon DEF TextOf, Adds, Blank
  <2>2. m = N
    BY <1>2
  <2> HIDE DEF m
  <2>. QED BY <2>1, <2>2
<1> HIDE DEF g, log
<1>5. g = [i \in 0 .. N |-> IF i = 0 THEN Blank ELSE AddCharacter(g[i - 1], log[2 * i - 1], log[2 * i])]
  BY <1>3 DEF Adds
<1>6. g[0] = Blank
  BY <1>1, <1>5
<1>7. \A i \in 1 .. N : g[i] = AddCharacter(g[i - 1], log[2 * i - 1], log[2 * i])
  <2> SUFFICES ASSUME NEW i \in 1 .. N PROVE g[i] = AddCharacter(g[i - 1], log[2 * i - 1], log[2 * i])
    OBVIOUS
  <2>1. i \in 0 .. N /\ i # 0
    BY <1>1
  <2>. QED BY <1>5, <2>1, Zenon
<1> DEFINE T == {i \in Nat : i <= N => Typed(draws, i, g[i])}
<1>8. 0 \in T
  <2>1. Blank \in [lines : Seq(Seq(Characters)), line : Seq(Characters), row : Nat]
    BY DEF Blank
  <2>2. Page(Blank) = << << >> >>
    BY DEF Page, Blank
  <2>3. Typed(draws, 0, Blank)
    <3>1. LineOf(draws, 0) = 1 /\ \A l : InLine(draws, 0, l) = 0
      BY LineSteps, InLineSteps
    <3>2. Len(Page(Blank)) = 1 /\ Page(Blank)[1] = << >> /\ Len(<< >>) = 0 /\ Blank.row = 0
      BY <2>2 DEF Blank
    <3>3. \A l \in 1 .. Len(Page(Blank)) : Len(Page(Blank)[l]) = InLine(draws, 0, l)
      BY <3>1, <3>2
    <3>. QED BY <2>1, <3>1, <3>2, <3>3 DEF Typed
  <2>. QED BY <1>6, <2>3
<1>9. ASSUME NEW i \in Nat, i \in T PROVE i + 1 \in T
  <2> SUFFICES ASSUME i + 1 <= N PROVE Typed(draws, i + 1, g[i + 1])
    OBVIOUS
  <2>1. i < N /\ i + 1 \in 1 .. N /\ (i + 1) - 1 = i /\ Typed(draws, i, g[i])
    BY <1>1, <1>9
  <2>2. g[i + 1] = AddCharacter(g[i], log[2 * (i + 1) - 1], log[2 * (i + 1)])
    BY <1>7, <2>1
  <2>3. /\ RowOf(log[2 * (i + 1) - 1][1]) = draws[i + 1][1]
        /\ log[2 * (i + 1) - 1][2] = draws[i + 1][3] /\ log[2 * (i + 1)][2] = draws[i + 1][4]
    BY <1>1, <2>1
  <2>. QED BY <2>1, <2>2, <2>3, CharacterTyped
<1> HIDE DEF T
<1>10. \A i \in Nat : i \in T
  BY <1>8, <1>9, NatSetInduction
<1>11. Typed(draws, N, end)
  BY <1>1, <1>10 DEF T
<1> HIDE DEF end
<1>12. CASE N = 0
  <2>1. draws = << >>
    BY <1>12 DEF Draws
  <2>2. text = << >>
    BY <1>6, <1>12 DEF end, Blank
  <2>3. Len(text) = 0 /\ DOMAIN text = {} /\ DOMAIN draws = {}
    BY <2>1, <2>2
  <2> HIDE DEF text
  <2>. QED BY <1>4, <2>1, <2>3 DEF Shows, log
<1>13. CASE N > 0
  <2>1. draws # << >> /\ DOMAIN draws = 1 .. N
    BY <1>13 DEF Draws
  <2>2. text = Page(end)
    BY <1>11, <1>13 DEF Typed, Page
  <2>3. Page(end) \in Seq(Seq(Characters))
    BY <1>11, PageOf DEF Typed
  <2> HIDE DEF text
  <2>4. DOMAIN text = 1 .. Len(text)
    BY <2>2, <2>3
  <2>5. Len(text) = LineOf(draws, N)
    BY <1>11, <2>2 DEF Typed
  <2>6. \A l \in DOMAIN text : Len(text[l]) = InLine(draws, N, l)
    BY <1>11, <2>2, <2>4 DEF Typed
  <2>7. \A i \in DOMAIN draws :
          IsGlyph(text[LineOf(draws, i)][InLine(draws, i, LineOf(draws, i))], draws[i][3], draws[i][4])
    BY <1>11, <2>1, <2>2 DEF Typed
  <2>. QED BY <1>4, <2>1, <2>5, <2>6, <2>7 DEF Shows, log
<1>. QED BY <1>1, <1>12, <1>13

LEMMA CutLog ==
  ASSUME NEW draws \in Draws, draws # << >>
  PROVE  TextOf(Front(LogOf(draws))) = Crash
<1>1. /\ LogOf(draws) \in Seq(Int \X VgaWords) /\ Len(LogOf(draws)) = 2 * Len(draws)
      /\ Len(draws) \in Nat /\ Len(draws) > 0
  <2>1. Len(draws) > 0
    BY DEF Draws
  <2>. QED BY <2>1, LogOfDraws
<1>2. Len(Front(LogOf(draws))) = 2 * Len(draws) - 1
  BY <1>1 DEF Front
<1>3. (2 * Len(draws) - 1) % 2 = 1
  BY <1>1
<1>. QED BY <1>2, <1>3, Zenon DEF TextOf

(* After any override of any design the list that the GUI reads has, for    *)
(* each parameter given, its new value if it was found in verif/ and what   *)
(* the declarations say that the override does not reach, and the rest as   *)
(* it was (search_and_replace_parameters, parse_parameters).                *)
THEOREM OverrideIsListed == Spec => []OverrideListed
<1>1. Init => OverrideListed
  BY DEF Init, NoRun, OverrideListed
<1>2. OverrideListed /\ [Next]_toolvars => OverrideListed'
  <2> SUFFICES ASSUME OverrideListed, [Next]_toolvars PROVE OverrideListed'
    OBVIOUS
  <2>1. CASE UNCHANGED run
    BY <2>1, Zenon DEF OverrideListed
  <2>2. CASE MifGen \/ VgaParser
    <3>1. run'.script # "ovrd_params"
      BY <2>2 DEF MifGen, VgaParser
    <3>. QED BY <3>1 DEF OverrideListed
  <2>3. CASE OvrdParams
    <3>1. PICK tree \in Trees, values \in Overrides :
            run' = [script |-> "ovrd_params", tree |-> tree, values |-> values,
                    missing |-> DOMAIN values \ Found(tree, DOMAIN tree, values),
                    result |-> SearchAndReplace(tree, values)]
      BY <2>3 DEF OvrdParams
    <3>2. /\ run'.tree = tree /\ run'.values = values /\ run'.result = SearchAndReplace(tree, values)
          /\ run'.missing = DOMAIN values \ Found(tree, DOMAIN tree, values)
      BY <3>1
    <3>3. VerifFiles \subseteq DOMAIN tree
      BY TreesAssumption
    <3>4. ListRight(run'.tree, run'.values, run'.missing, run'.result)
      BY <3>2, <3>3, ListAfterOverride
    <3>. QED BY <3>4, Zenon DEF OverrideListed, ListRight
  <2>. QED BY <2>1, <2>2, <2>3 DEF Next, toolvars
<1>. QED BY <1>1, <1>2, PTL DEF Spec

(* The text of any log is what was drawn, each character in its place, and  *)
(* a log that ends in the middle of a character gives none                  *)
(* (parse_vga_log_to_text).                                                 *)
THEOREM TextIsWhatWasDrawn == Spec => []TextShowsDraws
<1>1. Init => TextShowsDraws
  BY DEF Init, NoRun, TextShowsDraws
<1>2. TextShowsDraws /\ [Next]_toolvars => TextShowsDraws'
  <2> SUFFICES ASSUME TextShowsDraws, [Next]_toolvars PROVE TextShowsDraws'
    OBVIOUS
  <2>1. CASE UNCHANGED run
    BY <2>1, Zenon DEF TextShowsDraws
  <2>2. CASE MifGen \/ OvrdParams
    <3>1. run'.script # "vga_parser"
      BY <2>2 DEF MifGen, OvrdParams
    <3>. QED BY <3>1 DEF TextShowsDraws
  <2>3. CASE VgaParser
    <3>1. PICK draws \in Drawings, whole \in BOOLEAN :
            /\ whole \/ draws # << >>
            /\ run' = [script |-> "vga_parser", draws |-> draws, whole |-> whole,
                       result |-> TextOf(IF whole THEN LogOf(draws) ELSE Front(LogOf(draws)))]
      BY <2>3 DEF VgaParser
    <3>2. draws \in Draws
      BY DrawingsAssumption DEF Draws
    <3>3. CASE whole
      <4>1. run'.whole /\ run'.draws = draws /\ run'.result = TextOf(LogOf(draws))
        BY <3>1, <3>3
      <4>. QED BY <3>2, <4>1, TextShows DEF TextShowsDraws
    <3>4. CASE ~whole
      <4>1. ~run'.whole /\ run'.result = TextOf(Front(LogOf(draws)))
        BY <3>1, <3>4
      <4>2. run'.result = Crash
        BY <3>1, <3>2, <3>4, <4>1, CutLog
      <4>. QED BY <4>1, <4>2 DEF TextShowsDraws
    <3>. QED BY <3>1, <3>3, <3>4
  <2>. QED BY <2>1, <2>2, <2>3 DEF Next, toolvars
<1>. QED BY <1>1, <1>2, PTL DEF Spec
-------------------------------------------------------------------------------
(* Division by a width.                                                      *)
LEMMA Division ==
  ASSUME NEW n \in Int, NEW d \in Nat \ {0}
  PROVE  /\ n \div d \in Int /\ n % d \in 0..(d - 1)
         /\ n = d * (n \div d) + (n % d)
  OBVIOUS

LEMMA ProductsOrdered ==
  ASSUME NEW d \in Nat \ {0}, NEW p \in Int, NEW q \in Int, p <= q
  PROVE  d * p <= d * q
<1>1. d * q = d * p + d * (q - p) /\ q - p \in Nat /\ d \in Nat
  OBVIOUS
<1>2. \A a, b \in Nat : a * b \in Nat
  OBVIOUS
<1>3. d * (q - p) \in Nat
  BY <1>1, <1>2
<1>. QED BY <1>1, <1>3

LEMMA Apart ==
  ASSUME NEW d \in Nat \ {0}, NEW p \in Int, NEW q \in Int, p < q
  PROVE  d * p + d <= d * q
<1> DEFINE r == p + 1
<1>1. r \in Int /\ r <= q /\ d * r = d * p + d
  OBVIOUS
<1> HIDE DEF r
<1>2. d * r <= d * q
  BY <1>1, ProductsOrdered
<1>. QED BY <1>1, <1>2

LEMMA Before ==
  ASSUME NEW d \in Nat \ {0}, NEW p \in Int, NEW q \in Int, d * p < d * q
  PROVE  p < q
<1>1. ASSUME q <= p PROVE FALSE
  <2>1. d * q <= d * p
    BY <1>1, ProductsOrdered
  <2>2. d * q \in Int /\ d * p \in Int
    OBVIOUS
  <2>. QED BY <2>1, <2>2
<1>. QED BY <1>1

LEMMA DivUnique ==
  ASSUME NEW n \in Int, NEW d \in Nat \ {0}, NEW q \in Int, NEW r \in 0..(d - 1), n = d * q + r
  PROVE  n \div d = q /\ n % d = r
<1> DEFINE p == n \div d
<1>1. p \in Int /\ n % d \in 0..(d - 1) /\ n = d * p + (n % d)
  BY Division
<1> HIDE DEF p
<1>2. d * p \in Int /\ d * q \in Int
  BY <1>1
<1>3. p = q
  <2>1. ASSUME p < q PROVE FALSE
    <3>1. d * p + d <= d * q
      BY <2>1, <1>1, Apart
    <3>. QED BY <3>1, <1>1, <1>2
  <2>2. ASSUME q < p PROVE FALSE
    <3>1. d * q + d <= d * p
      BY <2>2, <1>1, Apart
    <3>. QED BY <3>1, <1>1, <1>2
  <2>. QED BY <2>1, <2>2, <1>1
<1>4. d * p = d * q
  BY <1>3
<1>. QED BY <1>1, <1>2, <1>3, <1>4 DEF p

LEMMA Multiples ==
  ASSUME NEW n \in Int, NEW d \in Nat \ {0}
  PROVE  n % d = 0 <=> \E q \in Int : n = d * q
<1>1. ASSUME n % d = 0 PROVE \E q \in Int : n = d * q
  <2>1. n \div d \in Int /\ n = d * (n \div d) + (n % d)
    BY Division
  <2>2. d * (n \div d) \in Int
    BY <2>1
  <2>3. n = d * (n \div d)
    BY <2>1, <2>2, <1>1
  <2>. QED BY <2>1, <2>3
<1>2. ASSUME NEW q \in Int, n = d * q PROVE n % d = 0
  <2>1. 0 \in 0..(d - 1) /\ d * q \in Int /\ n = d * q + 0
    BY <1>2
  <2>. QED BY <2>1, DivUnique
<1>. QED BY <1>1, <1>2

LEMMA DivShift ==
  ASSUME NEW n \in Int, NEW d \in Nat \ {0}, NEW k \in Int
  PROVE  (n + d * k) \div d = n \div d + k
<1> DEFINE q == n \div d
           r == n % d
<1>1. q \in Int /\ r \in 0..(d - 1) /\ n = d * q + r
  BY Division
<1> HIDE DEF q, r
<1>2. d * q \in Int /\ d * k \in Int /\ d * (q + k) = d * q + d * k
  BY <1>1
<1>3. n + d * k = d * (q + k) + r
  BY <1>1, <1>2
<1>4. n + d * k \in Int /\ q + k \in Int
  BY <1>1, <1>2
<1>5. (n + d * k) \div d = q + k
  BY <1>1, <1>3, <1>4, DivUnique
<1>. QED BY <1>5 DEF q

(* A row that is filled in equal steps ends on a step.                       *)
LEMMA EqualSteps ==
  ASSUME NEW row \in Nat, NEW d \in Nat \ {0}, NEW w \in Nat, row % d = 0, w % d = 0, w <= row
  PROVE  /\ w = row \/ w + d <= row
         /\ (w + d) % d = 0 /\ d % d = 0
<1>1. PICK p \in Int : row = d * p
  BY Multiples, row \in Int
<1>2. PICK q \in Int : w = d * q
  BY Multiples, w \in Int
<1>3. (w < row => d * q + d <= d * p) /\ d * (q + 1) = w + d /\ d * 1 = d
  <2>1. ASSUME w < row PROVE d * q + d <= d * p
    <3>1. q < p
      BY <2>1, <1>1, <1>2, Before
    <3>. QED BY <3>1, Apart
  <2>2. d * (q + 1) = d * q + d
    OBVIOUS
  <2>. QED BY <1>1, <1>2, <2>1, <2>2
<1>4. (w + d) % d = 0
  BY <1>3, Multiples, w + d \in Int, q + 1 \in Int
<1>5. d % d = 0
  BY <1>3, Multiples, 1 \in Int
<1>. QED BY <1>1, <1>2, <1>3, <1>4, <1>5
-------------------------------------------------------------------------------
(* The words of a line of an image: whole ones, filled up with zeros, each   *)
(* from its last byte to its first.                                          *)
ImageByte == 0..255
ImageWord == [1..Width -> ImageByte]

LEMMA PaddedLine ==
  ASSUME NEW b \in Seq(ImageByte)
  PROVE  \E n \in Nat :
           /\ Padded(b) \in Seq(ImageByte) /\ Len(Padded(b)) = Width * n
           /\ Len(b) <= Width * n /\ Width * n < Len(b) + Width
           /\ \A i \in 1..(Width * n) : Padded(b)[i] = IF i <= Len(b) THEN b[i] ELSE 0
<1> DEFINE W == Width
           L == Len(b)
           q == L \div W
           r == L % W
           m == (W - r) % W
           zeros == [i \in 1..m |-> 0]
           n == IF r = 0 THEN q ELSE q + 1
<1>1. W \in Nat \ {0} /\ L \in Nat
  BY ImageAssumption
<1>2. q \in Int /\ r \in 0..(W - 1) /\ L = W * q + r
  BY <1>1, Division
<1> HIDE DEF q, r, L, W
<1>3. W * q \in Int /\ W * (q + 1) = W * q + W
  BY <1>1, <1>2
<1>4. m \in Nat /\ m = IF r = 0 THEN 0 ELSE W - r
  <2>1. CASE r = 0
    <3>1. W = W * 1 + 0 /\ 0 \in 0..(W - 1) /\ W \in Int /\ W - r = W
      BY <1>1, <2>1
    <3>2. W % W = 0
      BY <1>1, <3>1, DivUnique, 1 \in Int
    <3>. QED BY <2>1, <3>1, <3>2
  <2>2. CASE r # 0
    <3>1. W - r \in 0..(W - 1) /\ W - r = W * 0 + (W - r) /\ W - r \in Int
      BY <1>1, <1>2, <2>2
    <3> DEFINE s == W - r
    <3>2. s \in Int /\ s \in 0..(W - 1) /\ s = W * 0 + s
      BY <3>1
    <3> HIDE DEF s
    <3>3. s % W = s
      BY <1>1, <3>2, DivUnique, 0 \in Int
    <3>. QED BY <2>2, <3>1, <3>3 DEF s
  <2>. QED BY <2>1, <2>2
<1> HIDE DEF m
<1>5. n \in Int /\ W * n = L + m /\ W * n < L + W
  <2>1. CASE r = 0
    BY <2>1, <1>1, <1>2, <1>3, <1>4
  <2>2. CASE r # 0
    BY <2>2, <1>1, <1>2, <1>3, <1>4
  <2>. QED BY <2>1, <2>2
<1>6. n \in Nat
  <2>1. ASSUME n < 0 PROVE FALSE
    <3>1. W * n + W <= W * 0
      BY <2>1, <1>1, <1>5, Apart, 0 \in Int
    <3>2. W * 0 = 0
      BY <1>1
    <3>. QED BY <3>1, <3>2, <1>1, <1>4, <1>5
  <2>. QED BY <2>1, <1>5
<1> HIDE DEF n
<1>7. zeros \in Seq(ImageByte) /\ Len(zeros) = m /\ \A i \in 1..m : zeros[i] = 0
  BY <1>4 DEF ImageByte
<1> HIDE DEF zeros
<1>8. b \o zeros \in Seq(ImageByte) /\ Len(b \o zeros) = L + m
  BY <1>7 DEF L
<1>9. \A i \in 1..(L + m) : (b \o zeros)[i] = IF i <= L THEN b[i] ELSE 0
  BY <1>1, <1>4, <1>7 DEF L
<1>10. Padded(b) = b \o zeros
  BY DEF Padded, zeros, m, r, L, W
<1>11. Padded(b) \in Seq(ImageByte) /\ Len(Padded(b)) = W * n
  BY <1>5, <1>8, <1>10
<1>12. L <= W * n /\ W * n < L + W
  BY <1>1, <1>4, <1>5
<1>13. \A i \in 1..(W * n) : Padded(b)[i] = IF i <= L THEN b[i] ELSE 0
  BY <1>5, <1>9, <1>10
<1>. QED BY <1>6, <1>11, <1>12, <1>13, Zenon DEF L, W

LEMMA WordsOfLine ==
  ASSUME NEW b \in Seq(ImageByte)
  PROVE  \E n \in Nat :
           /\ WordsOf(b) \in Seq(ImageWord) /\ Len(WordsOf(b)) = n
           /\ Len(b) <= Width * n /\ Width * n < Len(b) + Width
           /\ \A k \in 1..n : \A j \in 1..Width :
                LET i == Width * (k - 1) + (Width - j) + 1
                IN  WordsOf(b)[k][j] = IF i <= Len(b) THEN b[i] ELSE 0
<1> DEFINE W == Width
           p == Padded(b)
<1>1. W \in Nat \ {0} /\ Len(b) \in Nat
  BY ImageAssumption
<1>2. PICK n \in Nat :
        /\ p \in Seq(ImageByte) /\ Len(p) = W * n
        /\ Len(b) <= W * n /\ W * n < Len(b) + W
        /\ \A i \in 1..(W * n) : p[i] = IF i <= Len(b) THEN b[i] ELSE 0
  BY PaddedLine
<1>3. Len(p) \div W = n
  <2>1. W * n \in Int /\ W * n = W * n + 0 /\ 0 \in 0..(W - 1)
    BY <1>1
  <2> DEFINE x == W * n
  <2>2. x \in Int /\ x = W * n + 0
    BY <2>1
  <2> HIDE DEF x
  <2>3. x \div W = n
    BY <1>1, <2>1, <2>2, DivUnique, n \in Int
  <2>. QED BY <1>2, <2>3 DEF x
<1> DEFINE cut(k) == SubSeq(p, (k - 1) * W + 1, k * W)
<1>4. WordsOf(b) = [k \in 1..n |-> Reverse(cut(k))]
  BY <1>3 DEF WordsOf, GatherToLE
<1>5. ASSUME NEW k \in 1..n
      PROVE  /\ Reverse(cut(k)) \in ImageWord
             /\ \A j \in 1..W : Reverse(cut(k))[j] = p[W * (k - 1) + (W - j) + 1] /\ W * (k - 1) + (W - j) + 1 \in 1..(W * n)
  <2> DEFINE lo == W * (k - 1)
             N == W * n
  <2>1. lo \in Nat /\ lo + W <= N /\ (k - 1) * W = lo /\ k * W = lo + W /\ N \in Nat
    <3>1. \A c, d \in Nat : c * d \in Nat
      OBVIOUS
    <3>2. k - 1 \in Nat /\ k - 1 \in Int /\ n \in Int /\ k - 1 < n
      OBVIOUS
    <3>3. lo \in Nat /\ N \in Nat
      BY <3>1, <3>2, <1>1
    <3> DEFINE h == k - 1
    <3>4. h \in Int /\ h < n
      BY <3>2
    <3> HIDE DEF h
    <3>5. W * h + W <= W * n
      BY <1>1, <3>4, Apart, n \in Int
    <3>6. (k - 1) * W = lo /\ k * W = lo + W
      BY <1>1
    <3>. QED BY <3>3, <3>5, <3>6 DEF h
  <2> HIDE DEF lo, N
  <2>2. cut(k) = SubSeq(p, lo + 1, lo + W)
    BY <2>1
  <2> DEFINE c == SubSeq(p, lo + 1, lo + W)
  <2>3. c \in Seq(ImageByte) /\ Len(c) = W /\ \A i \in 1..W : c[i] = p[lo + i]
    BY <1>1, <1>2, <2>1 DEF N
  <2> HIDE DEF c
  <2>4. Reverse(c) = [j \in 1..W |-> c[(W - j) + 1]]
    BY <2>3 DEF Reverse
  <2>5. \A j \in 1..W : (W - j) + 1 \in 1..W /\ c[(W - j) + 1] \in ImageByte
                        /\ c[(W - j) + 1] = p[lo + ((W - j) + 1)]
    BY <1>1, <2>3
  <2>6. Reverse(c) \in ImageWord
    BY <2>4, <2>5 DEF ImageWord
  <2>7. \A j \in 1..W : Reverse(c)[j] = p[lo + (W - j) + 1] /\ lo + (W - j) + 1 \in 1..N
    BY <1>1, <2>1, <2>4, <2>5
  <2>. QED BY <2>2, <2>6, <2>7 DEF c, lo, N
<1> HIDE DEF cut, W, p
<1>6. WordsOf(b) \in Seq(ImageWord) /\ Len(WordsOf(b)) = n
  BY <1>4, <1>5
<1>7. ASSUME NEW k \in 1..n, NEW j \in 1..W
      PROVE  LET i == W * (k - 1) + (W - j) + 1
             IN  WordsOf(b)[k][j] = IF i <= Len(b) THEN b[i] ELSE 0
  <2> DEFINE i == W * (k - 1) + (W - j) + 1
  <2>1. WordsOf(b)[k][j] = p[i] /\ i \in 1..(W * n)
    BY <1>4, <1>5
  <2> HIDE DEF i
  <2>2. WordsOf(b)[k][j] = IF i <= Len(b) THEN b[i] ELSE 0
    BY <1>2, <2>1
  <2>. QED BY <2>2 DEF i
<1>. QED BY <1>2, <1>6, <1>7 DEF W
-------------------------------------------------------------------------------
(* The text so far, when its last line is at an address and has some words,  *)
(* and what the script then has in its variables.                            *)
TextLine == [at : Int, words : Seq(ImageWord)]
Written(pre, at, u) ==
  [text |-> Append(pre, [at |-> at, words |-> u]),
   word_in_line |-> Len(u), closed |-> Len(u) = PerLine,
   prefix_line |-> IF Len(u) = PerLine THEN at + PerLine ELSE at]

LEMMA PutOneWord ==
  ASSUME NEW pre \in Seq(TextLine), NEW at \in Int, NEW u \in Seq(ImageWord), NEW x \in ImageWord, Len(u) < PerLine
  PROVE  PutWord(Written(pre, at, u), x) = Written(pre, at, Append(u, x))
<1> DEFINE s == Written(pre, at, u)
           l == [at |-> at, words |-> u]
           T == Append(pre, l)
<1>1. PerLine \in Nat \ {0} /\ Len(u) \in Nat /\ Len(u) # PerLine /\ Len(Append(u, x)) = Len(u) + 1
  BY ImageAssumption
<1>2. l \in TextLine
  BY DEF TextLine
<1>3. s.text = T /\ s.prefix_line = at /\ s.word_in_line = Len(u) /\ s.closed = FALSE
  BY <1>1 DEF Written
<1>4. T[Len(T)] = l /\ Front(T) = pre
  <2>1. Len(T) = Len(pre) + 1 /\ Len(pre) \in Nat /\ T \in Seq(TextLine) /\ T[Len(pre) + 1] = l
        /\ \A i \in 1..Len(pre) : T[i] = pre[i]
    BY <1>2
  <2> HIDE DEF T, l
  <2>2. Front(T) = SubSeq(T, 1, Len(pre))
    BY <2>1 DEF Front
  <2> DEFINE f == SubSeq(T, 1, Len(pre))
  <2>3. f \in Seq(TextLine) /\ Len(f) = Len(pre) /\ \A i \in 1..Len(pre) : f[i] = pre[i]
    BY <2>1
  <2> HIDE DEF f
  <2>4. f = pre
    BY <2>3
  <2>. QED BY <2>1, <2>2, <2>4 DEF f
<1>5. l.at = at /\ l.words = u
  OBVIOUS
<1> HIDE DEF s, T, l
<1>6. PutWord(s, x) =
        [text |-> Append(pre, [at |-> at, words |-> Append(u, x)]),
         word_in_line |-> Len(u) + 1, closed |-> Len(u) + 1 = PerLine,
         prefix_line |-> IF Len(u) + 1 = PerLine THEN at + PerLine ELSE at]
  BY <1>3, <1>4, <1>5 DEF PutWord
<1>. QED BY <1>1, <1>6 DEF Written, s

LEMMA PutTheWords ==
  ASSUME NEW pre \in Seq(TextLine), NEW at \in Int, NEW u \in Seq(ImageWord), NEW ws \in Seq(ImageWord),
         Len(u) + Len(ws) <= PerLine
  PROVE  PutWords(Written(pre, at, u), ws) = Written(pre, at, u \o ws)
<1> DEFINE n == Len(ws)
           s == Written(pre, at, u)
           C(k) == Written(pre, at, u \o SubSeq(ws, 1, k))
           g == [k \in 0..n |-> C(k)]
           Putting(f) == f = [k \in 0..n |-> IF k = 0 THEN s ELSE PutWord(f[k - 1], ws[k])]
<1>1. n \in Nat /\ Len(u) \in Nat /\ PerLine \in Nat
  BY ImageAssumption
<1>2. C(0) = s
  <2>1. SubSeq(ws, 1, 0) = << >> /\ u \o << >> = u
    OBVIOUS
  <2>. QED BY <2>1, Zenon
<1>3. C(n) = Written(pre, at, u \o ws)
  <2>1. SubSeq(ws, 1, n) = ws
    OBVIOUS
  <2>. QED BY <2>1, Zenon
<1>4. ASSUME NEW k \in 1..n PROVE C(k) = PutWord(C(k - 1), ws[k])
  <2> DEFINE v == SubSeq(ws, 1, k - 1)
             w == SubSeq(ws, 1, k)
  <2>1. v \in Seq(ImageWord) /\ Len(v) = k - 1 /\ ws[k] \in ImageWord /\ w = Append(v, ws[k])
    BY <1>1
  <2> HIDE DEF v, w
  <2>2. u \o v \in Seq(ImageWord) /\ Len(u \o v) = Len(u) + (k - 1) /\ u \o Append(v, ws[k]) = Append(u \o v, ws[k])
    BY <2>1, <1>1
  <2>3. Len(u \o v) < PerLine
    BY <2>2, <1>1
  <2>4. PutWord(Written(pre, at, u \o v), ws[k]) = Written(pre, at, Append(u \o v, ws[k]))
    BY <2>1, <2>2, <2>3, PutOneWord
  <2>. QED BY <2>1, <2>2, <2>4, Zenon DEF v, w
<1> HIDE DEF C, s
<1>5. Putting(g)
  <2>1. ASSUME NEW k \in 0..n PROVE g[k] = IF k = 0 THEN s ELSE PutWord(g[k - 1], ws[k])
    <3>1. CASE k = 0
      BY <3>1, <1>2
    <3>2. CASE k # 0
      <4>1. k \in 1..n /\ k - 1 \in 0..n
        BY <3>2, <1>1
      <4>2. g[k] = C(k) /\ g[k - 1] = C(k - 1)
        BY <4>1
      <4>. QED BY <3>2, <4>1, <4>2, <1>4
    <3>. QED BY <3>1, <3>2
  <2>. QED BY <2>1, Zenon
<1> DEFINE put == CHOOSE f : Putting(f)
<1>6. Putting(put)
  BY <1>5, Zenon
<1>7. PutWords(s, ws) = put[n]
  BY DEF PutWords
<1> HIDE DEF put
<1> DEFINE T == {k \in Nat : k <= n => put[k] = C(k)}
<1>8. 0 \in T
  BY <1>1, <1>2, <1>6
<1>9. ASSUME NEW k \in Nat, k \in T PROVE k + 1 \in T
  <2> SUFFICES ASSUME k + 1 <= n PROVE put[k + 1] = C(k + 1)
    OBVIOUS
  <2>1. k + 1 \in 1..n /\ k + 1 \in 0..n /\ k + 1 # 0 /\ (k + 1) - 1 = k /\ put[k] = C(k)
    BY <1>9, <1>1
  <2>2. put[k + 1] = PutWord(put[k], ws[k + 1])
    BY <1>6, <2>1
  <2>3. C(k + 1) = PutWord(C(k), ws[k + 1])
    BY <1>4, <2>1
  <2>. QED BY <2>1, <2>2, <2>3
<1> HIDE DEF T
<1>10. \A k \in Nat : k \in T
  BY <1>8, <1>9, NatSetInduction
<1>11. put[n] = C(n)
  BY <1>1, <1>10 DEF T
<1>. QED BY <1>3, <1>7, <1>11 DEF s
-------------------------------------------------------------------------------
(* A run of F from base, for n steps: F[i] makes the state i + 1 of state i. *)
Runs(base, F, n, g) == g[0] = base /\ \A i \in 0..(n - 1) : g[i + 1] = F[i][g[i]]

LEMMA RunExists ==
  ASSUME NEW S, NEW base \in S, NEW F \in [Nat -> [S -> S]]
  PROVE  \A n \in Nat : \E g \in [0..n -> S] : Runs(base, F, n, g)
<1> DEFINE T == {n \in Nat : \E g \in [0..n -> S] : Runs(base, F, n, g)}
<1>1. 0 \in T
  <2>1. [i \in 0..0 |-> base] \in [0..0 -> S] /\ Runs(base, F, 0, [i \in 0..0 |-> base])
    BY DEF Runs
  <2>. QED BY <2>1
<1>2. ASSUME NEW n \in Nat, n \in T PROVE n + 1 \in T
  <2>1. PICK g \in [0..n -> S] : Runs(base, F, n, g)
    BY <1>2
  <2> DEFINE h == [i \in 0..(n + 1) |-> IF i = n + 1 THEN F[n][g[n]] ELSE g[i]]
  <2>2. h \in [0..(n + 1) -> S]
    OBVIOUS
  <2>3. h[n + 1] = F[n][g[n]] /\ \A i \in 0..n : h[i] = g[i]
    OBVIOUS
  <2> HIDE DEF h
  <2>4. h[0] = base
    BY <2>1, <2>3 DEF Runs
  <2>5. ASSUME NEW i \in 0..((n + 1) - 1) PROVE h[i + 1] = F[i][h[i]]
    <3>1. CASE i = n
      BY <3>1, <2>3
    <3>2. CASE i \in 0..(n - 1)
      BY <3>2, <2>1, <2>3 DEF Runs
    <3>. QED BY <3>1, <3>2
  <2>6. Runs(base, F, n + 1, h)
    BY <2>4, <2>5 DEF Runs
  <2>. QED BY <2>2, <2>6
<1> HIDE DEF T
<1>3. \A n \in Nat : n \in T
  BY <1>1, <1>2, NatSetInduction
<1>. QED BY <1>3 DEF T

(* The addresses behind the lines of an image.                               *)
MifLine == ({"@"} \X Nat) \cup ({"bytes"} \X Seq(ImageByte))

LEMMA LineFields ==
  ASSUME NEW line \in MifLine
  PROVE  /\ line[1] \in {"@", "bytes"} /\ (line[1] = "@" => line[2] \in Nat)
         /\ line[1] = "bytes" => line[2] \in Seq(ImageByte)
BY DEF MifLine

LEMMA ReachedLines ==
  ASSUME NEW file \in Seq(MifLine)
  PROVE  /\ \A i \in 0..Len(file) : Reached(file)[i] \in Nat
         /\ \A i \in 1..Len(file) : Reached(file)[i] =
              IF file[i][1] = "@" THEN file[i][2] ELSE Reached(file)[i - 1] + Len(file[i][2])
<1> DEFINE n == Len(file)
           Next1(r, i) == IF file[i][1] = "@" THEN file[i][2] ELSE r + Len(file[i][2])
           F == [i \in Nat |-> [r \in Nat |-> IF i + 1 \in 1..n THEN Next1(r, i + 1) ELSE r]]
           Reaching(f) == f = [i \in 0..n |-> IF i = 0 THEN 0 ELSE Next1(f[i - 1], i)]
<1>0. n \in Nat
  OBVIOUS
<1>1. ASSUME NEW i \in 1..n, NEW r \in Nat PROVE Next1(r, i) \in Nat
  <2>1. file[i] \in MifLine
    OBVIOUS
  <2>2. CASE file[i][1] = "@"
    BY <2>1, <2>2, LineFields
  <2>3. CASE file[i][1] # "@"
    <3>1. Len(file[i][2]) \in Nat
      BY <2>1, <2>3, LineFields
    <3>. QED BY <2>3, <3>1
  <2>. QED BY <2>2, <2>3
<1> HIDE DEF Next1, n
<1>2. F \in [Nat -> [Nat -> Nat]]
  BY <1>0, <1>1
<1>3. PICK g \in [0..n -> Nat] : Runs(0, F, n, g)
  BY <1>0, <1>1, <1>2, RunExists
<1>4. g[0] = 0 /\ \A i \in 1..n : g[i] = Next1(g[i - 1], i)
  <2> SUFFICES ASSUME NEW i \in 1..n PROVE g[i] = Next1(g[i - 1], i)
    BY <1>3 DEF Runs
  <2>1. i - 1 \in 0..(n - 1) /\ (i - 1) + 1 = i /\ i - 1 \in Nat /\ g[i - 1] \in Nat
    BY <1>0, <1>1
  <2>2. g[i] = F[i - 1][g[i - 1]]
    BY <1>3, <2>1 DEF Runs
  <2>. QED BY <2>1, <2>2
<1>5. Reaching(g)
  <2>1. \A i \in 0..n : g[i] = IF i = 0 THEN 0 ELSE Next1(g[i - 1], i)
    BY <1>0, <1>1, <1>4
  <2>. QED BY <1>3, <2>1, Zenon
<1> DEFINE reached == CHOOSE f : Reaching(f)
<1>6. Reaching(reached)
  BY <1>5, Zenon
<1>7. Reached(file) = reached
  BY Zenon DEF Reached, Next1, n
<1> HIDE DEF reached
<1>8. reached[0] = 0 /\ \A i \in 1..n : reached[i] = Next1(reached[i - 1], i)
  <2>1. reached = [i \in 0..n |-> IF i = 0 THEN 0 ELSE Next1(reached[i - 1], i)]
    BY <1>6
  <2>2. \A i \in 0..n : reached[i] = IF i = 0 THEN 0 ELSE Next1(reached[i - 1], i)
    BY <2>1, Zenon
  <2>. QED BY <2>2, <1>0
<1> DEFINE T == {i \in Nat : i <= n => reached[i] \in Nat}
<1>9. 0 \in T
  BY <1>8
<1>10. ASSUME NEW i \in Nat, i \in T PROVE i + 1 \in T
  <2> SUFFICES ASSUME i + 1 <= n PROVE reached[i + 1] \in Nat
    OBVIOUS
  <2>1. i + 1 \in 1..n /\ (i + 1) - 1 = i /\ reached[i] \in Nat
    BY <1>0, <1>1, <1>10
  <2>. QED BY <2>1, <1>1, <1>8
<1> HIDE DEF T
<1>11. \A i \in Nat : i \in T
  BY <1>9, <1>10, NatSetInduction
<1>12. \A i \in 0..n : reached[i] \in Nat
  BY <1>0, <1>1, <1>11 DEF T
<1>. QED BY <1>7, <1>8, <1>12 DEF Next1, n
-------------------------------------------------------------------------------
(* The words that a line of the text gives to memory.                        *)
LineWords(at, u) == {<<at + k - 1, u[k]>> : k \in DOMAIN u}

LEMMA MifWordsAppend ==
  ASSUME NEW pre \in Seq(TextLine), NEW at \in Int, NEW u \in Seq(ImageWord)
  PROVE  /\ MifWords(Append(pre, [at |-> at, words |-> u])) = MifWords(pre) \cup LineWords(at, u)
         /\ MifWords(<< >>) = {}
<1> DEFINE l == [at |-> at, words |-> u]
           T == Append(pre, l)
           n == Len(pre)
<1>1. l \in TextLine /\ l.at = at /\ l.words = u
  BY DEF TextLine
<1>2. \A t \in Seq(TextLine) : MifWords(t) = UNION {LineWords(t[i].at, t[i].words) : i \in 1..Len(t)}
  <2> SUFFICES ASSUME NEW t \in Seq(TextLine)
               PROVE  MifWords(t) = UNION {LineWords(t[i].at, t[i].words) : i \in 1..Len(t)}
    OBVIOUS
  <2>1. \A i \in DOMAIN t : t[i].at # Nowhere
    <3> SUFFICES ASSUME NEW i \in DOMAIN t PROVE t[i].at # Nowhere
      OBVIOUS
    <3>1. t[i] \in TextLine
      OBVIOUS
    <3>2. t[i].at \in Int
      BY <3>1 DEF TextLine
    <3>. QED BY <3>2, ImageAssumption
  <2>2. {i \in DOMAIN t : t[i].at # Nowhere} = 1..Len(t)
    BY <2>1
  <2>. QED BY <2>2, Zenon DEF MifWords, LineWords
<1> HIDE DEF l
<1>3. n \in Nat /\ T \in Seq(TextLine) /\ Len(T) = n + 1 /\ T[n + 1] = l /\ \A i \in 1..n : T[i] = pre[i]
  BY <1>1
<1> HIDE DEF T, n
<1> DEFINE W(t, i) == LineWords(t[i].at, t[i].words)
<1>4. W(T, n + 1) = LineWords(at, u) /\ \A i \in 1..n : W(T, i) = W(pre, i)
  BY <1>1, <1>3, Zenon
<1> HIDE DEF W
<1>5. UNION {W(T, i) : i \in 1..(n + 1)} = (UNION {W(pre, i) : i \in 1..n}) \cup LineWords(at, u)
  <2>1. 1..(n + 1) = (1..n) \cup {n + 1}
    BY <1>3
  <2>2. {W(T, i) : i \in 1..(n + 1)} = {W(T, i) : i \in 1..n} \cup {W(T, n + 1)}
    BY <2>1, Zenon
  <2>3. {W(T, i) : i \in 1..n} = {W(pre, i) : i \in 1..n}
    BY <1>4, Zenon
  <2>. QED BY <1>4, <2>2, <2>3, Zenon
<1>6. MifWords(T) = MifWords(pre) \cup LineWords(at, u)
  <2>1. MifWords(T) = UNION {W(T, i) : i \in 1..(n + 1)}
    BY <1>2, <1>3, Zenon DEF W
  <2>2. MifWords(pre) = UNION {W(pre, i) : i \in 1..n}
    BY <1>2, Zenon DEF W, n
  <2>. QED BY <1>5, <2>1, <2>2, Zenon
<1>7. MifWords(<< >>) = {}
  BY DEF MifWords
<1>. QED BY <1>6, <1>7 DEF T, l

LEMMA LineWordsConcat ==
  ASSUME NEW at \in Int, NEW u \in Seq(ImageWord), NEW v \in Seq(ImageWord)
  PROVE  /\ LineWords(at, u \o v) = LineWords(at, u) \cup LineWords(at + Len(u), v)
         /\ LineWords(at, << >>) = {}
<1> DEFINE w == u \o v
           n == Len(u)
           m == Len(v)
<1>1. /\ n \in Nat /\ m \in Nat /\ DOMAIN u = 1..n /\ DOMAIN v = 1..m /\ DOMAIN w = 1..(n + m)
      /\ (\A i \in 1..n : w[i] = u[i]) /\ \A i \in 1..m : w[n + i] = v[i]
  OBVIOUS
<1> HIDE DEF w, n, m
<1>2. ASSUME NEW p \in LineWords(at, w) PROVE p \in LineWords(at, u) \cup LineWords(at + n, v)
  <2>1. PICK k \in 1..(n + m) : p = <<at + k - 1, w[k]>>
    BY <1>1 DEF LineWords
  <2>2. CASE k <= n
    <3>1. k \in 1..n /\ w[k] = u[k]
      BY <1>1, <2>2
    <3>. QED BY <1>1, <2>1, <3>1 DEF LineWords
  <2>3. CASE k > n
    <3> DEFINE i == k - n
    <3>1. i \in 1..m /\ w[k] = v[i] /\ at + k - 1 = (at + n) + i - 1
      <4>1. i \in 1..m /\ n + i = k
        BY <1>1, <2>3
      <4>. QED BY <4>1, <1>1
    <3> HIDE DEF i
    <3>2. p = <<(at + n) + i - 1, v[i]>>
      BY <2>1, <3>1
    <3>. QED BY <1>1, <3>1, <3>2 DEF LineWords
  <2>. QED BY <1>1, <2>2, <2>3
<1>3. ASSUME NEW p \in LineWords(at, u) PROVE p \in LineWords(at, w)
  <2>1. PICK k \in 1..n : p = <<at + k - 1, u[k]>>
    BY <1>1 DEF LineWords
  <2>2. k \in 1..(n + m) /\ w[k] = u[k]
    BY <1>1
  <2>. QED BY <1>1, <2>1, <2>2 DEF LineWords
<1>4. ASSUME NEW p \in LineWords(at + n, v) PROVE p \in LineWords(at, w)
  <2>1. PICK i \in 1..m : p = <<(at + n) + i - 1, v[i]>>
    BY <1>1 DEF LineWords
  <2> DEFINE k == n + i
  <2>2. k \in 1..(n + m) /\ w[k] = v[i] /\ (at + n) + i - 1 = at + k - 1
    BY <1>1
  <2> HIDE DEF k
  <2>3. p = <<at + k - 1, w[k]>>
    BY <2>1, <2>2
  <2>. QED BY <1>1, <2>2, <2>3 DEF LineWords
<1>5. LineWords(at, << >>) = {}
  BY DEF LineWords
<1>6. LineWords(at, w) = LineWords(at, u) \cup LineWords(at + n, v)
  BY <1>2, <1>3, <1>4
<1>. QED BY <1>5, <1>6 DEF w, n

(* The words that the first lines of an image ask for.                       *)
AskedOf(file, offset, j) == LineWords((AddressOf(file, j) - offset) \div Width, WordsOf(file[j][2]))
Asked(file, offset, i) == UNION {AskedOf(file, offset, j) : j \in {j \in DataLines(file) : j <= i}}

LEMMA AskedStep ==
  ASSUME NEW file \in Seq(MifLine), NEW offset, NEW i \in 0..(Len(file) - 1)
  PROVE  Asked(file, offset, i + 1) =
           IF i + 1 \in DataLines(file) THEN Asked(file, offset, i) \cup AskedOf(file, offset, i + 1)
           ELSE Asked(file, offset, i)
<1> DEFINE D(k) == {j \in DataLines(file) : j <= k}
<1>1. DataLines(file) \subseteq Nat
  BY DEF DataLines
<1>2. D(i + 1) = IF i + 1 \in DataLines(file) THEN D(i) \cup {i + 1} ELSE D(i)
  <2>1. \A j \in DataLines(file) : j <= i + 1 <=> j <= i \/ j = i + 1
    BY <1>1
  <2>2. i <= i + 1 /\ i + 1 <= i + 1
    OBVIOUS
  <2>. QED BY <2>1, <2>2
<1> HIDE DEF D
<1>3. CASE i + 1 \in DataLines(file)
  <2>1. {AskedOf(file, offset, j) : j \in D(i + 1)} = {AskedOf(file, offset, j) : j \in D(i)} \cup {AskedOf(file, offset, i + 1)}
    BY <1>2, <1>3, Zenon
  <2>. QED BY <1>3, <2>1, Zenon DEF Asked, D
<1>4. CASE i + 1 \notin DataLines(file)
  <2>1. D(i + 1) = D(i)
    BY <1>2, <1>4
  <2>. QED BY <1>4, <2>1, Zenon DEF Asked, D
<1>. QED BY <1>3, <1>4
-------------------------------------------------------------------------------
(* How many words the bytes of a line make.                                  *)
LEMMA WordCount ==
  ASSUME NEW b \in Seq(ImageByte), NEW n \in Nat
  PROVE  /\ WordsOf(b) \in Seq(ImageWord) /\ Len(WordsOf(b)) \in Nat
         /\ b # << >> => Len(WordsOf(b)) >= 1
         /\ Len(b) <= Width * n => Len(WordsOf(b)) <= n
         /\ Len(b) % Width = 0 => Len(b) = Width * Len(WordsOf(b)) /\ Len(b) \div Width = Len(WordsOf(b))
<1> DEFINE W == Width
           m == Len(WordsOf(b))
<1>1. WordsOf(b) \in Seq(ImageWord) /\ m \in Nat /\ Len(b) <= W * m /\ W * m < Len(b) + W
  BY WordsOfLine
<1>2. W \in Nat \ {0} /\ Len(b) \in Nat /\ (b # << >> => Len(b) > 0)
  BY ImageAssumption
<1> HIDE DEF m, W
<1>3. b # << >> => m >= 1
  <2>1. m = 0 => W * m = 0
    BY <1>2
  <2>. QED BY <2>1, <1>1, <1>2
<1>4. ASSUME Len(b) <= W * n PROVE m <= n
  <2> DEFINE k == n + 1
  <2>1. k \in Int /\ W * k = W * n + W /\ W * n \in Int /\ W * m \in Int
    BY <1>1, <1>2
  <2> HIDE DEF k
  <2>2. W * m < W * k
    BY <2>1, <1>1, <1>2, <1>4
  <2>3. m < k
    BY <2>1, <2>2, <1>1, <1>2, Before
  <2>. QED BY <2>3, <1>1 DEF k
<1>5. ASSUME Len(b) % W = 0 PROVE Len(b) = W * m /\ Len(b) \div W = m
  <2>1. PICK q \in Int : Len(b) = W * q
    BY <1>2, <1>5, Multiples, Len(b) \in Int
  <2>2. ~ (m < q)
    <3>1. W * m \in Int /\ W * q \in Int
      BY <1>1, <1>2
    <3>2. ASSUME m < q PROVE FALSE
      <4>1. W * m + W <= W * q
        BY <3>2, <1>1, <1>2, Apart
      <4>. QED BY <4>1, <3>1, <2>1, <1>1, <1>2
    <3>. QED BY <3>2
  <2>3. ~ (q < m)
    <3>1. W * m \in Int /\ W * q \in Int
      BY <1>1, <1>2
    <3>2. ASSUME q < m PROVE FALSE
      <4>1. W * q + W <= W * m
        BY <3>2, <1>1, <1>2, Apart
      <4>. QED BY <4>1, <3>1, <2>1, <1>1, <1>2
    <3>. QED BY <3>2
  <2>4. m = q
    BY <2>2, <2>3, <1>1
  <2>5. Len(b) = W * q + 0 /\ 0 \in 0..(W - 1) /\ Len(b) \in Int
    BY <2>1, <1>2
  <2>6. Len(b) \div W = q
    BY <2>5, <1>2, DivUnique
  <2>. QED BY <2>1, <2>4, <2>6
<1>. QED BY <1>1, <1>3, <1>4, <1>5 DEF m, W

LEMMA MoreBytes ==
  ASSUME NEW b \in Seq(ImageByte), NEW c \in Seq(ImageByte), Len(b) <= Len(c)
  PROVE  Len(WordsOf(b)) <= Len(WordsOf(c))
<1> DEFINE n == Len(WordsOf(c))
<1>1. n \in Nat /\ Len(c) <= Width * n
  BY WordsOfLine
<1> HIDE DEF n
<1>2. Len(b) <= Width * n
  <2>1. Width * n \in Int /\ Len(b) \in Int /\ Len(c) \in Int
    BY <1>1, ImageAssumption
  <2>. QED BY <2>1, <1>1
<1>. QED BY <1>1, <1>2, WordCount DEF n
-------------------------------------------------------------------------------
(* A line of the image turned into text.                                     *)
Narrow(pre) == \A j \in DOMAIN pre : Len(pre[j].words) <= PerLine

LEMMA LineBegun ==
  ASSUME NEW pre \in Seq(TextLine), NEW at \in Int, NEW u \in Seq(ImageWord), NEW start \in Int, Len(u) <= PerLine, Narrow(pre)
  PROVE  LET more == Append(pre, [at |-> at, words |-> u])
         IN  /\ NewLine(Written(pre, at, u), start) = Written(more, start, << >>)
             /\ more \in Seq(TextLine) /\ Narrow(more)
<1> DEFINE l == [at |-> at, words |-> u]
           more == Append(pre, l)
<1>1. l \in TextLine /\ l.words = u
  BY DEF TextLine
<1> HIDE DEF l
<1>2. more \in Seq(TextLine) /\ DOMAIN more = 1..(Len(pre) + 1) /\ more[Len(pre) + 1] = l /\ Len(pre) \in Nat
      /\ \A i \in 1..Len(pre) : more[i] = pre[i]
  BY <1>1
<1>3. Narrow(more)
  <2> SUFFICES ASSUME NEW j \in 1..(Len(pre) + 1) PROVE Len(more[j].words) <= PerLine
    BY <1>2 DEF Narrow
  <2>1. CASE j \in 1..Len(pre)
    BY <1>2, <2>1 DEF Narrow
  <2>2. CASE j = Len(pre) + 1
    BY <1>1, <1>2, <2>2
  <2>. QED BY <1>2, <2>1, <2>2
<1>4. Written(pre, at, u).text = more
  BY DEF Written, l
<1> HIDE DEF more
<1>5. NewLine(Written(pre, at, u), start) =
        [text |-> Append(more, [at |-> start, words |-> << >>]), word_in_line |-> 0, closed |-> FALSE, prefix_line |-> start]
  BY <1>4 DEF NewLine
<1>6. Len(<< >>) = 0 /\ PerLine # 0
  BY ImageAssumption
<1>7. Written(more, start, << >>) =
        [text |-> Append(more, [at |-> start, words |-> << >>]), word_in_line |-> 0, closed |-> FALSE, prefix_line |-> start]
  BY <1>6 DEF Written
<1>. QED BY <1>2, <1>3, <1>5, <1>7 DEF more, l

Opened(s) == IF s.word_in_line = PerLine THEN NewLine(s, s.prefix_line) ELSE s

Reopening(pre, at, u, pre2, at2, u2) ==
  /\ Opened(Written(pre, at, u)) = Written(pre2, at2, u2)
  /\ Narrow(pre2) /\ Len(u2) < PerLine /\ at2 + Len(u2) = at + Len(u)
  /\ u2 = (IF Len(u) = PerLine THEN << >> ELSE u)
  /\ MifWords(pre2) \cup LineWords(at2, u2) = MifWords(pre) \cup LineWords(at, u)

LEMMA Reopened ==
  ASSUME NEW pre \in Seq(TextLine), NEW at \in Int, NEW u \in Seq(ImageWord), Len(u) <= PerLine, Narrow(pre)
  PROVE  \E pre2 \in Seq(TextLine), at2 \in Int, u2 \in Seq(ImageWord) : Reopening(pre, at, u, pre2, at2, u2)
<1> DEFINE s == Written(pre, at, u)
<1>1. PerLine \in Nat \ {0} /\ Len(u) \in Nat /\ s.word_in_line = Len(u)
      /\ s.prefix_line = IF Len(u) = PerLine THEN at + PerLine ELSE at
  BY ImageAssumption DEF Written
<1> HIDE DEF s
<1>2. CASE Len(u) # PerLine
  <2>1. Opened(s) = Written(pre, at, u)
    BY <1>1, <1>2 DEF s, Opened
  <2>2. Len(u) < PerLine
    BY <1>1, <1>2
  <2>3. Reopening(pre, at, u, pre, at, u)
    BY <1>2, <2>1, <2>2 DEF s, Reopening
  <2>. QED BY <2>3
<1>3. CASE Len(u) = PerLine
  <2> DEFINE start == at + PerLine
             more == Append(pre, [at |-> at, words |-> u])
  <2>1. start \in Int /\ s.prefix_line = start /\ s.word_in_line = PerLine
    BY <1>1, <1>3
  <2> HIDE DEF start
  <2>2. NewLine(s, start) = Written(more, start, << >>) /\ more \in Seq(TextLine) /\ Narrow(more)
    BY <2>1, LineBegun DEF s
  <2>3. MifWords(more) = MifWords(pre) \cup LineWords(at, u)
    BY MifWordsAppend
  <2>4. LineWords(start, << >>) = {}
    BY DEF LineWords
  <2> HIDE DEF more
  <2>5. << >> \in Seq(ImageWord) /\ Len(<< >>) = 0 /\ 0 < PerLine /\ start + 0 = at + Len(u)
    BY <1>1, <1>3, <2>1 DEF start
  <2>6. Opened(s) = Written(more, start, << >>)
    BY <2>1, <2>2 DEF Opened
  <2>7. MifWords(more) \cup LineWords(start, << >>) = MifWords(pre) \cup LineWords(at, u)
    BY <2>3, <2>4
  <2>8. Len(<< >>) < PerLine /\ start + Len(<< >>) = at + Len(u)
    BY <2>5
  <2>9. Reopening(pre, at, u, more, start, << >>)
    BY <1>3, <2>2, <2>6, <2>7, <2>8 DEF s, Reopening
  <2>. QED BY <2>1, <2>2, <2>5, <2>9
<1>. QED BY <1>2, <1>3
-------------------------------------------------------------------------------
(* What Objcopied says of a line of bytes, of the one behind it and of the   *)
(* third.                                                                    *)
LEMMA BytesLine ==
  ASSUME NEW file \in Seq(MifLine), Objcopied(file), NEW i \in DataLines(file)
  PROVE  /\ i \in 1..Len(file) /\ file[i][2] \in Seq(ImageByte) /\ file[i][2] # << >> /\ Len(file[i][2]) <= Width * PerLine
         /\ i + 1 \in DataLines(file) =>
              /\ Len(file[i][2]) % Width = 0 /\ PerLine % (Len(file[i][2]) \div Width) = 0
              /\ Len(file[i + 1][2]) <= Len(file[i][2])
              /\ i + 2 \in DataLines(file) => Len(file[i + 1][2]) = Len(file[i][2])
<1>1. i \in 1..Len(file) /\ file[i] \in MifLine /\ file[i][1] = "bytes" /\ DOMAIN file = 1..Len(file) /\ Len(file) \in Nat
  BY DEF DataLines
<1>2. file[i][2] \in Seq(ImageByte) /\ file[i][2] # << >> /\ Len(file[i][2]) <= Width * PerLine
  BY <1>1, LineFields DEF Objcopied
<1>3. ASSUME i + 1 \in DataLines(file)
      PROVE  /\ Len(file[i][2]) % Width = 0 /\ PerLine % (Len(file[i][2]) \div Width) = 0
             /\ Len(file[i + 1][2]) <= Len(file[i][2])
             /\ i + 2 \in DataLines(file) => Len(file[i + 1][2]) = Len(file[i][2])
  <2>1. i + 1 \in DOMAIN file /\ file[i + 1][1] = "bytes" /\ i < Len(file) /\ i + 1 > 1 /\ (i + 1) - 1 = i
    BY <1>1, <1>3 DEF DataLines
  <2>2. Len(file[i][2]) % Width = 0 /\ PerLine % (Len(file[i][2]) \div Width) = 0
    BY <1>1, <2>1 DEF Objcopied
  <2>3. Len(file[i + 1][2]) <= Len(file[i][2])
    BY <1>1, <2>1 DEF Objcopied
  <2>4. ASSUME i + 2 \in DataLines(file) PROVE Len(file[i + 1][2]) = Len(file[i][2])
    <3>1. i + 2 \in DOMAIN file /\ file[i + 2][1] = "bytes" /\ i + 1 < Len(file) /\ (i + 1) + 1 = i + 2
      BY <1>1, <2>4 DEF DataLines
    <3>. QED BY <1>1, <2>1, <3>1 DEF Objcopied
  <2>. QED BY <2>2, <2>3, <2>4
<1>. QED BY <1>1, <1>2, <1>3

(* Between two lines of bytes the last line of the text is filled in equal   *)
(* steps: the words of the next line fit behind those it has.                *)
InSteps(file, i, u) ==
  IF i \in DataLines(file) THEN i + 1 \in DataLines(file) => Len(u) % Len(WordsOf(file[i][2])) = 0 ELSE u = << >>

LEMMA RoomForLine ==
  ASSUME NEW file \in Seq(MifLine), Objcopied(file), NEW i \in 1..Len(file), i + 1 \in DataLines(file),
         NEW u \in Seq(ImageWord), Len(u) <= PerLine, InSteps(file, i, u),
         NEW v, v = IF Len(u) = PerLine THEN << >> ELSE u
  PROVE  LET ws == WordsOf(file[i + 1][2])
         IN  ws \in Seq(ImageWord) /\ Len(v) + Len(ws) <= PerLine /\ InSteps(file, i + 1, v \o ws)
<1> DEFINE b == file[i + 1][2]
           ws == WordsOf(b)
           n == Len(ws)
<1>1. PerLine \in Nat \ {0} /\ Len(u) \in Nat /\ (i + 1) + 1 = i + 2
  BY ImageAssumption
<1>2. b \in Seq(ImageByte) /\ b # << >> /\ Len(b) <= Width * PerLine
  BY BytesLine
<1>3. ws \in Seq(ImageWord) /\ n \in Nat /\ n >= 1 /\ n <= PerLine
  BY <1>1, <1>2, WordCount
<1>4. v \in Seq(ImageWord) /\ Len(v) \in Nat /\ Len(v \o ws) = Len(v) + n /\ (Len(v) = 0 \/ (v = u /\ Len(u) < PerLine))
  <2>1. CASE Len(u) = PerLine
    <3>1. v = << >> /\ Len(<< >>) = 0 /\ << >> \in Seq(ImageWord)
      BY <2>1
    <3>. QED BY <3>1, <1>3
  <2>2. CASE Len(u) # PerLine
    BY <1>1, <1>3, <2>2
  <2>. QED BY <2>1, <2>2
<1>5. n % n = 0
  <2>1. n = n * 1 /\ 1 \in Int /\ n \in Int /\ n \in Nat \ {0}
    BY <1>3
  <2> HIDE DEF n
  <2>. QED BY <2>1, Multiples
<1> HIDE DEF n, ws, b
<1>6. CASE Len(v) = 0
  <2>1. Len(v) + n = n
    BY <1>3, <1>6
  <2>. QED BY <2>1, <1>3, <1>4, <1>5 DEF InSteps, n, ws, b
<1>7. CASE v = u /\ Len(u) < PerLine /\ Len(u) # 0
  <2>1. i \in DataLines(file)
    <3>1. Len(<< >>) = 0
      OBVIOUS
    <3>. QED BY <3>1, <1>7 DEF InSteps
  <2> DEFINE c == file[i][2]
             d == Len(WordsOf(c))
  <2>2. /\ c \in Seq(ImageByte) /\ c # << >> /\ Len(c) % Width = 0 /\ PerLine % (Len(c) \div Width) = 0
        /\ Len(b) <= Len(c) /\ (i + 2 \in DataLines(file) => Len(b) = Len(c))
    BY <2>1, BytesLine DEF b
  <2>3. d \in Nat /\ d >= 1 /\ Len(c) \div Width = d
    BY <2>2, <1>1, WordCount
  <2>4. n <= d
    BY <2>2, <1>2, MoreBytes DEF n, ws
  <2>5. i + 2 \in DataLines(file) => n = d
    <3>1. ASSUME i + 2 \in DataLines(file) PROVE d <= n
      <4>1. Len(c) <= Len(b)
        BY <3>1, <2>2
      <4>. QED BY <4>1, <2>2, <1>2, MoreBytes DEF n, ws
    <3>. QED BY <3>1, <2>3, <2>4, <1>3
  <2>6. Len(u) % d = 0 /\ PerLine % d = 0
    BY <2>1, <2>2, <2>3 DEF InSteps
  <2> HIDE DEF d, c
  <2> DEFINE w == Len(u)
  <2>7. w \in Nat /\ d \in Nat \ {0} /\ PerLine \in Nat /\ w <= PerLine /\ w % d = 0
    BY <1>1, <2>3, <2>6
  <2> HIDE DEF w
  <2>8. (w = PerLine \/ w + d <= PerLine) /\ (w + d) % d = 0
    BY <2>6, <2>7, EqualSteps
  <2>9. w + d <= PerLine
    BY <2>8, <1>7, <1>1 DEF w
  <2>10. Len(v) + n <= PerLine
    BY <2>9, <2>4, <2>7, <1>3, <1>7 DEF w
  <2>11. i + 2 \in DataLines(file) => (Len(v) + n) % n = 0
    BY <2>5, <2>8, <1>7 DEF w
  <2>. QED BY <2>10, <2>11, <1>1, <1>3, <1>4 DEF InSteps, n, ws, b
<1>. QED BY <1>4, <1>6, <1>7
-------------------------------------------------------------------------------
(* After i lines: the text has the words the lines ask for and no others,    *)
(* its lines are not too long, and the next line of bytes goes where the     *)
(* last line of the text ends.                                               *)
Copied(file, offset, i, pre, at, u) ==
  /\ Len(u) <= PerLine /\ Narrow(pre)
  /\ MifWords(pre) \cup LineWords(at, u) = Asked(file, offset, i)
  /\ i + 1 \in DataLines(file) => at + Len(u) = (AddressOf(file, i + 1) - offset) \div Width
  /\ InSteps(file, i, u)

LEMMA CopiedAddress ==
  ASSUME NEW file \in Seq(MifLine), NEW offset \in Int, NEW i \in 1..(Len(file) - 1), file[i + 1][1] = "@",
         NEW pre \in Seq(TextLine), NEW at \in Int, NEW u \in Seq(ImageWord), Copied(file, offset, i, pre, at, u)
  PROVE  \E pre2 \in Seq(TextLine), at2 \in Int, u2 \in Seq(ImageWord) :
           /\ ConvertLine(Written(pre, at, u), file[i + 1], offset) = Written(pre2, at2, u2)
           /\ Copied(file, offset, i + 1, pre2, at2, u2)
<1> DEFINE s == Written(pre, at, u)
           t == Opened(s)
           start == (file[i + 1][2] - offset) \div Width
<1>1. /\ i + 1 \in 1..Len(file) /\ (i + 1) - 1 = i /\ file[i + 1] \in MifLine /\ file[i + 1][2] \in Nat /\ i \in 0..(Len(file) - 1)
      /\ i + 1 \notin DataLines(file)
  <2>1. i + 1 \in 1..Len(file) /\ (i + 1) - 1 = i /\ file[i + 1] \in MifLine /\ i \in 0..(Len(file) - 1)
    OBVIOUS
  <2>. QED BY <2>1, LineFields DEF DataLines
<1>2. start \in Int
  <2> DEFINE x == file[i + 1][2] - offset
  <2>1. x \in Int /\ Width \in Nat \ {0}
    BY <1>1, ImageAssumption
  <2> HIDE DEF x
  <2>2. x \div Width \in Int
    BY <2>1, Division
  <2>. QED BY <2>2 DEF x
<1>3. PICK pre2 \in Seq(TextLine), at2 \in Int, u2 \in Seq(ImageWord) : Reopening(pre, at, u, pre2, at2, u2)
  <2>1. Len(u) <= PerLine /\ Narrow(pre)
    BY DEF Copied
  <2>. QED BY <2>1, Reopened
<1>4. /\ t = Written(pre2, at2, u2) /\ Narrow(pre2) /\ Len(u2) < PerLine
       /\ MifWords(pre2) \cup LineWords(at2, u2) = MifWords(pre) \cup LineWords(at, u)
  BY <1>3 DEF Reopening
<1>5. ConvertLine(s, file[i + 1], offset) = NewLine(t, start)
  BY Zenon DEF ConvertLine, Opened
<1> HIDE DEF s, t
<1> DEFINE more == Append(pre2, [at |-> at2, words |-> u2])
<1>6. NewLine(t, start) = Written(more, start, << >>) /\ more \in Seq(TextLine) /\ Narrow(more)
  <2>1. Len(u2) <= PerLine
    BY <1>4, ImageAssumption
  <2> HIDE DEF start
  <2>. QED BY <2>1, <1>2, <1>4, LineBegun
<1>7. MifWords(more) = MifWords(pre2) \cup LineWords(at2, u2)
  BY MifWordsAppend
<1> HIDE DEF more
<1>8. LineWords(start, << >>) = {} /\ << >> \in Seq(ImageWord) /\ Len(<< >>) = 0
  BY DEF LineWords
<1>9. Asked(file, offset, i + 1) = Asked(file, offset, i)
  BY <1>1, AskedStep
<1>10. MifWords(more) \cup LineWords(start, << >>) = Asked(file, offset, i + 1)
  BY <1>4, <1>7, <1>8, <1>9 DEF Copied
<1>11. ASSUME (i + 1) + 1 \in DataLines(file) PROVE start + Len(<< >>) = (AddressOf(file, (i + 1) + 1) - offset) \div Width
  <2>1. Reached(file)[i + 1] = file[i + 1][2] /\ ((i + 1) + 1) - 1 = i + 1
    BY <1>1, ReachedLines
  <2>2. AddressOf(file, (i + 1) + 1) = file[i + 1][2]
    BY <2>1 DEF AddressOf
  <2>3. start + Len(<< >>) = start
    BY <1>2, <1>8
  <2>. QED BY <2>2, <2>3
<1>12. Copied(file, offset, i + 1, more, start, << >>)
  <2>1. Len(<< >>) <= PerLine
    BY <1>8, ImageAssumption
  <2>. QED BY <2>1, <1>1, <1>6, <1>10, <1>11 DEF Copied, InSteps
<1>. QED BY <1>2, <1>5, <1>6, <1>8, <1>12 DEF s

LEMMA CopiedBytes ==
  ASSUME NEW file \in Seq(MifLine), Objcopied(file), NEW offset \in Int, NEW i \in 1..(Len(file) - 1), i + 1 \in DataLines(file),
         NEW pre \in Seq(TextLine), NEW at \in Int, NEW u \in Seq(ImageWord), Copied(file, offset, i, pre, at, u)
  PROVE  \E pre2 \in Seq(TextLine), at2 \in Int, u2 \in Seq(ImageWord) :
           /\ ConvertLine(Written(pre, at, u), file[i + 1], offset) = Written(pre2, at2, u2)
           /\ Copied(file, offset, i + 1, pre2, at2, u2)
<1> DEFINE s == Written(pre, at, u)
           t == Opened(s)
           b == file[i + 1][2]
           ws == WordsOf(b)
<1>1. i \in 1..Len(file) /\ i + 1 \in 1..Len(file) /\ i \in 0..(Len(file) - 1) /\ (i + 1) - 1 = i /\ ((i + 1) + 1) - 1 = i + 1
  OBVIOUS
<1>2. PICK pre2 \in Seq(TextLine), at2 \in Int, u2 \in Seq(ImageWord) : Reopening(pre, at, u, pre2, at2, u2)
  <2>1. Len(u) <= PerLine /\ Narrow(pre)
    BY DEF Copied
  <2>. QED BY <2>1, Reopened
<1>3. /\ t = Written(pre2, at2, u2) /\ Narrow(pre2) /\ Len(u2) < PerLine /\ at2 + Len(u2) = at + Len(u)
       /\ u2 = (IF Len(u) = PerLine THEN << >> ELSE u)
       /\ MifWords(pre2) \cup LineWords(at2, u2) = MifWords(pre) \cup LineWords(at, u)
  BY <1>2 DEF Reopening
<1>4. file[i + 1][1] = "bytes" /\ "bytes" # "@" /\ b \in Seq(ImageByte)
  BY BytesLine DEF DataLines
<1>5. ConvertLine(s, file[i + 1], offset) = PutWords(t, ws)
  BY <1>4, Zenon DEF ConvertLine, Opened
<1> HIDE DEF s, t
<1>6. ws \in Seq(ImageWord) /\ Len(u2) + Len(ws) <= PerLine /\ InSteps(file, i + 1, u2 \o ws)
  BY <1>1, <1>3, RoomForLine DEF Copied
<1> HIDE DEF ws
<1>7. PutWords(t, ws) = Written(pre2, at2, u2 \o ws)
  BY <1>3, <1>6, PutTheWords
<1>8. u2 \o ws \in Seq(ImageWord) /\ Len(u2 \o ws) = Len(u2) + Len(ws) /\ Len(u2) \in Nat /\ Len(ws) \in Nat
  BY <1>6
<1>9. at2 + Len(u2) = (AddressOf(file, i + 1) - offset) \div Width
  BY <1>3 DEF Copied
<1>10. MifWords(pre2) \cup LineWords(at2, u2 \o ws) = Asked(file, offset, i + 1)
  <2>1. LineWords(at2, u2 \o ws) = LineWords(at2, u2) \cup LineWords(at2 + Len(u2), ws)
    BY <1>6, LineWordsConcat
  <2>2. LineWords(at2 + Len(u2), ws) = AskedOf(file, offset, i + 1)
    BY <1>9 DEF AskedOf, ws
  <2>3. Asked(file, offset, i + 1) = Asked(file, offset, i) \cup AskedOf(file, offset, i + 1)
    BY <1>1, AskedStep
  <2>4. MifWords(pre2) \cup LineWords(at2, u2) = Asked(file, offset, i)
    BY <1>3 DEF Copied
  <2>. QED BY <2>1, <2>2, <2>3, <2>4
<1>11. ASSUME (i + 1) + 1 \in DataLines(file)
       PROVE  at2 + Len(u2 \o ws) = (AddressOf(file, (i + 1) + 1) - offset) \div Width
  <2> DEFINE a == AddressOf(file, i + 1)
             m == Len(ws)
             x == a - offset
  <2>1. Len(b) = Width * m /\ m \in Nat
    <3>1. Len(b) % Width = 0
      BY <1>11, BytesLine
    <3>. QED BY <3>1, <1>4, WordCount, ImageAssumption DEF ws
  <2>2. a \in Nat /\ AddressOf(file, (i + 1) + 1) = a + Len(b)
    <3>1. Reached(file)[i + 1] = Reached(file)[i] + Len(b) /\ Reached(file)[i] \in Nat
      BY <1>1, <1>4, ReachedLines
    <3>. QED BY <3>1, <1>1 DEF AddressOf
  <2> HIDE DEF a, b, m
  <2>3. x \in Int /\ AddressOf(file, (i + 1) + 1) - offset = x + Width * m /\ Width \in Nat \ {0} /\ m \in Int
    <3>1. Width \in Nat \ {0} /\ Width * m \in Int
      BY <2>1, ImageAssumption
    <3>. QED BY <3>1, <2>1, <2>2
  <2>4. at2 + Len(u2) = x \div Width
    BY <1>9 DEF a
  <2> HIDE DEF x
  <2>5. (x + Width * m) \div Width = x \div Width + m
    BY <2>3, DivShift
  <2>6. at2 + Len(u2 \o ws) = (at2 + Len(u2)) + m
    BY <1>8 DEF m
  <2>. QED BY <2>3, <2>4, <2>5, <2>6
<1>12. Copied(file, offset, i + 1, pre2, at2, u2 \o ws)
  BY <1>3, <1>6, <1>8, <1>10, <1>11 DEF Copied
<1>. QED BY <1>5, <1>7, <1>8, <1>12 DEF s
-------------------------------------------------------------------------------
(* convert, line by line.                                                    *)
Unwritten == [text |-> << >>, prefix_line |-> 0, word_in_line |-> 0, closed |-> TRUE]

LEMMA CopiedFirst ==
  ASSUME NEW file \in Seq(MifLine), Objcopied(file), NEW offset \in Int
  PROVE  \E at \in Int :
           /\ ConvertLine(Unwritten, file[1], offset) = Written(<< >>, at, << >>)
           /\ Copied(file, offset, 1, << >>, at, << >>)
<1> DEFINE start == (file[1][2] - offset) \div Width
           s == Unwritten
<1>1. /\ Len(file) \in Nat /\ Len(file) >= 1 /\ 1 \in 1..Len(file) /\ file[1][1] = "@" /\ file[1][2] \in Nat
      /\ 1 \notin DataLines(file) /\ 0 \notin DataLines(file) /\ 0 \in 0..(Len(file) - 1) /\ 0 + 1 = 1
  <2>1. file # << >> /\ file[1][1] = "@"
    BY DEF Objcopied
  <2>2. Len(file) \in Nat /\ Len(file) >= 1 /\ DOMAIN file = 1..Len(file)
    BY <2>1
  <2>3. 1 \in 1..Len(file) /\ file[1] \in MifLine
    BY <2>2
  <2>4. file[1][2] \in Nat
    BY <2>1, <2>3, LineFields
  <2>. QED BY <2>1, <2>2, <2>3, <2>4 DEF DataLines
<1>2. start \in Int
  <2> DEFINE x == file[1][2] - offset
  <2>1. x \in Int /\ Width \in Nat \ {0}
    BY <1>1, ImageAssumption
  <2> HIDE DEF x
  <2>2. x \div Width \in Int
    BY <2>1, Division
  <2>. QED BY <2>2 DEF x
<1>3. Opened(s) = s
  BY ImageAssumption DEF Opened, Unwritten
<1>4. ConvertLine(s, file[1], offset) = NewLine(Opened(s), start)
  BY <1>1, Zenon DEF ConvertLine, Opened
<1> HIDE DEF start
<1>5. Len(<< >>) = 0 /\ PerLine \in Nat \ {0}
  BY ImageAssumption
<1>6. NewLine(s, start) = Written(<< >>, start, << >>)
  <2>1. NewLine(s, start) =
          [text |-> Append(<< >>, [at |-> start, words |-> << >>]), word_in_line |-> 0, closed |-> FALSE, prefix_line |-> start]
    BY DEF NewLine, Unwritten
  <2>2. Written(<< >>, start, << >>) =
          [text |-> Append(<< >>, [at |-> start, words |-> << >>]), word_in_line |-> 0, closed |-> FALSE, prefix_line |-> start]
    BY <1>5 DEF Written
  <2>. QED BY <2>1, <2>2
<1>7. Asked(file, offset, 1) = {}
  <2>1. {j \in DataLines(file) : j <= 1} = {}
    <3>1. \A j \in DataLines(file) : j \in Nat /\ j # 0 /\ j # 1
      BY <1>1 DEF DataLines
    <3>. QED BY <3>1
  <2>. QED BY <2>1 DEF Asked
<1>8. LineWords(start, << >>) = {} /\ MifWords(<< >>) = {}
  <2>1. LineWords(start, << >>) = {}
    BY DEF LineWords
  <2>. QED BY <2>1 DEF MifWords
<1>9. ASSUME 1 + 1 \in DataLines(file) PROVE start + Len(<< >>) = (AddressOf(file, 1 + 1) - offset) \div Width
  <2>1. Reached(file)[1] = file[1][2] /\ (1 + 1) - 1 = 1
    BY <1>1, ReachedLines
  <2>2. AddressOf(file, 1 + 1) = file[1][2]
    BY <2>1 DEF AddressOf
  <2>. QED BY <2>2, <1>2, <1>5 DEF start
<1>10. Copied(file, offset, 1, << >>, start, << >>)
  <2>1. Len(<< >>) <= PerLine /\ Narrow(<< >>)
    BY <1>5 DEF Narrow
  <2>. QED BY <2>1, <1>1, <1>7, <1>8, <1>9 DEF Copied, InSteps
<1>. QED BY <1>2, <1>3, <1>4, <1>6, <1>10

LEMMA ConvertCopies ==
  ASSUME NEW file \in Seq(MifLine), Objcopied(file), NEW offset \in Int
  PROVE  \E pre \in Seq(TextLine), at \in Int, u \in Seq(ImageWord) :
           /\ Convert(file, offset) = Append(pre, [at |-> at, words |-> u])
           /\ Copied(file, offset, Len(file), pre, at, u)
<1> DEFINE n == Len(file)
           step(s, i) == ConvertLine(s, file[i], offset)
           S == {Unwritten} \cup {Written(pre, at, u) : pre \in Seq(TextLine), at \in Int, u \in Seq(ImageWord)}
           F == [i \in Nat |-> [s \in S |-> IF step(s, i + 1) \in S THEN step(s, i + 1) ELSE s]]
           After(i, s) == \E pre \in Seq(TextLine), at \in Int, u \in Seq(ImageWord) :
                            s = Written(pre, at, u) /\ Copied(file, offset, i, pre, at, u)
           Following(f) == f = [i \in 0..n |-> IF i = 0 THEN Unwritten ELSE step(f[i - 1], i)]
<1>1. n \in Nat /\ n >= 1 /\ DOMAIN file = 1..n
  <2>1. file # << >>
    BY DEF Objcopied
  <2>. QED BY <2>1
<1>2. After(1, step(Unwritten, 1))
  <2>1. << >> \in Seq(TextLine) /\ << >> \in Seq(ImageWord)
    OBVIOUS
  <2>. QED BY <2>1, CopiedFirst
<1>3. ASSUME NEW i \in 1..(n - 1), NEW s, After(i, s) PROVE After(i + 1, step(s, i + 1))
  <2>1. PICK pre \in Seq(TextLine), at \in Int, u \in Seq(ImageWord) :
          s = Written(pre, at, u) /\ Copied(file, offset, i, pre, at, u)
    BY <1>3
  <2>2. i + 1 \in 1..n /\ file[i + 1] \in MifLine
    BY <1>1
  <2>3. CASE file[i + 1][1] = "@"
    BY <2>1, <2>3, CopiedAddress
  <2>4. CASE file[i + 1][1] = "bytes"
    <3>1. i + 1 \in DataLines(file)
      BY <1>1, <2>2, <2>4 DEF DataLines
    <3>. QED BY <2>1, <3>1, CopiedBytes
  <2>. QED BY <2>2, <2>3, <2>4, LineFields
<1>4. \A i, s : After(i, s) => s \in S
  <2> SUFFICES ASSUME NEW i, NEW s, After(i, s) PROVE s \in S
    OBVIOUS
  <2>1. PICK pre \in Seq(TextLine), at \in Int, u \in Seq(ImageWord) : s = Written(pre, at, u)
    OBVIOUS
  <2>. QED BY <2>1
<1>5. Unwritten \in S
  OBVIOUS
<1> HIDE DEF S, step
<1>6. F \in [Nat -> [S -> S]]
  OBVIOUS
<1>7. PICK g \in [0..n -> S] : Runs(Unwritten, F, n, g)
  <2> HIDE DEF F, n
  <2>. QED BY <1>1, <1>5, <1>6, RunExists
<1>8. g[0] = Unwritten
  BY <1>7 DEF Runs
<1>9. ASSUME NEW i \in 0..(n - 1), step(g[i], i + 1) \in S PROVE g[i + 1] = step(g[i], i + 1)
  <2>1. i \in Nat /\ g[i] \in S /\ g[i + 1] = F[i][g[i]]
    BY <1>1, <1>7 DEF Runs
  <2>. QED BY <2>1, <1>9
<1> HIDE DEF After, F
<1> DEFINE T == {k \in Nat : k + 1 <= n => g[k + 1] = step(g[k], k + 1) /\ After(k + 1, g[k + 1])}
<1>10. 0 \in T
  <2>1. 0 \in 0..(n - 1) /\ 0 + 1 = 1
    BY <1>1
  <2>2. step(g[0], 1) \in S
    BY <1>2, <1>4, <1>8
  <2>3. g[1] = step(g[0], 1)
    BY <2>1, <2>2, <1>9
  <2>. QED BY <2>1, <2>3, <1>2, <1>8
<1>11. ASSUME NEW k \in Nat, k \in T PROVE k + 1 \in T
  <2> SUFFICES ASSUME (k + 1) + 1 <= n
               PROVE  g[(k + 1) + 1] = step(g[k + 1], (k + 1) + 1) /\ After((k + 1) + 1, g[(k + 1) + 1])
    OBVIOUS
  <2> DEFINE i == k + 1
  <2>1. i \in 1..(n - 1) /\ i \in 0..(n - 1) /\ After(i, g[i])
    BY <1>1, <1>11
  <2> HIDE DEF i
  <2>2. After(i + 1, step(g[i], i + 1))
    BY <2>1, <1>3
  <2>3. g[i + 1] = step(g[i], i + 1)
    BY <2>1, <2>2, <1>4, <1>9
  <2>. QED BY <2>2, <2>3 DEF i
<1> HIDE DEF T
<1>12. \A k \in Nat : k \in T
  BY <1>10, <1>11, NatSetInduction
<1>13. \A i \in 1..n : g[i] = step(g[i - 1], i) /\ After(i, g[i])
  <2> SUFFICES ASSUME NEW i \in 1..n PROVE g[i] = step(g[i - 1], i) /\ After(i, g[i])
    OBVIOUS
  <2> DEFINE k == i - 1
  <2>1. k \in Nat /\ k + 1 = i /\ k + 1 <= n
    BY <1>1
  <2> HIDE DEF k
  <2>2. g[k + 1] = step(g[k], k + 1) /\ After(k + 1, g[k + 1])
    BY <2>1, <1>12 DEF T
  <2>. QED BY <2>1, <2>2 DEF k
<1>14. Following(g)
  <2>1. \A i \in 0..n : g[i] = IF i = 0 THEN Unwritten ELSE step(g[i - 1], i)
    BY <1>1, <1>8, <1>13
  <2>. QED BY <1>7, <2>1, Zenon
<1> DEFINE after == CHOOSE f : Following(f)
<1>15. Following(after)
  BY <1>14, Zenon
<1>16. Convert(file, offset) = after[n].text
  BY Zenon DEF Convert, Unwritten, step
<1> HIDE DEF after
<1>17. after[0] = Unwritten /\ \A i \in 1..n : after[i] = step(after[i - 1], i)
  <2>1. after = [i \in 0..n |-> IF i = 0 THEN Unwritten ELSE step(after[i - 1], i)]
    BY <1>15, Zenon
  <2>2. \A i \in 0..n : after[i] = IF i = 0 THEN Unwritten ELSE step(after[i - 1], i)
    BY <2>1, Zenon
  <2>. QED BY <2>2, <1>1
<1> DEFINE U == {k \in Nat : k <= n => after[k] = g[k]}
<1>18. 0 \in U
  BY <1>8, <1>17
<1>19. ASSUME NEW k \in Nat, k \in U PROVE k + 1 \in U
  <2> SUFFICES ASSUME k + 1 <= n PROVE after[k + 1] = g[k + 1]
    OBVIOUS
  <2>1. k + 1 \in 1..n /\ (k + 1) - 1 = k /\ after[k] = g[k]
    BY <1>1, <1>19
  <2>. QED BY <2>1, <1>13, <1>17
<1> HIDE DEF U
<1>20. \A k \in Nat : k \in U
  BY <1>18, <1>19, NatSetInduction
<1>21. after[n] = g[n] /\ After(n, g[n])
  BY <1>1, <1>13, <1>20 DEF U
<1>22. PICK pre \in Seq(TextLine), at \in Int, u \in Seq(ImageWord) :
         g[n] = Written(pre, at, u) /\ Copied(file, offset, n, pre, at, u)
  BY <1>21 DEF After
<1>23. Written(pre, at, u).text = Append(pre, [at |-> at, words |-> u])
  BY DEF Written
<1>. QED BY <1>16, <1>21, <1>22, <1>23
-------------------------------------------------------------------------------
(* The words that the lines ask for are those of the bytes of the image.     *)
LEMMA BytesOfImage ==
  ASSUME NEW file \in Seq(MifLine), NEW b
  PROVE  b \in BytesAt(file) <=> \E i \in DataLines(file) : \E k \in 1..Len(file[i][2]) :
                                   b = <<AddressOf(file, i) + k - 1, file[i][2][k]>>
<1>1. \A i \in DataLines(file) : DOMAIN file[i][2] = 1..Len(file[i][2])
  <2> SUFFICES ASSUME NEW i \in DataLines(file) PROVE DOMAIN file[i][2] = 1..Len(file[i][2])
    OBVIOUS
  <2>1. file[i] \in MifLine /\ file[i][1] = "bytes"
    BY DEF DataLines
  <2>2. file[i][2] \in Seq(ImageByte)
    BY <2>1, LineFields
  <2>. QED BY <2>2
<1> DEFINE byte(i, k) == <<AddressOf(file, i) + k - 1, file[i][2][k]>>
<1>2. BytesAt(file) = UNION {{byte(i, k) : k \in DOMAIN file[i][2]} : i \in DataLines(file)}
  BY Zenon DEF BytesAt
<1> HIDE DEF byte
<1>3. b \in BytesAt(file) <=> \E i \in DataLines(file) : \E k \in DOMAIN file[i][2] : b = byte(i, k)
  BY <1>2
<1>4. b \in BytesAt(file) <=> \E i \in DataLines(file) : \E k \in 1..Len(file[i][2]) : b = byte(i, k)
  BY <1>1, <1>3
<1>. QED BY <1>4 DEF byte

(* Every line of bytes begins with a word.                                   *)
LEMMA LineAtWord ==
  ASSUME NEW file \in Seq(MifLine), Objcopied(file)
  PROVE  \A i \in DataLines(file) : AddressOf(file, i) \in Nat /\ AddressOf(file, i) % Width = 0
<1> DEFINE n == Len(file)
           T == {k \in Nat : k + 1 \in DataLines(file) => Reached(file)[k] % Width = 0}
<1>1. n \in Nat /\ DOMAIN file = 1..n /\ Width \in Nat \ {0}
  BY ImageAssumption
<1>2. 0 \in T
  <2>1. file[0 + 1][1] = "@"
    BY DEF Objcopied
  <2>. QED BY <2>1 DEF DataLines
<1>3. ASSUME NEW k \in Nat, k \in T PROVE k + 1 \in T
  <2> SUFFICES ASSUME (k + 1) + 1 \in DataLines(file) PROVE Reached(file)[k + 1] % Width = 0
    OBVIOUS
  <2> DEFINE i == k + 1
             r == Reached(file)[k]
             l == Len(file[i][2])
  <2>1. i \in 1..n /\ i - 1 = k /\ k \in 0..n /\ file[i] \in MifLine
    BY <1>1 DEF DataLines
  <2> HIDE DEF i
  <2>2. Reached(file)[i] = (IF file[i][1] = "@" THEN file[i][2] ELSE r + l) /\ r \in Nat
    BY <2>1, ReachedLines
  <2>3. CASE file[i][1] = "@"
    <3>1. file[i][2] % Width = 0
      BY <1>1, <2>1, <2>3 DEF Objcopied
    <3>. QED BY <2>2, <2>3, <3>1 DEF i
  <2>4. CASE file[i][1] = "bytes"
    <3>1. i \in DataLines(file) /\ i + 1 \in DataLines(file)
      BY <1>1, <2>1, <2>4 DEF DataLines, i
    <3>2. l \in Nat /\ l % Width = 0
      <4>1. file[i][2] \in Seq(ImageByte) /\ l % Width = 0
        BY <3>1, BytesLine
      <4>. QED BY <4>1
    <3>3. r % Width = 0
      BY <1>3, <3>1 DEF i
    <3> HIDE DEF r, l
    <3>4. PICK p \in Int : r = Width * p
      BY <1>1, <2>2, <3>3, Multiples, r \in Int
    <3>5. PICK q \in Int : l = Width * q
      BY <1>1, <3>2, Multiples, l \in Int
    <3>6. r + l = Width * (p + q) /\ p + q \in Int /\ r + l \in Int
      BY <1>1, <3>4, <3>5, <2>2, <3>2
    <3>7. (r + l) % Width = 0
      BY <1>1, <3>6, Multiples
    <3>. QED BY <2>2, <2>4, <3>7 DEF i
  <2>. QED BY <2>1, <2>3, <2>4, LineFields
<1> HIDE DEF T
<1>4. \A k \in Nat : k \in T
  BY <1>2, <1>3, NatSetInduction
<1>5. ASSUME NEW i \in DataLines(file) PROVE AddressOf(file, i) \in Nat /\ AddressOf(file, i) % Width = 0
  <2> DEFINE k == i - 1
  <2>1. k \in Nat /\ k + 1 = i /\ k \in 0..n
    BY <1>1 DEF DataLines
  <2> HIDE DEF k
  <2>2. Reached(file)[k] % Width = 0
    BY <2>1, <1>4 DEF T
  <2>. QED BY <2>1, <2>2, ReachedLines DEF AddressOf, k
<1>. QED BY <1>5

(* The byte at an address among the words of a line is that of the line, or  *)
(* there is none: another line that had one would begin at that word, or     *)
(* before it, and have the bytes of this one.                                *)
LEMMA ByteHere ==
  ASSUME NEW file \in Seq(MifLine), Objcopied(file), NEW i \in DataLines(file), NEW x \in Int,
         AddressOf(file, i) <= x, x < AddressOf(file, i) + Width * Len(WordsOf(file[i][2]))
  PROVE  {b \in BytesAt(file) : b[1] = x} =
           IF x < AddressOf(file, i) + Len(file[i][2]) THEN {<<x, file[i][2][x - AddressOf(file, i) + 1]>>} ELSE {}
<1> DEFINE W == Width
           a == AddressOf(file, i)
           B == file[i][2]
           L == Len(B)
           m == Len(WordsOf(B))
<1>1. W \in Nat \ {0} /\ a \in Nat /\ a % W = 0 /\ B \in Seq(ImageByte) /\ L \in Nat
  <2>1. B \in Seq(ImageByte)
    BY BytesLine
  <2>2. a \in Nat /\ a % W = 0
    BY LineAtWord
  <2>. QED BY <2>1, <2>2, ImageAssumption
<1>2. m \in Nat /\ W * m < L + W
  BY <1>1, WordsOfLine
<1>3. a <= x /\ x < a + W * m
  OBVIOUS
<1> HIDE DEF m
<1>4. ASSUME NEW j \in DataLines(file), NEW k \in 1..Len(file[j][2]), AddressOf(file, j) + k - 1 = x
      PROVE  j = i /\ k = x - a + 1 /\ x < a + L
  <2> DEFINE c == AddressOf(file, j)
             M == Len(file[j][2])
  <2>1. c \in Nat /\ c % W = 0 /\ M \in Nat
    <3>1. file[j][2] \in Seq(ImageByte)
      BY BytesLine
    <3>. QED BY <3>1, LineAtWord
  <2>2. j # i => a + L <= c \/ c + M <= a
    BY DEF Objcopied
  <2>3. c <= x /\ x < c + M /\ k = x - c + 1
    BY <1>4, <2>1
  <2> HIDE DEF c, M, L, B, a
  <2>4. c < a + L
    <3>1. PICK p \in Int : a = W * p
      BY <1>1, Multiples, a \in Int
    <3>2. PICK q \in Int : c = W * q
      BY <1>1, <2>1, Multiples, c \in Int
    <3> DEFINE t == p + m
    <3>3. t \in Int /\ W * t = a + W * m /\ W * m \in Int
      BY <1>1, <1>2, <3>1
    <3> HIDE DEF t
    <3>4. W * q < W * t
      BY <3>2, <3>3, <2>1, <2>3, <1>1, <1>3
    <3>5. q < t
      BY <1>1, <3>3, <3>4, Before
    <3>6. W * q + W <= W * t
      BY <1>1, <3>3, <3>5, Apart
    <3>. QED BY <3>2, <3>3, <3>6, <1>1, <1>2, <2>1
  <2>5. j = i
    BY <1>1, <1>3, <2>1, <2>2, <2>3, <2>4
  <2>6. c = a /\ M = L
    BY <2>5 DEF a, c, M, L, B
  <2>. QED BY <2>3, <2>5, <2>6
<1>5. ASSUME NEW b \in BytesAt(file), b[1] = x PROVE x < a + L /\ b = <<x, B[x - a + 1]>>
  <2>1. PICK j \in DataLines(file) : \E k \in 1..Len(file[j][2]) : b = <<AddressOf(file, j) + k - 1, file[j][2][k]>>
    BY BytesOfImage
  <2>2. PICK k \in 1..Len(file[j][2]) : b = <<AddressOf(file, j) + k - 1, file[j][2][k]>>
    BY <2>1
  <2>3. AddressOf(file, j) + k - 1 = x
    BY <1>5, <2>2
  <2>4. j = i /\ k = x - a + 1 /\ x < a + L
    BY <2>3, <1>4
  <2>. QED BY <2>2, <2>3, <2>4
<1>6. ASSUME x < a + L PROVE <<x, B[x - a + 1]>> \in BytesAt(file)
  <2> DEFINE k == x - a + 1
  <2>1. k \in 1..L /\ a + k - 1 = x
    BY <1>1, <1>3, <1>6
  <2> HIDE DEF k
  <2>2. <<a + k - 1, B[k]>> \in BytesAt(file)
    BY <2>1, BytesOfImage
  <2>. QED BY <2>1, <2>2 DEF k
<1> HIDE DEF L, B, a
<1>7. CASE x < a + L
  <2>1. <<x, B[x - a + 1]>>[1] = x
    OBVIOUS
  <2>2. {b \in BytesAt(file) : b[1] = x} = {<<x, B[x - a + 1]>>}
    BY <1>5, <1>6, <1>7, <2>1
  <2>. QED BY <1>7, <2>2 DEF L, B, a
<1>8. CASE ~ (x < a + L)
  <2>1. {b \in BytesAt(file) : b[1] = x} = {}
    BY <1>5, <1>8
  <2>. QED BY <1>8, <2>1 DEF L, B, a
<1>. QED BY <1>7, <1>8

LEMMA WordHere ==
  ASSUME NEW file \in Seq(MifLine), Objcopied(file), NEW offset \in Int, NEW i \in DataLines(file),
         NEW k \in 1..Len(WordsOf(file[i][2])), NEW x, x = AddressOf(file, i) + Width * (k - 1)
  PROVE  /\ x \in Int /\ x % Width = 0 /\ Width * (k - 1) \in 0..(Len(file[i][2]) - 1)
         /\ WordIn(BytesAt(file), x) = WordsOf(file[i][2])[k]
         /\ (x - offset) \div Width = (AddressOf(file, i) - offset) \div Width + k - 1
<1> DEFINE W == Width
           a == AddressOf(file, i)
           B == file[i][2]
           L == Len(B)
           m == Len(WordsOf(B))
           h == k - 1
<1>1. W \in Nat \ {0} /\ a \in Nat /\ a % W = 0 /\ B \in Seq(ImageByte) /\ L \in Nat
  <2>1. B \in Seq(ImageByte)
    BY BytesLine
  <2>2. a \in Nat /\ a % W = 0
    BY LineAtWord
  <2>. QED BY <2>1, <2>2, ImageAssumption
<1>2. /\ m \in Nat /\ L <= W * m /\ W * m < L + W /\ WordsOf(B) \in Seq(ImageWord)
      /\ \A c \in 1..m : \A j \in 1..W :
           LET d == W * (c - 1) + (W - j) + 1
           IN  WordsOf(B)[c][j] = IF d <= Len(B) THEN B[d] ELSE 0
  BY <1>1, WordsOfLine
<1>3. h \in Nat /\ h < m /\ k \in 1..m /\ h \in Int /\ m \in Int
  BY <1>2
<1>4. WordsOf(B)[k] \in ImageWord
  BY <1>2, <1>3
<1> HIDE DEF h, m
<1>5. W * h \in Nat /\ W * h + W <= W * m /\ W * m \in Int /\ x = a + W * h
  <2>1. \A c, d \in Nat : c * d \in Nat
    OBVIOUS
  <2>2. W * h \in Nat /\ W * m \in Nat
    BY <2>1, <1>1, <1>2, <1>3
  <2>3. W * h + W <= W * m
    BY <1>1, <1>3, Apart
  <2>. QED BY <2>2, <2>3 DEF h
<1>6. W * h \in 0..(L - 1) /\ x \in Int
  <2> DEFINE P == W * h
             Q == W * m
  <2>1. P \in Nat /\ P + W <= Q /\ Q \in Int /\ x = a + P /\ Q < L + W
    BY <1>2, <1>5
  <2> HIDE DEF P, Q, L, a
  <2>2. P \in 0..(L - 1) /\ x \in Int
    BY <2>1, <1>1
  <2>. QED BY <2>2 DEF P
<1>7. x % W = 0
  <2>1. PICK p \in Int : a = W * p
    BY <1>1, Multiples, a \in Int
  <2>2. x = W * (p + h) /\ p + h \in Int
    BY <2>1, <1>1, <1>3, <1>5
  <2>. QED BY <2>2, <1>1, <1>6, Multiples
<1>8. (x - offset) \div W = (a - offset) \div W + k - 1
  <2> DEFINE z == a - offset
  <2>1. z \in Int /\ x - offset = z + W * h
    BY <1>1, <1>5
  <2> HIDE DEF z
  <2>2. (z + W * h) \div W = z \div W + h /\ z \div W \in Int
    BY <2>1, <1>1, <1>3, DivShift, Division
  <2>3. z \div W + h = z \div W + k - 1
    BY <2>2 DEF h
  <2>. QED BY <2>1, <2>2, <2>3 DEF z
<1>9. ASSUME NEW j \in 1..W
      PROVE  LET here == {b \in BytesAt(file) : b[1] = x + W - j}
             IN  (IF here = {} THEN 0 ELSE (CHOOSE b \in here : TRUE)[2]) = WordsOf(B)[k][j]
  <2> DEFINE y == x + W - j
             here == {b \in BytesAt(file) : b[1] = y}
             d == W * h + (W - j) + 1
  <2>1. y \in Int /\ a <= y /\ y < a + W * m /\ d = y - a + 1 /\ d \in Int
    <3> DEFINE P == W * h
               Q == W * m
    <3>1. P \in Nat /\ P + W <= Q /\ Q \in Int /\ x = a + P /\ a \in Int /\ W \in Nat /\ j \in Nat /\ 1 <= j /\ j <= W
      BY <1>1, <1>5
    <3> HIDE DEF P, Q, a, y, W
    <3>2. y = x + W - j
      BY DEF y, W
    <3>3. y \in Int /\ a <= y /\ y < a + Q /\ P + (W - j) + 1 = y - a + 1 /\ P + (W - j) + 1 \in Int
      BY <3>1, <3>2
    <3>. QED BY <3>3 DEF P, Q, W
  <2>2. WordsOf(B)[k][j] = IF d <= L THEN B[d] ELSE 0
    BY <1>2, <1>3 DEF h
  <2> HIDE DEF y, d, L, B, a
  <2>3. here = IF y < a + L THEN {<<y, B[y - a + 1]>>} ELSE {}
    BY <2>1, ByteHere DEF a, L, B, m
  <2>4. y < a + L <=> d <= L
    BY <2>1, <1>1
  <2>5. CASE d <= L
    <3>1. here = {<<y, B[d]>>}
      BY <2>1, <2>3, <2>4, <2>5
    <3> HIDE DEF here
    <3>2. (CHOOSE b \in here : TRUE) = <<y, B[d]>> /\ here # {}
      BY <3>1
    <3>3. (CHOOSE b \in here : TRUE)[2] = B[d]
      <4>1. <<y, B[d]>>[2] = B[d]
        OBVIOUS
      <4>. QED BY <4>1, <3>2, Zenon
    <3>4. (IF here = {} THEN 0 ELSE (CHOOSE b \in here : TRUE)[2]) = WordsOf(B)[k][j]
      BY <2>2, <2>5, <3>2, <3>3
    <3>. QED BY <3>4, Zenon DEF here, y
  <2>6. CASE ~ (d <= L)
    BY <2>2, <2>3, <2>4, <2>6 DEF y
  <2>. QED BY <2>5, <2>6
<1>10. WordIn(BytesAt(file), x) = WordsOf(B)[k]
  <2>1. WordsOf(B)[k] = [j \in 1..W |-> WordsOf(B)[k][j]]
    BY <1>4, Zenon DEF ImageWord
  <2>2. WordIn(BytesAt(file), x) = [j \in 1..W |-> WordsOf(B)[k][j]]
    BY <1>9, Zenon DEF WordIn
  <2>. QED BY <2>1, <2>2
<1>. QED BY <1>6, <1>7, <1>8, <1>10 DEF h

LEMMA AskedIsImage ==
  ASSUME NEW file \in Seq(MifLine), Objcopied(file), NEW offset \in Int
  PROVE  Asked(file, offset, Len(file)) = ImageWords(file, offset)
<1> DEFINE W == Width
           bytes == BytesAt(file)
           image == {<<(b[1] - offset) \div W, WordIn(bytes, b[1])>> : b \in {b \in bytes : b[1] % W = 0}}
           m(i) == Len(WordsOf(file[i][2]))
           word(i, k) == <<(AddressOf(file, i) - offset) \div W + k - 1, WordsOf(file[i][2])[k]>>
           at(i, k) == AddressOf(file, i) + W * (k - 1)
<1>1. W \in Nat \ {0}
  BY ImageAssumption
<1>2. ASSUME NEW i \in DataLines(file)
      PROVE  /\ i \in 1..Len(file) /\ file[i][2] \in Seq(ImageByte) /\ Len(file[i][2]) \in Nat
             /\ m(i) \in Nat /\ Len(file[i][2]) <= W * m(i) /\ DOMAIN WordsOf(file[i][2]) = 1..m(i)
             /\ AddressOf(file, i) \in Nat /\ AddressOf(file, i) % W = 0
  <2>1. i \in 1..Len(file) /\ file[i][2] \in Seq(ImageByte)
    BY BytesLine
  <2>2. WordsOf(file[i][2]) \in Seq(ImageWord) /\ m(i) \in Nat /\ Len(file[i][2]) <= W * m(i)
    BY <2>1, WordsOfLine
  <2>. QED BY <2>1, <2>2, LineAtWord
<1>3. ASSUME NEW i \in DataLines(file), NEW k \in 1..m(i) PROVE word(i, k) \in image
  <2> DEFINE x == at(i, k)
             c == W * (k - 1) + 1
             b == <<x, file[i][2][c]>>
  <2>1. /\ x \in Int /\ x % W = 0 /\ W * (k - 1) \in 0..(Len(file[i][2]) - 1)
        /\ WordIn(bytes, x) = WordsOf(file[i][2])[k]
        /\ (x - offset) \div W = (AddressOf(file, i) - offset) \div W + k - 1
    BY WordHere
  <2>2. c \in 1..Len(file[i][2]) /\ x = AddressOf(file, i) + c - 1
    <3> DEFINE P == W * (k - 1)
               L == Len(file[i][2])
               a == AddressOf(file, i)
    <3>1. P \in 0..(L - 1) /\ L \in Nat /\ a \in Nat
      BY <1>2, <2>1
    <3> HIDE DEF P, L, a
    <3>2. P + 1 \in 1..L /\ a + P = a + (P + 1) - 1
      BY <3>1
    <3>. QED BY <3>2 DEF P, L, a
  <2> HIDE DEF x, c
  <2>3. b \in bytes
    BY <2>2, BytesOfImage
  <2>4. b[1] = x
    OBVIOUS
  <2> HIDE DEF b, bytes
  <2>5. <<(b[1] - offset) \div W, WordIn(bytes, b[1])>> \in image
    BY <2>1, <2>3, <2>4
  <2>6. <<(x - offset) \div W, WordIn(bytes, x)>> \in image
    BY <2>4, <2>5
  <2>. QED BY <2>1, <2>6
<1>4. ASSUME NEW i \in DataLines(file), NEW k \in 1..m(i)
      PROVE  /\ WordIn(bytes, at(i, k)) = WordsOf(file[i][2])[k]
             /\ (at(i, k) - offset) \div W = (AddressOf(file, i) - offset) \div W + k - 1
  BY WordHere
<1>5. ASSUME NEW b \in bytes, b[1] % W = 0
      PROVE  \E i \in DataLines(file) : \E k \in 1..m(i) : <<(b[1] - offset) \div W, WordIn(bytes, b[1])>> = word(i, k)
  <2>1. PICK i \in DataLines(file) : \E c \in 1..Len(file[i][2]) : b = <<AddressOf(file, i) + c - 1, file[i][2][c]>>
    BY BytesOfImage
  <2>2. PICK c \in 1..Len(file[i][2]) : b = <<AddressOf(file, i) + c - 1, file[i][2][c]>>
    BY <2>1
  <2> DEFINE a == AddressOf(file, i)
             x == b[1]
             M == m(i)
  <2>3. x = a + c - 1 /\ x \in Int /\ a \in Int /\ a % W = 0 /\ M \in Nat /\ c - 1 < W * M /\ c \in Nat /\ c >= 1
    <3>1. x = a + c - 1
      BY <2>2
    <3>2. a \in Nat /\ a % W = 0 /\ M \in Nat /\ Len(file[i][2]) <= W * M /\ Len(file[i][2]) \in Nat
      BY <1>2
    <3>3. W * M \in Int
      BY <1>1, <3>2
    <3> HIDE DEF x, a, M
    <3>. QED BY <3>1, <3>2, <3>3
  <2> HIDE DEF x, a, M
  <2>4. PICK p \in Int : a = W * p
    BY <1>1, <2>3, Multiples
  <2>5. PICK q \in Int : x = W * q
    BY <1>1, <1>5, <2>3, Multiples DEF x
  <2> DEFINE h == q - p
  <2>6. h \in Int /\ W * h = c - 1 /\ W * 0 = 0
    BY <1>1, <2>3, <2>4, <2>5
  <2> HIDE DEF h
  <2>7. h < M
    BY <1>1, <2>3, <2>6, Before, M \in Int
  <2>8. h >= 0
    <3>1. ASSUME h < 0 PROVE FALSE
      <4>1. W * h + W <= W * 0
        BY <1>1, <2>6, <3>1, Apart
      <4>. QED BY <4>1, <2>3, <2>6, <1>1
    <3>. QED BY <3>1, <2>6
  <2> DEFINE k == h + 1
  <2>9. k \in 1..M /\ x = a + W * (k - 1)
    <3>1. k \in 1..M /\ k - 1 = h
      BY <2>3, <2>6, <2>7, <2>8
    <3> HIDE DEF k
    <3>. QED BY <3>1, <2>3, <2>6
  <2> HIDE DEF k
  <2>10. /\ WordIn(bytes, x) = WordsOf(file[i][2])[k]
         /\ (x - offset) \div W = (a - offset) \div W + k - 1
    <3>1. k \in 1..m(i) /\ x = at(i, k)
      BY <2>9 DEF a, M
    <3> HIDE DEF at, m, bytes
    <3>2. WordIn(bytes, at(i, k)) = WordsOf(file[i][2])[k] /\ (at(i, k) - offset) \div W = (AddressOf(file, i) - offset) \div W + k - 1
      BY <3>1, <1>4
    <3>. QED BY <3>1, <3>2 DEF a
  <2>11. <<(x - offset) \div W, WordIn(bytes, x)>> = word(i, k)
    BY <2>10 DEF a
  <2>. QED BY <2>9, <2>11 DEF x, M
<1>6. Asked(file, offset, Len(file)) = UNION {{word(i, k) : k \in 1..m(i)} : i \in DataLines(file)}
  <2>1. {i \in DataLines(file) : i <= Len(file)} = DataLines(file)
    BY <1>2
  <2>2. \A i \in DataLines(file) : AskedOf(file, offset, i) = {word(i, k) : k \in 1..m(i)}
    <3> SUFFICES ASSUME NEW i \in DataLines(file) PROVE AskedOf(file, offset, i) = {word(i, k) : k \in 1..m(i)}
      OBVIOUS
    <3>1. AskedOf(file, offset, i) = {word(i, k) : k \in DOMAIN WordsOf(file[i][2])}
      BY Zenon DEF AskedOf, LineWords
    <3>. QED BY <1>2, <3>1
  <2>3. Asked(file, offset, Len(file)) = UNION {AskedOf(file, offset, i) : i \in DataLines(file)}
    BY <2>1, Zenon DEF Asked
  <2> HIDE DEF word, m
  <2>4. {AskedOf(file, offset, i) : i \in DataLines(file)} = {{word(i, k) : k \in 1..m(i)} : i \in DataLines(file)}
    BY <2>2
  <2>. QED BY <2>3, <2>4, Zenon
<1>7. image = ImageWords(file, offset)
  BY Zenon DEF ImageWords
<1> HIDE DEF bytes, m, word
<1>8. image \subseteq UNION {{word(i, k) : k \in 1..m(i)} : i \in DataLines(file)}
  <2> SUFFICES ASSUME NEW b \in bytes, b[1] % W = 0
               PROVE  <<(b[1] - offset) \div W, WordIn(bytes, b[1])>>
                        \in UNION {{word(i, k) : k \in 1..m(i)} : i \in DataLines(file)}
    OBVIOUS
  <2>1. PICK i \in DataLines(file) : \E k \in 1..m(i) : <<(b[1] - offset) \div W, WordIn(bytes, b[1])>> = word(i, k)
    BY <1>5
  <2>. QED BY <2>1
<1> HIDE DEF image
<1>9. UNION {{word(i, k) : k \in 1..m(i)} : i \in DataLines(file)} \subseteq image
  <2> SUFFICES ASSUME NEW i \in DataLines(file), NEW k \in 1..m(i) PROVE word(i, k) \in image
    OBVIOUS
  <2>. QED BY <1>3
<1>. QED BY <1>6, <1>7, <1>8, <1>9

LEMMA ConvertIsImage ==
  ASSUME NEW file \in Seq(MifLine), Objcopied(file), NEW offset \in Int
  PROVE  LET text == Convert(file, offset)
         IN  /\ \A i \in DOMAIN text : text[i].at # Nowhere /\ Len(text[i].words) <= PerLine
             /\ MifWords(text) = ImageWords(file, offset)
<1>1. PICK pre \in Seq(TextLine), at \in Int, u \in Seq(ImageWord) :
        /\ Convert(file, offset) = Append(pre, [at |-> at, words |-> u])
        /\ Copied(file, offset, Len(file), pre, at, u)
  BY ConvertCopies
<1> DEFINE l == [at |-> at, words |-> u]
           text == Append(pre, l)
<1>2. l \in TextLine /\ Len(l.words) <= PerLine
  BY <1>1 DEF TextLine, Copied
<1>3. MifWords(text) = ImageWords(file, offset)
  <2>1. MifWords(text) = MifWords(pre) \cup LineWords(at, u)
    BY MifWordsAppend
  <2>2. MifWords(pre) \cup LineWords(at, u) = Asked(file, offset, Len(file))
    BY <1>1 DEF Copied
  <2>. QED BY <2>1, <2>2, AskedIsImage
<1> HIDE DEF l
<1>4. DOMAIN text = 1..(Len(pre) + 1) /\ Len(pre) \in Nat /\ text[Len(pre) + 1] = l
      /\ \A i \in 1..Len(pre) : text[i] = pre[i] /\ pre[i] \in TextLine
  BY <1>2
<1> HIDE DEF text
<1>5. ASSUME NEW i \in DOMAIN text PROVE text[i].at # Nowhere /\ Len(text[i].words) <= PerLine
  <2>1. text[i] \in TextLine /\ Len(text[i].words) <= PerLine
    <3>1. CASE i \in 1..Len(pre)
      <4>1. Narrow(pre)
        BY <1>1 DEF Copied
      <4>. QED BY <1>4, <3>1, <4>1 DEF Narrow
    <3>2. CASE i = Len(pre) + 1
      BY <1>2, <1>4, <3>2
    <3>. QED BY <1>4, <3>1, <3>2
  <2>2. text[i].at \in Int
    BY <2>1 DEF TextLine
  <2>. QED BY <2>1, <2>2, ImageAssumption
<1>6. Convert(file, offset) = text
  BY <1>1 DEF text, l
<1>. QED BY <1>3, <1>5, <1>6

(* Every image objcopy writes, of any number of lines and for any width of a *)
(* word and of a line of the .mif file, is turned into a file that gives     *)
(* each word of the memory the bytes of the image, at its address, and gives *)
(* no other word (convert of mif_gen.py).                                    *)
THEOREM MifIsTheImage == Spec => []MifHoldsImage
<1>1. Init => MifHoldsImage
  BY DEF Init, NoRun, MifHoldsImage
<1>2. MifHoldsImage /\ [Next]_toolvars => MifHoldsImage'
  <2> SUFFICES ASSUME MifHoldsImage, [Next]_toolvars PROVE MifHoldsImage'
    OBVIOUS
  <2>1. CASE UNCHANGED run
    BY <2>1, Zenon DEF MifHoldsImage
  <2>2. CASE VgaParser \/ OvrdParams
    <3>1. run'.script # "mif_gen"
      BY <2>2 DEF VgaParser, OvrdParams
    <3>. QED BY <3>1 DEF MifHoldsImage
  <2>3. CASE MifGen
    <3>1. PICK file \in MifFiles, offset \in Offsets :
            run' = [script |-> "mif_gen", file |-> file, offset |-> offset, result |-> Convert(file, offset)]
      BY <2>3 DEF MifGen
    <3>2. run'.file = file /\ run'.offset = offset /\ run'.result = Convert(file, offset)
      BY <3>1
    <3>3. file \in Seq(MifLine) /\ offset \in Int
      BY MifAssumption DEF MifLine, ImageByte
    <3>4. ASSUME Objcopied(file)
          PROVE  /\ \A i \in DOMAIN Convert(file, offset) :
                      Convert(file, offset)[i].at # Nowhere /\ Len(Convert(file, offset)[i].words) <= PerLine
                 /\ MifWords(Convert(file, offset)) = ImageWords(file, offset)
      BY <3>3, <3>4, ConvertIsImage
    <3>. QED BY <3>2, <3>4, Zenon DEF MifHoldsImage
  <2>. QED BY <2>1, <2>2, <2>3 DEF Next, toolvars
<1>. QED BY <1>1, <1>2, PTL DEF Spec
================================================================================
