----------------------------- MODULE TerminalProofs -----------------------------
(* Proofs about the terminal, the line and the gateway, for words and an     *)
(* address space of any size, any inputs, and any number of transfers and    *)
(* losses: the state keeps its type, the two ends never get out of step, a   *)
(* read prints what is in the memory, and what is written is what was asked. *)
EXTENDS Terminal, SequenceTheorems, WellFoundedInduction, TLAPS

(* Induction over numbers, from a least counterexample, and definitions by   *)
(* recursion over them.                                                      *)
Less == {p \in Nat \X Nat : p[1] < p[2]}

LEMMA NatSetInduction ==
  ASSUME NEW T, 0 \in T, \A n \in Nat : n \in T => n + 1 \in T
  PROVE  \A n \in Nat : n \in T
<1> SUFFICES ASSUME NEW m \in Nat, m \notin T PROVE FALSE
  OBVIOUS
<1> DEFINE Bad == {n \in Nat : n \notin T}
<1>1. IsWellFoundedOn(Less, Nat)
  BY NatLessThanWellFounded DEF OpToRel, Less
<1>2. Bad \subseteq Nat /\ Bad # {}
  OBVIOUS
<1>3. PICK i \in Bad : \A j \in Bad : <<j, i>> \notin Less
  BY <1>1, <1>2, WFMin
<1>4. i \in Nat /\ i \notin T /\ i # 0
  BY <1>3
<1>5. i - 1 \in Nat /\ i - 1 < i /\ (i - 1) + 1 = i
  BY <1>4
<1>6. i - 1 \notin Bad
  BY <1>3, <1>4, <1>5 DEF Less
<1>. QED BY <1>4, <1>5, <1>6

(* A run of F from base, for n steps: F[i] makes the state i + 1 of state i. *)
Runs(base, F, n, g) == g[0] = base /\ \A i \in 0..(n - 1) : g[i + 1] = F[i][g[i]]

LEMMA RunExists ==
  ASSUME NEW S, NEW base \in S, NEW F \in [Nat -> [S -> S]]
  PROVE  \A n \in Nat : \E g \in [0..n -> S] : Runs(base, F, n, g)
<1> DEFINE T == {n \in Nat : \E g \in [0..n -> S] : Runs(base, F, n, g)}
<1>1. 0 \in T
  <2>1. [i \in 0..0 |-> base] \in [0..0 -> S] /\ Runs(base, F, 0, [i \in 0..0 |-> base])
    BY DEF Runs
  <2>. QED BY <2>1
<1>2. ASSUME NEW n \in Nat, n \in T PROVE n + 1 \in T
  <2>1. PICK g \in [0..n -> S] : Runs(base, F, n, g)
    BY <1>2
  <2> DEFINE h == [i \in 0..(n + 1) |-> IF i = n + 1 THEN F[n][g[n]] ELSE g[i]]
  <2>2. h \in [0..(n + 1) -> S]
    OBVIOUS
  <2>3. h[n + 1] = F[n][g[n]] /\ \A i \in 0..n : h[i] = g[i]
    OBVIOUS
  <2> HIDE DEF h
  <2>4. h[0] = base
    BY <2>1, <2>3 DEF Runs
  <2>5. ASSUME NEW i \in 0..((n + 1) - 1) PROVE h[i + 1] = F[i][h[i]]
    <3>1. CASE i = n
      BY <3>1, <2>3
    <3>2. CASE i \in 0..(n - 1)
      BY <3>2, <2>1, <2>3 DEF Runs
    <3>. QED BY <3>1, <3>2
  <2>6. Runs(base, F, n + 1, h)
    BY <2>4, <2>5 DEF Runs
  <2>. QED BY <2>2, <2>6
<1> HIDE DEF T
<1>3. \A n \in Nat : n \in T
  BY <1>1, <1>2, NatSetInduction
<1>. QED BY <1>3 DEF T

(* Two runs of the same F agree as far as both go.                           *)
LEMMA RunUnique ==
  ASSUME NEW base, NEW F, NEW m \in Nat, NEW n \in Nat, NEW g, NEW h,
         n <= m, Runs(base, F, m, g), Runs(base, F, n, h)
  PROVE  \A i \in 0..n : g[i] = h[i]
<1> DEFINE T == {i \in Nat : i <= n => g[i] = h[i]}
<1>1. 0 \in T
  BY DEF Runs
<1>2. ASSUME NEW i \in Nat, i \in T PROVE i + 1 \in T
  <2> SUFFICES ASSUME i + 1 <= n PROVE g[i + 1] = h[i + 1]
    OBVIOUS
  <2>1. i \in 0..(n - 1) /\ i \in 0..(m - 1) /\ g[i] = h[i]
    BY <1>2
  <2>. QED BY <2>1 DEF Runs
<1> HIDE DEF T
<1>3. \A i \in Nat : i \in T
  BY <1>1, <1>2, NatSetInduction
<1>. QED BY <1>3 DEF T

Endless(base, F, f) == f[0] = base /\ \A n \in Nat : f[n + 1] = F[n][f[n]]

LEMMA EndlessRunExists ==
  ASSUME NEW S, NEW base \in S, NEW F \in [Nat -> [S -> S]]
  PROVE  \E f \in [Nat -> S] : Endless(base, F, f)
<1> DEFINE R(n) == CHOOSE g \in [0..n -> S] : Runs(base, F, n, g)
<1>1. \A n \in Nat : R(n) \in [0..n -> S] /\ Runs(base, F, n, R(n))
  BY RunExists
<1> HIDE DEF R
<1> DEFINE f == [n \in Nat |-> R(n)[n]]
<1>2. f \in [Nat -> S]
  BY <1>1
<1>3. f[0] = base
  BY <1>1 DEF Runs
<1>4. ASSUME NEW n \in Nat PROVE f[n + 1] = F[n][f[n]]
  <2>1. R(n + 1)[n + 1] = F[n][R(n + 1)[n]]
    BY <1>1 DEF Runs
  <2>2. R(n + 1)[n] = R(n)[n]
    BY <1>1, RunUnique, n <= n + 1, n + 1 \in Nat, n \in 0..n
  <2>. QED BY <2>1, <2>2
<1>. QED BY <1>2, <1>3, <1>4 DEF Endless
-------------------------------------------------------------------------------
(* Division.                                                                 *)
LEMMA Division ==
  ASSUME NEW n \in Int, NEW d \in Nat \ {0}
  PROVE  /\ n \div d \in Int /\ n % d \in 0..(d - 1)
         /\ n = d * (n \div d) + (n % d)
  OBVIOUS

LEMMA Ordered ==
  ASSUME NEW d \in Nat \ {0}, NEW p \in Int, NEW q \in Int, p <= q
  PROVE  d * p <= d * q
<1>1. d * q = d * p + d * (q - p)
  OBVIOUS
<1>2. q - p \in Nat /\ d \in Nat
  OBVIOUS
<1>3. \A a, b \in Nat : a * b \in Nat
  OBVIOUS
<1>4. d * (q - p) \in Nat
  BY <1>2, <1>3
<1>. QED BY <1>1, <1>4

LEMMA DivUnique ==
  ASSUME NEW n \in Int, NEW d \in Nat \ {0}, NEW q \in Int, NEW r \in 0..(d - 1), n = d * q + r
  PROVE  n \div d = q /\ n % d = r
<1> DEFINE p == n \div d
<1>1. p \in Int /\ n % d \in 0..(d - 1) /\ n = d * p + (n % d)
  BY Division
<1>2. d * q \in Int /\ d * p \in Int /\ d * (p - 1) = d * p - d /\ d * (q - 1) = d * q - d
  BY <1>1
<1> HIDE DEF p
<1>3. ~ (p <= q - 1)
  <2> SUFFICES ASSUME p <= q - 1 PROVE FALSE
    OBVIOUS
  <2>1. d * p <= d * (q - 1)
    BY <1>1, Ordered, q - 1 \in Int
  <2>. QED BY <2>1, <1>1, <1>2
<1>4. ~ (q <= p - 1)
  <2> SUFFICES ASSUME q <= p - 1 PROVE FALSE
    OBVIOUS
  <2>1. d * q <= d * (p - 1)
    BY <1>1, Ordered, p - 1 \in Int
  <2>. QED BY <2>1, <1>1, <1>2
<1>5. p = q
  BY <1>1, <1>3, <1>4
<1>6. d * p = d * q
  BY <1>5
<1>. QED BY <1>1, <1>2, <1>5, <1>6 DEF p

LEMMA DivDiv ==
  ASSUME NEW n \in Nat, NEW w \in Nat \ {0}
  PROVE  n \div (256 * w) = (n \div w) \div 256
<1> DEFINE q == n \div w
           r == n % w
           a == q \div 256
           b == q % 256
<1>1. q \in Int /\ r \in 0..(w - 1) /\ n = w * q + r
  BY Division
<1>2. a \in Int /\ b \in 0..255 /\ q = 256 * a + b
  BY <1>1
<1> HIDE DEF q, r, a, b
<1>3. w * q = w * (256 * a) + w * b
  BY <1>1, <1>2
<1>4. w * (256 * a) = (256 * w) * a
  BY <1>2
<1>5. w * b <= w * 255 /\ w * 0 <= w * b
  BY <1>2, Ordered
<1>6. w * b + r \in 0..(256 * w - 1)
  BY <1>1, <1>2, <1>5
<1>7. 256 * w \in Nat \ {0}
  OBVIOUS
<1>8. w * b \in Int /\ (256 * w) * a \in Int
  BY <1>2
<1>9. n = (256 * w) * a + (w * b + r)
  BY <1>1, <1>3, <1>4, <1>8
<1>10. n \div (256 * w) = a
  BY <1>2, <1>6, <1>7, <1>9, DivUnique
<1>. QED BY <1>10 DEF a, q

LEMMA Weights ==
  /\ Weight[0] = 1
  /\ \A k \in Nat : Weight[k] \in Nat \ {0} /\ Weight[k + 1] = 256 * Weight[k]
<1> DEFINE F == [k \in Nat |-> [x \in Nat |-> 256 * x]]
<1>1. F \in [Nat -> [Nat -> Nat]]
  OBVIOUS
<1> HIDE DEF F
<1>2. PICK f \in [Nat -> Nat] : f[0] = 1 /\ \A n \in Nat : f[n + 1] = F[n][f[n]]
  <2> DEFINE S == Nat
             base == 1
  <2>1. F \in [Nat -> [S -> S]] /\ base \in S
    BY <1>1
  <2> HIDE DEF S, base
  <2>2. \E f \in [Nat -> S] : Endless(base, F, f)
    BY <2>1, EndlessRunExists
  <2>. QED BY <2>2 DEF S, base, Endless
<1>3. \A n \in Nat : f[n + 1] = 256 * f[n]
  BY <1>2 DEF F
<1>4. f = [k \in Nat |-> IF k = 0 THEN 1 ELSE 256 * f[k - 1]]
  <2>1. ASSUME NEW k \in Nat PROVE f[k] = IF k = 0 THEN 1 ELSE 256 * f[k - 1]
    <3>1. CASE k = 0
      BY <3>1, <1>2
    <3>2. CASE k # 0
      <4>1. k - 1 \in Nat /\ (k - 1) + 1 = k
        BY <3>2
      <4>. QED BY <3>2, <4>1, <1>3
    <3>. QED BY <3>1, <3>2
  <2>. QED BY <1>2, <2>1
<1>5. Weight = [k \in Nat |-> IF k = 0 THEN 1 ELSE 256 * Weight[k - 1]]
  BY <1>4, Zenon DEF Weight
<1>6. Weight[0] = 1
  BY <1>5
<1>7. \A k \in Nat : Weight[k + 1] = 256 * Weight[k]
  <2> TAKE k \in Nat
  <2>1. k + 1 \in Nat /\ k + 1 # 0 /\ (k + 1) - 1 = k
    OBVIOUS
  <2>2. Weight[k + 1] = 256 * Weight[(k + 1) - 1]
    BY <1>5, <2>1
  <2>. QED BY <2>1, <2>2
<1> DEFINE T == {k \in Nat : Weight[k] \in Nat \ {0}}
<1>8. 0 \in T
  BY <1>6
<1>9. \A k \in Nat : k \in T => k + 1 \in T
  BY <1>7
<1> HIDE DEF T
<1>10. \A k \in Nat : k \in T
  BY <1>8, <1>9, NatSetInduction
<1>. QED BY <1>6, <1>7, <1>10 DEF T
-------------------------------------------------------------------------------
(* Numbers on the line.                                                      *)
LEMMA AsBytesType ==
  ASSUME NEW n \in Int
  PROVE  AsBytes(n) \in Word /\ AsBytes(n) \in Seq(Byte) /\ Len(AsBytes(n)) = WordBytes
<1>1. ASSUME NEW i \in 1..WordBytes PROVE AsBytes(n)[i] \in Byte
  <2>1. WordBytes - i \in Nat
    BY WordAssumption
  <2>2. Weight[WordBytes - i] \in Nat \ {0}
    BY <2>1, Weights
  <2>3. n \div Weight[WordBytes - i] \in Int
    BY <2>2, Division
  <2>4. (n \div Weight[WordBytes - i]) % 256 \in 0..255
    BY <2>3
  <2>. QED BY <2>4 DEF AsBytes, Byte
<1>2. AsBytes(n) \in Word
  BY <1>1 DEF AsBytes, Word
<1>. QED BY <1>2, WordAssumption DEF Word

(* Number's recursion over the first bytes.                                  *)
Added(v, b) == (v * 256 + b) % Space

LEMMA NumberRuns ==
  ASSUME NEW bytes \in Seq(Byte)
  PROVE  \E g \in [0..Len(bytes) -> 0..(Space - 1)] :
           /\ g[0] = 0 /\ \A i \in 1..Len(bytes) : g[i] = Added(g[i - 1], bytes[i])
           /\ Number(bytes) = g[Len(bytes)]
<1> DEFINE n == Len(bytes)
           S == 0..(Space - 1)
           F == [i \in Nat |-> [v \in S |-> IF i + 1 \in 1..n THEN Added(v, bytes[i + 1]) ELSE v]]
<1>1. \A v \in S, b \in Byte : Added(v, b) \in S
  <2> TAKE v \in S, b \in Byte
  <2>1. v * 256 + b \in Int /\ Space \in Nat \ {0}
    BY WordAssumption DEF Byte
  <2>2. (v * 256 + b) % Space \in 0..(Space - 1)
    BY <2>1, Division
  <2>. QED BY <2>2 DEF Added
<1>2. F \in [Nat -> [S -> S]]
  BY <1>1
<1>3. 0 \in S /\ n \in Nat
  BY WordAssumption
<1> HIDE DEF F, S
<1>4. PICK g \in [0..n -> S] : Runs(0, F, n, g)
  BY <1>2, <1>3, RunExists
<1>5. ASSUME NEW i \in 1..n PROVE g[i] = Added(g[i - 1], bytes[i])
  <2>1. i - 1 \in 0..(n - 1) /\ (i - 1) + 1 = i /\ i - 1 \in Nat /\ g[i - 1] \in S
    BY <1>3
  <2>2. g[i] = F[i - 1][g[i - 1]]
    BY <1>4, <2>1 DEF Runs
  <2>. QED BY <2>1, <2>2 DEF F
<1>6. g[0] = 0
  BY <1>4 DEF Runs
<1> DEFINE Value(f) == f = [i \in 0..n |-> IF i = 0 THEN 0 ELSE (f[i - 1] * 256 + bytes[i]) % Space]
<1>7. Value(g)
  <2>1. ASSUME NEW i \in 0..n PROVE g[i] = IF i = 0 THEN 0 ELSE (g[i - 1] * 256 + bytes[i]) % Space
    BY <1>5, <1>6, i # 0 => i \in 1..n DEF Added
  <2>. QED BY <1>4, <2>1, Zenon
<1> DEFINE value == CHOOSE f : Value(f)
<1>8. Value(value)
  BY <1>7, Zenon
<1>9. Number(bytes) = value[n]
  BY DEF Number
<1> HIDE DEF value
<1>10. Runs(0, F, n, value)
  <2>1. value = [i \in 0..n |-> IF i = 0 THEN 0 ELSE (value[i - 1] * 256 + bytes[i]) % Space]
    BY <1>8
  <2>2. value[0] = 0
    BY <2>1, <1>3
  <2> DEFINE T == {i \in Nat : i <= n => value[i] = g[i]}
  <2>3. 0 \in T
    BY <2>2, <1>6
  <2>4. ASSUME NEW i \in Nat, i \in T PROVE i + 1 \in T
    <3> SUFFICES ASSUME i + 1 <= n PROVE value[i + 1] = g[i + 1]
      OBVIOUS
    <3>1. i + 1 \in 1..n /\ i + 1 \in 0..n /\ i + 1 # 0 /\ (i + 1) - 1 = i /\ value[i] = g[i]
      BY <2>4, <1>3
    <3>2. value[i + 1] = Added(value[i], bytes[i + 1])
      BY <2>1, <3>1 DEF Added
    <3>3. g[i + 1] = Added(g[i], bytes[i + 1])
      BY <1>5, <3>1
    <3>. QED BY <3>1, <3>2, <3>3
  <2> HIDE DEF T
  <2>5. \A i \in Nat : i \in T
    BY <2>3, <2>4, NatSetInduction
  <2>6. \A i \in 0..n : value[i] = g[i]
    BY <2>5, <1>3 DEF T
  <2>. QED BY <2>6, <1>4, <1>3 DEF Runs
<1>11. value[n] = g[n]
  BY <1>4, <1>10, <1>3, RunUnique
<1>. QED BY <1>4, <1>5, <1>6, <1>9, <1>11 DEF S

LEMMA NumberType ==
  ASSUME NEW bytes \in Seq(Byte) PROVE Number(bytes) \in 0..(Space - 1)
<1>1. PICK g \in [0..Len(bytes) -> 0..(Space - 1)] : Number(bytes) = g[Len(bytes)]
  BY NumberRuns
<1>. QED BY <1>1

(* What the terminal splits the gateway puts together again.                 *)
THEOREM NumberOfBytes ==
  ASSUME NEW n \in 0..(Space - 1) PROVE Number(AsBytes(n)) = n
<1> DEFINE b == AsBytes(n)
           Upper(i) == n \div Weight[WordBytes - i]
<1>1. b \in Seq(Byte) /\ Len(b) = WordBytes /\ WordBytes \in Nat \ {0} /\ n \in Nat /\ Space \in Nat \ {0}
  BY AsBytesType, WordAssumption
<1>2. \A i \in 1..WordBytes : b[i] = Upper(i) % 256
  BY DEF AsBytes
<1> HIDE DEF b
<1>3. PICK g \in [0..Len(b) -> 0..(Space - 1)] :
        /\ g[0] = 0 /\ \A i \in 1..Len(b) : g[i] = Added(g[i - 1], b[i])
        /\ Number(b) = g[Len(b)]
  BY <1>1, NumberRuns
<1> DEFINE T == {i \in Nat : i <= WordBytes => g[i] = Upper(i)}
<1>4. 0 \in T
  <2>1. Weight[WordBytes] \in Nat \ {0} /\ n < Weight[WordBytes]
    <3>1. Weight[WordBytes] \in Nat \ {0}
      BY <1>1, Weights
    <3>2. Space <= Weight[WordBytes]
      BY WordAssumption
    <3>. QED BY <3>1, <3>2, <1>1
  <2>2. n \div Weight[WordBytes] = 0
    BY <2>1, <1>1, DivUnique, n = Weight[WordBytes] * 0 + n
  <2>. QED BY <2>2, <1>3, <1>1
<1>5. ASSUME NEW i \in Nat, i \in T PROVE i + 1 \in T
  <2> SUFFICES ASSUME i + 1 <= WordBytes PROVE g[i + 1] = Upper(i + 1)
    OBVIOUS
  <2> DEFINE k == WordBytes - (i + 1)
             q == Upper(i + 1)
  <2>1. k \in Nat /\ WordBytes - i = k + 1 /\ i + 1 \in 1..WordBytes /\ (i + 1) - 1 = i
    BY <1>1
  <2>2. Weight[k] \in Nat \ {0} /\ Weight[k + 1] = 256 * Weight[k]
    BY <2>1, Weights
  <2>3. g[i] = q \div 256
    BY <1>5, <2>1, <2>2, DivDiv, <1>1
  <2>4. q \in 0..n
    <3> DEFINE w == Weight[k]
               r == n % w
    <3>1. w \in Nat \ {0} /\ q = n \div w /\ n \in Nat
      BY <2>2, <1>1
    <3> HIDE DEF q, w
    <3>2. w \in Nat \ {0} /\ q \in Int /\ r \in 0..(w - 1) /\ n = w * q + r /\ n \in Nat
      BY <3>1, Division
    <3> HIDE DEF q, w, r
    <3>3. ~ (q <= -1)
      <4> SUFFICES ASSUME q <= -1 PROVE FALSE
        OBVIOUS
      <4>1. w * q <= w * (-1)
        BY <3>2, Ordered, -1 \in Int
      <4>2. w * (-1) = -w /\ w * q \in Int
        BY <3>2
      <4>. QED BY <4>1, <4>2, <3>2
    <3>4. q >= 0
      BY <3>2, <3>3
    <3>5. q * 1 <= q * w
      <4>1. CASE q = 0
        BY <4>1, <3>2
      <4>2. CASE q # 0
        BY <4>2, <3>2, <3>4, Ordered, q \in Nat \ {0}, 1 \in Int, w \in Int, 1 <= w
      <4>. QED BY <4>1, <4>2
    <3>6. q * w = w * q /\ q * 1 = q /\ w * q \in Int
      BY <3>2
    <3>. QED BY <3>2, <3>4, <3>5, <3>6
  <2>5. g[i + 1] = Added(q \div 256, q % 256)
    BY <2>1, <2>3, <1>1, <1>2, <1>3
  <2> HIDE DEF q
  <2>6. (q \div 256) * 256 + (q % 256) = q
    BY <2>4
  <2>7. q \in 0..(Space - 1)
    BY <2>4, <1>1
  <2>8. q % Space = q
    <3>1. q \in Int /\ 0 \in Int /\ q = Space * 0 + q
      BY <2>7, <1>1
    <3>. QED BY <3>1, <2>7, <1>1, DivUnique
  <2>9. Added(q \div 256, q % 256) = q
    BY <2>6, <2>8 DEF Added
  <2>. QED BY <2>5, <2>9 DEF q
<1> HIDE DEF T
<1>6. \A i \in Nat : i \in T
  BY <1>4, <1>5, NatSetInduction
<1>7. g[WordBytes] = Upper(WordBytes)
  BY <1>6, <1>1 DEF T
<1>8. Upper(WordBytes) = n
  BY <1>1, Weights, WordBytes - WordBytes = 0, n \div 1 = n
<1>. QED BY <1>1, <1>3, <1>7, <1>8 DEF b
-------------------------------------------------------------------------------
(* The bytes of a section: FlattenSeq adds the words one after the other.    *)
LEMMA FlattenRuns ==
  ASSUME NEW S, NEW words \in Seq(Seq(S)), words # << >>
  PROVE  \E g \in [1..Len(words) -> Seq(S)] :
           /\ g[1] = words[1] /\ \A i \in 2..Len(words) : g[i] = g[i - 1] \o words[i]
           /\ FlattenSeq(words) = g[Len(words)]
<1> DEFINE n == Len(words)
           A == Seq(S)
           F == [i \in Nat |-> [x \in A |-> IF i + 2 \in 1..n THEN x \o words[i + 2] ELSE x]]
           base == words[1]
<1>1. n \in Nat /\ n >= 1 /\ base \in A /\ \A i \in 1..n : words[i] \in A
  OBVIOUS
<1>2. F \in [Nat -> [A -> A]]
  <2>1. ASSUME NEW i \in Nat, NEW x \in A
        PROVE  (IF i + 2 \in 1..n THEN x \o words[i + 2] ELSE x) \in A
    OBVIOUS
  <2>. QED BY <2>1
<1> HIDE DEF F, A, base
<1>3. PICK r \in [0..n -> A] : Runs(base, F, n, r)
  BY <1>1, <1>2, RunExists
<1> DEFINE g == [i \in 1..n |-> r[i - 1]]
<1>4. g \in [1..n -> A]
  BY <1>1
<1>5. g[1] = words[1]
  BY <1>1, <1>3 DEF Runs, base
<1>6. ASSUME NEW i \in 2..n PROVE g[i] = g[i - 1] \o words[i]
  <2>1. i \in 1..n /\ i - 1 \in 1..n /\ i - 2 \in 0..(n - 1) /\ i - 2 \in Nat
        /\ (i - 2) + 2 = i /\ (i - 2) + 1 = i - 1 /\ (i - 1) - 1 = i - 2 /\ i - 2 \in 0..n
    BY <1>1
  <2>2. g[i] = r[i - 1] /\ g[i - 1] = r[i - 2] /\ r[i - 2] \in A
    BY <2>1, <1>3
  <2>3. r[i - 1] = F[i - 2][r[i - 2]]
    BY <2>1, <1>3 DEF Runs
  <2>4. F[i - 2][r[i - 2]] = r[i - 2] \o words[i]
    BY <2>1, <2>2 DEF F
  <2>. QED BY <2>2, <2>3, <2>4
<1> HIDE DEF g
<1> DEFINE Flat(f) == f = [i \in 1..n |-> IF i = 1 THEN words[i] ELSE f[i - 1] \o words[i]]
<1>7. Flat(g)
  <2>1. ASSUME NEW i \in 1..n PROVE g[i] = IF i = 1 THEN words[i] ELSE g[i - 1] \o words[i]
    <3>1. CASE i = 1
      BY <3>1, <1>5
    <3>2. CASE i # 1
      BY <3>2, <1>6, i \in 2..n
    <3>. QED BY <3>1, <3>2
  <2>. QED BY <1>4, <2>1, Zenon
<1> DEFINE flatten == CHOOSE f : Flat(f)
<1>8. Flat(flatten)
  BY <1>7, Zenon
<1>9. FlattenSeq(words) = flatten[n]
  BY <1>1 DEF FlattenSeq
<1> HIDE DEF flatten
<1>10. \A i \in 1..n : flatten[i] = g[i]
  <2>1. flatten = [i \in 1..n |-> IF i = 1 THEN words[i] ELSE flatten[i - 1] \o words[i]]
    BY <1>8
  <2> DEFINE T == {i \in Nat : i + 1 <= n => flatten[i + 1] = g[i + 1]}
  <2>2. 0 \in T
    BY <2>1, <1>1, <1>5
  <2>3. ASSUME NEW i \in Nat, i \in T PROVE i + 1 \in T
    <3> SUFFICES ASSUME (i + 1) + 1 <= n PROVE flatten[(i + 1) + 1] = g[(i + 1) + 1]
      OBVIOUS
    <3>1. i + 2 \in 2..n /\ i + 2 \in 1..n /\ (i + 2) - 1 = i + 1 /\ i + 2 # 1 /\ flatten[i + 1] = g[i + 1]
          /\ (i + 1) + 1 = i + 2
      BY <2>3, <1>1
    <3>2. flatten[i + 2] = flatten[i + 1] \o words[i + 2]
      BY <2>1, <3>1
    <3>3. g[i + 2] = g[i + 1] \o words[i + 2]
      BY <1>6, <3>1
    <3>. QED BY <3>1, <3>2, <3>3
  <2> HIDE DEF T
  <2>4. \A i \in Nat : i \in T
    BY <2>2, <2>3, NatSetInduction
  <2>5. ASSUME NEW i \in 1..n PROVE flatten[i] = g[i]
    <3>1. i - 1 \in Nat /\ i - 1 \in T /\ (i - 1) + 1 = i
      BY <2>4, <1>1
    <3>. QED BY <3>1, <1>1 DEF T
  <2>. QED BY <2>5
<1>11. FlattenSeq(words) = g[n]
  BY <1>1, <1>9, <1>10
<1>. QED BY <1>4, <1>5, <1>6, <1>11 DEF A

LEMMA ConcatAt ==
  ASSUME NEW a \in Seq(Byte), NEW b \in Seq(Byte)
  PROVE  /\ \A i \in 1..Len(a) : (a \o b)[i] = a[i]
         /\ \A i \in 1..Len(b) : (a \o b)[Len(a) + i] = b[i]
OBVIOUS

Full(words) == \A i \in DOMAIN words : Len(words[i]) = WordBytes

LEMMA FlattenType ==
  ASSUME NEW words \in Seq(Seq(Byte))
  PROVE  /\ FlattenSeq(words) \in Seq(Byte)
         /\ Full(words) => /\ Len(FlattenSeq(words)) = Len(words) * WordBytes
                           /\ \A i \in DOMAIN words : \A b \in 1..WordBytes :
                                FlattenSeq(words)[(i - 1) * WordBytes + b] = words[i][b]
<1>1. CASE words = << >>
  BY <1>1, WordAssumption DEF FlattenSeq
<1>2. CASE words # << >>
  <2> DEFINE n == Len(words)
  <2>1. PICK g \in [1..n -> Seq(Byte)] :
          /\ g[1] = words[1] /\ \A i \in 2..n : g[i] = g[i - 1] \o words[i]
          /\ FlattenSeq(words) = g[n]
    BY <1>2, FlattenRuns
  <2>2. n \in Nat /\ n >= 1 /\ (\A i \in 1..n : words[i] \in Seq(Byte)) /\ WordBytes \in Nat \ {0}
    BY <1>2, WordAssumption
  <2> HIDE DEF n
  <2> DEFINE Filled(i) == /\ Len(g[i]) = i * WordBytes
                          /\ \A j \in 1..i : \A b \in 1..WordBytes : g[i][(j - 1) * WordBytes + b] = words[j][b]
  <2>3. ASSUME \A i \in 1..n : Len(words[i]) = WordBytes
        PROVE  Filled(n)
    <3> DEFINE T == {i \in Nat : i + 1 <= n => Filled(i + 1)}
    <3>1. 0 \in T
      <4>1. Filled(1)
        <5>1. g[1] = words[1] /\ Len(words[1]) = WordBytes /\ 1 * WordBytes = WordBytes /\ (1 - 1) * WordBytes = 0
          BY <2>1, <2>2, <2>3
        <5>2. \A b \in 1..WordBytes : 0 + b = b
          OBVIOUS
        <5>. QED BY <5>1, <5>2
      <4>. QED BY <4>1
    <3>2. ASSUME NEW i \in Nat, i \in T PROVE i + 1 \in T
      <4> SUFFICES ASSUME (i + 1) + 1 <= n PROVE Filled((i + 1) + 1)
        OBVIOUS
      <4>1. i + 2 \in 2..n /\ i + 2 \in 1..n /\ i + 1 \in 1..n /\ (i + 2) - 1 = i + 1 /\ (i + 1) + 1 = i + 2
        BY <2>2
      <4>2. g[i + 2] = g[i + 1] \o words[i + 2] /\ g[i + 1] \in Seq(Byte) /\ words[i + 2] \in Seq(Byte)
        BY <2>1, <2>2, <4>1
      <4>3. Filled(i + 1) /\ Len(words[i + 2]) = WordBytes
        BY <3>2, <2>3, <4>1
      <4>4. Len(g[i + 2]) = Len(g[i + 1]) + Len(words[i + 2])
        BY <4>1, <4>2
      <4>5. (i + 2) * WordBytes = (i + 1) * WordBytes + WordBytes /\ (i + 1) * WordBytes \in Nat
            /\ ((i + 2) - 1) * WordBytes = (i + 1) * WordBytes
        <5>1. \A x, y \in Nat : x * y \in Nat
          OBVIOUS
        <5>. QED BY <5>1, <2>2
      <4>6. ASSUME NEW j \in 1..(i + 2), NEW b \in 1..WordBytes
            PROVE  g[i + 2][(j - 1) * WordBytes + b] = words[j][b]
        <5> DEFINE full == (i + 1) * WordBytes
                   at == (j - 1) * WordBytes
        <5>1. full \in Nat /\ Len(g[i + 1]) = full /\ b \in Nat /\ b >= 1 /\ b <= WordBytes
          BY <4>3, <4>5
        <5>2. CASE j = i + 2
          <6>1. at = full
            BY <5>2, <4>5
          <6> HIDE DEF full, at
          <6>2. g[i + 2][full + b] = words[i + 2][b]
            <7>0. b \in 1..Len(words[i + 2])
              BY <4>3
            <7> DEFINE u == g[i + 1]
                       v == words[i + 2]
            <7>2. u \in Seq(Byte) /\ v \in Seq(Byte) /\ g[i + 2] = u \o v /\ b \in 1..Len(v)
              BY <7>0, <4>2
            <7> HIDE DEF u, v
            <7>3. (u \o v)[Len(u) + b] = v[b]
              BY <7>2, ConcatAt
            <7>1. g[i + 2][Len(g[i + 1]) + b] = words[i + 2][b]
              BY <7>2, <7>3 DEF u, v
            <7>. QED BY <7>1, <5>1
          <6>. QED BY <6>1, <6>2, <5>2 DEF at
        <5>3. CASE j \in 1..(i + 1)
          <6>1. j - 1 \in Nat /\ j - 1 <= i /\ j \in Int
            BY <5>3
          <6>2. at \in Nat
            <7>1. \A x, y \in Nat : x * y \in Nat
              OBVIOUS
            <7>. QED BY <7>1, <6>1, <2>2
          <6>3. at + WordBytes <= full
            <7>1. WordBytes * (j - 1) <= WordBytes * i
              BY <6>1, <2>2, Ordered, i \in Int, j - 1 \in Int
            <7>2. WordBytes * (j - 1) = at /\ WordBytes * i + WordBytes = full /\ WordBytes * i \in Int
              BY <6>1, <2>2
            <7> DEFINE x == WordBytes * (j - 1)
                       y == WordBytes * i
            <7> HIDE DEF at, full, x, y
            <7>3. x <= y /\ x = at /\ y + WordBytes = full /\ y \in Int
              BY <7>1, <7>2 DEF x, y
            <7>. QED BY <7>3, <6>2, <5>1, <2>2
          <6>4. g[i + 1][at + b] = words[j][b]
            BY <5>3, <4>3
          <6> HIDE DEF full, at
          <6>5. g[i + 2][at + b] = g[i + 1][at + b]
            <7>1. at + b \in 1..Len(g[i + 1])
              BY <6>2, <6>3, <5>1, <2>2
            <7>. QED BY <7>1, <4>2, ConcatAt
          <6>. QED BY <6>4, <6>5 DEF at
        <5>. QED BY <5>2, <5>3
      <4> HIDE DEF Filled
      <4>7. Len(g[i + 2]) = (i + 2) * WordBytes
        <5>1. Len(g[i + 1]) = (i + 1) * WordBytes
          BY <4>3 DEF Filled
        <5>. QED BY <5>1, <4>3, <4>4, <4>5
      <4>8. Filled(i + 2)
        BY <4>6, <4>7 DEF Filled
      <4>. QED BY <4>1, <4>8
    <3> HIDE DEF T
    <3>3. \A i \in Nat : i \in T
      BY <3>1, <3>2, NatSetInduction
    <3>4. n - 1 \in Nat /\ n - 1 \in T /\ (n - 1) + 1 = n
      BY <2>2, <3>3
    <3> HIDE DEF Filled
    <3>5. (n - 1) + 1 <= n => Filled((n - 1) + 1)
      BY <3>4 DEF T
    <3>. QED BY <2>2, <3>4, <3>5
  <2>4. DOMAIN words = 1..n /\ Len(words) = n /\ n \in 1..n
    BY <2>2 DEF n
  <2>5. FlattenSeq(words) \in Seq(Byte)
    BY <2>1, <2>4
  <2>6. Full(words) => Filled(n)
    BY <2>3, <2>4 DEF Full
  <2>. QED BY <2>1, <2>4, <2>5, <2>6
<1>. QED BY <1>1, <1>2 DEF Full

-------------------------------------------------------------------------------
(* The parser.                                                               *)
FileLine == ({"@"} \X Nat) \cup ({"bytes"} \X Seq(Byte))
SectionOf == {s \in [address : Int, size : Nat, words : Seq(Seq(Byte))] : s.size = Len(s.words) * WordBytes}
Parsing == [done : Seq(SectionOf), address : Int, words : Seq(Seq(Byte))]

LEMMA GroupsType ==
  ASSUME NEW b \in Seq(Byte) PROVE Groups(b) \in Seq(Seq(Byte))
<1> DEFINE n == (Len(b) + WordBytes - 1) \div WordBytes
           hi(i) == IF i * WordBytes < Len(b) THEN i * WordBytes ELSE Len(b)
<1>1. n \in Nat
  <2>1. Len(b) + WordBytes - 1 \in Nat
    BY WordAssumption
  <2> DEFINE m == Len(b) + WordBytes - 1
  <2>2. m \in Nat /\ WordBytes \in Nat \ {0}
    BY <2>1, WordAssumption
  <2> HIDE DEF m
  <2>3. m \div WordBytes \in Nat
    BY <2>2
  <2>. QED BY <2>3 DEF m
<1>2. ASSUME NEW i \in 1..n PROVE Reverse(SubSeq(b, (i - 1) * WordBytes + 1, hi(i))) \in Seq(Byte)
  <2> DEFINE lo == (i - 1) * WordBytes + 1
             s == SubSeq(b, lo, hi(i))
  <2>1. i \in Nat /\ i - 1 \in Nat /\ WordBytes \in Nat
    BY <1>1, WordAssumption
  <2>2. \A p, q \in Nat : p * q \in Nat
    OBVIOUS
  <2>3. (i - 1) * WordBytes \in Nat /\ i * WordBytes \in Nat
    BY <2>1, <2>2
  <2>4. lo \in Nat /\ lo >= 1 /\ hi(i) \in Nat /\ hi(i) <= Len(b)
    BY <2>3
  <2> DEFINE h == hi(i)
  <2> HIDE DEF lo, h
  <2>5. SubSeq(b, lo, h) \in Seq(Byte)
    BY <2>4 DEF h
  <2>6. s \in Seq(Byte)
    BY <2>5 DEF h
  <2> HIDE DEF s
  <2>7. ASSUME NEW j \in 1..Len(s) PROVE s[(Len(s) - j) + 1] \in Byte
    BY <2>6
  <2>8. Reverse(s) \in Seq(Byte)
    BY <2>6, <2>7 DEF Reverse
  <2>. QED BY <2>8 DEF s, lo
<1> HIDE DEF n
<1>3. Groups(b) = [i \in 1..n |-> Reverse(SubSeq(b, (i - 1) * WordBytes + 1, hi(i)))]
  BY DEF Groups, n
<1>. QED BY <1>1, <1>2, <1>3

LEMMA SectionType ==
  ASSUME NEW address \in Int, NEW words \in Seq(Seq(Byte))
  PROVE  Section(address, words) \in SectionOf
<1>1. \A p, q \in Nat : p * q \in Nat
  OBVIOUS
<1>2. Len(words) * WordBytes \in Nat
  BY <1>1, WordAssumption
<1>. QED BY <1>2 DEF Section, SectionOf

LEMMA ParseLineType ==
  ASSUME NEW p \in Parsing, NEW line \in FileLine
  PROVE  ParseLine(p, line) \in Parsing
<1>1. p.done \in Seq(SectionOf) /\ p.address \in Int /\ p.words \in Seq(Seq(Byte))
  BY DEF Parsing
<1>2. CASE line[1] = "@"
  <2>1. line[2] \in Nat
    BY <1>2 DEF FileLine
  <2>2. Append(p.done, Section(p.address, p.words)) \in Seq(SectionOf)
    BY <1>1, SectionType
  <2>3. << >> \in Seq(Seq(Byte))
    OBVIOUS
  <2>. QED BY <1>1, <1>2, <2>1, <2>2, <2>3 DEF ParseLine, Parsing
<1>3. CASE line[1] # "@"
  <2>1. line[2] \in Seq(Byte)
    BY <1>3 DEF FileLine
  <2>2. p.words \o Groups(line[2]) \in Seq(Seq(Byte))
    BY <1>1, <2>1, GroupsType
  <2>. QED BY <1>1, <1>3, <2>2 DEF ParseLine, Parsing
<1>. QED BY <1>2, <1>3

LEMMA ParseRuns ==
  ASSUME NEW file \in Seq(FileLine)
  PROVE  \E g \in [0..Len(file) -> Parsing] :
           /\ g[0] = [done |-> << >>, address |-> -1, words |-> << >>]
           /\ \A i \in 1..Len(file) : g[i] = ParseLine(g[i - 1], file[i])
           /\ ParseLines(file) = g[Len(file)]
<1> DEFINE n == Len(file)
           base == [done |-> << >>, address |-> -1, words |-> << >>]
           F == [i \in Nat |-> [p \in Parsing |-> IF i + 1 \in 1..n THEN ParseLine(p, file[i + 1]) ELSE p]]
<1>1. base \in Parsing /\ n \in Nat
  BY DEF Parsing
<1>2. F \in [Nat -> [Parsing -> Parsing]]
  <2>1. ASSUME NEW i \in Nat, NEW p \in Parsing
        PROVE  (IF i + 1 \in 1..n THEN ParseLine(p, file[i + 1]) ELSE p) \in Parsing
    <3>1. CASE i + 1 \in 1..n
      <4>1. file[i + 1] \in FileLine
        BY <3>1
      <4>. QED BY <3>1, <4>1, ParseLineType
    <3>2. CASE i + 1 \notin 1..n
      BY <3>2
    <3>. QED BY <3>1, <3>2
  <2>. QED BY <2>1
<1> HIDE DEF base, F
<1>3. PICK g \in [0..n -> Parsing] : Runs(base, F, n, g)
  BY <1>1, <1>2, RunExists
<1>4. g[0] = base
  BY <1>3 DEF Runs
<1>5. ASSUME NEW i \in 1..n PROVE g[i] = ParseLine(g[i - 1], file[i])
  <2>1. i - 1 \in 0..(n - 1) /\ (i - 1) + 1 = i /\ i - 1 \in Nat /\ g[i - 1] \in Parsing
    BY <1>1
  <2>2. g[i] = F[i - 1][g[i - 1]]
    BY <1>3, <2>1 DEF Runs
  <2>. QED BY <2>1, <2>2 DEF F
<1> DEFINE Parsed(f) == f = [i \in 0..n |-> IF i = 0 THEN base ELSE ParseLine(f[i - 1], file[i])]
<1>6. Parsed(g)
  <2>1. ASSUME NEW i \in 0..n PROVE g[i] = IF i = 0 THEN base ELSE ParseLine(g[i - 1], file[i])
    BY <1>4, <1>5, i # 0 => i \in 1..n
  <2>. QED BY <1>3, <2>1, Zenon
<1> DEFINE parsed == CHOOSE f : Parsed(f)
<1>7. Parsed(parsed)
  BY <1>6, Zenon
<1>8. ParseLines(file) = parsed[n]
  BY DEF ParseLines, base
<1> HIDE DEF parsed
<1>9. \A i \in 0..n : parsed[i] = g[i]
  <2>1. parsed = [i \in 0..n |-> IF i = 0 THEN base ELSE ParseLine(parsed[i - 1], file[i])]
    BY <1>7
  <2> DEFINE T == {i \in Nat : i <= n => parsed[i] = g[i]}
  <2>2. 0 \in T
    BY <2>1, <1>4, <1>1
  <2>3. ASSUME NEW i \in Nat, i \in T PROVE i + 1 \in T
    <3> SUFFICES ASSUME i + 1 <= n PROVE parsed[i + 1] = g[i + 1]
      OBVIOUS
    <3>1. i + 1 \in 1..n /\ i + 1 \in 0..n /\ i + 1 # 0 /\ (i + 1) - 1 = i /\ parsed[i] = g[i]
      BY <2>3, <1>1
    <3>2. parsed[i + 1] = ParseLine(parsed[i], file[i + 1])
      BY <2>1, <3>1
    <3>3. g[i + 1] = ParseLine(g[i], file[i + 1])
      BY <1>5, <3>1
    <3>. QED BY <3>1, <3>2, <3>3
  <2> HIDE DEF T
  <2>4. \A i \in Nat : i \in T
    BY <2>2, <2>3, NatSetInduction
  <2>. QED BY <2>4, <1>1 DEF T
<1>10. ParseLines(file) = g[n]
  BY <1>1, <1>8, <1>9
<1>. QED BY <1>3, <1>4, <1>5, <1>10 DEF base

LEMMA ParseType ==
  ASSUME NEW file \in Files, ~ Unreadable(file)
  PROVE  file \in Seq(FileLine) /\ Parse(file) \in Seq(SectionOf)
<1>1. file \in Seq(FileLine)
  BY InputAssumption DEF Unreadable, FileLine
<1>2. ParseLines(file) \in Parsing
  BY <1>1, ParseRuns
<1> DEFINE end == ParseLines(file)
<1>3. end.done \in Seq(SectionOf) /\ end.address \in Int /\ end.words \in Seq(Seq(Byte))
  BY <1>2 DEF Parsing
<1> HIDE DEF end
<1>4. Append(end.done, Section(end.address, end.words)) \in Seq(SectionOf)
  BY <1>3, SectionType
<1>5. Parse(file) = Append(end.done, Section(end.address, end.words))
  BY DEF Parse, end
<1>. QED BY <1>1, <1>4, <1>5
-------------------------------------------------------------------------------
(* Multiples of the word.                                                    *)
LEMMA Multiples ==
  ASSUME NEW n \in Nat
  PROVE  n % WordBytes = 0 <=> \E k \in Nat : n = WordBytes * k
<1>1. ASSUME n % WordBytes = 0 PROVE \E k \in Nat : n = WordBytes * k
  <2> DEFINE k == n \div WordBytes
  <2>1. k \in Nat /\ n = WordBytes * k + (n % WordBytes)
    <3>1. WordBytes \in Nat \ {0}
      BY WordAssumption
    <3>2. n = WordBytes * k + (n % WordBytes)
      BY <3>1, Division
    <3>. QED BY <3>1, <3>2
  <2> HIDE DEF k
  <2>2. WordBytes * k \in Int
    BY <2>1, WordAssumption
  <2>3. n = WordBytes * k
    BY <1>1, <2>1, <2>2
  <2>. QED BY <2>1, <2>3
<1>2. ASSUME NEW k \in Nat, n = WordBytes * k PROVE n % WordBytes = 0
  <2>1. WordBytes \in Nat \ {0} /\ k \in Int /\ 0 \in 0..(WordBytes - 1) /\ n \in Int
    BY WordAssumption
  <2>2. n = WordBytes * k + 0
    BY <1>2
  <2>. QED BY <2>1, <2>2, DivUnique
<1>. QED BY <1>1, <1>2

LEMMA MultiplesApart ==
  ASSUME NEW m \in Nat, NEW n \in Nat, m % WordBytes = 0, n % WordBytes = 0
  PROVE  /\ m < n => m + WordBytes <= n
         /\ (m + WordBytes) % WordBytes = 0
<1>1. PICK j \in Nat : m = WordBytes * j
  BY Multiples
<1>2. PICK k \in Nat : n = WordBytes * k
  BY Multiples
<1>3. WordBytes \in Nat \ {0}
  BY WordAssumption
<1>4. m + WordBytes = WordBytes * (j + 1)
  BY <1>1, <1>3
<1>5. m + WordBytes \in Nat /\ j + 1 \in Nat
  BY <1>3
<1>6. (m + WordBytes) % WordBytes = 0
  BY <1>4, <1>5, Multiples
<1>7. ASSUME m < n PROVE m + WordBytes <= n
  <2>1. ~ (k <= j)
    <3> SUFFICES ASSUME k <= j PROVE FALSE
      OBVIOUS
    <3>1. WordBytes * k <= WordBytes * j
      BY <1>3, Ordered
    <3>. QED BY <3>1, <1>1, <1>2, <1>7
  <2>2. WordBytes * (j + 1) <= WordBytes * k
    BY <2>1, <1>3, Ordered, j + 1 <= k, j + 1 \in Int
  <2>. QED BY <2>2, <1>2, <1>4
<1>. QED BY <1>6, <1>7

Counts == {n \in 0..(Space - 1) : n % WordBytes = 0}

LEMMA NextCount ==
  ASSUME NEW n \in Counts
  PROVE  /\ (n + WordBytes) % Space \in Counts
         /\ n + WordBytes < Space => (n + WordBytes) % Space = n + WordBytes
<1>1. WordBytes \in Nat \ {0} /\ Space \in Nat \ {0} /\ n \in Nat /\ n < Space /\ n % WordBytes = 0
  BY WordAssumption DEF Counts
<1>2. n + WordBytes <= Space /\ (n + WordBytes) % WordBytes = 0
  BY <1>1, WordAssumption, MultiplesApart
<1> DEFINE m == n + WordBytes
<1>3. m \in Nat /\ m <= Space /\ m % WordBytes = 0
  BY <1>1, <1>2
<1> HIDE DEF m
<1>4. CASE m < Space
  <2>1. m = Space * 0 + m /\ m \in 0..(Space - 1) /\ m \in Int /\ 0 \in Int
    BY <1>1, <1>3, <1>4
  <2>2. m % Space = m
    BY <2>1, <1>1, DivUnique
  <2>. QED BY <1>3, <2>1, <2>2 DEF m, Counts
<1>5. CASE m = Space
  <2>1. m = Space * 1 + 0 /\ 0 \in 0..(Space - 1) /\ m \in Int /\ 1 \in Int
    BY <1>1, <1>3, <1>5
  <2>2. m % Space = 0
    BY <2>1, <1>1, DivUnique
  <2>3. 0 % WordBytes = 0
    BY <1>1, Multiples, 0 = WordBytes * 0, 0 \in Nat
  <2>4. m % Space \in Counts
    BY <2>1, <2>2, <2>3 DEF Counts
  <2>. QED BY <2>4, <1>5, <1>1 DEF m
<1>6. m < Space \/ m = Space
  BY <1>1, <1>3
<1>. QED BY <1>4, <1>5, <1>6
-------------------------------------------------------------------------------
(* The type of the state, with what the states of the gateway say of its     *)
(* registers.                                                                *)
GateStates == {"IDLE", "ADDRESS_PHASE", "SIZE_PHASE", "DATA_PHASE", "ACK_RESP",
               "WRITE_TO_RC", "READ_FROM_RC", "WRITE_TO_UART"}
Receptive == {"ADDRESS_PHASE", "SIZE_PHASE", "DATA_PHASE"}
Kinds == {"W", "R", "WB", "RB"}
Reads == {"R", "RB"}

GateRecord == [st : GateStates, kind : Kinds \cup {"INVALID"}, buf : Seq(Byte), address : 0..(Space - 1),
               size : 0..(Space - 1), word : Word, rdata : Word, count : Counts]
GateSane ==
  /\ gate.st # "IDLE" => gate.kind \in Kinds
  /\ gate.st = "SIZE_PHASE" => gate.kind \in {"WB", "RB"}
  /\ gate.st \in {"DATA_PHASE", "WRITE_TO_RC"} => gate.kind \in {"W", "WB"}
  /\ gate.st \in {"READ_FROM_RC", "WRITE_TO_UART"} => gate.kind \in Reads
  /\ Len(gate.buf) <= WordBytes
  /\ gate.st \in Receptive => Len(gate.buf) < WordBytes
  /\ gate.st = "WRITE_TO_RC" => gate.buf = << >>
  /\ gate.st = "WRITE_TO_UART" => gate.buf # << >>
  /\ gate.count # 0 => \/ gate.kind = "WB" /\ gate.st \in {"DATA_PHASE", "WRITE_TO_RC"}
                       \/ gate.kind = "RB" /\ gate.st \in {"READ_FROM_RC", "WRITE_TO_UART"}
GateInv == gate \in GateRecord /\ GateSane
LineInv == tx \in Seq(Byte) /\ rx \in Seq(Byte) /\ Len(rx) <= LineRoom
MemInv == mem \in [Words -> Word]
TermInv ==
  /\ phase \in {"prompt", "sections", "ack", "data", "closed", "crashed"}
  /\ transfer = << >> \/ transfer \in Transfers
  /\ phase \in {"sections", "ack", "data"} => transfer \in Transfers
  /\ sections \in Seq(SectionOf)
  /\ left \in Nat /\ (phase = "data" => left > 0)
  /\ printed \in Seq(Seq(Byte)) /\ \A i \in DOMAIN printed : Len(printed[i]) \in 1..WordBytes
TypeInv == TermInv /\ LineInv /\ GateInv /\ MemInv

LEMMA TypeInvImplies == TypeInv => TypeOK
<1> SUFFICES ASSUME TypeInv PROVE TypeOK
  OBVIOUS
<1>1. \A i \in DOMAIN sections : sections[i].size = Len(sections[i].words) * WordBytes
  <2>1. \A i \in DOMAIN sections : sections[i] \in SectionOf
    BY DEF TypeInv, TermInv
  <2>. QED BY <2>1 DEF SectionOf
<1>2. gate.st \in GateStates /\ gate.kind \in Kinds \cup {"INVALID"} /\ gate.buf \in Seq(Byte)
      /\ gate.count \in Counts /\ gate.rdata \in Word /\ Len(gate.buf) <= WordBytes
  BY DEF TypeInv, GateInv, GateRecord, GateSane
<1>3. DOMAIN Opcode = Kinds
  BY DEF Opcode, Kinds
<1>. QED BY <1>1, <1>2, <1>3 DEF TypeInv, TermInv, LineInv, MemInv, TypeOK, GateStates, Counts

LEMMA Operations ==
  /\ DOMAIN Opcode = Kinds /\ Ack \in Byte
  /\ \A op \in Kinds : Opcode[op] \in Byte
  /\ \A op, other \in Kinds : Opcode[op] = Opcode[other] => op = other
BY DEF Opcode, Kinds, Ack, Byte

LEMMA TransferType ==
  ASSUME NEW t \in Transfers
  PROVE  /\ t.op \in Kinds /\ t.address \in 0..(Space - 1)
         /\ t.op = "W" => t.word \in Word /\ t.word \in Seq(Byte) /\ Len(t.word) = WordBytes
         /\ t.op = "WB" => t.file \in Files
         /\ t.op = "RB" => t.size \in 0..(Space - 1)
<1>1. CASE t \in [op : {"W"}, address : Addresses, word : [1..WordBytes -> Data]]
  <2>1. t.op = "W" /\ t.address \in Addresses /\ t.word \in [1..WordBytes -> Data]
    BY <1>1
  <2>2. t.word \in [1..WordBytes -> Byte]
    BY <2>1, InputAssumption
  <2>3. t.word \in Seq(Byte) /\ Len(t.word) = WordBytes
    BY <2>2, WordAssumption
  <2>. QED BY <2>1, <2>2, <2>3, InputAssumption DEF Kinds, Word
<1>2. CASE t \in [op : {"R"}, address : Addresses]
  <2>1. t.op = "R" /\ t.address \in Addresses
    BY <1>2
  <2>. QED BY <2>1, InputAssumption DEF Kinds
<1>3. CASE t \in [op : {"WB"}, address : Addresses, file : Files]
  <2>1. t.op = "WB" /\ t.address \in Addresses /\ t.file \in Files
    BY <1>3
  <2>. QED BY <2>1, InputAssumption DEF Kinds
<1>4. CASE t \in [op : {"RB"}, address : Addresses, size : Sizes]
  <2>1. t.op = "RB" /\ t.address \in Addresses /\ t.size \in Sizes
    BY <1>4
  <2>. QED BY <2>1, InputAssumption DEF Kinds
<1>. QED BY <1>1, <1>2, <1>3, <1>4 DEF Transfers

LEMMA SendType ==
  ASSUME NEW t \in Transfers, tx \in Seq(Byte) PROVE Send(t) \in Seq(Byte)
<1>1. CASE t.op = "WB"
  BY <1>1 DEF Send
<1>2. CASE t.op # "WB"
  <2>1. t.op \in Kinds /\ t.address \in Int
    BY TransferType
  <2>2. <<Opcode[t.op]>> \in Seq(Byte) /\ AsBytes(t.address) \in Seq(Byte)
    BY <2>1, Operations, AsBytesType
  <2> DEFINE rest == IF t.op = "W" THEN t.word ELSE IF t.op = "RB" THEN AsBytes(t.size) ELSE << >>
  <2>3. rest \in Seq(Byte)
    BY TransferType, AsBytesType
  <2> HIDE DEF rest
  <2>4. tx \o <<Opcode[t.op]>> \o AsBytes(t.address) \o rest \in Seq(Byte)
    BY <2>2, <2>3
  <2>. QED BY <1>2, <2>4 DEF Send, rest
<1>. QED BY <1>1, <1>2

LEMMA ReceiveType ==
  ASSUME LineInv, NEW b \in Byte
  PROVE  Receive(b) \in Seq(Byte) /\ Len(Receive(b)) <= LineRoom
BY RoomAssumption DEF LineInv, Receive

LEMMA TypeInit == Init => TypeInv
<1> SUFFICES ASSUME Init PROVE TypeInv
  OBVIOUS
<1>1. TermInv
  BY DEF Init, TermInv
<1>2. LineInv
  BY RoomAssumption DEF Init, LineInv
<1>3. GateInv
  <2>1. 0 \in Counts /\ 0 \in 0..(Space - 1)
    BY WordAssumption, Multiples, 0 = WordBytes * 0, 0 \in Nat DEF Counts
  <2>2. AsBytes(0) \in Word
    BY AsBytesType
  <2>. QED BY <2>1, <2>2, WordAssumption DEF Init, GateInv, GateRecord, GateSane, GateStates, Kinds, Reads, Receptive
<1>4. MemInv
  <2>1. ASSUME NEW w \in Words, NEW i \in 1..WordBytes PROVE (w * WordBytes + i) % 256 \in Byte
    <3>1. w \in Int /\ i \in Int /\ WordBytes \in Int
      BY WordAssumption DEF Words
    <3>2. w * WordBytes + i \in Int
      BY <3>1
    <3> DEFINE m == w * WordBytes + i
    <3> HIDE DEF m
    <3>3. m \in Int => m % 256 \in Byte
      BY DEF Byte
    <3>. QED BY <3>2, <3>3 DEF m
  <2>2. mem = [w \in Words |-> [i \in 1..WordBytes |-> (w * WordBytes + i) % 256]]
    BY DEF Init
  <2>. QED BY <2>1, <2>2 DEF MemInv, Word
<1>. QED BY <1>1, <1>2, <1>3, <1>4 DEF TypeInv

LEMMA TypeAsk ==
  ASSUME TypeInv, NEW t \in Transfers, Ask(t) PROVE TypeInv'
<1>1. LineInv'
  <2>1. tx' \in Seq(Byte)
    BY SendType DEF TypeInv, LineInv, Ask
  <2>2. rx' \in Seq(Byte) /\ Len(rx') <= LineRoom
    BY RoomAssumption DEF TypeInv, LineInv, Ask, Input
  <2>. QED BY <2>1, <2>2 DEF LineInv
<1>2. TermInv'
  <2>1. transfer' = t /\ t \in Transfers /\ printed' = << >>
    BY DEF Ask
  <2>2. left' \in Nat
    <3>1. t.op = "RB" => t.size \div WordBytes \in Nat
      BY TransferType, WordAssumption
    <3>. QED BY <3>1 DEF Ask
  <2>3. phase' \in {"crashed", "sections", "ack"}
    BY DEF Ask
  <2>4. sections' \in Seq(SectionOf)
    <3>1. CASE t.op = "WB" /\ ~ Unreadable(t.file)
      BY <3>1, TransferType, ParseType DEF Ask
    <3>2. CASE ~ (t.op = "WB" /\ ~ Unreadable(t.file))
      <4>1. sections' = << >>
        BY <3>2 DEF Ask
      <4>. QED BY <4>1
    <3>. QED BY <3>1, <3>2
  <2>. QED BY <2>1, <2>2, <2>3, <2>4 DEF TermInv
<1>3. GateInv' /\ MemInv'
  BY DEF TypeInv, Ask, GateInv, GateSane, MemInv
<1>. QED BY <1>1, <1>2, <1>3 DEF TypeInv

LEMMA TypeServe == ASSUME TypeInv, Serve PROVE TypeInv'
<1>1. UNCHANGED <<gate, mem>> /\ UNCHANGED transfer
  BY DEF Serve, SendSection, EndOfFile, ReadAck, ReadWord
<1>2. GateInv' /\ MemInv'
  BY <1>1 DEF TypeInv, GateInv, GateSane, MemInv
<1>3. CASE SendSection
  <2> DEFINE s == Head(sections)
             address == transfer.address + s.address
  <2>1. phase = "sections" /\ sections # << >> /\ sections \in Seq(SectionOf) /\ transfer \in Transfers
    BY <1>3 DEF SendSection, TypeInv, TermInv
  <2>2. s \in SectionOf /\ Tail(sections) \in Seq(SectionOf)
    BY <2>1
  <2>3. address \in Int /\ s.size \in Int /\ s.words \in Seq(Seq(Byte))
    BY <2>1, <2>2, TransferType DEF SectionOf
  <2>4. AsBytes(address) \in Seq(Byte) /\ AsBytes(s.size) \in Seq(Byte) /\ FlattenSeq(s.words) \in Seq(Byte)
        /\ Opcode["WB"] \in Byte /\ tx \in Seq(Byte)
    BY <2>3, AsBytesType, FlattenType, Operations DEF Kinds, TypeInv, LineInv
  <2>5. \/ phase' = "crashed" /\ tx' = Append(tx, Opcode["WB"])
        \/ phase' = "ack" /\ tx' = tx \o <<Opcode["WB"]>> \o AsBytes(address) \o AsBytes(s.size) \o FlattenSeq(s.words)
    BY <1>3 DEF SendSection
  <2> HIDE DEF s, address
  <2>6. tx' \in Seq(Byte) /\ phase' \in {"crashed", "ack"}
    <3>1. Append(tx, Opcode["WB"]) \in Seq(Byte)
      BY <2>4
    <3>2. <<Opcode["WB"]>> \in Seq(Byte)
      BY <2>4
    <3>3. tx \o <<Opcode["WB"]>> \o AsBytes(address) \o AsBytes(s.size) \o FlattenSeq(s.words) \in Seq(Byte)
      BY <2>4, <3>2
    <3>. QED BY <2>5, <3>1, <3>3
  <2>7. UNCHANGED <<left, printed, rx>> /\ sections' = Tail(sections)
    BY <1>3 DEF SendSection
  <2>. QED BY <1>1, <1>2, <2>1, <2>2, <2>6, <2>7 DEF TypeInv, TermInv, LineInv
<1>4. CASE EndOfFile
  BY <1>1, <1>2, <1>4 DEF EndOfFile, TypeInv, TermInv, LineInv
<1>5. CASE ReadAck
  <2>1. UNCHANGED <<sections, left, printed, tx>> /\ phase = "ack" /\ transfer \in Transfers
    BY <1>5 DEF ReadAck, TypeInv, TermInv
  <2>2. (rx # << >> /\ rx' = Tail(rx)) \/ rx' = rx
    BY <1>5 DEF ReadAck
  <2>3. rx' \in Seq(Byte) /\ Len(rx') <= LineRoom
    <3>1. rx \in Seq(Byte) /\ Len(rx) <= LineRoom /\ LineRoom \in Nat
      BY RoomAssumption DEF TypeInv, LineInv
    <3>2. rx # << >> => Tail(rx) \in Seq(Byte) /\ Len(Tail(rx)) = Len(rx) - 1
      BY <3>1
    <3>. QED BY <2>2, <3>1, <3>2
  <2>4. phase' \in {"crashed", "data", "prompt", "sections"} /\ (phase' = "data" => left > 0)
    BY <1>5 DEF ReadAck, Onward
  <2>. QED BY <1>1, <1>2, <2>1, <2>3, <2>4 DEF TypeInv, TermInv, LineInv
<1>6. CASE ReadWord
  <2> DEFINE n == IF Len(rx) < WordBytes THEN Len(rx) ELSE WordBytes
  <2>1. UNCHANGED <<sections, tx>> /\ phase = "data" /\ transfer \in Transfers /\ left > 0 /\ left \in Nat
        /\ left' = left - 1 /\ phase' = (IF n = 0 \/ left = 1 THEN "prompt" ELSE "data")
        /\ rx' = SubSeq(rx, n + 1, Len(rx))
        /\ printed' = (IF n = 0 THEN printed ELSE Append(printed, SubSeq(rx, 1, n)))
    BY <1>6 DEF ReadWord, TypeInv, TermInv
  <2>2. rx \in Seq(Byte) /\ n \in 0..WordBytes /\ n <= Len(rx) /\ Len(rx) <= LineRoom
    BY WordAssumption DEF TypeInv, LineInv
  <2> HIDE DEF n
  <2>3. rx' \in Seq(Byte) /\ Len(rx') = Len(rx) - n
    BY <2>1, <2>2, WordAssumption
  <2>4. SubSeq(rx, 1, n) \in Seq(Byte) /\ Len(SubSeq(rx, 1, n)) = n
    BY <2>2, WordAssumption
  <2>5. printed' \in Seq(Seq(Byte)) /\ \A i \in DOMAIN printed' : Len(printed'[i]) \in 1..WordBytes
    <3>1. printed \in Seq(Seq(Byte)) /\ \A i \in DOMAIN printed : Len(printed[i]) \in 1..WordBytes
      BY DEF TypeInv, TermInv
    <3>2. CASE n = 0
      BY <3>1, <3>2, <2>1
    <3>3. CASE n # 0
      <4> DEFINE word == SubSeq(rx, 1, n)
      <4>1. word \in Seq(Byte) /\ Len(word) \in 1..WordBytes
        BY <2>2, <2>4, <3>3, WordAssumption
      <4>2. printed' = Append(printed, word)
        BY <2>1, <3>3
      <4> HIDE DEF word
      <4>. QED BY <3>1, <4>1, <4>2
    <3>. QED BY <3>2, <3>3
  <2>6. left' \in Nat /\ (phase' = "data" => left' > 0) /\ phase' \in {"prompt", "data"}
    BY <2>1
  <2>7. Len(rx') <= LineRoom
    BY <2>2, <2>3, RoomAssumption, WordAssumption
  <2>. QED BY <1>1, <1>2, <2>1, <2>3, <2>5, <2>6, <2>7 DEF TypeInv, TermInv, LineInv
<1>. QED BY <1>3, <1>4, <1>5, <1>6 DEF Serve

LEMMA TypeLose == ASSUME TypeInv, Lose PROVE TypeInv'
<1>1. UNCHANGED <<terminal, gate, mem>>
  BY DEF Lose
<1>2. TermInv' /\ GateInv' /\ MemInv'
  BY <1>1 DEF TypeInv, TermInv, terminal, GateInv, GateSane, MemInv
<1>3. \/ tx # << >> /\ tx' = Tail(tx) /\ rx' = rx
      \/ rx # << >> /\ rx' = Front(rx) /\ tx' = tx
  BY DEF Lose
<1>4. LineInv'
  <2>1. tx \in Seq(Byte) /\ rx \in Seq(Byte) /\ Len(rx) <= LineRoom /\ LineRoom \in Nat
    BY RoomAssumption DEF TypeInv, LineInv
  <2>2. rx # << >> => Front(rx) \in Seq(Byte) /\ Len(Front(rx)) = Len(rx) - 1
    BY <2>1 DEF Front
  <2>3. tx # << >> => Tail(tx) \in Seq(Byte)
    BY <2>1
  <2>4. rx # << >> => Len(Front(rx)) <= LineRoom
    BY <2>1, <2>2
  <2>. QED BY <1>3, <2>1, <2>2, <2>3, <2>4 DEF LineInv
<1>. QED BY <1>2, <1>4 DEF TypeInv

LEMMA GateFields ==
  ASSUME GateInv
  PROVE  /\ gate.st \in GateStates /\ gate.kind \in Kinds \cup {"INVALID"} /\ gate.buf \in Seq(Byte)
         /\ gate.address \in 0..(Space - 1) /\ gate.size \in 0..(Space - 1)
         /\ gate.word \in Word /\ gate.rdata \in Word /\ gate.count \in Counts
BY DEF GateInv, GateRecord

(* A full buffer is a word.                                                  *)
LEMMA FullBuffer ==
  ASSUME NEW buf \in Seq(Byte), Len(buf) = WordBytes PROVE buf \in Word
BY DEF Word

LEMMA WordIsBytes ==
  ASSUME NEW w \in Word PROVE w \in Seq(Byte) /\ Len(w) = WordBytes /\ w # << >>
BY WordAssumption DEF Word

LEMMA TypeGateway == ASSUME TypeInv, Gateway PROVE TypeInv'
<1>1. UNCHANGED terminal
  BY DEF Gateway
<1>2. TermInv'
  BY <1>1 DEF TypeInv, TermInv, terminal
<1>3. GateInv /\ LineInv /\ MemInv /\ tx \in Seq(Byte) /\ rx \in Seq(Byte) /\ Len(rx) <= LineRoom
  BY DEF TypeInv, LineInv
<1>4. tx # << >> => Head(tx) \in Byte /\ Tail(tx) \in Seq(Byte)
  BY <1>3
<1>f. /\ gate.st \in GateStates /\ gate.kind \in Kinds \cup {"INVALID"} /\ gate.buf \in Seq(Byte)
      /\ gate.address \in 0..(Space - 1) /\ gate.size \in 0..(Space - 1)
      /\ gate.word \in Word /\ gate.rdata \in Word /\ gate.count \in Counts /\ gate \in GateRecord
  BY <1>3, GateFields DEF GateInv
<1>e. << >> \in Seq(Byte)
  OBVIOUS
<1>0. 0 \in Counts
  BY WordAssumption, Multiples, 0 = WordBytes * 0, 0 \in Nat DEF Counts
<1>n. (gate.count + WordBytes) % Space \in Counts
  BY <1>f, NextCount
<1>5. CASE Decode
  <2>1. tx # << >> /\ tx' = Tail(tx) /\ UNCHANGED <<rx, mem>> /\ gate.st = "IDLE"
    BY <1>5 DEF Decode
  <2>2. CASE \E op \in DOMAIN Opcode : gate' = [gate EXCEPT !.st = "ADDRESS_PHASE", !.kind = op, !.buf = << >>]
    <3>1. PICK op \in Kinds : gate' = [gate EXCEPT !.st = "ADDRESS_PHASE", !.kind = op, !.buf = << >>]
      BY <2>2, Operations
    <3>2. gate' \in GateRecord
      BY <3>1, <1>e, <1>f DEF GateRecord, GateStates
    <3>3. gate'.st = "ADDRESS_PHASE" /\ gate'.kind = op /\ gate'.buf = << >> /\ gate'.count = gate.count
      BY <3>1, <1>f DEF GateRecord
    <3>4. gate.count = 0
      BY <1>3, <2>1 DEF GateInv, GateSane
    <3>5. GateSane'
      BY <3>3, <3>4, WordAssumption DEF GateSane, Receptive
    <3>. QED BY <1>2, <1>3, <1>4, <2>1, <3>2, <3>5 DEF TypeInv, GateInv, LineInv, MemInv
  <2>3. CASE gate' = [gate EXCEPT !.kind = "INVALID"]
    <3>1. gate' \in GateRecord
      BY <2>3, <1>f DEF GateRecord
    <3>2. gate'.st = "IDLE" /\ gate'.buf = gate.buf /\ gate'.count = gate.count
      BY <2>1, <2>3, <1>f DEF GateRecord
    <3>3. gate.count = 0 /\ Len(gate.buf) <= WordBytes
      BY <1>3, <2>1 DEF GateInv, GateSane
    <3>4. GateSane'
      BY <3>2, <3>3 DEF GateSane, Receptive
    <3>. QED BY <1>2, <1>3, <1>4, <2>1, <3>1, <3>4 DEF TypeInv, GateInv, LineInv, MemInv
  <2>. QED BY <1>5, <2>2, <2>3 DEF Decode
<1>6. CASE TakeByte
  <2> DEFINE buf == Append(gate.buf, Head(tx))
  <2>1. tx # << >> /\ tx' = Tail(tx) /\ UNCHANGED <<rx, mem>> /\ gate.st \in Receptive
    BY <1>6 DEF TakeByte, Receptive
  <2>2. Len(gate.buf) < WordBytes /\ gate.kind \in Kinds
        /\ (gate.st = "SIZE_PHASE" => gate.kind \in {"WB", "RB"})
        /\ (gate.st = "DATA_PHASE" => gate.kind \in {"W", "WB"})
        /\ (gate.count # 0 => gate.kind = "WB" /\ gate.st = "DATA_PHASE")
    BY <1>3, <2>1 DEF GateInv, GateSane, Receptive
  <2>3. buf \in Seq(Byte) /\ Len(buf) <= WordBytes /\ Len(buf) = Len(gate.buf) + 1
    BY <1>f, <1>4, <2>1, <2>2, WordAssumption
  <2>4. GateInv'
    <3>1. CASE Len(buf) < WordBytes
      <4>1. gate' = [gate EXCEPT !.buf = buf]
        BY <1>6, <3>1 DEF TakeByte
      <4> HIDE DEF buf
      <4>2. gate' \in GateRecord
        BY <4>1, <2>3, <1>f DEF GateRecord
      <4>3. gate'.st = gate.st /\ gate'.kind = gate.kind /\ gate'.buf = buf /\ gate'.count = gate.count
        BY <4>1, <1>f DEF GateRecord
      <4>. QED BY <4>2, <4>3, <2>1, <2>2, <2>3, <3>1 DEF GateInv, GateSane, Receptive
    <3>2. CASE Len(buf) >= WordBytes /\ gate.st = "ADDRESS_PHASE"
      <4>1. gate' = [gate EXCEPT !.buf = << >>, !.address = Number(buf), !.st = AfterAddress[gate.kind]]
        BY <1>6, <3>2, <2>3, WordAssumption DEF TakeByte
      <4>2. Number(buf) \in 0..(Space - 1)
        BY <2>3, NumberType
      <4> HIDE DEF buf
      <4>3. AfterAddress[gate.kind] \in {"DATA_PHASE", "SIZE_PHASE", "ACK_RESP"}
            /\ (AfterAddress[gate.kind] = "DATA_PHASE" => gate.kind = "W")
            /\ (AfterAddress[gate.kind] = "SIZE_PHASE" => gate.kind \in {"WB", "RB"})
        BY <2>2 DEF AfterAddress, Kinds
      <4>4. gate' \in GateRecord
        BY <4>1, <4>2, <4>3, <1>e, <1>f DEF GateRecord, GateStates
      <4>5. gate'.st = AfterAddress[gate.kind] /\ gate'.kind = gate.kind /\ gate'.buf = << >> /\ gate'.count = gate.count
        BY <4>1, <1>f DEF GateRecord
      <4>6. gate.count = 0
        BY <2>2, <3>2
      <4>. QED BY <4>3, <4>4, <4>5, <4>6, <2>2, WordAssumption DEF GateInv, GateSane, Receptive
    <3>3. CASE Len(buf) >= WordBytes /\ gate.st = "SIZE_PHASE"
      <4> DEFINE st == IF gate.kind = "WB" THEN "DATA_PHASE" ELSE "ACK_RESP"
      <4>1. gate' = [gate EXCEPT !.buf = << >>, !.size = Number(buf), !.st = st]
        BY <1>6, <3>3, <2>3, WordAssumption DEF TakeByte
      <4>2. Number(buf) \in 0..(Space - 1)
        BY <2>3, NumberType
      <4>3. st \in {"DATA_PHASE", "ACK_RESP"} /\ (st = "DATA_PHASE" => gate.kind = "WB")
        OBVIOUS
      <4> HIDE DEF buf, st
      <4>4. gate' \in GateRecord
        BY <4>1, <4>2, <4>3, <1>e, <1>f DEF GateRecord, GateStates
      <4>5. gate'.st = st /\ gate'.kind = gate.kind /\ gate'.buf = << >> /\ gate'.count = gate.count
        BY <4>1, <1>f DEF GateRecord
      <4>6. gate.count = 0
        BY <2>2, <3>3
      <4>. QED BY <4>3, <4>4, <4>5, <4>6, <2>2, WordAssumption DEF GateInv, GateSane, Receptive
    <3>4. CASE Len(buf) >= WordBytes /\ gate.st = "DATA_PHASE"
      <4>1. gate' = [gate EXCEPT !.buf = << >>, !.word = buf, !.st = "WRITE_TO_RC"]
        BY <1>6, <3>4, <2>3, WordAssumption DEF TakeByte
      <4>2. buf \in Word
        <5>1. Len(buf) = WordBytes
          BY <2>3, <3>4, WordAssumption
        <5>. QED BY <2>3, <5>1, FullBuffer
      <4> HIDE DEF buf
      <4>3. gate' \in GateRecord
        BY <4>1, <4>2, <1>e, <1>f DEF GateRecord, GateStates
      <4>4. gate'.st = "WRITE_TO_RC" /\ gate'.kind = gate.kind /\ gate'.buf = << >> /\ gate'.count = gate.count
        BY <4>1, <1>f DEF GateRecord
      <4>. QED BY <4>3, <4>4, <2>2, <3>4, WordAssumption DEF GateInv, GateSane, Receptive
    <3>5. Len(buf) < WordBytes \/ Len(buf) >= WordBytes
      BY <2>3, WordAssumption
    <3>. QED BY <2>1, <3>1, <3>2, <3>3, <3>4, <3>5 DEF Receptive
  <2>. QED BY <1>2, <1>3, <1>4, <2>1, <2>4 DEF TypeInv, LineInv, MemInv
<1>7. CASE StoreWord
  <2>1. UNCHANGED <<tx, rx>> /\ gate.st = "WRITE_TO_RC"
    BY <1>7 DEF StoreWord
  <2>2. gate.kind \in {"W", "WB"} /\ Len(gate.buf) <= WordBytes /\ (gate.count # 0 => gate.kind = "WB")
    BY <1>3, <2>1 DEF GateInv, GateSane
  <2>3. MemInv'
    <3>1. \/ mem' = [mem EXCEPT ![Here] = gate.word] \/ mem' = mem
      BY <1>7 DEF StoreWord
    <3>. QED BY <3>1, <1>3, <1>f DEF MemInv
  <2>4. CASE gate' = [gate EXCEPT !.st = "ACK_RESP"] /\ gate.kind = "W"
    <3>1. gate' \in GateRecord
      BY <2>4, <1>f DEF GateRecord, GateStates
    <3>2. gate'.st = "ACK_RESP" /\ gate'.kind = gate.kind /\ gate'.buf = gate.buf /\ gate'.count = gate.count
      BY <2>4, <1>f DEF GateRecord
    <3>3. GateInv'
      BY <3>1, <3>2, <2>2, <2>4 DEF GateInv, GateSane, Receptive, Kinds
    <3>. QED BY <1>2, <1>3, <2>1, <2>3, <3>3 DEF TypeInv, LineInv
  <2>5. CASE gate' = [gate EXCEPT !.st = "ACK_RESP", !.count = 0]
    <3>1. gate' \in GateRecord
      BY <2>5, <1>f, <1>0 DEF GateRecord, GateStates
    <3>2. gate'.st = "ACK_RESP" /\ gate'.kind = gate.kind /\ gate'.buf = gate.buf /\ gate'.count = 0
      BY <2>5, <1>f DEF GateRecord
    <3>3. GateInv'
      BY <3>1, <3>2, <2>2 DEF GateInv, GateSane, Receptive, Kinds
    <3>. QED BY <1>2, <1>3, <2>1, <2>3, <3>3 DEF TypeInv, LineInv
  <2>6. CASE gate' = [gate EXCEPT !.st = "DATA_PHASE", !.count = Step] /\ gate.kind # "W"
    <3>1. gate' \in GateRecord
      BY <2>6, <1>f, <1>n DEF GateRecord, GateStates, Step
    <3>2. gate'.st = "DATA_PHASE" /\ gate'.kind = "WB" /\ gate'.buf = gate.buf
      BY <2>2, <2>6, <1>f DEF GateRecord
    <3>3. Len(gate.buf) < WordBytes
      BY <1>3, <2>1, WordAssumption DEF GateInv, GateSane
    <3>4. GateInv'
      BY <3>1, <3>2, <3>3, <2>2 DEF GateInv, GateSane, Receptive, Kinds
    <3>. QED BY <1>2, <1>3, <2>1, <2>3, <3>4 DEF TypeInv, LineInv
  <2>. QED BY <1>7, <2>4, <2>5, <2>6 DEF StoreWord
<1>8. CASE SendAck
  <2> DEFINE st == IF gate.kind \in {"R", "RB"} THEN "READ_FROM_RC" ELSE "IDLE"
  <2>1. UNCHANGED <<tx, mem>> /\ gate.st = "ACK_RESP" /\ rx' = Receive(Ack) /\ gate' = [gate EXCEPT !.st = st]
    BY <1>8 DEF SendAck
  <2>2. Len(gate.buf) <= WordBytes /\ gate.count = 0 /\ gate.kind \in Kinds
    BY <1>3, <2>1 DEF GateInv, GateSane
  <2>3. st \in {"READ_FROM_RC", "IDLE"} /\ (st = "READ_FROM_RC" => gate.kind \in Reads)
    BY DEF Reads
  <2> HIDE DEF st
  <2>4. gate' \in GateRecord
    BY <2>1, <2>3, <1>f DEF GateRecord, GateStates
  <2>5. gate'.st = st /\ gate'.kind = gate.kind /\ gate'.buf = gate.buf /\ gate'.count = gate.count
    BY <2>1, <1>f DEF GateRecord
  <2>6. GateInv'
    BY <2>2, <2>3, <2>4, <2>5 DEF GateInv, GateSane, Receptive
  <2>7. rx' \in Seq(Byte) /\ Len(rx') <= LineRoom
    BY <1>3, <2>1, ReceiveType, Operations
  <2>. QED BY <1>2, <1>3, <2>1, <2>6, <2>7 DEF TypeInv, LineInv, MemInv
<1>9. CASE LoadWord
  <2> DEFINE word == IF Here \in Mapped THEN mem[Here] ELSE gate.rdata
  <2>1. UNCHANGED <<tx, rx, mem>> /\ gate.st = "READ_FROM_RC"
        /\ gate' = [gate EXCEPT !.st = "WRITE_TO_UART", !.rdata = word, !.buf = word]
    BY <1>9 DEF LoadWord
  <2>2. gate.kind \in Reads /\ (gate.count # 0 => gate.kind = "RB")
    BY <1>3, <2>1 DEF GateInv, GateSane
  <2>3. word \in Word
    BY <1>3, <1>f, InputAssumption DEF MemInv
  <2> HIDE DEF word
  <2>4. word \in Seq(Byte) /\ Len(word) = WordBytes /\ word # << >>
    BY <2>3, WordIsBytes
  <2>5. gate' \in GateRecord
    BY <2>1, <2>3, <2>4, <1>f DEF GateRecord, GateStates
  <2>6. gate'.st = "WRITE_TO_UART" /\ gate'.kind = gate.kind /\ gate'.buf = word /\ gate'.count = gate.count
    BY <2>1, <1>f DEF GateRecord
  <2>7. GateInv'
    BY <2>2, <2>4, <2>5, <2>6, WordAssumption DEF GateInv, GateSane, Receptive, Kinds, Reads
  <2>. QED BY <1>2, <1>3, <2>1, <2>7 DEF TypeInv, LineInv, MemInv
<1>10. CASE SendByte
  <2>1. UNCHANGED <<tx, mem>> /\ gate.st = "WRITE_TO_UART" /\ rx' = Receive(Head(gate.buf))
    BY <1>10 DEF SendByte
  <2>2. gate.kind \in Reads /\ (gate.count # 0 => gate.kind = "RB") /\ gate.buf # << >> /\ Len(gate.buf) <= WordBytes
    BY <1>3, <2>1 DEF GateInv, GateSane
  <2>3. Head(gate.buf) \in Byte /\ Tail(gate.buf) \in Seq(Byte) /\ Len(Tail(gate.buf)) = Len(gate.buf) - 1
    BY <2>2, <1>f
  <2>4. rx' \in Seq(Byte) /\ Len(rx') <= LineRoom
    BY <1>3, <2>1, <2>3, ReceiveType
  <2>5. GateInv'
    <3>1. CASE Len(gate.buf) > 1
      <4> DEFINE rest == Tail(gate.buf)
      <4>1. gate' = [gate EXCEPT !.buf = rest]
        BY <1>10, <3>1 DEF SendByte
      <4>2. rest \in Seq(Byte) /\ rest # << >> /\ Len(rest) <= WordBytes
        <5>1. Len(rest) > 0 /\ rest \in Seq(Byte) /\ Len(rest) <= WordBytes
          BY <2>2, <2>3, <3>1, <1>f, WordAssumption
        <5> HIDE DEF rest
        <5>2. rest # << >>
          BY <5>1
        <5>. QED BY <5>1, <5>2
      <4> HIDE DEF rest
      <4>3. gate' \in GateRecord
        BY <4>1, <4>2, <1>f DEF GateRecord
      <4>4. gate'.st = "WRITE_TO_UART" /\ gate'.kind = gate.kind /\ gate'.buf = rest /\ gate'.count = gate.count
        BY <2>1, <4>1, <1>f DEF GateRecord
      <4>. QED BY <2>2, <4>2, <4>3, <4>4 DEF GateInv, GateSane, Receptive, Kinds, Reads
    <3>2. CASE gate' = [gate EXCEPT !.buf = << >>, !.st = "IDLE"] /\ gate.kind = "R"
      <4>1. gate' \in GateRecord
        BY <3>2, <1>e, <1>f DEF GateRecord, GateStates
      <4>2. gate'.st = "IDLE" /\ gate'.buf = << >> /\ gate'.count = gate.count
        BY <3>2, <1>f DEF GateRecord
      <4>. QED BY <2>2, <3>2, <4>1, <4>2, WordAssumption DEF GateInv, GateSane, Receptive
    <3>3. CASE gate' = [gate EXCEPT !.buf = << >>, !.st = "IDLE", !.count = 0]
      <4>1. gate' \in GateRecord
        BY <3>3, <1>e, <1>f, <1>0 DEF GateRecord, GateStates
      <4>2. gate'.st = "IDLE" /\ gate'.buf = << >> /\ gate'.count = 0
        BY <3>3, <1>f DEF GateRecord
      <4>. QED BY <4>1, <4>2, WordAssumption DEF GateInv, GateSane, Receptive
    <3>4. CASE gate' = [gate EXCEPT !.buf = << >>, !.st = "READ_FROM_RC", !.count = Step] /\ gate.kind # "R"
      <4>1. gate' \in GateRecord
        BY <3>4, <1>e, <1>f, <1>n DEF GateRecord, GateStates, Step
      <4>2. gate'.st = "READ_FROM_RC" /\ gate'.buf = << >> /\ gate'.kind = "RB"
        BY <2>2, <3>4, <1>f DEF GateRecord, Reads
      <4>. QED BY <4>1, <4>2, WordAssumption DEF GateInv, GateSane, Receptive, Reads, Kinds
    <3>. QED BY <1>10, <3>1, <3>2, <3>3, <3>4 DEF SendByte
  <2>. QED BY <1>2, <1>3, <2>1, <2>4, <2>5 DEF TypeInv, LineInv, MemInv
<1>11. CASE DropByte
  <2>1. tx # << >> /\ tx' = Tail(tx) /\ UNCHANGED <<rx, gate, mem>>
    BY <1>11 DEF DropByte
  <2>. QED BY <1>2, <1>3, <1>4, <2>1 DEF TypeInv, LineInv, MemInv, GateInv, GateSane
<1>. QED BY <1>5, <1>6, <1>7, <1>8, <1>9, <1>10, <1>11 DEF Gateway

LEMMA TypeInvariance == Spec => []TypeInv
<1>1. TypeInv /\ [Next]_vars => TypeInv'
  <2> SUFFICES ASSUME TypeInv, [Next]_vars PROVE TypeInv'
    OBVIOUS
  <2>1. CASE \E t \in Transfers : Ask(t)
    BY <2>1, TypeAsk
  <2>2. CASE Serve
    BY <2>2, TypeServe
  <2>3. CASE Quit
    BY <2>3 DEF Quit, TypeInv, TermInv, LineInv, GateInv, GateSane, MemInv
  <2>4. CASE Lose
    BY <2>4, TypeLose
  <2>5. CASE Gateway
    BY <2>5, TypeGateway
  <2>6. CASE UNCHANGED vars
    BY <2>6 DEF vars, terminal, TypeInv, TermInv, LineInv, GateInv, GateSane, MemInv
  <2>. QED BY <2>1, <2>2, <2>3, <2>4, <2>5, <2>6 DEF Next
<1>. QED BY <1>1, TypeInit, PTL DEF Spec

(* The state keeps its type: in particular the counter of a burst stays a    *)
(* multiple of the word and the size of a section is that of its words,      *)
(* whatever is sent and whatever the line loses (TypeOK).                    *)
THEOREM TypeCorrect == Spec => []TypeOK
BY TypeInvariance, TypeInvImplies, PTL
-------------------------------------------------------------------------------
(* Terminal and gateway in step.  A command is the opcode, the address, and  *)
(* what the gateway is to read behind the address.                           *)
FirstWord(s) == SubSeq(s, 1, WordBytes)
AfterWord(s) == SubSeq(s, WordBytes + 1, Len(s))
WholeWords(n) == n \in 1..(Space - 1) /\ n % WordBytes = 0

Operands(s) ==
  /\ transfer.op = "W" => Len(s) = WordBytes
  /\ transfer.op = "R" => s = << >>
  /\ transfer.op = "RB" => Len(s) = WordBytes /\ Number(FirstWord(s)) = transfer.size
  /\ transfer.op = "WB" => Len(s) = WordBytes + Number(FirstWord(s)) /\ WholeWords(Number(FirstWord(s)))
Command(s) ==
  /\ Len(s) >= WordBytes
  /\ transfer.op \in Reads => Number(FirstWord(s)) = transfer.address
  /\ Operands(AfterWord(s))

(* The gateway plays the transfer of the terminal.                           *)
Addressed == gate.kind = transfer.op /\ (transfer.op \in Reads => gate.address = transfer.address)
Burst == transfer.op = "WB" => WholeWords(gate.size) /\ gate.count < gate.size
Wanting == IF transfer.op = "W" THEN WordBytes ELSE gate.size - gate.count

(* The command is on the line or in the buffer of the gateway, and nothing   *)
(* else is.                                                                  *)
Sending ==
  /\ phase = "ack" /\ rx = << >>
  /\ \/ gate.st = "IDLE" /\ tx # << >> /\ Head(tx) = Opcode[transfer.op] /\ Command(Tail(tx))
     \/ gate.st = "ADDRESS_PHASE" /\ gate.kind = transfer.op /\ Command(gate.buf \o tx)
     \/ gate.st = "SIZE_PHASE" /\ Addressed /\ Operands(gate.buf \o tx)
     \/ gate.st = "DATA_PHASE" /\ Addressed /\ Burst /\ Len(gate.buf \o tx) = Wanting
     \/ gate.st = "WRITE_TO_RC" /\ Addressed /\ Burst /\ Len(tx) = Wanting - WordBytes

(* The bytes that the gateway has still to send make up, with those in the   *)
(* input buffer, what the terminal waits for.                                *)
ToCome ==
  IF gate.st = "ACK_RESP" THEN 1 + left * WordBytes
  ELSE IF gate.st = "READ_FROM_RC" THEN (IF transfer.op = "R" THEN WordBytes ELSE gate.size - gate.count)
  ELSE IF gate.st = "WRITE_TO_UART"
  THEN (IF transfer.op = "R" THEN 0 ELSE gate.size - gate.count - WordBytes) + Len(gate.buf)
  ELSE 0
Ahead == IF phase = "ack" THEN 1 ELSE 0
Answering ==
  /\ tx = << >> /\ Addressed
  /\ gate.st \in {"IDLE", "ACK_RESP", "READ_FROM_RC", "WRITE_TO_UART"}
  /\ gate.st = "ACK_RESP" => phase = "ack"
  /\ transfer.op = "RB" => gate.size = transfer.size
  /\ transfer.op = "RB" /\ gate.st \in {"READ_FROM_RC", "WRITE_TO_UART"} => gate.count < gate.size
  /\ Len(rx) + ToCome = Ahead + left * WordBytes
  /\ phase = "ack" /\ rx # << >> => Head(rx) = Ack

(* The words the terminal has printed and has still to read.                 *)
Total == IF transfer.op = "R" THEN 1 ELSE transfer.size \div WordBytes
Books ==
  /\ transfer.op \in Reads => /\ Len(printed) + left = Total /\ (phase = "ack" => printed = << >>)
                              /\ WholeSize(transfer) /\ phase # "sections"
  /\ transfer.op \notin Reads => left = 0 /\ phase # "data"
  /\ phase = "sections" => transfer.op = "WB"

InStep ==
  /\ well => sound
  /\ sound /\ phase \notin {"ack", "data"} => Resting /\ rx = << >>
  /\ sound /\ phase \in {"sections", "ack", "data"} => Books
  /\ sound /\ phase \in {"ack", "data"} => Sending \/ Answering
-------------------------------------------------------------------------------
LEMMA FirstAndAfter ==
  ASSUME NEW a \in Seq(Byte), NEW b \in Seq(Byte), Len(a) = WordBytes
  PROVE  FirstWord(a \o b) = a /\ AfterWord(a \o b) = b /\ Len(a \o b) = WordBytes + Len(b)
<1>1. a \o b \in Seq(Byte) /\ Len(a \o b) = WordBytes + Len(b) /\ WordBytes \in Nat \ {0}
  BY WordAssumption
<1>2. FirstWord(a \o b) = a
  <2>1. FirstWord(a \o b) \in Seq(Byte) /\ Len(FirstWord(a \o b)) = WordBytes
    BY <1>1 DEF FirstWord
  <2>2. \A i \in 1..WordBytes : FirstWord(a \o b)[i] = a[i]
    BY <1>1 DEF FirstWord
  <2>. QED BY <2>1, <2>2, SeqEqual
<1>3. AfterWord(a \o b) = b
  <2>1. AfterWord(a \o b) \in Seq(Byte) /\ Len(AfterWord(a \o b)) = Len(b)
    BY <1>1 DEF AfterWord
  <2>2. \A i \in 1..Len(b) : AfterWord(a \o b)[i] = b[i]
    BY <1>1 DEF AfterWord
  <2>. QED BY <2>1, <2>2, SeqEqual
<1>. QED BY <1>1, <1>2, <1>3

(* One byte more in the buffer of the gateway, one less on the line.         *)
LEMMA ByteTaken ==
  ASSUME NEW a \in Seq(Byte), NEW b \in Seq(Byte), b # << >>
  PROVE  /\ Append(a, Head(b)) \in Seq(Byte) /\ Tail(b) \in Seq(Byte)
         /\ Len(Append(a, Head(b))) = Len(a) + 1 /\ Len(Tail(b)) = Len(b) - 1
         /\ Append(a, Head(b)) \o Tail(b) = a \o b
<1>1. Append(a, Head(b)) \in Seq(Byte) /\ Tail(b) \in Seq(Byte)
      /\ Len(Append(a, Head(b))) = Len(a) + 1 /\ Len(Tail(b)) = Len(b) - 1
  OBVIOUS
<1>2. Append(a, Head(b)) \o Tail(b) = a \o b
  <2> DEFINE c == Append(a, Head(b))
             d == Tail(b)
  <2>1. c \o d \in Seq(Byte) /\ a \o b \in Seq(Byte) /\ Len(c \o d) = Len(a \o b)
    BY <1>1
  <2>2. ASSUME NEW i \in 1..Len(a \o b) PROVE (c \o d)[i] = (a \o b)[i]
    <3>1. CASE i <= Len(a)
      BY <3>1, <1>1
    <3>2. CASE i = Len(a) + 1
      BY <3>2, <1>1
    <3>3. CASE i > Len(a) + 1
      BY <3>3, <1>1
    <3>. QED BY <3>1, <3>2, <3>3, <2>1
  <2>. QED BY <2>1, <2>2, SeqEqual
<1>. QED BY <1>1, <1>2

LEMMA WordTaken ==
  ASSUME NEW a \in Seq(Byte), NEW b \in Seq(Byte), b # << >>, Len(a) + 1 = WordBytes
  PROVE  FirstWord(a \o b) = Append(a, Head(b)) /\ AfterWord(a \o b) = Tail(b) /\ Len(a \o b) = WordBytes + Len(Tail(b))
<1>1. Append(a, Head(b)) \in Seq(Byte) /\ Tail(b) \in Seq(Byte) /\ Len(Append(a, Head(b))) = WordBytes
      /\ Append(a, Head(b)) \o Tail(b) = a \o b
  BY ByteTaken
<1>. QED BY <1>1, FirstAndAfter

LEMMA OpcodeFirst ==
  ASSUME NEW o \in Byte, NEW a \in Seq(Byte), NEW b \in Seq(Byte), Len(a) = WordBytes
  PROVE  LET s == << >> \o <<o>> \o a \o b
         IN  s # << >> /\ Head(s) = o /\ Tail(s) = a \o b
<1> DEFINE s == << >> \o <<o>> \o a \o b
<1>1. <<o>> \in Seq(Byte) /\ Len(<<o>>) = 1 /\ << >> \o <<o>> = <<o>> /\ a \o b \in Seq(Byte)
  OBVIOUS
<1>2. s = <<o>> \o (a \o b)
  BY <1>1, ConcatAssociative
<1>3. s \in Seq(Byte) /\ Len(s) = 1 + Len(a \o b) /\ s[1] = o /\ \A i \in 1..Len(a \o b) : s[i + 1] = (a \o b)[i]
  BY <1>1, <1>2
<1> HIDE DEF s
<1>4. s # << >> /\ Head(s) = o /\ Tail(s) \in Seq(Byte) /\ Len(Tail(s)) = Len(a \o b)
  <2>1. Len(s) >= 1
    BY <1>1, <1>3
  <2>2. s # << >>
    BY <2>1
  <2>. QED BY <1>1, <1>3, <2>2
<1>5. \A i \in 1..Len(a \o b) : Tail(s)[i] = (a \o b)[i]
  BY <1>1, <1>3, <1>4
<1>6. Tail(s) = a \o b
  BY <1>1, <1>4, <1>5, SeqEqual
<1>. QED BY <1>4, <1>6 DEF s

(* What is left of a burst.                                                  *)
LEMMA Products ==
  ASSUME NEW n \in Nat
  PROVE  /\ n * WordBytes \in Nat
         /\ n > 0 => n * WordBytes >= WordBytes /\ (n - 1) * WordBytes = n * WordBytes - WordBytes
<1>1. WordBytes \in Nat \ {0}
  BY WordAssumption
<1>2. \A p, q \in Nat : p * q \in Nat
  OBVIOUS
<1>3. n * WordBytes \in Nat
  BY <1>1, <1>2
<1>4. ASSUME n > 0 PROVE n * WordBytes >= WordBytes /\ (n - 1) * WordBytes = n * WordBytes - WordBytes
  <2>1. n - 1 \in Nat /\ (n - 1) * WordBytes = n * WordBytes - WordBytes
    BY <1>1, <1>4
  <2>2. (n - 1) * WordBytes \in Nat
    BY <2>1, <1>1, <1>2
  <2>. QED BY <2>1, <2>2, <1>1, <1>3
<1>. QED BY <1>3, <1>4

(* All that a transfer brings fits in the input buffer of the port.          *)
LEMMA RoomForAll ==
  ASSUME TypeInv, transfer \in Transfers, Books
  PROVE  /\ left * WordBytes \in Nat /\ 1 + left * WordBytes <= LineRoom
         /\ transfer.op = "RB" => transfer.size = Total * WordBytes /\ Total \in Nat
         /\ transfer.op = "RB" => transfer.size % WordBytes = 0 /\ transfer.size \in 1..(Space - 1)
<1>1. WordBytes \in Nat \ {0} /\ LineRoom \in Nat /\ LineRoom > WordBytes /\ left \in Nat /\ transfer.op \in Kinds
      /\ Len(printed) \in Nat
  BY WordAssumption, RoomAssumption, TransferType DEF TypeInv, TermInv
<1>2. left * WordBytes \in Nat
  BY <1>1, Products
<1>3. CASE transfer.op = "R"
  <2>1. left <= 1
    BY <1>1, <1>3 DEF Books, Reads, Total
  <2>2. left = 0 \/ left = 1
    BY <1>1, <2>1
  <2>3. left * WordBytes <= WordBytes
    BY <2>2, <1>1
  <2>. QED BY <1>1, <1>2, <1>3, <2>3
<1>4. CASE transfer.op = "RB"
  <2> DEFINE size == transfer.size
             k == size \div WordBytes
  <2>1. size \in 1..(LineRoom - 1) /\ size % WordBytes = 0 /\ size \in 0..(Space - 1) /\ Total = k /\ left <= Total
    BY <1>1, <1>4, TransferType, WordAssumption DEF Books, Reads, WholeSize, Total
  <2>d. k = size \div WordBytes /\ size \in Int
    BY <2>1, <1>1
  <2> HIDE DEF size, k
  <2>2. size = WordBytes * k + (size % WordBytes) /\ k \in Int
    BY <1>1, <2>d, Division
  <2>3. size = WordBytes * k
    BY <2>1, <2>2, <1>1
  <2>4. k \in Nat
    BY <2>1, <2>2, <1>1
  <2>5. WordBytes * left <= WordBytes * k
    BY <2>1, <2>4, <1>1, Ordered
  <2>6. left * WordBytes = WordBytes * left /\ k * WordBytes = WordBytes * k
    BY <1>1, <2>4
  <2>. QED BY <1>1, <1>2, <1>4, <2>1, <2>3, <2>4, <2>5, <2>6 DEF size
<1>5. CASE transfer.op \notin Reads
  <2>1. left = 0
    BY <1>5 DEF Books
  <2>2. left * WordBytes = 0
    BY <2>1, <1>1
  <2>. QED BY <1>1, <1>5, <2>2 DEF Reads
<1>. QED BY <1>1, <1>3, <1>4, <1>5 DEF Kinds, Reads

LEMMA WholeWordsApart ==
  ASSUME NEW n, WholeWords(n), NEW c \in Counts, c < n
  PROVE  /\ c + WordBytes <= n /\ n - WordBytes \in 0..(Space - 1)
         /\ (n - WordBytes) % Space = n - WordBytes
         /\ c # n - WordBytes => (c + WordBytes) % Space = c + WordBytes /\ c + WordBytes < n
         /\ (c + WordBytes) % Space \in Counts
<1>1. n \in Nat /\ n < Space /\ n % WordBytes = 0 /\ c \in Nat /\ c % WordBytes = 0 /\ c < n
      /\ WordBytes \in Nat \ {0} /\ Space \in Nat \ {0}
  BY WordAssumption DEF WholeWords, Counts
<1>2. c + WordBytes <= n
  BY <1>1, MultiplesApart
<1>3. n - WordBytes \in 0..(Space - 1)
  BY <1>1, <1>2
<1>4. (n - WordBytes) % Space = n - WordBytes
  <2> DEFINE m == n - WordBytes
  <2>1. m \in 0..(Space - 1) /\ m = Space * 0 + m /\ m \in Int /\ 0 \in Int
    BY <1>1, <1>3
  <2> HIDE DEF m
  <2>2. m % Space = m
    BY <2>1, <1>1, DivUnique
  <2>. QED BY <2>2 DEF m
<1>5. c # n - WordBytes => (c + WordBytes) % Space = c + WordBytes /\ c + WordBytes < n
  BY <1>1, <1>2, NextCount
<1>. QED BY <1>2, <1>3, <1>4, <1>5, NextCount

LEMMA SendingGateway ==
  ASSUME TypeInv, transfer \in Transfers, Books, Sending, Gateway
  PROVE  Sending' \/ Answering'
<1>t. UNCHANGED <<phase, transfer, left, printed>>
  BY DEF Gateway, terminal
<1>0. /\ tx \in Seq(Byte) /\ rx \in Seq(Byte) /\ gate.buf \in Seq(Byte) /\ gate \in GateRecord /\ GateSane
      /\ gate.st \in GateStates /\ gate.count \in Counts
  BY GateFields DEF TypeInv, LineInv, GateInv
<1>1. /\ phase = "ack" /\ rx = << >> /\ transfer.op \in Kinds /\ WordBytes \in Nat \ {0}
      /\ gate.st \in {"IDLE", "ADDRESS_PHASE", "SIZE_PHASE", "DATA_PHASE", "WRITE_TO_RC"}
  BY TransferType, WordAssumption DEF Sending
<1>2. left * WordBytes \in Nat
  BY RoomForAll
<1>3. CASE Decode
  <2>1. gate.st = "IDLE" /\ tx # << >> /\ tx' = Tail(tx) /\ rx' = rx
    BY <1>3 DEF Decode
  <2>2. Head(tx) = Opcode[transfer.op] /\ Command(Tail(tx))
    BY <2>1 DEF Sending
  <2>3. Head(tx) \in Range(Opcode)
    BY <2>2, <1>1, Operations DEF Range
  <2>4. PICK op \in Kinds : Opcode[op] = Head(tx) /\ gate' = [gate EXCEPT !.st = "ADDRESS_PHASE", !.kind = op, !.buf = << >>]
    BY <1>3, <2>3, Operations DEF Decode
  <2>5. op = transfer.op
    BY <2>2, <2>4, <1>1, Operations
  <2>6. gate'.st = "ADDRESS_PHASE" /\ gate'.kind = transfer.op /\ gate'.buf = << >>
    BY <2>4, <2>5, <1>0 DEF GateRecord
  <2>7. gate'.buf \o tx' = Tail(tx)
    <3>1. Tail(tx) \in Seq(Byte)
      BY <1>0, <2>1
    <3>. QED BY <2>1, <2>6, <3>1
  <2>8. Command(gate.buf \o tx)'
    BY <2>2, <2>7, <1>t DEF Command, Operands
  <2>. QED BY <1>1, <1>t, <2>1, <2>6, <2>8 DEF Sending
<1>4. CASE TakeByte
  <2> DEFINE s == gate.buf \o tx
             buf == Append(gate.buf, Head(tx))
  <2>1. tx # << >> /\ tx' = Tail(tx) /\ rx' = rx /\ gate.st \in Receptive
    BY <1>4 DEF TakeByte, Receptive
  <2>2. Len(gate.buf) < WordBytes
    BY <1>0, <2>1 DEF GateSane
  <2>3. buf \in Seq(Byte) /\ Tail(tx) \in Seq(Byte) /\ Len(buf) = Len(gate.buf) + 1 /\ buf \o Tail(tx) = s
        /\ s \in Seq(Byte) /\ << >> \o Tail(tx) = Tail(tx)
    <3>1. buf \in Seq(Byte) /\ Tail(tx) \in Seq(Byte) /\ Len(buf) = Len(gate.buf) + 1 /\ buf \o Tail(tx) = s
      BY <1>0, <2>1, ByteTaken
    <3>2. s \in Seq(Byte)
      BY <1>0
    <3>3. << >> \o Tail(tx) = Tail(tx)
      BY <3>1
    <3>. QED BY <3>1, <3>2, <3>3
  <2>4. CASE Len(buf) < WordBytes
    <3>1. gate' = [gate EXCEPT !.buf = buf]
      BY <1>4, <2>4 DEF TakeByte
    <3> HIDE DEF buf
    <3>2. gate'.buf = buf /\ gate'.st = gate.st /\ gate'.kind = gate.kind /\ gate'.address = gate.address
          /\ gate'.size = gate.size /\ gate'.count = gate.count
      BY <3>1, <1>0 DEF GateRecord
    <3>3. gate'.buf \o tx' = s
      BY <2>1, <2>3, <3>2
    <3> HIDE DEF s
    <3>4. CASE gate.st = "ADDRESS_PHASE"
      <4>1. gate.kind = transfer.op /\ Command(s)
        BY <3>4 DEF Sending, s
      <4>2. Command(gate.buf \o tx)'
        BY <4>1, <3>3, <1>t DEF Command, Operands
      <4>. QED BY <1>1, <1>t, <2>1, <3>2, <3>4, <4>1, <4>2 DEF Sending
    <3>5. CASE gate.st = "SIZE_PHASE"
      <4>1. Addressed /\ Operands(s)
        BY <3>5 DEF Sending, s
      <4>2. Operands(gate.buf \o tx)'
        BY <4>1, <3>3, <1>t DEF Operands
      <4>3. Addressed'
        BY <4>1, <3>2, <1>t DEF Addressed
      <4>. QED BY <1>1, <1>t, <2>1, <3>2, <3>5, <4>2, <4>3 DEF Sending
    <3>6. CASE gate.st = "DATA_PHASE"
      <4>1. Addressed /\ Burst /\ Len(s) = Wanting
        BY <3>6 DEF Sending, s
      <4>2. Addressed' /\ Burst' /\ Len(gate'.buf \o tx') = Wanting'
        BY <4>1, <3>2, <3>3, <1>t DEF Addressed, Burst, Wanting
      <4>. QED BY <1>1, <1>t, <2>1, <3>2, <3>6, <4>2 DEF Sending
    <3>. QED BY <2>1, <3>4, <3>5, <3>6 DEF Receptive
  <2>5. CASE Len(buf) >= WordBytes
    <3>1. Len(gate.buf) + 1 = WordBytes /\ Len(buf) = WordBytes
      BY <1>0, <1>1, <2>2, <2>3, <2>5
    <3>2. FirstWord(s) = buf /\ AfterWord(s) = Tail(tx) /\ Len(s) = WordBytes + Len(Tail(tx))
      BY <1>0, <2>1, <3>1, WordTaken
    <3>3. Len(Tail(tx)) \in Nat
      BY <2>3
    <3>4. CASE gate.st = "ADDRESS_PHASE"
      <4>1. gate.kind = transfer.op /\ Command(s)
        BY <3>4 DEF Sending
      <4>2. gate' = [gate EXCEPT !.buf = << >>, !.address = Number(buf), !.st = AfterAddress[gate.kind]]
        BY <1>4, <3>1, <3>4, <1>1 DEF TakeByte
      <4> HIDE DEF buf, s
      <4>3. gate'.buf = << >> /\ gate'.st = AfterAddress[transfer.op] /\ gate'.kind = transfer.op
            /\ gate'.address = Number(buf) /\ gate'.count = gate.count /\ gate'.size = gate.size
        BY <4>1, <4>2, <1>0 DEF GateRecord
      <4>4. Operands(Tail(tx)) /\ (transfer.op \in Reads => Number(buf) = transfer.address)
        BY <4>1, <3>2 DEF Command
      <4>5. Addressed'
        BY <4>3, <4>4, <1>t DEF Addressed
      <4>6. gate'.buf \o tx' = Tail(tx)
        BY <2>1, <2>3, <4>3
      <4>7. CASE transfer.op = "W"
        <5>1. gate'.st = "DATA_PHASE" /\ Len(gate'.buf \o tx') = WordBytes
          <6>1. gate'.st = "DATA_PHASE"
            BY <4>3, <4>7 DEF AfterAddress
          <6>2. Len(Tail(tx)) = WordBytes
            BY <4>4, <4>7 DEF Operands
          <6>. QED BY <4>6, <6>1, <6>2
        <5>2. Burst' /\ Wanting' = WordBytes
          BY <4>7, <1>t DEF Burst, Wanting
        <5>. QED BY <1>1, <1>t, <2>1, <4>5, <5>1, <5>2 DEF Sending
      <4>8. CASE transfer.op = "R"
        <5>1. gate'.st = "ACK_RESP" /\ tx' = << >>
          BY <2>1, <4>3, <4>4, <4>8 DEF AfterAddress, Operands
        <5>2. Len(rx') = 0 /\ ToCome' = 1 + left * WordBytes /\ Ahead' = 1
          BY <1>1, <1>t, <2>1, <5>1 DEF ToCome, Ahead
        <5>. QED BY <1>1, <1>2, <1>t, <2>1, <4>5, <4>8, <5>1, <5>2 DEF Answering
      <4>9. CASE transfer.op \in {"WB", "RB"}
        <5>1. gate'.st = "SIZE_PHASE"
          BY <4>3, <4>9 DEF AfterAddress
        <5>2. Operands(gate.buf \o tx)'
          BY <4>4, <4>6, <1>t DEF Operands
        <5>. QED BY <1>1, <1>t, <2>1, <4>5, <5>1, <5>2 DEF Sending
      <4>. QED BY <1>1, <4>7, <4>8, <4>9 DEF Kinds
    <3>5. CASE gate.st = "SIZE_PHASE"
      <4>1. Addressed /\ Operands(s)
        BY <3>5 DEF Sending
      <4>2. transfer.op \in {"WB", "RB"} /\ gate.count = 0
        BY <1>0, <3>5, <4>1 DEF GateSane, Addressed
      <4> DEFINE st == IF gate.kind = "WB" THEN "DATA_PHASE" ELSE "ACK_RESP"
      <4>3. gate' = [gate EXCEPT !.buf = << >>, !.size = Number(buf), !.st = st]
        BY <1>4, <3>1, <3>5, <1>1 DEF TakeByte
      <4>4. st = IF transfer.op = "WB" THEN "DATA_PHASE" ELSE "ACK_RESP"
        BY <4>1 DEF Addressed
      <4> HIDE DEF buf, s, st
      <4>5. gate'.buf = << >> /\ gate'.st = st /\ gate'.kind = gate.kind
            /\ gate'.address = gate.address /\ gate'.count = 0 /\ gate'.size = Number(buf)
        BY <4>2, <4>3, <1>0 DEF GateRecord
      <4>6. Addressed'
        BY <4>1, <4>5, <1>t DEF Addressed
      <4>7. gate'.buf \o tx' = Tail(tx)
        BY <2>1, <2>3, <4>5
      <4>8. CASE transfer.op = "WB"
        <5>1. WholeWords(Number(buf)) /\ Len(Tail(tx)) = Number(buf) /\ Number(buf) \in Nat
          <6>1. Len(s) = WordBytes + Number(buf) /\ WholeWords(Number(buf))
            BY <4>1, <4>8, <3>2 DEF Operands
          <6>2. Number(buf) \in Nat
            BY <6>1, WordAssumption DEF WholeWords
          <6>. QED BY <6>1, <6>2, <3>2, <3>3, <1>1
        <5>2. Burst' /\ Wanting' = Number(buf)
          BY <4>5, <4>8, <5>1, <1>t DEF Burst, Wanting, WholeWords
        <5>. QED BY <1>1, <1>t, <2>1, <4>4, <4>5, <4>6, <4>7, <4>8, <5>1, <5>2 DEF Sending
      <4>9. CASE transfer.op = "RB"
        <5>1. Number(buf) = transfer.size /\ Len(Tail(tx)) = 0
          <6>1. Len(s) = WordBytes /\ Number(FirstWord(s)) = transfer.size
            BY <4>1, <4>9 DEF Operands
          <6>2. Number(buf) = transfer.size
            BY <6>1, <3>2
          <6>3. Len(Tail(tx)) = 0
            <7>1. WordBytes = WordBytes + Len(Tail(tx))
              BY <6>1, <3>2, Zenon
            <7> DEFINE n == Len(Tail(tx))
            <7>2. n \in Nat /\ WordBytes = WordBytes + n
              BY <7>1, <3>3, Zenon
            <7> HIDE DEF n
            <7>3. n = 0
              BY <7>2, <1>1
            <7>. QED BY <7>3, Zenon DEF n
          <6>. QED BY <6>2, <6>3
        <5>2. tx' = << >> /\ gate'.st = "ACK_RESP"
          BY <5>1, <2>1, <2>3, <4>4, <4>5, <4>9
        <5>3. Len(rx') = 0 /\ ToCome' = 1 + left * WordBytes /\ Ahead' = 1
          BY <1>1, <1>t, <2>1, <5>2 DEF ToCome, Ahead
        <5>. QED BY <1>1, <1>2, <1>t, <2>1, <4>5, <4>6, <5>1, <5>2, <5>3 DEF Answering
      <4>. QED BY <4>2, <4>8, <4>9
    <3>6. CASE gate.st = "DATA_PHASE"
      <4>1. Addressed /\ Burst /\ Len(s) = Wanting
        BY <3>6 DEF Sending
      <4>2. gate' = [gate EXCEPT !.buf = << >>, !.word = buf, !.st = "WRITE_TO_RC"]
        BY <1>4, <3>1, <3>6, <1>1 DEF TakeByte
      <4> HIDE DEF buf, s
      <4>3. gate'.st = "WRITE_TO_RC" /\ gate'.kind = gate.kind
            /\ gate'.address = gate.address /\ gate'.count = gate.count /\ gate'.size = gate.size
        BY <4>2, <1>0 DEF GateRecord
      <4>4. Addressed' /\ Burst' /\ Wanting' = Wanting
        BY <4>1, <4>3, <1>t DEF Addressed, Burst, Wanting
      <4>5. Len(tx') = Wanting - WordBytes
        BY <2>1, <3>2, <3>3, <4>1, <1>1
      <4>. QED BY <1>1, <1>t, <2>1, <4>3, <4>4, <4>5 DEF Sending
    <3>. QED BY <2>1, <3>4, <3>5, <3>6 DEF Receptive
  <2>6. Len(buf) < WordBytes \/ Len(buf) >= WordBytes
    BY <2>3, <1>1
  <2>. QED BY <2>4, <2>5, <2>6
<1>5. CASE StoreWord
  <2>1. gate.st = "WRITE_TO_RC" /\ UNCHANGED <<tx, rx>>
    BY <1>5 DEF StoreWord
  <2>2. Addressed /\ Burst /\ Len(tx) = Wanting - WordBytes
    BY <2>1 DEF Sending
  <2>3. gate.kind \in {"W", "WB"} /\ gate.kind = transfer.op /\ transfer.op \notin Reads
    BY <1>0, <2>1, <2>2 DEF GateSane, Addressed, Reads
  <2>4. CASE transfer.op = "W"
    <3>1. gate' = [gate EXCEPT !.st = "ACK_RESP"]
      BY <1>5, <2>3, <2>4 DEF StoreWord
    <3>2. gate'.st = "ACK_RESP" /\ gate'.kind = gate.kind
      BY <3>1, <1>0 DEF GateRecord
    <3>3. tx' = << >>
      BY <2>1, <2>2, <2>4, <1>0, <1>1 DEF Wanting
    <3>4. Len(rx') = 0 /\ ToCome' = 1 + left * WordBytes /\ Ahead' = 1
      BY <1>1, <1>t, <2>1, <3>2 DEF ToCome, Ahead
    <3>. QED BY <1>1, <1>2, <1>t, <2>1, <2>3, <2>4, <3>2, <3>3, <3>4 DEF Answering, Addressed
  <2>5. CASE transfer.op = "WB"
    <3>1. WholeWords(gate.size) /\ gate.count < gate.size /\ Len(tx) = gate.size - gate.count - WordBytes
          /\ gate.size \in Nat /\ gate.count \in Nat
      BY <2>2, <2>5, <1>0, WordAssumption DEF Burst, Wanting, WholeWords, Counts
    <3>2. /\ (gate.size - WordBytes) % Space = gate.size - WordBytes
          /\ gate.count # gate.size - WordBytes => Step = gate.count + WordBytes /\ gate.count + WordBytes < gate.size
      BY <3>1, <1>0, WholeWordsApart DEF Step
    <3>3. CASE AtLast
      <4>1. gate.count = gate.size - WordBytes
        BY <3>2, <3>3 DEF AtLast
      <4>2. tx' = << >>
        BY <2>1, <3>1, <4>1, <1>0, <1>1
      <4>3. gate' = [gate EXCEPT !.st = "ACK_RESP", !.count = 0]
        BY <1>5, <2>3, <2>5, <3>3 DEF StoreWord
      <4>4. gate'.st = "ACK_RESP" /\ gate'.kind = gate.kind
        BY <4>3, <1>0 DEF GateRecord
      <4>5. Len(rx') = 0 /\ ToCome' = 1 + left * WordBytes /\ Ahead' = 1
        BY <1>1, <1>t, <2>1, <4>4 DEF ToCome, Ahead
      <4>. QED BY <1>1, <1>2, <1>t, <2>1, <2>3, <2>5, <4>2, <4>4, <4>5 DEF Answering, Addressed
    <3>4. CASE ~ AtLast
      <4>1. gate.count # gate.size - WordBytes
        BY <3>2, <3>4 DEF AtLast
      <4>2. gate' = [gate EXCEPT !.st = "DATA_PHASE", !.count = Step]
        BY <1>5, <2>3, <2>5, <3>4 DEF StoreWord
      <4>3. gate'.st = "DATA_PHASE" /\ gate'.kind = gate.kind /\ gate'.count = gate.count + WordBytes
            /\ gate'.size = gate.size /\ gate'.buf = gate.buf /\ gate'.address = gate.address
        BY <3>2, <4>1, <4>2, <1>0 DEF GateRecord
      <4>4. Addressed' /\ Burst'
        BY <2>2, <2>5, <3>1, <3>2, <4>1, <4>3, <1>t DEF Addressed, Burst
      <4>5. Wanting' = gate.size - (gate.count + WordBytes)
        BY <2>5, <4>3, <1>t DEF Wanting
      <4>6. gate.buf = << >>
        BY <1>0, <2>1 DEF GateSane
      <4>7. Len(gate'.buf \o tx') = Wanting'
        BY <2>1, <3>1, <4>3, <4>5, <4>6, <1>0, <1>1
      <4>. QED BY <1>1, <1>t, <2>1, <4>3, <4>4, <4>7 DEF Sending
    <3>. QED BY <3>3, <3>4
  <2>. QED BY <2>3, <2>4, <2>5
<1>6. ~ SendAck /\ ~ LoadWord /\ ~ SendByte /\ ~ DropByte
  BY <1>1 DEF SendAck, LoadWord, SendByte, DropByte
<1>. QED BY <1>3, <1>4, <1>5, <1>6 DEF Gateway

(* The acknowledge is sent first: what the terminal waits for when it has    *)
(* not come, with the words behind it.                                       *)
LEMMA AllToRead ==
  ASSUME TypeInv, transfer \in Transfers, Books, phase = "ack"
  PROVE  /\ transfer.op = "R" => left * WordBytes = WordBytes
         /\ transfer.op = "RB" => left * WordBytes = transfer.size
         /\ transfer.op \notin Reads => left * WordBytes = 0
<1>1. WordBytes \in Nat \ {0} /\ left \in Nat
  BY WordAssumption DEF TypeInv, TermInv
<1>2. CASE transfer.op \in Reads
  <2>1. printed = << >> /\ Len(printed) + left = Total
    BY <1>2 DEF Books
  <2>2. left = Total
    <3>1. 0 + left = Total
      BY <2>1
    <3>. QED BY <3>1, <1>1
  <2>3. transfer.op = "R" => left = 1
    BY <2>2 DEF Total
  <2>4. transfer.op = "RB" => transfer.size = left * WordBytes
    BY <2>2, RoomForAll
  <2>. QED BY <1>1, <1>2, <2>3, <2>4
<1>3. CASE transfer.op \notin Reads
  <2>1. left = 0
    BY <1>3 DEF Books
  <2>. QED BY <1>1, <1>3, <2>1 DEF Reads
<1>. QED BY <1>2, <1>3

LEMMA AnsweringGateway ==
  ASSUME TypeInv, transfer \in Transfers, Books, Answering, Gateway
  PROVE  Answering'
<1>t. UNCHANGED <<phase, transfer, left, printed>>
  BY DEF Gateway, terminal
<1>0. /\ tx = << >> /\ rx \in Seq(Byte) /\ gate.buf \in Seq(Byte) /\ gate \in GateRecord /\ GateSane
      /\ gate.st \in GateStates /\ gate.count \in Counts /\ gate.count \in Nat /\ gate.size \in Nat
      /\ mem \in [Words -> Word] /\ gate.rdata \in Word
  BY GateFields, WordAssumption DEF TypeInv, LineInv, GateInv, MemInv, Answering, Counts
<1>1. transfer.op \in Kinds /\ WordBytes \in Nat \ {0} /\ LineRoom \in Nat /\ gate.kind = transfer.op
      /\ Addressed
  BY TransferType, WordAssumption, RoomAssumption DEF Answering, Addressed
<1> DEFINE due == left * WordBytes
<1>2. due \in Nat /\ 1 + due <= LineRoom
      /\ (transfer.op = "RB" => transfer.size % WordBytes = 0 /\ transfer.size \in 1..(Space - 1))
  BY RoomForAll
<1>3. phase = "ack" => /\ transfer.op = "R" => due = WordBytes
                       /\ transfer.op = "RB" => due = transfer.size
                       /\ transfer.op \notin Reads => due = 0
  BY AllToRead
<1>4. Len(rx) + ToCome = Ahead + due /\ Ahead \in {0, 1} /\ (phase = "ack" <=> Ahead = 1)
  BY DEF Answering, Ahead
<1>5. /\ transfer.op = "RB" => gate.size = transfer.size
      /\ transfer.op = "RB" /\ gate.st \in {"READ_FROM_RC", "WRITE_TO_UART"} => gate.count < gate.size
      /\ phase = "ack" /\ rx # << >> => Head(rx) = Ack
  BY DEF Answering
<1>6. Ahead' = Ahead /\ due' = due
  BY <1>t DEF Ahead
<1> HIDE DEF due
<1>7. transfer.op = "RB" => WholeWords(gate.size)
  BY <1>2, <1>5 DEF WholeWords
<1>8. CASE SendAck
  <2> DEFINE st == IF gate.kind \in {"R", "RB"} THEN "READ_FROM_RC" ELSE "IDLE"
  <2>1. gate.st = "ACK_RESP" /\ tx' = tx /\ rx' = Receive(Ack) /\ gate' = [gate EXCEPT !.st = st]
    BY <1>8 DEF SendAck
  <2>2. phase = "ack" /\ gate.count = 0
    BY <1>0, <2>1 DEF Answering, GateSane
  <2>3. st = IF transfer.op \in Reads THEN "READ_FROM_RC" ELSE "IDLE"
    BY <1>1 DEF Reads
  <2> HIDE DEF st
  <2>4. gate'.st = st /\ gate'.kind = gate.kind /\ gate'.address = gate.address /\ gate'.size = gate.size
        /\ gate'.count = 0
    BY <2>1, <2>2, <1>0 DEF GateRecord
  <2>5. ToCome = 1 + due
    BY <2>1 DEF ToCome, due
  <2>6. rx = << >>
    <3>1. Len(rx) = 0
      BY <1>0, <1>2, <1>4, <2>2, <2>5
    <3>. QED BY <3>1, <1>0
  <2>7. rx' = <<Ack>>
    BY <2>1, <2>6, <1>1, <1>2 DEF Receive
  <2>8. ToCome' = due
    <3>1. CASE transfer.op = "R"
      BY <3>1, <1>t, <1>3, <2>2, <2>3, <2>4 DEF ToCome, Reads
    <3>2. CASE transfer.op = "RB"
      <4>1. ToCome' = gate'.size - gate'.count
        BY <3>2, <1>t, <2>3, <2>4 DEF ToCome, Reads
      <4>. QED BY <3>2, <4>1, <1>0, <1>3, <1>5, <2>2, <2>4
    <3>3. CASE transfer.op \notin Reads
      BY <3>3, <1>t, <1>3, <2>2, <2>3, <2>4 DEF ToCome
    <3>. QED BY <3>1, <3>2, <3>3 DEF Reads
  <2>9. Len(rx') + ToCome' = Ahead' + due' /\ Head(rx') = Ack
    BY <1>2, <1>4, <1>6, <2>2, <2>7, <2>8
  <2>10. Addressed'
    BY <1>1, <1>t, <2>4 DEF Addressed
  <2>11. gate'.st \in {"IDLE", "READ_FROM_RC"} /\ (transfer.op = "RB" => gate'.count < gate'.size)
    BY <2>3, <2>4, <1>2, <1>5
  <2>. QED BY <1>0, <1>5, <1>t, <2>1, <2>4, <2>9, <2>10, <2>11 DEF Answering, due
<1>9. CASE LoadWord
  <2> DEFINE word == IF Here \in Mapped THEN mem[Here] ELSE gate.rdata
  <2>1. gate.st = "READ_FROM_RC" /\ UNCHANGED <<tx, rx>>
        /\ gate' = [gate EXCEPT !.st = "WRITE_TO_UART", !.rdata = word, !.buf = word]
    BY <1>9 DEF LoadWord
  <2>2. word \in Word
    BY <1>0, InputAssumption
  <2> HIDE DEF word
  <2>3. Len(word) = WordBytes
    BY <2>2, WordIsBytes
  <2>4. gate'.st = "WRITE_TO_UART" /\ gate'.kind = gate.kind /\ gate'.address = gate.address
        /\ gate'.size = gate.size /\ gate'.count = gate.count /\ gate'.buf = word
    BY <2>1, <1>0 DEF GateRecord
  <2>5. transfer.op \in Reads
    BY <1>0, <1>1, <2>1 DEF GateSane
  <2>6. ToCome' = ToCome
    <3>1. CASE transfer.op = "R"
      <4>1. ToCome = WordBytes
        BY <2>1, <3>1 DEF ToCome
      <4>2. ToCome' = 0 + Len(word)
        BY <2>4, <3>1, <1>t DEF ToCome
      <4>. QED BY <4>1, <4>2, <2>3, <1>1
    <3>2. CASE transfer.op = "RB"
      <4>1. ToCome = gate.size - gate.count
        BY <2>1, <3>2 DEF ToCome
      <4>2. ToCome' = gate.size - gate.count - WordBytes + Len(word)
        BY <2>4, <3>2, <1>t DEF ToCome
      <4>. QED BY <4>1, <4>2, <2>3, <1>0, <1>1
    <3>. QED BY <3>1, <3>2, <2>5 DEF Reads
  <2>7. Addressed'
    BY <1>1, <1>t, <2>4 DEF Addressed
  <2>. QED BY <1>0, <1>4, <1>5, <1>6, <1>t, <2>1, <2>4, <2>6, <2>7 DEF Answering, due
<1>10. CASE SendByte
  <2> DEFINE b == Head(gate.buf)
             n == Len(gate.buf)
  <2>1. gate.st = "WRITE_TO_UART" /\ tx' = tx /\ rx' = Receive(b)
    BY <1>10 DEF SendByte
  <2>2. transfer.op \in Reads /\ gate.buf # << >> /\ Len(gate.buf) <= WordBytes
    BY <1>0, <1>1, <2>1 DEF GateSane
  <2>3. b \in Byte /\ n \in Nat /\ n >= 1 /\ n <= WordBytes /\ Len(Tail(gate.buf)) = n - 1
    BY <1>0, <2>2
  <2>r. transfer.op = "R" => ToCome = n
    <3>1. transfer.op = "R" => ToCome = 0 + n
      BY <2>1 DEF ToCome
    <3>. QED BY <3>1, <2>3
  <2>b. transfer.op = "RB" => /\ ToCome = gate.size - gate.count - WordBytes + n
                              /\ gate.count + WordBytes <= gate.size
                              /\ (gate.size - WordBytes) % Space = gate.size - WordBytes
                              /\ gate.count # gate.size - WordBytes => Step = gate.count + WordBytes
                                                                       /\ gate.count + WordBytes < gate.size
    <3>1. transfer.op = "RB" => ToCome = gate.size - gate.count - WordBytes + n
      BY <2>1 DEF ToCome
    <3>. QED BY <3>1, <1>0, <1>5, <1>7, <2>1, WholeWordsApart DEF Step
  <2> HIDE DEF b, n
  <2>4. ToCome \in Nat /\ ToCome >= 1
    BY <2>r, <2>b, <2>2, <2>3, <1>0, <1>1 DEF Reads
  <2>5. rx' = Append(rx, b)
    <3>1. Len(rx) < LineRoom
      BY <1>0, <1>1, <1>2, <1>4, <2>4
    <3>. QED BY <2>1, <3>1 DEF Receive
  <2>6. Len(rx') = Len(rx) + 1
    BY <1>0, <2>3, <2>5
  <2>7. phase = "ack" => Head(rx') = Ack
    <3> SUFFICES ASSUME phase = "ack" PROVE Head(rx') = Ack
      OBVIOUS
    <3>1. ToCome <= due
      BY <1>0, <1>1, <1>3, <1>5, <2>r, <2>b, <2>2, <2>3 DEF Reads
    <3>2. Len(rx) >= 1
      BY <3>1, <1>0, <1>2, <1>4, <2>4
    <3>3. rx # << >> /\ Head(rx) = Ack
      BY <3>2, <1>0, <1>5
    <3>. QED BY <3>2, <3>3, <1>0, <2>3, <2>5
  <2> SUFFICES /\ gate'.st \in {"IDLE", "READ_FROM_RC", "WRITE_TO_UART"} /\ gate'.kind = gate.kind
               /\ gate'.address = gate.address /\ gate'.size = gate.size
               /\ (transfer.op = "RB" /\ gate'.st # "IDLE" => gate'.count < gate'.size)
               /\ ToCome' = ToCome - 1
    <3>1. ASSUME gate'.kind = gate.kind, gate'.address = gate.address PROVE Addressed'
      BY <3>1, <1>1, <1>t DEF Addressed
    <3>2. ASSUME ToCome' = ToCome - 1 PROVE Len(rx') + ToCome' = Ahead' + due'
      BY <3>2, <1>0, <1>2, <1>4, <1>6, <2>4, <2>6
    <3>3. tx' = << >>
      BY <1>0, <2>1
    <3>. QED BY <1>t, <1>5, <2>7, <3>1, <3>2, <3>3 DEF Answering, due
  <2>8. CASE n > 1
    <3>1. gate' = [gate EXCEPT !.buf = Tail(gate.buf)]
      BY <1>10, <2>8 DEF SendByte, n
    <3> DEFINE rest == Tail(gate.buf)
    <3>2. gate' = [gate EXCEPT !.buf = rest] /\ Len(rest) = n - 1
      BY <3>1, <2>3
    <3> HIDE DEF rest
    <3>3. gate'.st = "WRITE_TO_UART" /\ gate'.kind = gate.kind /\ gate'.address = gate.address
          /\ gate'.size = gate.size /\ gate'.count = gate.count /\ gate'.buf = rest
      BY <3>2, <2>1, <1>0 DEF GateRecord
    <3>4. ToCome' = ToCome - 1
      <4>1. CASE transfer.op = "R"
        <5>1. ToCome' = 0 + Len(rest)
          BY <3>3, <4>1, <1>t DEF ToCome
        <5>. QED BY <5>1, <3>2, <2>r, <2>3, <4>1
      <4>2. CASE transfer.op = "RB"
        <5>1. ToCome' = gate.size - gate.count - WordBytes + Len(rest)
          BY <3>3, <4>2, <1>t DEF ToCome
        <5>. QED BY <5>1, <3>2, <2>b, <2>3, <4>2, <1>0, <1>1
      <4>. QED BY <4>1, <4>2, <2>2 DEF Reads
    <3>. QED BY <3>3, <3>4, <1>5, <2>1
  <2>9. CASE n = 1 /\ transfer.op = "R"
    <3>1. gate' = [gate EXCEPT !.buf = << >>, !.st = "IDLE"]
      BY <1>10, <1>1, <2>9 DEF SendByte, n
    <3>2. gate'.st = "IDLE" /\ gate'.kind = gate.kind /\ gate'.address = gate.address /\ gate'.size = gate.size
      BY <3>1, <1>0 DEF GateRecord
    <3>3. ToCome' = 0
      BY <3>2 DEF ToCome
    <3>. QED BY <3>2, <3>3, <2>r, <2>9
  <2>10. CASE n = 1 /\ transfer.op = "RB" /\ AtLast
    <3>1. gate' = [gate EXCEPT !.buf = << >>, !.st = "IDLE", !.count = 0]
      BY <1>10, <1>1, <2>10 DEF SendByte, n
    <3>2. gate'.st = "IDLE" /\ gate'.kind = gate.kind /\ gate'.address = gate.address /\ gate'.size = gate.size
      BY <3>1, <1>0 DEF GateRecord
    <3>3. ToCome' = 0
      BY <3>2 DEF ToCome
    <3>4. gate.count = gate.size - WordBytes
      BY <2>b, <2>10 DEF AtLast
    <3>. QED BY <3>2, <3>3, <3>4, <2>b, <2>10, <1>0, <1>1
  <2>11. CASE n = 1 /\ transfer.op = "RB" /\ ~ AtLast
    <3>1. gate' = [gate EXCEPT !.buf = << >>, !.st = "READ_FROM_RC", !.count = Step]
      BY <1>10, <1>1, <2>11 DEF SendByte, n
    <3>2. gate.count # gate.size - WordBytes
      BY <2>b, <2>11 DEF AtLast
    <3>3. gate'.st = "READ_FROM_RC" /\ gate'.kind = gate.kind /\ gate'.address = gate.address
          /\ gate'.size = gate.size /\ gate'.count = gate.count + WordBytes
      BY <3>1, <3>2, <2>b, <2>11, <1>0 DEF GateRecord
    <3>4. ToCome' = gate.size - (gate.count + WordBytes)
      BY <3>3, <2>11, <1>t DEF ToCome
    <3>. QED BY <3>2, <3>3, <3>4, <2>b, <2>11, <1>0, <1>1
  <2>12. n > 1 \/ n = 1
    BY <2>3
  <2>. QED BY <2>2, <2>8, <2>9, <2>10, <2>11, <2>12 DEF Reads
<1>11. ~ Decode /\ ~ TakeByte /\ ~ StoreWord /\ ~ DropByte
  BY <1>0 DEF Answering, Decode, TakeByte, StoreWord, DropByte
<1>. QED BY <1>8, <1>9, <1>10, <1>11 DEF Gateway

LEMMA InStepGateway == ASSUME TypeInv, InStep, Gateway PROVE InStep'
<1>1. UNCHANGED <<phase, transfer, sections, left, printed, sound, well>>
  BY DEF Gateway, terminal, history
<1>2. CASE ~ sound
  BY <1>1, <1>2 DEF InStep
<1>3. CASE sound /\ phase \notin {"ack", "data"}
  <2>1. gate.st = "IDLE" /\ tx = << >>
    BY <1>3 DEF InStep, Resting
  <2>2. FALSE
    BY <2>1 DEF Gateway, Decode, TakeByte, StoreWord, SendAck, LoadWord, SendByte, DropByte
  <2>. QED BY <2>2
<1>4. CASE sound /\ phase \in {"ack", "data"}
  <2>1. Books /\ (Sending \/ Answering) /\ transfer \in Transfers
    BY <1>4 DEF InStep, TypeInv, TermInv
  <2>2. Sending' \/ Answering'
    BY <2>1, SendingGateway, AnsweringGateway
  <2>3. Books'
    BY <2>1, <1>1 DEF Books, Total, WholeSize
  <2>. QED BY <1>1, <1>4, <2>2, <2>3 DEF InStep
<1>. QED BY <1>2, <1>3, <1>4

LEMMA InStepAsk ==
  ASSUME TypeInv, InStep, NEW t \in Transfers, Ask(t) PROVE InStep'
<1>1. phase = "prompt" /\ transfer' = t /\ printed' = << >> /\ tx' = Send(t) /\ rx' = Input(t) /\ gate' = gate
  BY DEF Ask
<1>2. sound' = (Resting /\ (t.op = "R" \/ rx = << >>) /\ WholeSize(t)) /\ well' = (well /\ WholeSize(t))
  BY DEF Ask
<1>3. well' => sound'
  <2>1. well => Resting /\ rx = << >>
    BY <1>1 DEF InStep
  <2>. QED BY <1>2, <2>1
<1>4. CASE ~ sound'
  BY <1>3, <1>4 DEF InStep
<1>5. CASE sound'
  <2>1. gate.st = "IDLE" /\ tx = << >> /\ WholeSize(t) /\ (t.op = "R" \/ rx = << >>)
    BY <1>2, <1>5 DEF Resting
  <2>2. rx' = << >>
    BY <1>1, <2>1 DEF Input
  <2>3. t.op \in Kinds /\ t.address \in 0..(Space - 1)
    BY TransferType
  <2>4. Books'
    <3>1. CASE t.op = "R"
      <4>1. left' = 1 /\ phase' = "ack" /\ Len(printed') = 0 /\ Total' = 1
        BY <3>1, <1>1 DEF Ask, Total
      <4>. QED BY <4>1, <3>1, <1>1, <2>1 DEF Books, Reads
    <3>2. CASE t.op = "RB"
      <4>1. left' = t.size \div WordBytes /\ phase' = "ack" /\ Len(printed') = 0 /\ Total' = t.size \div WordBytes
        BY <3>2, <1>1 DEF Ask, Total
      <4>2. t.size \div WordBytes \in Nat
        BY <3>2, TransferType, WordAssumption
      <4>. QED BY <4>1, <4>2, <3>2, <1>1, <2>1 DEF Books, Reads
    <3>3. CASE t.op \notin Reads
      <4>1. left' = 0 /\ phase' # "data" /\ (phase' = "sections" => t.op = "WB")
        BY <3>3 DEF Ask, Reads
      <4>. QED BY <4>1, <3>3, <1>1 DEF Books
    <3>. QED BY <3>1, <3>2, <3>3 DEF Reads
  <2>5. CASE t.op = "WB"
    <3>1. tx' = << >> /\ gate'.st = "IDLE" /\ phase' \in {"crashed", "sections"}
      BY <1>1, <2>1, <2>5 DEF Send, Ask
    <3>. QED BY <1>3, <2>2, <2>4, <3>1 DEF InStep, Resting
  <2>6. CASE t.op # "WB"
    <3> DEFINE a == AsBytes(t.address)
               o == Opcode[t.op]
               rest == IF t.op = "W" THEN t.word ELSE IF t.op = "RB" THEN AsBytes(t.size) ELSE << >>
    <3>1. a \in Seq(Byte) /\ Len(a) = WordBytes /\ Number(a) = t.address /\ o \in Byte
      BY <2>3, AsBytesType, NumberOfBytes, Operations
    <3>2. rest \in Seq(Byte) /\ (t.op = "W" => Len(rest) = WordBytes) /\ (t.op = "R" => rest = << >>)
          /\ (t.op = "RB" => Len(rest) = WordBytes /\ Number(rest) = t.size)
      BY <2>3, <2>6, TransferType, AsBytesType, NumberOfBytes DEF Kinds
    <3>3. tx' = << >> \o <<o>> \o a \o rest
      BY <1>1, <2>1, <2>6 DEF Send
    <3> HIDE DEF a, o, rest
    <3>4. tx' # << >> /\ Head(tx') = o /\ Tail(tx') = a \o rest
      BY <3>1, <3>2, <3>3, OpcodeFirst
    <3>5. FirstWord(Tail(tx')) = a /\ AfterWord(Tail(tx')) = rest /\ Len(Tail(tx')) = WordBytes + Len(rest)
      BY <3>1, <3>2, <3>4, FirstAndAfter
    <3>6. Len(rest) \in Nat /\ WordBytes \in Nat
      BY <3>2, WordAssumption
    <3>7. t.op = "RB" => FirstWord(rest) = rest
      <4>1. ASSUME t.op = "RB" PROVE FirstWord(rest) = rest
        <5>1. Len(rest) = WordBytes
          BY <3>2, <4>1
        <5>2. SubSeq(rest, 1, Len(rest)) = rest
          BY <3>2, SubSeqFull
        <5>. QED BY <5>1, <5>2 DEF FirstWord
      <4>. QED BY <4>1
    <3>8. Operands(rest)'
      BY <3>2, <3>7, <1>1, <2>6 DEF Operands
    <3>9. Command(Tail(tx))'
      <4>1. Len(Tail(tx')) >= WordBytes
        <5>1. WordBytes + Len(rest) >= WordBytes
          BY <3>6
        <5>. QED BY <5>1, <3>5
      <4>2. Number(FirstWord(Tail(tx'))) = t.address
        BY <3>1, <3>5
      <4>3. Operands(AfterWord(Tail(tx)))'
        BY <3>5, <3>8
      <4>. QED BY <4>1, <4>2, <4>3, <1>1 DEF Command
    <3>10. phase' = "ack" /\ gate'.st = "IDLE" /\ o = Opcode[transfer'.op]
      BY <1>1, <2>1, <2>6 DEF Ask, o
    <3>11. Sending'
      BY <2>2, <3>4, <3>9, <3>10 DEF Sending
    <3>. QED BY <1>3, <2>4, <3>10, <3>11 DEF InStep
  <2>. QED BY <2>5, <2>6
<1>. QED BY <1>4, <1>5

LEMMA InStepSection ==
  ASSUME TypeInv, InStep, SendSection PROVE InStep'
<1> DEFINE s == Head(sections)
           address == transfer.address + s.address
<1>1. phase = "sections" /\ sections # << >> /\ sections \in Seq(SectionOf) /\ transfer \in Transfers
      /\ UNCHANGED <<transfer, left, printed, rx, gate>> /\ sections' = Tail(sections)
  BY DEF SendSection, TypeInv, TermInv
<1>2. s \in SectionOf
  BY <1>1
<1>3. CASE address >= Space
  <2>1. ~ sound' /\ ~ well'
    BY <1>3 DEF SendSection
  <2>. QED BY <2>1 DEF InStep
<1>4. CASE ~ (address >= Space)
  <2>1. phase' = "ack"
        /\ tx' = tx \o <<Opcode["WB"]>> \o AsBytes(address) \o AsBytes(s.size) \o FlattenSeq(s.words)
        /\ sound' = (sound /\ Resting /\ rx = << >> /\ Whole(s)) /\ well' = (well /\ Whole(s))
    BY <1>4 DEF SendSection
  <2>2. well' => sound'
    BY <1>1, <2>1 DEF InStep
  <2>3. CASE ~ sound'
    BY <2>2, <2>3 DEF InStep
  <2>4. CASE sound'
    <3>1. sound /\ gate.st = "IDLE" /\ tx = << >> /\ rx = << >> /\ Whole(s)
      BY <2>1, <2>4 DEF Resting
    <3>2. Books /\ transfer.op = "WB" /\ left = 0
      BY <1>1, <3>1 DEF InStep, Books, Reads
    <3>3. Books'
      BY <1>1, <2>1, <3>2 DEF Books, Reads
    <3> DEFINE a == AsBytes(address)
               b == AsBytes(s.size)
               d == FlattenSeq(s.words)
               o == Opcode["WB"]
    <3>4. address \in Int /\ s.size \in Int /\ s.words \in Seq(Seq(Byte)) /\ s.size = Len(s.words) * WordBytes
      BY <1>1, <1>2, TransferType DEF SectionOf
    <3>5. s.size \in 1..(Space - 1) /\ \A i \in DOMAIN s.words : Len(s.words[i]) = WordBytes
      BY <3>1 DEF Whole
    <3>6. a \in Seq(Byte) /\ Len(a) = WordBytes /\ b \in Seq(Byte) /\ Len(b) = WordBytes /\ o \in Byte
      BY <3>4, AsBytesType, Operations DEF Kinds
    <3>7. d \in Seq(Byte) /\ Len(d) = s.size
      BY <3>4, <3>5, FlattenType DEF Full
    <3>8. Number(b) = s.size
      BY <3>5, NumberOfBytes, s.size \in 0..(Space - 1)
    <3>9. s.size % WordBytes = 0
      <4>1. s.size = WordBytes * Len(s.words) /\ Len(s.words) \in Nat /\ s.size \in Nat
        BY <3>4, <3>5, WordAssumption
      <4>. QED BY <4>1, Multiples
    <3>10. tx' = << >> \o <<o>> \o a \o b \o d
      BY <2>1, <3>1
    <3> HIDE DEF s, a, b, d, o, address
    <3>11. tx' = << >> \o <<o>> \o a \o (b \o d)
      <4>1. << >> \o <<o>> \o a \in Seq(Byte)
        BY <3>6
      <4> DEFINE c == << >> \o <<o>> \o a
      <4> HIDE DEF c
      <4>2. (c \o b) \o d = c \o (b \o d)
        BY <4>1, <3>6, <3>7, ConcatAssociative DEF c
      <4>. QED BY <4>2, <3>10 DEF c
    <3> DEFINE e == b \o d
    <3>12. e \in Seq(Byte) /\ FirstWord(e) = b /\ Len(e) = WordBytes + Len(d)
      BY <3>6, <3>7, FirstAndAfter
    <3>13. tx' = << >> \o <<o>> \o a \o e
      BY <3>11
    <3> HIDE DEF e
    <3>14. tx' # << >> /\ Head(tx') = o /\ Tail(tx') = a \o e
      BY <3>6, <3>12, <3>13, OpcodeFirst
    <3>15. AfterWord(Tail(tx')) = e /\ Len(Tail(tx')) = WordBytes + Len(e)
      BY <3>6, <3>12, <3>14, FirstAndAfter
    <3>16. Len(e) = WordBytes + Number(FirstWord(e)) /\ WholeWords(Number(FirstWord(e)))
      BY <3>5, <3>7, <3>8, <3>9, <3>12 DEF WholeWords
    <3>17. Command(Tail(tx))'
      <4>1. Len(e) \in Nat /\ WordBytes \in Nat
        BY <3>12, WordAssumption
      <4>2. WordBytes + Len(e) >= WordBytes
        BY <4>1
      <4>3. Len(Tail(tx')) >= WordBytes
        BY <4>2, <3>15
      <4>4. Operands(AfterWord(Tail(tx)))'
        BY <1>1, <3>2, <3>15, <3>16 DEF Operands
      <4>. QED BY <4>3, <4>4, <1>1, <3>2 DEF Command, Reads
    <3>18. Sending'
      BY <1>1, <2>1, <3>1, <3>2, <3>14, <3>17 DEF Sending, o
    <3>. QED BY <2>1, <2>2, <3>3, <3>18 DEF InStep
  <2>. QED BY <2>3, <2>4
<1>. QED BY <1>3, <1>4

(* Nothing is missing: a command under way goes on, and the gateway that     *)
(* answers has something to send until it is at rest.                        *)
LEMMA NothingMissing ==
  ASSUME TypeInv, transfer \in Transfers, Books
  PROVE  /\ Sending => ~ Silent
         /\ Answering => ToCome \in Nat /\ (ToCome = 0 => gate.st = "IDLE")
         /\ Answering /\ Silent => ToCome = 0
<1>2. /\ rx \in Seq(Byte) /\ tx \in Seq(Byte) /\ gate.buf \in Seq(Byte) /\ GateSane /\ gate.st \in GateStates
      /\ WordBytes \in Nat \ {0} /\ left \in Nat /\ transfer.op \in Kinds
  BY GateFields, WordAssumption, TransferType DEF TypeInv, LineInv, GateInv, TermInv
<1> DEFINE due == left * WordBytes
<1>3. due \in Nat
  BY <1>2, Products
<1> HIDE DEF due
<1>4. Sending => ~ Silent
  <2> SUFFICES ASSUME Sending, tx = << >>, gate.st \in {"IDLE", "ADDRESS_PHASE", "SIZE_PHASE", "DATA_PHASE"}
               PROVE  FALSE
    BY DEF Silent
  <2>1. gate.buf \o tx = gate.buf
    BY <1>2
  <2>2. gate.st = "ADDRESS_PHASE" => Len(gate.buf) >= WordBytes
    BY <2>1 DEF Sending, Command
  <2>3. gate.st = "SIZE_PHASE" => Len(gate.buf) >= WordBytes
    <3>1. ASSUME gate.st = "SIZE_PHASE" PROVE Len(gate.buf) >= WordBytes
      <4>1. Operands(gate.buf) /\ transfer.op \in {"WB", "RB"}
        BY <2>1, <3>1, <1>2 DEF Sending, Addressed, GateSane
      <4>2. transfer.op = "WB" => Number(FirstWord(gate.buf)) \in Nat
        BY <4>1, WordAssumption DEF Operands, WholeWords
      <4>. QED BY <4>1, <4>2, <1>2 DEF Operands
    <3>. QED BY <3>1
  <2>4. gate.st = "DATA_PHASE" => Len(gate.buf) >= WordBytes
    <3>1. ASSUME gate.st = "DATA_PHASE" PROVE Len(gate.buf) >= WordBytes
      <4>1. Addressed /\ Burst /\ Len(gate.buf) = Wanting /\ transfer.op \in {"W", "WB"}
        BY <2>1, <3>1, <1>2 DEF Sending, Addressed, GateSane
      <4>2. CASE transfer.op = "W"
        BY <4>1, <4>2, <1>2 DEF Wanting
      <4>3. CASE transfer.op = "WB"
        <5>1. WholeWords(gate.size) /\ gate.count < gate.size /\ Len(gate.buf) = gate.size - gate.count
              /\ gate.count \in Counts /\ gate.size \in Nat /\ gate.count \in Nat
          BY <4>1, <4>3, GateFields, WordAssumption DEF Burst, Wanting, TypeInv, Counts
        <5>2. gate.count + WordBytes <= gate.size
          BY <5>1, WholeWordsApart
        <5>. QED BY <5>1, <5>2, <1>2
      <4>. QED BY <4>1, <4>2, <4>3
    <3>. QED BY <3>1
  <2>5. gate.st \in Receptive => Len(gate.buf) < WordBytes
    BY <1>2 DEF GateSane
  <2>6. gate.st # "IDLE"
    BY DEF Sending
  <2>. QED BY <2>2, <2>3, <2>4, <2>5, <2>6, <1>2 DEF Receptive
<1>7. Answering => ToCome \in Nat /\ (ToCome = 0 => gate.st = "IDLE")
  <2> SUFFICES ASSUME Answering, gate.st # "IDLE" PROVE ToCome \in Nat /\ ToCome > 0
    BY DEF ToCome
  <2>1. CASE gate.st = "ACK_RESP"
    <3>1. ToCome = 1 + due
      BY <2>1 DEF ToCome, due
    <3>. QED BY <3>1, <1>3
  <2>2. CASE gate.st \in {"READ_FROM_RC", "WRITE_TO_UART"} /\ transfer.op = "R"
    <3>1. ToCome = WordBytes \/ (gate.buf # << >> /\ ToCome = 0 + Len(gate.buf))
      BY <1>2, <2>2 DEF ToCome, GateSane
    <3>. QED BY <3>1, <1>2
  <2>3. CASE gate.st \in {"READ_FROM_RC", "WRITE_TO_UART"} /\ transfer.op = "RB"
    <3>1. gate.count < gate.size /\ gate.size = transfer.size /\ gate.count \in Counts
      BY <2>3, GateFields DEF Answering, TypeInv
    <3>2. WholeWords(gate.size) /\ gate.size \in Nat /\ gate.count \in Nat
      BY <2>3, <3>1, RoomForAll, WordAssumption DEF WholeWords, Counts
    <3>3. gate.count + WordBytes <= gate.size
      BY <3>1, <3>2, WholeWordsApart
    <3>4. \/ ToCome = gate.size - gate.count
          \/ gate.buf # << >> /\ ToCome = gate.size - gate.count - WordBytes + Len(gate.buf)
      BY <1>2, <2>3 DEF ToCome, GateSane
    <3>5. gate.buf # << >> => Len(gate.buf) \in Nat /\ Len(gate.buf) > 0
      BY <1>2
    <3>. QED BY <3>2, <3>3, <3>4, <3>5, <1>2
  <2>4. gate.st \in {"READ_FROM_RC", "WRITE_TO_UART"} => transfer.op \in Reads
    BY <1>2 DEF GateSane, Answering, Addressed
  <2>. QED BY <2>1, <2>2, <2>3, <2>4 DEF Answering, Reads
<1>8. Answering /\ Silent => ToCome = 0
  BY DEF Answering, Silent, ToCome
<1>. QED BY <1>4, <1>7, <1>8

(* The terminal reads before the port gives up: the acknowledge is the one   *)
(* of its own transfer, and a word comes whole.                              *)
LEMMA Punctual ==
  ASSUME TypeInv, InStep, sound
  PROVE  /\ ReadAck => /\ Answering /\ rx # << >> /\ rx' = Tail(rx) /\ Head(rx) = Ack
                      /\ phase = "ack" /\ Onward(TRUE)
         /\ ReadWord => Answering /\ phase = "data" /\ Len(rx) >= WordBytes
<1>1. ASSUME phase \in {"ack", "data"}
      PROVE  /\ Sending => ~ Silent
             /\ Answering /\ Silent => Len(rx) = Ahead + left * WordBytes
             /\ (Sending \/ Answering) /\ (Sending => phase = "ack" /\ rx = << >>)
  <2>1. transfer \in Transfers /\ Books /\ (Sending \/ Answering) /\ rx \in Seq(Byte)
    BY <1>1 DEF InStep, TypeInv, TermInv, LineInv
  <2>2. Answering => Len(rx) + ToCome = Ahead + left * WordBytes
    BY DEF Answering
  <2>3. Len(rx) + 0 = Len(rx)
    BY <2>1
  <2>4. Sending => ~ Silent
    BY <2>1, NothingMissing
  <2>5. ASSUME Answering, Silent PROVE Len(rx) = Ahead + left * WordBytes
    <3>1. ToCome = 0
      BY <2>1, <2>5, NothingMissing
    <3>. QED BY <2>2, <2>3, <2>5, <3>1
  <2>6. Sending => phase = "ack" /\ rx = << >>
    BY DEF Sending
  <2>. QED BY <2>1, <2>4, <2>5, <2>6
<1>2. left \in Nat /\ left * WordBytes \in Nat /\ (left > 0 => left * WordBytes >= WordBytes) /\ WordBytes \in Nat \ {0}
      /\ rx \in Seq(Byte)
  BY Products, WordAssumption DEF TypeInv, TermInv, LineInv
<1>3. ASSUME ReadAck
      PROVE  /\ Answering /\ rx # << >> /\ rx' = Tail(rx) /\ Head(rx) = Ack
             /\ phase = "ack" /\ Onward(TRUE)
  <2>1. phase = "ack" /\ Ahead = 1
    BY <1>3 DEF ReadAck, Ahead
  <2>2. ~ (rx = << >> /\ Silent)
    <3> SUFFICES ASSUME rx = << >>, Silent PROVE FALSE
      OBVIOUS
    <3>1. Len(rx) = 1 + left * WordBytes /\ Len(rx) = 0
      BY <1>1, <2>1
    <3>. QED BY <3>1, <1>2
  <2>3. rx # << >> /\ rx' = Tail(rx) /\ (IF Head(rx) > 127 THEN phase' = "crashed" ELSE Onward(TRUE))
    BY <1>3, <2>2 DEF ReadAck
  <2>4. Answering
    BY <1>1, <2>1, <2>3
  <2>5. Head(rx) = Ack /\ ~ (Head(rx) > 127)
    BY <2>1, <2>3, <2>4 DEF Answering, Ack
  <2>6. Onward(TRUE)
    BY <2>3, <2>5, Zenon
  <2>. QED BY <2>1, <2>3, <2>4, <2>5, <2>6
<1>4. ASSUME ReadWord PROVE Answering /\ phase = "data" /\ Len(rx) >= WordBytes
  <2>1. phase = "data" /\ Ahead = 0 /\ (Len(rx) < WordBytes => Silent)
    BY <1>2, <1>4 DEF ReadWord, Ahead
  <2>2. Answering /\ left > 0
    BY <1>1, <2>1 DEF TypeInv, TermInv
  <2>3. Silent => Len(rx) = 0 + left * WordBytes
    BY <1>1, <2>1, <2>2
  <2>. QED BY <1>2, <2>1, <2>2, <2>3
<1>. QED BY <1>3, <1>4

LEMMA InStepServe ==
  ASSUME TypeInv, InStep, Serve PROVE InStep'
<1>1. CASE SendSection
  BY <1>1, InStepSection
<1>2. CASE EndOfFile
  BY <1>2 DEF EndOfFile, history, InStep, Resting
<1>3. CASE ReadAck \/ ReadWord
  <2>1. UNCHANGED <<transfer, sections, tx, gate, sound, well>> /\ phase \in {"ack", "data"} /\ transfer \in Transfers
    BY <1>3 DEF ReadAck, ReadWord, history, TypeInv, TermInv
  <2>2. CASE ~ sound
    BY <2>1, <2>2 DEF InStep
  <2>3. CASE sound
    <3>1. Books /\ (Sending \/ Answering)
      BY <2>1, <2>3 DEF InStep
    <3>2. /\ rx \in Seq(Byte) /\ tx \in Seq(Byte) /\ gate.buf \in Seq(Byte) /\ GateSane /\ gate.st \in GateStates
          /\ WordBytes \in Nat \ {0} /\ left \in Nat /\ transfer.op \in Kinds /\ printed \in Seq(Seq(Byte))
      BY <2>1, GateFields, WordAssumption, TransferType DEF TypeInv, LineInv, GateInv, TermInv
    <3> DEFINE due == left * WordBytes
    <3>3. due \in Nat /\ (left > 0 => due >= WordBytes /\ (left - 1) * WordBytes = due - WordBytes)
          /\ (left = 0 => due = 0)
      BY <3>2, Products
    <3> HIDE DEF due
    <3>5. Answering => Len(rx) + ToCome = Ahead + due
      BY DEF Answering, due
    <3>7. Answering => ToCome \in Nat /\ (ToCome = 0 => gate.st = "IDLE")
      BY <2>1, <3>1, NothingMissing
    <3>8. CASE ReadAck
      <4>1. phase = "ack" /\ Ahead = 1 /\ UNCHANGED <<left, printed>>
        BY <3>8 DEF ReadAck, Ahead
      <4>2. Answering /\ rx # << >> /\ rx' = Tail(rx) /\ Onward(TRUE)
        BY <2>3, <3>8, Punctual
      <4>6. Len(rx') + ToCome = due /\ Len(rx') \in Nat /\ rx' \in Seq(Byte)
        <5>1. Len(rx') = Len(rx) - 1 /\ Len(rx') \in Nat /\ rx' \in Seq(Byte)
          BY <3>2, <4>2
        <5>2. Len(rx) + ToCome = 1 + due /\ ToCome \in Nat
          BY <3>5, <3>7, <4>1, <4>2
        <5>. QED BY <5>1, <5>2, <3>2, <3>3
      <4>7. CASE transfer.op \in Reads /\ left > 0
        <5>1. phase' = "data"
          BY <4>2, <4>7 DEF Onward, Reads
        <5>2. Books'
          BY <2>1, <3>1, <4>1, <4>7, <5>1 DEF Books, Total, WholeSize
        <5>3. gate.st # "ACK_RESP"
          <6> SUFFICES ASSUME gate.st = "ACK_RESP" PROVE FALSE
            OBVIOUS
          <6>1. ToCome = 1 + due
            BY DEF ToCome, due
          <6>. QED BY <6>1, <3>3, <4>6
        <5>4. ToCome' = ToCome /\ Ahead' = 0 /\ Addressed'
          BY <2>1, <4>1, <4>2, <5>1 DEF ToCome, Ahead, Answering, Addressed
        <5>5. Len(rx') + ToCome' = Ahead' + left' * WordBytes
          BY <4>1, <4>6, <5>4, <3>3 DEF due
        <5>6. Answering'
          BY <2>1, <4>1, <4>2, <5>1, <5>3, <5>4, <5>5 DEF Answering
        <5>. QED BY <2>1, <3>1, <5>1, <5>2, <5>6 DEF InStep
      <4>8. CASE ~ (transfer.op \in Reads /\ left > 0)
        <5>1. left = 0 /\ due = 0
          BY <3>1, <3>2, <3>3, <4>8 DEF Books
        <5>2. rx' = << >> /\ ToCome = 0
          BY <5>1, <4>2, <4>6, <3>7
        <5>3. gate.st = "IDLE" /\ tx = << >>
          BY <5>2, <4>2, <3>7 DEF Answering
        <5>4. phase' \in {"prompt", "sections"} /\ (phase' = "sections" => transfer.op = "WB")
          BY <4>2, <4>8 DEF Onward, Reads
        <5>5. phase' = "sections" => Books'
          BY <2>1, <4>1, <5>1, <5>4 DEF Books, Reads
        <5>. QED BY <2>1, <5>2, <5>3, <5>4, <5>5 DEF InStep, Resting
      <4>. QED BY <4>7, <4>8
    <3>9. CASE ReadWord
      <4> DEFINE n == IF Len(rx) < WordBytes THEN Len(rx) ELSE WordBytes
      <4>1. /\ phase = "data" /\ Ahead = 0 /\ (n = WordBytes \/ Silent)
            /\ rx' = SubSeq(rx, n + 1, Len(rx))
            /\ printed' = (IF n = 0 THEN printed ELSE Append(printed, SubSeq(rx, 1, n)))
            /\ left' = left - 1 /\ phase' = (IF n = 0 \/ left = 1 THEN "prompt" ELSE "data")
        BY <3>9 DEF ReadWord, Ahead
      <4>2. Answering /\ left > 0 /\ transfer.op \in Reads
        BY <3>1, <4>1 DEF Sending, TypeInv, TermInv, Books
      <4>3. n = WordBytes /\ Len(rx) >= WordBytes
        BY <2>3, <3>2, <3>9, Punctual
      <4> HIDE DEF n
      <4>4. Len(rx') = Len(rx) - WordBytes /\ rx' \in Seq(Byte) /\ Len(rx') \in Nat
        BY <3>2, <4>1, <4>3
      <4>5. Len(rx') + ToCome = due - WordBytes /\ (left - 1) * WordBytes = due - WordBytes
        <5>1. (left - 1) * WordBytes = due - WordBytes
          BY <3>2, <3>3, <4>2
        <5>2. Len(rx) + ToCome = due
          BY <3>3, <3>5, <4>1, <4>2
        <5>. QED BY <3>2, <3>7, <4>2, <4>4, <5>1, <5>2
      <4>6. CASE left = 1
        <5>1. due - WordBytes = 0
          BY <4>5, <4>6, <3>2
        <5>2. rx' = << >> /\ ToCome = 0
          BY <5>1, <4>2, <4>4, <4>5, <3>7
        <5>3. gate.st = "IDLE" /\ tx = << >>
          BY <5>2, <4>2, <3>7 DEF Answering
        <5>4. phase' = "prompt"
          BY <4>1, <4>6
        <5>. QED BY <2>1, <5>2, <5>3, <5>4 DEF InStep, Resting
      <4>7. CASE left # 1
        <5>1. phase' = "data" /\ Ahead' = 0
          BY <3>2, <4>1, <4>3, <4>7 DEF Ahead
        <5>2. Len(printed') = Len(printed) + 1
          BY <3>2, <4>1, <4>3
        <5>3. Books'
          <6>1. Len(printed') + left' = Len(printed) + left
            BY <5>2, <4>1, <3>2
          <6>2. Len(printed) + left = Total /\ WholeSize(transfer)
            BY <3>1, <4>2 DEF Books
          <6>. QED BY <2>1, <4>2, <5>1, <6>1, <6>2 DEF Books, Total, WholeSize
        <5>4. gate.st # "ACK_RESP" /\ Addressed'
          BY <2>1, <4>1, <4>2 DEF Answering, Addressed
        <5>5. ToCome' = ToCome
          BY <2>1, <5>4 DEF ToCome
        <5>6. Len(rx') + ToCome' = Ahead' + left' * WordBytes
          <6>1. left' * WordBytes = due - WordBytes
            BY <4>1, <4>5
          <6>. QED BY <6>1, <4>5, <5>1, <5>5, <3>2, <3>3
        <5>7. Answering'
          BY <2>1, <4>2, <5>1, <5>4, <5>6 DEF Answering
        <5>. QED BY <2>1, <3>1, <5>1, <5>3, <5>7 DEF InStep
      <4>. QED BY <4>6, <4>7
    <3>. QED BY <1>3, <3>8, <3>9
  <2>. QED BY <2>2, <2>3
<1>. QED BY <1>1, <1>2, <1>3 DEF Serve

LEMMA InStepInvariance == Spec => [](TypeInv /\ InStep)
<1>1. Init => InStep
  BY DEF Init, InStep, Resting
<1>2. TypeInv /\ InStep /\ [Next]_vars => InStep'
  <2> SUFFICES ASSUME TypeInv, InStep, [Next]_vars PROVE InStep'
    OBVIOUS
  <2>1. CASE \E t \in Transfers : Ask(t)
    BY <2>1, InStepAsk
  <2>2. CASE Serve
    BY <2>2, InStepServe
  <2>3. CASE Quit
    BY <2>3 DEF Quit, history, InStep, Resting
  <2>4. CASE Lose
    BY <2>4 DEF Lose, InStep
  <2>5. CASE Gateway
    BY <2>5, InStepGateway
  <2>6. CASE UNCHANGED vars
    BY <2>6 DEF vars, terminal, history, InStep, Resting, Books, Total, WholeSize, Sending, Answering, Command,
                Operands, Addressed, Burst, Wanting, ToCome, Ahead
  <2>. QED BY <2>1, <2>2, <2>3, <2>4, <2>5, <2>6 DEF Next
<1>. QED BY <1>1, <1>2, TypeInvariance, PTL DEF Spec

(* In a session without a fault, of any length, terminal and gateway are at  *)
(* rest whenever the prompt is back (NeverOutOfStep).                        *)
THEOREM StaysInStep == Spec => []NeverOutOfStep
<1>1. InStep => NeverOutOfStep
  BY DEF InStep, NeverOutOfStep
<1>. QED BY <1>1, InStepInvariance, PTL
-------------------------------------------------------------------------------
(* What a read prints.  The bytes of the answer are counted from 0: byte k   *)
(* belongs to the word (k \div WordBytes) behind the address, and a byte in  *)
(* the input buffer is the one that its place there and the words printed    *)
(* say.  The byte that the gateway sends next is the one of memory it is at. *)
Behind(i) == WordAt(transfer.address + i * WordBytes)
IsByte(k, v) ==
  Behind(k \div WordBytes) \in Mapped => v = mem[Behind(k \div WordBytes)][(k % WordBytes) + 1]
NextByte(n) == Len(printed) * WordBytes + (n - Ahead - 1)
Reading == sound /\ phase \in {"ack", "data", "prompt"} /\ transfer # << >> /\ transfer.op \in Reads

PrintedTrue == \A i \in DOMAIN printed : Behind(i - 1) \in Mapped => printed[i] = mem[Behind(i - 1)]
BufferTrue == \A n \in DOMAIN rx : n > Ahead => IsByte(NextByte(n), rx[n])
GateTrue ==
  gate.st = "WRITE_TO_UART" /\ Here \in Mapped =>
    \A j \in DOMAIN gate.buf : gate.buf[j] = mem[Here][WordBytes - Len(gate.buf) + j]
Faithful ==
  Reading => PrintedTrue /\ BufferTrue /\ GateTrue /\ (phase = "prompt" => Len(printed) = Total)

(* Byte j of the word w of the answer.                                       *)
LEMMA BytePlace ==
  ASSUME NEW w \in Nat, NEW r \in 0..(WordBytes - 1)
  PROVE  (w * WordBytes + r) \div WordBytes = w /\ (w * WordBytes + r) % WordBytes = r
<1> DEFINE k == w * WordBytes + r
<1>1. WordBytes \in Nat \ {0} /\ w \in Int
  BY WordAssumption
<1>2. w * WordBytes \in Int /\ w * WordBytes = WordBytes * w
  BY <1>1
<1>3. k \in Int /\ k = WordBytes * w + r
  BY <1>1, <1>2
<1> HIDE DEF k
<1>4. k \div WordBytes = w /\ k % WordBytes = r
  BY <1>1, <1>3, DivUnique
<1>. QED BY <1>4 DEF k

LEMMA Places == \A k : NextByte(k) = Len(printed) * WordBytes + (k - Ahead - 1)
BY DEF NextByte

(* The byte sent next is the one that follows those in the input buffer.     *)
LEMMA SentByte ==
  ASSUME TypeInv, transfer \in Transfers, transfer.op \in Reads, Books, Answering, gate.st = "WRITE_TO_UART",
         GateTrue
  PROVE  IsByte(NextByte(Len(rx) + 1), Head(gate.buf))
<1>1. /\ gate.buf \in Seq(Byte) /\ gate.buf # << >> /\ Len(gate.buf) <= WordBytes /\ rx \in Seq(Byte)
      /\ gate.count \in Nat /\ gate.count % WordBytes = 0 /\ gate.address \in Nat /\ gate.size \in Nat
      /\ WordBytes \in Nat \ {0} /\ left \in Nat /\ Len(printed) \in Nat
      /\ gate.address = transfer.address /\ gate.kind = transfer.op
      /\ (gate.count # 0 => gate.kind = "RB")
  BY GateFields, WordAssumption DEF TypeInv, GateInv, GateSane, LineInv, TermInv, Counts, Answering, Addressed
<1> DEFINE n == Len(gate.buf)
           r == WordBytes - n
<1>2. n \in Nat /\ n >= 1 /\ n <= WordBytes /\ r \in 0..(WordBytes - 1) /\ Head(gate.buf) = gate.buf[1]
      /\ 1 \in DOMAIN gate.buf /\ r + 1 = WordBytes - n + 1
  BY <1>1
<1> DEFINE done == Len(printed) * WordBytes
           due == left * WordBytes
<1>3. done \in Nat /\ due \in Nat
  BY <1>1, Products
<1>4. Len(rx) + ToCome = Ahead + due /\ Ahead \in {0, 1} /\ Len(rx) \in Nat
  BY <1>1 DEF Answering, Ahead
<1>5. done + due = Total * WordBytes
  <2>1. Len(printed) + left = Total
    BY DEF Books
  <2>. QED BY <1>1, <2>1
<1>6. NextByte(Len(rx) + 1) = done + ((Len(rx) + 1) - Ahead - 1)
  BY Places
<1>7. NextByte(Len(rx) + 1) = (done + due) - ToCome
  <2> HIDE DEF done, due
  <2>1. ToCome = Ahead + due - Len(rx)
    <3>1. ToCome \in Nat
      BY NothingMissing
    <3>. QED BY <3>1, <1>3, <1>4
  <2>. QED BY <2>1, <1>3, <1>4, <1>6
<1>8. PICK w \in Nat : gate.count = WordBytes * w
  BY <1>1, Multiples
<1>9. NextByte(Len(rx) + 1) = w * WordBytes + r
  <2> HIDE DEF done, due
  <2>1. CASE transfer.op = "R"
    <3>1. Total = 1 /\ gate.count = 0
      BY <2>1, <1>1 DEF Total
    <3>2. w = 0
      BY <3>1, <1>1, <1>8
    <3>3. ToCome = 0 + n
      BY <2>1 DEF ToCome
    <3>4. w * WordBytes = 0 /\ Total * WordBytes = WordBytes
      BY <3>1, <3>2, <1>1
    <3>5. NextByte(Len(rx) + 1) = WordBytes - n
      BY <3>3, <3>4, <1>1, <1>2, <1>5, <1>7
    <3>6. w * WordBytes + r = WordBytes - n
      BY <3>4, <1>1, <1>2
    <3>. QED BY <3>5, <3>6
  <2>2. CASE transfer.op = "RB"
    <3>1. ToCome = gate.size - gate.count - WordBytes + n
      BY <2>2 DEF ToCome
    <3>2. Total * WordBytes = gate.size
      BY <2>2, RoomForAll DEF Answering
    <3>3. w * WordBytes = gate.count
      BY <1>1, <1>8
    <3>4. NextByte(Len(rx) + 1) = gate.count + (WordBytes - n)
      <4>1. NextByte(Len(rx) + 1) = gate.size - (gate.size - gate.count - WordBytes + n)
        BY <3>1, <3>2, <1>5, <1>7
      <4>. QED BY <4>1, <1>1, <1>2
    <3>. QED BY <3>3, <3>4
  <2>. QED BY <2>1, <2>2 DEF Reads
<1> HIDE DEF n, r
<1>10. NextByte(Len(rx) + 1) \div WordBytes = w /\ NextByte(Len(rx) + 1) % WordBytes = r
  BY <1>2, <1>9, BytePlace
<1>11. Behind(w) = Here
  <2>1. w * WordBytes = gate.count
    BY <1>1, <1>8
  <2>. QED BY <2>1, <1>1 DEF Behind, Here
<1>12. ASSUME Here \in Mapped PROVE Head(gate.buf) = mem[Here][r + 1]
  <2>1. gate.buf[1] = mem[Here][WordBytes - Len(gate.buf) + 1]
    BY <1>2, <1>12 DEF GateTrue
  <2>. QED BY <2>1, <1>2 DEF n
<1>. QED BY <1>10, <1>11, <1>12 DEF IsByte

LEMMA FaithfulGateway == ASSUME TypeInv, InStep, Faithful, Gateway PROVE Faithful'
<1> SUFFICES ASSUME Reading' PROVE (PrintedTrue /\ BufferTrue /\ GateTrue /\ (phase = "prompt" => Len(printed) = Total))'
  BY DEF Faithful
<1>1. UNCHANGED <<phase, transfer, left, printed, sound>>
  BY DEF Gateway, terminal, history
<1>2. Reading
  BY <1>1 DEF Reading
<1>3. PrintedTrue /\ BufferTrue /\ GateTrue /\ sound
  BY <1>2 DEF Faithful, Reading
<1>4. phase # "prompt"
  <2> SUFFICES ASSUME phase = "prompt" PROVE FALSE
    OBVIOUS
  <2>1. gate.st = "IDLE" /\ tx = << >>
    BY <1>3 DEF InStep, Resting
  <2>. QED BY <2>1 DEF Gateway, Decode, TakeByte, StoreWord, SendAck, LoadWord, SendByte, DropByte
<1>5. phase \in {"ack", "data"} /\ transfer \in Transfers /\ transfer.op \in Reads /\ Books /\ (Sending \/ Answering)
  BY <1>2, <1>4 DEF Reading, InStep, TypeInv, TermInv
<1>6. Ahead' = Ahead /\ \A n : NextByte(n)' = NextByte(n)
  BY <1>1 DEF Ahead, NextByte
<1>7. gate \in GateRecord /\ GateSane /\ gate.buf \in Seq(Byte) /\ rx \in Seq(Byte) /\ mem \in [Words -> Word]
      /\ gate.rdata \in Word /\ gate.st \in GateStates
  BY GateFields DEF TypeInv, GateInv, LineInv, MemInv
<1>8. mem' = mem
  <2>1. gate.st # "WRITE_TO_RC"
    BY <1>5, <1>7 DEF Sending, Answering, Addressed, GateSane, Reads
  <2>. QED BY <2>1 DEF Gateway, Decode, TakeByte, StoreWord, SendAck, LoadWord, SendByte, DropByte
<1>9. PrintedTrue' /\ (phase' # "prompt")
  BY <1>1, <1>3, <1>4, <1>8 DEF PrintedTrue, Behind
<1>10. \A k, v : IsByte(k, v) => IsByte(k, v)'
  BY <1>1, <1>8 DEF IsByte, Behind
<1>11. CASE rx' = rx /\ gate'.st # "WRITE_TO_UART"
  BY <1>3, <1>6, <1>9, <1>10, <1>11 DEF BufferTrue, GateTrue
<1>12. CASE LoadWord
  <2> DEFINE word == IF Here \in Mapped THEN mem[Here] ELSE gate.rdata
  <2>1. rx' = rx /\ gate' = [gate EXCEPT !.st = "WRITE_TO_UART", !.rdata = word, !.buf = word]
    BY <1>12 DEF LoadWord
  <2>2. word \in Word
    BY <1>7, InputAssumption
  <2> HIDE DEF word
  <2>3. gate'.buf = word /\ gate'.address = gate.address /\ gate'.count = gate.count
    BY <2>1, <1>7 DEF GateRecord
  <2>4. Here' = Here
    BY <2>3 DEF Here
  <2>5. ASSUME Here \in Mapped, NEW j \in DOMAIN word
        PROVE  word[j] = mem[Here][WordBytes - Len(word) + j]
    <3>1. word = mem[Here]
      BY <2>5 DEF word
    <3>2. Len(word) = WordBytes /\ word \in Seq(Byte) /\ WordBytes \in Nat
      BY <2>2, WordIsBytes, WordAssumption
    <3>3. j \in Int /\ WordBytes - Len(word) + j = j
      BY <2>5, <3>2
    <3>. QED BY <3>1, <3>3
  <2>6. GateTrue'
    BY <2>3, <2>4, <2>5, <1>8 DEF GateTrue
  <2>. QED BY <1>3, <1>6, <1>9, <1>10, <2>1, <2>6 DEF BufferTrue
<1>13. CASE SendAck
  <2>1. gate.st = "ACK_RESP" /\ rx' = Receive(Ack)
        /\ gate' = [gate EXCEPT !.st = IF gate.kind \in {"R", "RB"} THEN "READ_FROM_RC" ELSE "IDLE"]
    BY <1>13 DEF SendAck
  <2>2. gate'.st # "WRITE_TO_UART"
    BY <2>1, <1>7 DEF GateRecord
  <2>3. Answering /\ phase = "ack" /\ Ahead = 1
    BY <1>5, <2>1 DEF Sending, Answering, Ahead
  <2>4. rx = << >>
    <3>1. ToCome = 1 + left * WordBytes
      BY <2>1 DEF ToCome
    <3>2. Len(rx) + ToCome = 1 + left * WordBytes
      BY <2>3 DEF Answering
    <3>3. left * WordBytes \in Nat
      BY <1>5, RoomForAll
    <3>4. Len(rx) = 0
      BY <3>1, <3>2, <3>3, <1>7
    <3>. QED BY <3>4, <1>7
  <2>5. rx' = << >> \/ rx' = <<Ack>>
    BY <2>1, <2>4 DEF Receive
  <2>6. \A n \in DOMAIN rx' : n = 1
    BY <2>5
  <2>7. BufferTrue'
    BY <2>3, <2>6, <1>6 DEF BufferTrue
  <2>. QED BY <1>9, <2>2, <2>7 DEF GateTrue
<1>14. CASE SendByte
  <2> DEFINE b == Head(gate.buf)
  <2>1. gate.st = "WRITE_TO_UART" /\ rx' = Receive(b)
    BY <1>14 DEF SendByte
  <2>2. Answering /\ gate.buf # << >>
    BY <1>5, <1>7, <2>1 DEF Sending, GateSane
  <2>3. IsByte(NextByte(Len(rx) + 1), b)
    BY <1>3, <1>5, <2>1, <2>2, SentByte
  <2>4. b \in Byte
    BY <1>7, <2>2
  <2> HIDE DEF b
  <2>5. BufferTrue'
    <3>1. CASE rx' = rx
      BY <3>1, <1>3, <1>6, <1>10 DEF BufferTrue
    <3>2. CASE rx' = Append(rx, b)
      <4> SUFFICES ASSUME NEW n \in DOMAIN rx', n > Ahead PROVE IsByte(NextByte(n), rx[n])'
        BY <1>6 DEF BufferTrue
      <4>1. CASE n = Len(rx) + 1
        <5>1. rx'[n] = b
          BY <4>1, <3>2, <2>4, <1>7
        <5>. QED BY <5>1, <4>1, <2>3, <1>1, <1>6, <1>8 DEF IsByte, Behind
      <4>2. CASE n \in DOMAIN rx
        <5>1. rx'[n] = rx[n]
          BY <4>2, <3>2, <2>4, <1>7
        <5>2. IsByte(NextByte(n), rx[n])
          BY <4>2, <1>3 DEF BufferTrue
        <5>. QED BY <5>1, <5>2, <1>1, <1>6, <1>8 DEF IsByte, Behind
      <4>3. n = Len(rx) + 1 \/ n \in DOMAIN rx
        BY <3>2, <2>4, <1>7
      <4>. QED BY <4>1, <4>2, <4>3
    <3>. QED BY <2>1, <3>1, <3>2 DEF Receive
  <2>6. GateTrue'
    <3>1. CASE Len(gate.buf) > 1
      <4> DEFINE rest == Tail(gate.buf)
      <4>1. gate' = [gate EXCEPT !.buf = rest]
        BY <1>14, <3>1 DEF SendByte
      <4>2. rest \in Seq(Byte) /\ Len(rest) = Len(gate.buf) - 1
            /\ \A j \in DOMAIN rest : j \in Int /\ j + 1 \in DOMAIN gate.buf /\ rest[j] = gate.buf[j + 1]
        BY <1>7, <2>2
      <4> HIDE DEF rest
      <4>3. gate'.buf = rest /\ gate'.address = gate.address /\ gate'.count = gate.count
        BY <4>1, <1>7 DEF GateRecord
      <4>4. Here' = Here
        BY <4>3 DEF Here
      <4>5. ASSUME Here \in Mapped, NEW j \in DOMAIN rest
            PROVE  rest[j] = mem[Here][WordBytes - Len(rest) + j]
        <5>1. rest[j] = mem[Here][WordBytes - Len(gate.buf) + (j + 1)]
          BY <4>2, <4>5, <2>1, <1>3 DEF GateTrue
        <5>2. WordBytes - Len(gate.buf) + (j + 1) = WordBytes - Len(rest) + j
          <6> DEFINE n == Len(gate.buf)
                     m == Len(rest)
          <6>1. n \in Nat /\ m = n - 1 /\ j \in Int /\ WordBytes \in Nat
            BY <4>2, <4>5, <1>7, WordAssumption
          <6> HIDE DEF n, m
          <6>2. WordBytes - n + (j + 1) = WordBytes - m + j
            BY <6>1
          <6>. QED BY <6>2 DEF n, m
        <5>. QED BY <5>1, <5>2
      <4>. QED BY <4>3, <4>4, <4>5, <1>8 DEF GateTrue
    <3>2. CASE ~ (Len(gate.buf) > 1)
      <4>1. gate'.st \in {"IDLE", "READ_FROM_RC"}
        BY <1>14, <3>2, <1>7 DEF SendByte, GateRecord
      <4>. QED BY <4>1 DEF GateTrue
    <3>. QED BY <3>1, <3>2
  <2>. QED BY <1>9, <2>5, <2>6
<1>15. CASE Decode \/ TakeByte \/ StoreWord \/ DropByte
  <2>1. Sending /\ ~ StoreWord /\ ~ DropByte
    BY <1>5, <1>7, <1>15
    DEF Sending, Answering, Addressed, GateSane, Reads, Decode, TakeByte, StoreWord, DropByte
  <2>2. CASE Decode
    BY <1>7, <1>11, <2>2 DEF Decode, GateRecord
  <2>3. CASE TakeByte
    <3>1. rx' = rx /\ gate.st \in Receptive /\ gate.kind \in Kinds
      BY <1>7, <2>3 DEF TakeByte, Receptive, GateSane
    <3>2. AfterAddress[gate.kind] # "WRITE_TO_UART"
      BY <3>1 DEF AfterAddress, Kinds
    <3>3. gate'.st # "WRITE_TO_UART"
      BY <1>7, <2>3, <3>1, <3>2 DEF TakeByte, GateRecord, Receptive
    <3>. QED BY <3>1, <3>3, <1>11
  <2>. QED BY <1>15, <2>1, <2>2, <2>3
<1>. QED BY <1>12, <1>13, <1>14, <1>15 DEF Gateway

LEMMA FaithfulServe == ASSUME TypeInv, InStep, Faithful, Serve PROVE Faithful'
<1> SUFFICES ASSUME Reading' PROVE (PrintedTrue /\ BufferTrue /\ GateTrue /\ (phase = "prompt" => Len(printed) = Total))'
  BY DEF Faithful
<1>1. CASE SendSection \/ EndOfFile
  <2>1. phase = "sections" /\ transfer' = transfer
    BY <1>1 DEF SendSection, EndOfFile
  <2>3. sound' => sound
    <3>1. CASE EndOfFile
      BY <3>1 DEF EndOfFile, history
    <3>2. CASE SendSection /\ transfer.address + Head(sections).address >= Space
      BY <3>2 DEF SendSection
    <3>3. CASE SendSection /\ ~ (transfer.address + Head(sections).address >= Space)
      BY <3>3 DEF SendSection
    <3>. QED BY <1>1, <3>1, <3>2, <3>3
  <2>2. sound => transfer.op = "WB"
    BY <2>1 DEF InStep, Books
  <2>. QED BY <2>1, <2>2, <2>3 DEF Reading, Reads
<1>2. CASE ReadAck \/ ReadWord
  <2>1. UNCHANGED <<transfer, gate, mem, sound>> /\ phase \in {"ack", "data"} /\ transfer \in Transfers
        /\ rx \in Seq(Byte) /\ printed \in Seq(Seq(Byte)) /\ WordBytes \in Nat \ {0}
    BY <1>2, WordAssumption DEF ReadAck, ReadWord, history, TypeInv, TermInv, LineInv
  <2>2. Reading
    BY <2>1 DEF Reading
  <2>3. PrintedTrue /\ BufferTrue /\ GateTrue /\ sound /\ transfer.op \in Reads /\ Books /\ left \in Nat
    BY <2>1, <2>2 DEF Faithful, Reading, InStep, TypeInv, TermInv
  <2>4. GateTrue' /\ (\A i : Behind(i)' = Behind(i)) /\ (\A k, v : IsByte(k, v)' = IsByte(k, v))
    BY <2>1, <2>3 DEF GateTrue, Here, Behind, IsByte
  <2>5. CASE ReadAck
    <3>1. rx # << >> /\ rx' = Tail(rx) /\ phase = "ack" /\ Onward(TRUE) /\ printed' = printed
      BY <2>3, <2>5, Punctual DEF ReadAck
    <3>2. phase' \in {"data", "prompt"} /\ (phase' = "prompt" => ~ (left > 0))
      BY <3>1, <2>3 DEF Onward, Reads
    <3>3. phase' = "prompt" => Len(printed') = Total'
      <4> SUFFICES ASSUME phase' = "prompt" PROVE Len(printed) = Total
        BY <2>1, <3>1 DEF Total
      <4>1. left = 0 /\ Len(printed) + left = Total
        BY <3>2, <2>3 DEF Books
      <4>2. Len(printed) \in Nat
        BY <2>1
      <4>. QED BY <4>1, <4>2
    <3>4. Ahead = 1 /\ Ahead' = 0
      BY <3>1, <3>2 DEF Ahead
    <3>5. BufferTrue'
      <4> SUFFICES ASSUME NEW n \in DOMAIN rx' PROVE IsByte(NextByte(n), rx[n])'
        BY DEF BufferTrue
      <4>1. n \in Nat \ {0} /\ n + 1 \in DOMAIN rx /\ rx'[n] = rx[n + 1]
        BY <2>1, <3>1
      <4>2. NextByte(n)' = NextByte(n + 1)
        <5>1. n - 0 - 1 = n + 1 - 1 - 1
          BY <4>1
        <5>. QED BY <5>1, <3>1, <3>4 DEF NextByte
      <4>3. IsByte(NextByte(n + 1), rx[n + 1])
        BY <4>1, <3>4, <2>3 DEF BufferTrue
      <4>. QED BY <4>1, <4>2, <4>3, <2>1 DEF IsByte, Behind
    <3>6. PrintedTrue'
      BY <2>1, <2>3, <2>4, <3>1 DEF PrintedTrue
    <3>. QED BY <2>4, <3>3, <3>5, <3>6
  <2>6. CASE ReadWord
    <3> DEFINE word == SubSeq(rx, 1, WordBytes)
    <3>1. phase = "data" /\ Len(rx) >= WordBytes
      BY <2>3, <2>6, Punctual
    <3>2. (IF Len(rx) < WordBytes THEN Len(rx) ELSE WordBytes) = WordBytes /\ WordBytes # 0
      BY <2>1, <3>1
    <3>3. /\ rx' = SubSeq(rx, WordBytes + 1, Len(rx)) /\ printed' = Append(printed, word)
          /\ left' = left - 1 /\ phase' = (IF left = 1 THEN "prompt" ELSE "data")
      BY <2>6, <3>2 DEF ReadWord
    <3>4. word \in Seq(Byte) /\ Len(word) = WordBytes /\ \A j \in 1..WordBytes : word[j] = rx[j] /\ j \in DOMAIN rx
      BY <2>1, <3>1
    <3> HIDE DEF word
    <3>5. Ahead = 0 /\ Ahead' = 0
      BY <3>1, <3>3 DEF Ahead
    <3>6. Len(printed) \in Nat /\ Len(printed') = Len(printed) + 1
          /\ Len(printed) * WordBytes \in Nat
          /\ (Len(printed) + 1) * WordBytes = Len(printed) * WordBytes + WordBytes
      <4>1. Len(printed) \in Nat /\ Len(printed') = Len(printed) + 1
        BY <2>1, <3>3, <3>4
      <4> DEFINE l == Len(printed)
      <4> HIDE DEF l
      <4>2. l \in Nat
        BY <4>1 DEF l
      <4>3. l * WordBytes \in Nat /\ (l + 1) * WordBytes = l * WordBytes + WordBytes
        BY <4>2, <2>1, Products
      <4>. QED BY <4>1, <4>3 DEF l
    <3>7. phase' = "prompt" => Len(printed') = Total'
      <4> SUFFICES ASSUME left = 1 PROVE Len(printed) + 1 = Total
        BY <2>1, <3>3, <3>6 DEF Total
      <4>. QED BY <2>3 DEF Books
    <3>8. BufferTrue'
      <4> SUFFICES ASSUME NEW n \in DOMAIN rx' PROVE IsByte(NextByte(n), rx[n])'
        BY DEF BufferTrue
      <4>1. n \in Nat \ {0} /\ n + WordBytes \in DOMAIN rx /\ rx'[n] = rx[n + WordBytes] /\ n + WordBytes > 0
        BY <2>1, <3>1, <3>3
      <4>2. NextByte(n)' = NextByte(n + WordBytes)
        <5>1. NextByte(n)' = (Len(printed) + 1) * WordBytes + (n - 0 - 1)
          BY <3>5, <3>6 DEF NextByte
        <5>2. NextByte(n + WordBytes) = Len(printed) * WordBytes + ((n + WordBytes) - 0 - 1)
          BY <3>5, Places
        <5> DEFINE a == Len(printed) * WordBytes
                   c == (Len(printed) + 1) * WordBytes
        <5>3. a \in Nat /\ c = a + WordBytes
          BY <3>6
        <5> HIDE DEF a, c
        <5>4. c + (n - 0 - 1) = a + ((n + WordBytes) - 0 - 1)
          BY <5>3, <4>1, <2>1
        <5>. QED BY <5>1, <5>2, <5>4 DEF a, c
      <4>3. IsByte(NextByte(n + WordBytes), rx[n + WordBytes])
        BY <4>1, <3>5, <2>3 DEF BufferTrue
      <4>. QED BY <4>1, <4>2, <4>3, <2>1 DEF IsByte, Behind
    <3>9. ASSUME Behind(Len(printed)) \in Mapped PROVE word = mem[Behind(Len(printed))]
      <4> DEFINE read == mem[Behind(Len(printed))]
      <4>1. read \in Word
        BY <3>9, InputAssumption DEF TypeInv, MemInv
      <4> HIDE DEF read
      <4>2. read \in Seq(Byte) /\ Len(read) = WordBytes
        BY <4>1, WordIsBytes
      <4>3. ASSUME NEW j \in 1..WordBytes PROVE word[j] = read[j]
        <5> DEFINE k == Len(printed) * WordBytes + (j - 1)
        <5>1. j - 1 \in 0..(WordBytes - 1) /\ j \in Nat /\ j > 0 /\ (j - 1) + 1 = j
          BY <4>3, <2>1
        <5>2. k \div WordBytes = Len(printed) /\ k % WordBytes = j - 1
          BY <5>1, <3>6, BytePlace
        <5>3. NextByte(j) = k
          BY <5>1, <3>5 DEF NextByte
        <5>4. IsByte(k, rx[j])
          BY <5>1, <5>3, <3>4, <3>5, <2>3 DEF BufferTrue
        <5> HIDE DEF k
        <5>. QED BY <5>1, <5>2, <5>4, <3>4, <3>9 DEF IsByte, read
      <4>. QED BY <3>4, <4>2, <4>3, SeqEqual DEF read
    <3>10. PrintedTrue'
      <4> SUFFICES ASSUME NEW i \in DOMAIN printed', Behind(i - 1) \in Mapped
                   PROVE  printed'[i] = mem[Behind(i - 1)]
        BY <2>1, <2>4 DEF PrintedTrue
      <4>1. CASE i = Len(printed) + 1
        <5>1. i - 1 = Len(printed) /\ printed'[i] = word
          BY <4>1, <2>1, <3>3, <3>4
        <5>. QED BY <5>1, <3>9
      <4>2. CASE i \in DOMAIN printed
        <5>1. printed'[i] = printed[i]
          BY <4>2, <2>1, <3>3, <3>4
        <5>. QED BY <5>1, <4>2, <2>3 DEF PrintedTrue
      <4>3. i = Len(printed) + 1 \/ i \in DOMAIN printed
        BY <2>1, <3>3, <3>4
      <4>. QED BY <4>1, <4>2, <4>3
    <3>. QED BY <2>4, <3>7, <3>8, <3>10
  <2>. QED BY <1>2, <2>5, <2>6
<1>. QED BY <1>1, <1>2 DEF Serve

(* A read that met no fault prints the words of memory it was asked for,     *)
(* whatever a transfer before it left in the input buffer (ReadIsTrue).      *)
THEOREM PrintsWhatIsThere == Spec => []ReadIsTrue
<1>1. Init => Faithful
  BY DEF Init, Faithful, Reading
<1>2. TypeInv /\ InStep /\ InStep' /\ Faithful /\ [Next]_vars => Faithful'
  <2> SUFFICES ASSUME TypeInv, InStep, InStep', Faithful, [Next]_vars PROVE Faithful'
    OBVIOUS
  <2>1. ASSUME NEW t \in Transfers, Ask(t) PROVE Faithful'
    <3>1. phase = "prompt" /\ transfer' = t /\ printed' = << >> /\ gate' = gate /\ rx' = Input(t)
          /\ phase' \in {"ack", "sections", "crashed"}
          /\ sound' = (Resting /\ (t.op = "R" \/ rx = << >>) /\ WholeSize(t))
      BY <2>1 DEF Ask
    <3>2. CASE sound'
      <4>1. rx' = << >> /\ gate'.st = "IDLE"
        BY <3>1, <3>2 DEF Input, Resting
      <4>. QED BY <3>1, <4>1 DEF Faithful, Reading, PrintedTrue, BufferTrue, GateTrue
    <3>3. CASE ~ sound'
      BY <3>3 DEF Faithful, Reading
    <3>. QED BY <3>2, <3>3
  <2>2. CASE Serve
    BY <2>2, FaithfulServe
  <2>3. CASE Quit
    BY <2>3 DEF Quit, Faithful, Reading
  <2>4. CASE Lose
    BY <2>4 DEF Lose, Faithful, Reading
  <2>5. CASE Gateway
    BY <2>5, FaithfulGateway
  <2>6. CASE UNCHANGED vars
    BY <2>6 DEF vars, terminal, history, Faithful, Reading, PrintedTrue, BufferTrue, GateTrue, Behind, IsByte,
                NextByte, Ahead, Here, Total
  <2>. QED BY <2>1, <2>2, <2>3, <2>4, <2>5, <2>6 DEF Next
<1>3. Faithful => ReadIsTrue
  BY DEF Faithful, Reading, PrintedTrue, Behind, Total, ReadIsTrue, Reads
<1>. QED BY <1>1, <1>2, <1>3, InStepInvariance, PTL DEF Spec
-------------------------------------------------------------------------------
(* Bytes and words.  The bytes that words bring to memory, from address at.  *)
Image(at, words) ==
  {<<at + (k - 1) * WordBytes + (WordBytes - b), words[k][b]>> : k \in DOMAIN words, b \in 1..WordBytes}
Line(at, bytes) == {<<at + m - 1, bytes[m]>> : m \in DOMAIN bytes}

LEMMA ImageOf ==
  ASSUME NEW at \in Int, NEW words \in Seq(Seq(Byte)), NEW x
  PROVE  x \in Image(at, words) <=>
           \E k \in 1..Len(words), b \in 1..WordBytes : x = <<at + (k - 1) * WordBytes + (WordBytes - b), words[k][b]>>
BY DEF Image

LEMMA ImageOfConcat ==
  ASSUME NEW at \in Int, NEW u \in Seq(Seq(Byte)), NEW v \in Seq(Seq(Byte))
  PROVE  Image(at, u \o v) = Image(at, u) \cup Image(at + Len(u) * WordBytes, v)
<1> DEFINE n == Len(u)
           m == Len(v)
           w == u \o v
           next == at + n * WordBytes
<1>1. n \in Nat /\ m \in Nat /\ WordBytes \in Nat \ {0} /\ w \in Seq(Seq(Byte)) /\ Len(w) = n + m
      /\ n * WordBytes \in Nat /\ next \in Int
  <2>1. n \in Nat /\ m \in Nat /\ WordBytes \in Nat \ {0} /\ w \in Seq(Seq(Byte)) /\ Len(w) = n + m
    BY WordAssumption
  <2>2. n * WordBytes \in Nat
    BY <2>1, Products
  <2>. QED BY <2>1, <2>2
<1>2. \A k \in 1..n : w[k] = u[k]
  OBVIOUS
<1>3. \A k \in 1..m : w[n + k] = v[k]
  OBVIOUS
<1> HIDE DEF w, n, m, next
<1>4. \A k \in 1..m : at + ((n + k) - 1) * WordBytes = next + (k - 1) * WordBytes
  <2> TAKE k \in 1..m
  <2>1. ((n + k) - 1) * WordBytes = n * WordBytes + (k - 1) * WordBytes /\ (k - 1) * WordBytes \in Int
    BY <1>1
  <2>. QED BY <2>1, <1>1 DEF next
<1>5. ASSUME NEW x \in Image(at, w) PROVE x \in Image(at, u) \cup Image(next, v)
  <2>1. PICK k \in 1..(n + m), b \in 1..WordBytes : x = <<at + (k - 1) * WordBytes + (WordBytes - b), w[k][b]>>
    <3>1. DOMAIN w = 1..(n + m)
      BY <1>1
    <3>. QED BY <3>1 DEF Image
  <2>2. CASE k \in 1..n
    <3>1. x = <<at + (k - 1) * WordBytes + (WordBytes - b), u[k][b]>>
      BY <2>1, <2>2, <1>2
    <3>2. x \in Image(at, u)
      BY <2>2, <3>1, ImageOf DEF n
    <3>. QED BY <3>2
  <2>3. CASE k \notin 1..n
    <3>1. PICK i \in 1..m : k = n + i
      <4>1. k - n \in 1..m /\ k = n + (k - n)
        BY <2>3, <1>1
      <4>. QED BY <4>1
    <3>2. x = <<next + (i - 1) * WordBytes + (WordBytes - b), v[i][b]>>
      BY <2>1, <3>1, <1>3, <1>4
    <3>3. x \in Image(next, v)
      BY <1>1, <3>2, ImageOf DEF m
    <3>. QED BY <3>3
  <2>. QED BY <2>2, <2>3
<1>6. ASSUME NEW x \in Image(at, u) PROVE x \in Image(at, w)
  <2>1. PICK k \in 1..n, b \in 1..WordBytes : x = <<at + (k - 1) * WordBytes + (WordBytes - b), u[k][b]>>
    BY ImageOf DEF n
  <2>2. k \in 1..(n + m) /\ x = <<at + (k - 1) * WordBytes + (WordBytes - b), w[k][b]>>
    BY <2>1, <1>1, <1>2
  <2>. QED BY <2>2, <1>1, ImageOf
<1>7. ASSUME NEW x \in Image(next, v) PROVE x \in Image(at, w)
  <2>1. PICK k \in 1..m, b \in 1..WordBytes : x = <<next + (k - 1) * WordBytes + (WordBytes - b), v[k][b]>>
    <3>1. DOMAIN v = 1..m
      BY DEF m
    <3>. QED BY <3>1 DEF Image
  <2> DEFINE i == n + k
  <2>2. i \in 1..(n + m) /\ at + (i - 1) * WordBytes = next + (k - 1) * WordBytes /\ w[i] = v[k]
    <3>1. i \in 1..(n + m)
      BY <1>1
    <3>2. at + (i - 1) * WordBytes = next + (k - 1) * WordBytes
      BY <1>4
    <3>3. w[i] = v[k]
      BY <1>3
    <3>. QED BY <3>1, <3>2, <3>3
  <2> HIDE DEF i
  <2>3. x = <<at + (i - 1) * WordBytes + (WordBytes - b), w[i][b]>>
    BY <2>1, <2>2
  <2>. QED BY <2>2, <2>3, <1>1, ImageOf
<1>. QED BY <1>5, <1>6, <1>7 DEF w, next, n

(* When no word is short the groups of a line are its bytes.                 *)
LEMMA GroupsFull ==
  ASSUME NEW b \in Seq(Byte), Full(Groups(b))
  PROVE  /\ Len(b) = Len(Groups(b)) * WordBytes
         /\ \A k \in 1..Len(Groups(b)) : \A j \in 1..WordBytes : Groups(b)[k][j] = b[(k - 1) * WordBytes + (WordBytes - j) + 1]
<1> DEFINE W == WordBytes
           L == Len(b)
           n == (L + W - 1) \div W
           hi(i) == IF i * W < L THEN i * W ELSE L
           cut(i) == SubSeq(b, (i - 1) * W + 1, hi(i))
<1>1. W \in Nat \ {0} /\ L \in Nat /\ L + W - 1 \in Nat
  BY WordAssumption
<1>2. n \in Nat /\ L + W - 1 = W * n + ((L + W - 1) % W) /\ (L + W - 1) % W \in 0..(W - 1)
  <2> DEFINE s == L + W - 1
  <2>1. s \in Nat
    BY <1>1
  <2> HIDE DEF s
  <2> DEFINE d == W
  <2>d. d \in Nat \ {0}
    BY <1>1
  <2> HIDE DEF d
  <2>2. s = d * (s \div d) + (s % d) /\ s % d \in 0..(d - 1)
    BY <2>1, <2>d, Division
  <2>3. s \div d \in Nat
    BY <2>1, <2>d
  <2>. QED BY <2>2, <2>3 DEF s, d
<1>3. Groups(b) = [i \in 1..n |-> Reverse(cut(i))]
  BY DEF Groups
<1> DEFINE top == n * W
<1>4. top \in Nat /\ L <= top /\ L + W - 1 >= top
  <2>1. top = W * n /\ top \in Nat
    BY <1>1, <1>2, Products
  <2>. QED BY <2>1, <1>1, <1>2
<1> HIDE DEF n, L
<1>5. Len(Groups(b)) = n /\ \A i \in 1..n : Groups(b)[i] = Reverse(cut(i)) /\ Len(Reverse(cut(i))) = W
  <2>1. DOMAIN Groups(b) = 1..n /\ \A i \in 1..n : Groups(b)[i] = Reverse(cut(i))
    BY <1>3
  <2> HIDE DEF cut
  <2>2. \A i \in 1..n : Len(Groups(b)[i]) = W
    BY <2>1 DEF Full
  <2>3. Len(Groups(b)) = n
    BY <2>1, <1>2, GroupsType
  <2>. QED BY <2>1, <2>2, <2>3
<1>6. \A i \in 1..n : (i - 1) * W \in Nat /\ i * W = (i - 1) * W + W /\ i * W <= top
  <2> TAKE i \in 1..n
  <2>1. i \in Nat /\ i - 1 \in Nat /\ i <= n
    BY <1>2
  <2>2. (i - 1) * W \in Nat
    BY <2>1, Products
  <2>3. W * i <= W * n
    BY <2>1, <1>1, <1>2, Ordered
  <2>4. W * i = i * W /\ W * n = n * W /\ i * W = (i - 1) * W + W
    BY <2>1, <1>1, <1>2
  <2>. QED BY <2>2, <2>3, <2>4
<1>7. ASSUME NEW i \in 1..n
      PROVE  /\ hi(i) \in Nat /\ hi(i) <= L
             /\ Len(Reverse(cut(i))) = Len(cut(i))
             /\ Len(cut(i)) = IF (i - 1) * W + 1 <= hi(i) THEN hi(i) - (i - 1) * W ELSE 0
             /\ Len(Reverse(cut(i))) = Len(cut(i)) /\ cut(i) \in Seq(Byte)
             /\ \A j \in 1..Len(cut(i)) : Reverse(cut(i))[j] = b[(i - 1) * W + Len(cut(i)) - j + 1]
  <2> DEFINE lo == (i - 1) * W
             h == hi(i)
             c == SubSeq(b, lo + 1, h)
  <2>1. lo \in Nat /\ h \in Nat /\ h <= L /\ L = Len(b)
    BY <1>1, <1>6 DEF L
  <2> HIDE DEF lo, h
  <2>2. c \in Seq(Byte) /\ Len(c) = (IF lo + 1 <= h THEN h - lo ELSE 0) /\ \A j \in 1..Len(c) : c[j] = b[lo + j]
    BY <2>1
  <2>3. cut(i) = c
    BY DEF lo, h
  <2> HIDE DEF c
  <2>4. Len(Reverse(c)) = Len(c) /\ \A j \in 1..Len(c) : Reverse(c)[j] = c[Len(c) - j + 1]
    BY <2>2 DEF Reverse
  <2>5. \A j \in 1..Len(c) : Reverse(c)[j] = b[lo + Len(c) - j + 1]
    <3> TAKE j \in 1..Len(c)
    <3>1. Len(c) - j + 1 \in 1..Len(c) /\ lo + (Len(c) - j + 1) = lo + Len(c) - j + 1
      BY <2>1, <2>2
    <3>. QED BY <3>1, <2>2, <2>4
  <2>. QED BY <2>1, <2>2, <2>3, <2>4, <2>5 DEF lo, h
<1>8. \A i \in 1..n : Len(cut(i)) = W
  BY <1>5, <1>7
<1>9. L = top
  <2>1. CASE n = 0
    BY <2>1, <1>1, <1>4
  <2>2. CASE n # 0
    <3>1. n \in 1..n
      BY <2>2, <1>2
    <3>2. Len(cut(n)) = W /\ hi(n) = L
      <4>1. Len(cut(n)) = W
        BY <3>1, <1>8
      <4>2. hi(n) = IF top < L THEN top ELSE L
        OBVIOUS
      <4>3. ~ (top < L)
        <5> HIDE DEF top
        <5>. QED BY <1>1, <1>4
      <4>. QED BY <4>1, <4>2, <4>3
    <3> DEFINE lo == (n - 1) * W
    <3>3. lo \in Nat /\ top = lo + W /\ Len(cut(n)) = IF lo + 1 <= L THEN L - lo ELSE 0
      BY <3>1, <3>2, <1>6, <1>7
    <3> DEFINE c == Len(cut(n))
    <3>4. c = W /\ c = IF lo + 1 <= L THEN L - lo ELSE 0
      BY <3>2, <3>3
    <3> HIDE DEF lo, top, c
    <3>. QED BY <3>3, <3>4, <1>1
  <2>. QED BY <2>1, <2>2
<1>10. ASSUME NEW k \in 1..n, NEW j \in 1..W PROVE Groups(b)[k][j] = b[(k - 1) * W + (W - j) + 1]
  <2>1. Groups(b)[k] = Reverse(cut(k)) /\ Len(cut(k)) = W
    BY <1>5, <1>8
  <2>2. Reverse(cut(k))[j] = b[(k - 1) * W + W - j + 1]
    BY <2>1, <1>7
  <2> DEFINE lo == (k - 1) * W
  <2>3. lo \in Nat
    BY <1>6
  <2> HIDE DEF lo
  <2>4. lo + W - j + 1 = lo + (W - j) + 1
    BY <2>3, <1>1
  <2>. QED BY <2>1, <2>2, <2>4 DEF lo
<1>. QED BY <1>5, <1>9, <1>10 DEF L

LEMMA ImageOfGroups ==
  ASSUME NEW at \in Int, NEW b \in Seq(Byte), Full(Groups(b))
  PROVE  Image(at, Groups(b)) = Line(at, b)
<1> DEFINE W == WordBytes
           g == Groups(b)
           n == Len(g)
<1>1. W \in Nat \ {0} /\ g \in Seq(Seq(Byte)) /\ n \in Nat
  BY WordAssumption, GroupsType
<1>t. Len(b) = n * W
  BY GroupsFull
<1>b. \A k \in 1..n : \A j \in 1..W : g[k][j] = b[(k - 1) * W + (W - j) + 1]
  BY GroupsFull
<1> HIDE DEF g, n
<1>2. ASSUME NEW x \in Image(at, g) PROVE x \in Line(at, b)
  <2>1. PICK k \in 1..n, j \in 1..W : x = <<at + (k - 1) * W + (W - j), g[k][j]>>
    <3>1. DOMAIN g = 1..n
      BY <1>1 DEF n
    <3>. QED BY <3>1 DEF Image
  <2> DEFINE lo == (k - 1) * W
             m == lo + (W - j) + 1
  <2>2. lo \in Nat /\ lo + W <= Len(b)
    <3>1. k - 1 \in Nat /\ lo \in Nat /\ k \in Nat
      BY <1>1, Products
    <3>2. W * k <= W * n
      BY <1>1, <3>1, Ordered
    <3>3. W * k = lo + W /\ W * n = n * W
      BY <1>1, <3>1
    <3>. QED BY <3>1, <3>2, <3>3, <1>t
  <2> HIDE DEF lo
  <2>3. m \in 1..Len(b) /\ at + lo + (W - j) = at + m - 1
    BY <2>2, <1>1
  <2>4. x = <<at + m - 1, b[m]>>
    <3>1. g[k][j] = b[m]
      BY <1>b DEF lo
    <3>. QED BY <2>1, <2>3, <3>1 DEF lo
  <2>. QED BY <2>3, <2>4 DEF Line
<1>3. ASSUME NEW x \in Line(at, b) PROVE x \in Image(at, g)
  <2>1. PICK m \in 1..Len(b) : x = <<at + m - 1, b[m]>>
    BY DEF Line
  <2> DEFINE q == (m - 1) \div W
             r == (m - 1) % W
             k == q + 1
             j == W - r
  <2>2. m - 1 \in Nat /\ q \in Nat /\ r \in 0..(W - 1) /\ m - 1 = W * q + r
    <3> DEFINE s == m - 1
    <3>1. s \in Nat
      BY <1>1
    <3> HIDE DEF s
    <3> DEFINE d == W
    <3>d. d \in Nat \ {0}
      BY <1>1
    <3> HIDE DEF d
    <3>i. s \in Int
      BY <3>1
    <3>2. s = d * (s \div d) + (s % d) /\ s % d \in 0..(d - 1)
      BY <3>i, <3>d, Division, Zenon
    <3>3. s \div d \in Nat
      BY <3>1, <3>d
    <3>. QED BY <3>1, <3>2, <3>3 DEF s, d
  <2> HIDE DEF q, r
  <2>3. q <= n - 1
    <3> SUFFICES ASSUME ~ (q <= n - 1) PROVE FALSE
      OBVIOUS
    <3>1. W * n <= W * q
      BY <2>2, <1>1, Ordered, n <= q
    <3>2. W * n = n * W /\ W * n \in Int /\ W * q \in Int
      BY <1>1, <2>2
    <3> DEFINE x1 == W * n
               x2 == W * q
    <3>3. x1 <= x2 /\ x1 = Len(b) /\ x2 \in Int /\ m - 1 = x2 + r
      BY <3>1, <3>2, <2>2, <1>t
    <3> HIDE DEF x1, x2
    <3>. QED BY <3>3, <2>1, <2>2, <1>1
  <2>4. k \in 1..n /\ j \in 1..W /\ k - 1 = q /\ W - j = r
    BY <2>2, <2>3, <1>1
  <2>5. (k - 1) * W = W * q /\ W * q \in Int
    BY <2>2, <2>4, <1>1
  <2> DEFINE lo == (k - 1) * W
  <2>6. lo \in Int /\ m = lo + (W - j) + 1
    BY <2>1, <2>2, <2>4, <2>5
  <2>7. g[k][j] = b[m]
    BY <2>4, <2>6, <1>b
  <2> HIDE DEF k, j
  <2>8. x = <<at + lo + (W - j), g[k][j]>>
    <3> HIDE DEF lo
    <3>0. W - j \in Int /\ lo \in Int /\ m = lo + (W - j) + 1
      BY <2>2, <2>4, <2>6
    <3>1. at + m - 1 = at + lo + (W - j)
      BY <3>0
    <3>. QED BY <2>1, <2>7, <3>1
  <2>. QED BY <2>4, <2>8, <1>1, ImageOf DEF n
<1>. QED BY <1>2, <1>3 DEF g
-------------------------------------------------------------------------------
(* What the sections of a file bring to memory is what the file asks for.    *)
AllFull(s) == \A j \in DOMAIN s : Full(s[j].words)
Aligned(base, s) == \A j \in DOMAIN s : s[j].address \in Nat /\ (base + s[j].address) % WordBytes = 0
Played(base, s) == UNION {Image(base + s[j].address, s[j].words) : j \in DOMAIN s}
Sections(p) == Append(p.done, Section(p.address, p.words))
PlacingOf == [next : Nat, bytes : SUBSET (Nat \X Byte)]

LEMMA FullConcat ==
  ASSUME NEW u \in Seq(Seq(Byte)), NEW v \in Seq(Seq(Byte))
  PROVE  Full(u \o v) => Full(u) /\ Full(v)
<1> SUFFICES ASSUME Full(u \o v) PROVE Full(u) /\ Full(v)
  OBVIOUS
<1>1. \A i \in 1..Len(u) : i \in DOMAIN (u \o v) /\ (u \o v)[i] = u[i]
  OBVIOUS
<1>2. \A i \in 1..Len(v) : Len(u) + i \in DOMAIN (u \o v) /\ (u \o v)[Len(u) + i] = v[i]
  OBVIOUS
<1>3. DOMAIN u = 1..Len(u) /\ DOMAIN v = 1..Len(v)
  OBVIOUS
<1> DEFINE w == u \o v
<1>4. \A i \in DOMAIN w : Len(w[i]) = WordBytes
  BY DEF Full
<1> HIDE DEF w
<1>5. \A i \in DOMAIN u : Len(u[i]) = WordBytes
  <2> TAKE i \in DOMAIN u
  <2>1. i \in DOMAIN w /\ w[i] = u[i]
    BY <1>1, <1>3 DEF w
  <2>2. Len(w[i]) = WordBytes
    BY <1>4, <2>1
  <2>. QED BY <2>1, <2>2
<1>6. \A i \in DOMAIN v : Len(v[i]) = WordBytes
  <2> TAKE i \in DOMAIN v
  <2>1. Len(u) + i \in DOMAIN w /\ w[Len(u) + i] = v[i]
    BY <1>2, <1>3 DEF w
  <2>2. Len(w[Len(u) + i]) = WordBytes
    BY <1>4, <2>1
  <2>. QED BY <2>1, <2>2
<1>. QED BY <1>5, <1>6 DEF Full

LEMMA AppendedSection ==
  ASSUME NEW base, NEW s \in Seq(SectionOf), NEW x \in SectionOf
  PROVE  /\ Played(base, Append(s, x)) = Played(base, s) \cup Image(base + x.address, x.words)
         /\ AllFull(Append(s, x)) <=> AllFull(s) /\ Full(x.words)
         /\ Aligned(base, Append(s, x)) <=> /\ Aligned(base, s) /\ x.address \in Nat
                                            /\ (base + x.address) % WordBytes = 0
<1> DEFINE y == Append(s, x)
           n == Len(s)
<1>1. n \in Nat /\ DOMAIN s = 1..n /\ DOMAIN y = 1..(n + 1) /\ y[n + 1] = x /\ \A j \in 1..n : y[j] = s[j]
  OBVIOUS
<1> HIDE DEF y, n
<1>2. Played(base, y) = Played(base, s) \cup Image(base + x.address, x.words)
  <2>1. ASSUME NEW z \in Played(base, y) PROVE z \in Played(base, s) \cup Image(base + x.address, x.words)
    <3>1. PICK j \in 1..(n + 1) : z \in Image(base + y[j].address, y[j].words)
      BY <1>1 DEF Played
    <3>2. CASE j = n + 1
      BY <3>1, <3>2, <1>1
    <3>3. CASE j \in 1..n
      BY <3>1, <3>3, <1>1 DEF Played
    <3>. QED BY <3>2, <3>3, <1>1
  <2>2. ASSUME NEW z \in Played(base, s) PROVE z \in Played(base, y)
    <3>1. PICK j \in 1..n : z \in Image(base + s[j].address, s[j].words)
      BY <1>1 DEF Played
    <3>2. j \in 1..(n + 1) /\ z \in Image(base + y[j].address, y[j].words)
      BY <3>1, <1>1
    <3>. QED BY <3>2, <1>1 DEF Played
  <2>3. ASSUME NEW z \in Image(base + x.address, x.words) PROVE z \in Played(base, y)
    <3>1. n + 1 \in 1..(n + 1) /\ z \in Image(base + y[n + 1].address, y[n + 1].words)
      BY <2>3, <1>1
    <3>. QED BY <3>1, <1>1 DEF Played
  <2>. QED BY <2>1, <2>2, <2>3
<1>3. \A j \in 1..(n + 1) : j = n + 1 \/ j \in 1..n
  BY <1>1
<1>4. n + 1 \in 1..(n + 1) /\ \A j \in 1..n : j \in 1..(n + 1)
  BY <1>1
<1>5. AllFull(y) <=> AllFull(s) /\ Full(x.words)
  BY <1>1, <1>3, <1>4 DEF AllFull
<1>6. Aligned(base, y) <=> Aligned(base, s) /\ x.address \in Nat /\ (base + x.address) % WordBytes = 0
  BY <1>1, <1>3, <1>4 DEF Aligned
<1>. QED BY <1>2, <1>5, <1>6 DEF y

LEMMA PlaceLineType ==
  ASSUME NEW q \in PlacingOf, NEW line \in FileLine, NEW base \in Nat
  PROVE  PlaceLine(q, line, base) \in PlacingOf
<1>1. q.next \in Nat /\ q.bytes \in SUBSET (Nat \X Byte)
  BY DEF PlacingOf
<1>2. CASE line[1] = "@"
  <2>1. line[2] \in Nat
    BY <1>2 DEF FileLine
  <2>. QED BY <1>1, <1>2, <2>1 DEF PlaceLine, PlacingOf
<1>3. CASE line[1] # "@"
  <2>1. line[2] \in Seq(Byte)
    BY <1>3 DEF FileLine
  <2>2. {<<q.next + k - 1, line[2][k]>> : k \in DOMAIN line[2]} \in SUBSET (Nat \X Byte)
    <3>1. ASSUME NEW k \in DOMAIN line[2] PROVE <<q.next + k - 1, line[2][k]>> \in Nat \X Byte
      <4>1. k \in Nat /\ k >= 1 /\ line[2][k] \in Byte
        BY <2>1
      <4>2. q.next + k - 1 \in Nat
        BY <4>1, <1>1
      <4>. QED BY <4>1, <4>2
    <3>. QED BY <3>1
  <2>3. Len(line[2]) \in Nat
    BY <2>1
  <2>. QED BY <1>1, <1>3, <2>2, <2>3 DEF PlaceLine, PlacingOf
<1>. QED BY <1>2, <1>3

LEMMA PlacedRuns ==
  ASSUME NEW file \in Seq(FileLine), NEW start \in Nat
  PROVE  \E g \in [0..Len(file) -> PlacingOf] :
           /\ g[0] = [next |-> start, bytes |-> {}]
           /\ \A i \in 1..Len(file) : g[i] = PlaceLine(g[i - 1], file[i], start)
           /\ Placed(file, start) = g[Len(file)].bytes
<1> DEFINE n == Len(file)
           base == [next |-> start, bytes |-> {}]
           F == [i \in Nat |-> [p \in PlacingOf |-> IF i + 1 \in 1..n THEN PlaceLine(p, file[i + 1], start) ELSE p]]
<1>1. base \in PlacingOf /\ n \in Nat
  BY DEF PlacingOf
<1>2. F \in [Nat -> [PlacingOf -> PlacingOf]]
  <2>1. ASSUME NEW i \in Nat, NEW p \in PlacingOf
        PROVE  (IF i + 1 \in 1..n THEN PlaceLine(p, file[i + 1], start) ELSE p) \in PlacingOf
    <3>1. CASE i + 1 \in 1..n
      <4>1. file[i + 1] \in FileLine
        BY <3>1
      <4>. QED BY <3>1, <4>1, PlaceLineType
    <3>2. CASE i + 1 \notin 1..n
      BY <3>2
    <3>. QED BY <3>1, <3>2
  <2>. QED BY <2>1
<1> HIDE DEF base, F
<1>3. PICK g \in [0..n -> PlacingOf] : Runs(base, F, n, g)
  BY <1>1, <1>2, RunExists
<1>4. g[0] = base
  BY <1>3 DEF Runs
<1>5. ASSUME NEW i \in 1..n PROVE g[i] = PlaceLine(g[i - 1], file[i], start)
  <2>1. i - 1 \in 0..(n - 1) /\ (i - 1) + 1 = i /\ i - 1 \in Nat /\ g[i - 1] \in PlacingOf
    BY <1>1
  <2>2. g[i] = F[i - 1][g[i - 1]]
    BY <1>3, <2>1 DEF Runs
  <2>. QED BY <2>1, <2>2 DEF F
<1> DEFINE Placing(f) == f = [i \in 0..n |-> IF i = 0 THEN base ELSE PlaceLine(f[i - 1], file[i], start)]
<1>6. Placing(g)
  <2>1. ASSUME NEW i \in 0..n PROVE g[i] = IF i = 0 THEN base ELSE PlaceLine(g[i - 1], file[i], start)
    BY <1>4, <1>5, i # 0 => i \in 1..n
  <2>. QED BY <1>3, <2>1, Zenon
<1> DEFINE placed == CHOOSE f : Placing(f)
<1>7. Placing(placed)
  BY <1>6, Zenon
<1>8. Placed(file, start) = placed[n].bytes
  BY DEF Placed, base
<1> HIDE DEF placed
<1>9. \A i \in 0..n : placed[i] = g[i]
  <2>1. placed = [i \in 0..n |-> IF i = 0 THEN base ELSE PlaceLine(placed[i - 1], file[i], start)]
    BY <1>7
  <2> DEFINE T == {i \in Nat : i <= n => placed[i] = g[i]}
  <2>2. 0 \in T
    BY <2>1, <1>4, <1>1
  <2>3. ASSUME NEW i \in Nat, i \in T PROVE i + 1 \in T
    <3> SUFFICES ASSUME i + 1 <= n PROVE placed[i + 1] = g[i + 1]
      OBVIOUS
    <3>1. i + 1 \in 1..n /\ i + 1 \in 0..n /\ i + 1 # 0 /\ (i + 1) - 1 = i /\ placed[i] = g[i]
      BY <2>3, <1>1
    <3>2. placed[i + 1] = PlaceLine(placed[i], file[i + 1], start)
      BY <2>1, <3>1
    <3>3. g[i + 1] = PlaceLine(g[i], file[i + 1], start)
      BY <1>5, <3>1
    <3>. QED BY <3>1, <3>2, <3>3
  <2> HIDE DEF T
  <2>4. \A i \in Nat : i \in T
    BY <2>2, <2>3, NatSetInduction
  <2>. QED BY <2>4, <1>1 DEF T
<1>10. Placed(file, start) = g[n].bytes
  BY <1>1, <1>8, <1>9
<1>. QED BY <1>3, <1>4, <1>5, <1>10 DEF base

(* One line: parsed and placed side by side.                                 *)
Beside(base, p, q) ==
  /\ p.address \in Nat
  /\ AllFull(Sections(p)) => q.bytes = Played(base, Sections(p)) /\ q.next = base + p.address + Len(p.words) * WordBytes

LEMMA SectionsOf ==
  ASSUME NEW p \in Parsing, NEW base
  PROVE  /\ Played(base, Sections(p)) = Played(base, p.done) \cup Image(base + p.address, p.words)
         /\ AllFull(Sections(p)) <=> AllFull(p.done) /\ Full(p.words)
         /\ Aligned(base, Sections(p)) <=> /\ Aligned(base, p.done) /\ p.address \in Nat
                                           /\ (base + p.address) % WordBytes = 0
         /\ Sections(p) \in Seq(SectionOf)
<1>1. p.done \in Seq(SectionOf) /\ p.address \in Int /\ p.words \in Seq(Seq(Byte))
  BY DEF Parsing
<1> DEFINE x == Section(p.address, p.words)
<1>2. x \in SectionOf /\ x.address = p.address /\ x.words = p.words /\ Sections(p) = Append(p.done, x)
  BY <1>1, SectionType DEF Section, Sections
<1> HIDE DEF x
<1> DEFINE s == p.done
<1>3. s \in Seq(SectionOf) /\ Append(s, x) \in Seq(SectionOf)
  BY <1>1, <1>2
<1> HIDE DEF s
<1>4. /\ Played(base, Append(s, x)) = Played(base, s) \cup Image(base + x.address, x.words)
      /\ AllFull(Append(s, x)) <=> AllFull(s) /\ Full(x.words)
      /\ Aligned(base, Append(s, x)) <=> Aligned(base, s) /\ x.address \in Nat /\ (base + x.address) % WordBytes = 0
  BY <1>2, <1>3, AppendedSection
<1>5. Sections(p) = Append(s, x)
  BY <1>2 DEF s
<1>. QED BY <1>2, <1>3, <1>4, <1>5, Zenon DEF s

LEMMA AddressLine ==
  ASSUME NEW p \in Parsing, NEW q \in PlacingOf, NEW line \in FileLine, NEW base \in Nat, line[1] = "@"
  PROVE  /\ ParseLine(p, line) \in Parsing
         /\ ParseLine(p, line).address = line[2] /\ line[2] \in Nat /\ ParseLine(p, line).words = << >>
         /\ AllFull(Sections(ParseLine(p, line))) => AllFull(Sections(p))
         /\ Played(base, Sections(ParseLine(p, line))) = Played(base, Sections(p))
         /\ Aligned(base, Sections(p)) /\ (base + line[2]) % WordBytes = 0 => Aligned(base, Sections(ParseLine(p, line)))
         /\ p.words = << >> /\ p.done = << >> /\ (base + line[2]) % WordBytes = 0 => Aligned(base, Sections(ParseLine(p, line)))
<1> DEFINE r == ParseLine(p, line)
<1>1. p.done \in Seq(SectionOf) /\ p.address \in Int /\ p.words \in Seq(Seq(Byte)) /\ line[2] \in Nat /\ r \in Parsing
  BY ParseLineType DEF Parsing, FileLine
<1>2. r.address = line[2] /\ r.words = << >> /\ r.done = IF p.words = << >> THEN p.done ELSE Sections(p)
  BY DEF ParseLine, Sections
<1> HIDE DEF r
<1>3. Full(<< >>) /\ \A at : Image(at, << >>) = {}
  BY DEF Full, Image
<1>4. Played(base, r.done) = Played(base, Sections(p)) /\ (AllFull(r.done) => AllFull(Sections(p)))
      /\ (Aligned(base, Sections(p)) => Aligned(base, r.done))
  <2>1. CASE p.words = << >>
    BY <2>1, <1>2, <1>3, SectionsOf
  <2>2. CASE p.words # << >>
    BY <2>2, <1>2
  <2>. QED BY <2>1, <2>2
<1>5. p.done = << >> => Aligned(base, p.done)
  BY DEF Aligned
<1>. QED BY <1>1, <1>2, <1>3, <1>4, <1>5, SectionsOf DEF r

LEMMA DataLine ==
  ASSUME NEW p \in Parsing, NEW q \in PlacingOf, NEW line \in FileLine, NEW base \in Nat, line[1] # "@",
         Beside(base, p, q)
  PROVE  /\ ParseLine(p, line) \in Parsing
         /\ Beside(base, ParseLine(p, line), PlaceLine(q, line, base))
         /\ Aligned(base, Sections(p)) => Aligned(base, Sections(ParseLine(p, line)))
<1> DEFINE r == ParseLine(p, line)
           s == PlaceLine(q, line, base)
           b == line[2]
           g == Groups(b)
<1>1. p.done \in Seq(SectionOf) /\ p.address \in Int /\ p.words \in Seq(Seq(Byte)) /\ b \in Seq(Byte) /\ r \in Parsing
      /\ g \in Seq(Seq(Byte))
  BY ParseLineType, GroupsType DEF Parsing, FileLine
<1>2. r.address = p.address /\ r.done = p.done /\ r.words = p.words \o g
  BY DEF ParseLine, Parsing
<1>3. s.next = q.next + Len(b) /\ s.bytes = q.bytes \cup Line(q.next, b)
  BY DEF PlaceLine, Line
<1> HIDE DEF r, s, g, b
<1>4. Aligned(base, Sections(p)) => Aligned(base, Sections(r))
  BY <1>1, <1>2, SectionsOf
<1>5. p.address \in Nat
  BY DEF Beside
<1>6. ASSUME AllFull(Sections(r))
      PROVE  s.bytes = Played(base, Sections(r)) /\ s.next = base + r.address + Len(r.words) * WordBytes
  <2>1. AllFull(p.done) /\ Full(p.words \o g)
    BY <1>1, <1>2, <1>6, SectionsOf
  <2>2. Full(p.words) /\ Full(g)
    BY <2>1, <1>1, FullConcat
  <2>3. q.bytes = Played(base, p.done) \cup Image(base + p.address, p.words)
        /\ q.next = base + p.address + Len(p.words) * WordBytes
    BY <2>1, <2>2, SectionsOf DEF Beside
  <2> DEFINE at == base + p.address
             n == Len(p.words) * WordBytes
             m == Len(g) * WordBytes
  <2>4. at \in Int /\ n \in Nat /\ m \in Nat /\ q.next = at + n /\ at + n \in Int
    <3>1. Len(p.words) \in Nat /\ Len(g) \in Nat
      BY <1>1
    <3>2. n \in Nat /\ m \in Nat
      BY <3>1, Products
    <3>3. at \in Int
      BY <1>5
    <3>. QED BY <2>3, <3>2, <3>3
  <2>5. Len(b) = m
    BY <1>1, <2>2, GroupsFull DEF g
  <2>6. Image(at, p.words \o g) = Image(at, p.words) \cup Image(at + n, g)
    <3> DEFINE u == p.words
    <3>1. at \in Int /\ u \in Seq(Seq(Byte)) /\ g \in Seq(Seq(Byte))
      BY <1>1, <2>4
    <3> HIDE DEF at, u
    <3>2. Image(at, u \o g) = Image(at, u) \cup Image(at + Len(u) * WordBytes, g)
      BY <3>1, ImageOfConcat
    <3>. QED BY <3>2 DEF u
  <2>7. Image(at + n, g) = Line(at + n, b)
    BY <1>1, <2>2, <2>4, ImageOfGroups DEF g
  <2>8. Played(base, Sections(r)) = Played(base, p.done) \cup Image(at, p.words \o g)
    BY <1>1, <1>2, SectionsOf
  <2>9. Len(r.words) * WordBytes = n + m
    <3> DEFINE u == Len(p.words)
               v == Len(g)
    <3>1. Len(r.words) = u + v /\ u \in Nat /\ v \in Nat /\ WordBytes \in Nat
      BY <1>1, <1>2, WordAssumption
    <3> HIDE DEF u, v
    <3>2. (u + v) * WordBytes = u * WordBytes + v * WordBytes
      BY <3>1
    <3>. QED BY <3>1, <3>2 DEF u, v
  <2>10. s.bytes = Played(base, Sections(r))
    <3> HIDE DEF at, n
    <3>. QED BY <1>3, <2>3, <2>4, <2>6, <2>7, <2>8 DEF at
  <2>11. s.next = base + r.address + Len(r.words) * WordBytes
    <3>1. s.next = (at + n) + m /\ at = base + r.address
      BY <1>2, <1>3, <2>4, <2>5
    <3> HIDE DEF at, n, m
    <3>2. (at + n) + m = at + (n + m)
      BY <2>4
    <3>. QED BY <3>1, <3>2, <2>9
  <2>. QED BY <2>10, <2>11
<1>. QED BY <1>1, <1>2, <1>4, <1>5, <1>6 DEF Beside, r, s

LEMMA FileImage ==
  ASSUME NEW file \in Seq(FileLine), file # << >>, file[1][1] = "@", NEW base \in Nat
  PROVE  /\ AllFull(Parse(file)) => Placed(file, base) = Played(base, Parse(file))
         /\ (\A i \in DOMAIN file : file[i][1] = "@" => (base + file[i][2]) % WordBytes = 0) => Aligned(base, Parse(file))
<1> DEFINE n == Len(file)
<1>1. PICK g \in [0..n -> Parsing] :
        /\ g[0] = [done |-> << >>, address |-> -1, words |-> << >>]
        /\ \A i \in 1..n : g[i] = ParseLine(g[i - 1], file[i])
        /\ ParseLines(file) = g[n]
  BY ParseRuns
<1>2. PICK h \in [0..n -> PlacingOf] :
        /\ h[0] = [next |-> base, bytes |-> {}]
        /\ \A i \in 1..n : h[i] = PlaceLine(h[i - 1], file[i], base)
        /\ Placed(file, base) = h[n].bytes
  BY PlacedRuns
<1>3. n \in Nat /\ n >= 1 /\ \A i \in 1..n : file[i] \in FileLine
  OBVIOUS
<1> DEFINE Straight == \A i \in 1..n : file[i][1] = "@" => (base + file[i][2]) % WordBytes = 0
           Fine(i) == Beside(base, g[i], h[i]) /\ (Straight => Aligned(base, Sections(g[i])))
           T == {i \in Nat : i + 1 <= n => Fine(i + 1)}
<1>4. ASSUME NEW i \in 1..n, file[i][1] = "@", i = 1 \/ Fine(i - 1)
      PROVE  Fine(i)
  <2> DEFINE p == g[i - 1]
             q == h[i - 1]
             line == file[i]
             r == ParseLine(p, line)
             s == PlaceLine(q, line, base)
  <2>1. p \in Parsing /\ q \in PlacingOf /\ line \in FileLine /\ g[i] = r /\ h[i] = s /\ line[1] = "@"
    <3>1. i - 1 \in 0..n
      BY <1>3
    <3>. QED BY <3>1, <1>1, <1>2, <1>3, <1>4
  <2>2. Straight => (base + line[2]) % WordBytes = 0
    BY <2>1
  <2>3. AllFull(Sections(p)) => q.bytes = Played(base, Sections(p))
    <3>1. CASE i = 1
      <4>1. p = [done |-> << >>, address |-> -1, words |-> << >>] /\ q = [next |-> base, bytes |-> {}]
        BY <3>1, <1>1, <1>2
      <4>2. Played(base, p.done) = {} /\ Image(base + p.address, p.words) = {}
        BY <4>1 DEF Played, Image
      <4>3. q.bytes = {}
        BY <4>1
      <4> HIDE DEF p, q
      <4>4. Played(base, Sections(p)) = Played(base, p.done) \cup Image(base + p.address, p.words)
        BY <2>1, SectionsOf
      <4>. QED BY <4>2, <4>3, <4>4
    <3>2. CASE i # 1
      BY <3>2, <1>4 DEF Beside
    <3>. QED BY <3>1, <3>2
  <2>4. \/ p.done = << >> /\ p.words = << >>
        \/ Straight => Aligned(base, Sections(p))
    BY <1>1, <1>4
  <2>5. s.next = base + line[2] /\ s.bytes = q.bytes
    BY <2>1 DEF PlaceLine, PlacingOf
  <2>6. /\ r.address = line[2] /\ line[2] \in Nat /\ r.words = << >> /\ Played(base, Sections(r)) = Played(base, Sections(p))
        /\ AllFull(Sections(r)) => AllFull(Sections(p))
        /\ Aligned(base, Sections(p)) /\ (base + line[2]) % WordBytes = 0 => Aligned(base, Sections(r))
        /\ p.words = << >> /\ p.done = << >> /\ (base + line[2]) % WordBytes = 0 => Aligned(base, Sections(r))
    <3> HIDE DEF p, q, line
    <3>. QED BY <2>1, AddressLine
  <2>7. base + r.address + Len(r.words) * WordBytes = base + line[2]
    <3>1. Len(r.words) = 0 /\ WordBytes \in Nat
      BY <2>6, WordAssumption
    <3>2. Len(r.words) * WordBytes = 0
      BY <3>1
    <3>. QED BY <3>2, <2>6
  <2> HIDE DEF p, q, line, r, s, Straight
  <2>8. Beside(base, r, s)
    BY <2>3, <2>5, <2>6, <2>7 DEF Beside
  <2>9. Straight => Aligned(base, Sections(r))
    BY <2>2, <2>4, <2>6
  <2>. QED BY <2>1, <2>8, <2>9
<1>5. ASSUME NEW i \in 2..n, file[i][1] # "@", Fine(i - 1)
      PROVE  Fine(i)
  <2> DEFINE p == g[i - 1]
             q == h[i - 1]
             line == file[i]
             r == ParseLine(p, line)
             s == PlaceLine(q, line, base)
  <2>1. p \in Parsing /\ q \in PlacingOf /\ line \in FileLine /\ g[i] = r /\ h[i] = s /\ line[1] # "@"
    <3>1. i - 1 \in 0..n /\ i \in 1..n
      BY <1>3
    <3>. QED BY <3>1, <1>1, <1>2, <1>3, <1>5
  <2> HIDE DEF p, q, line, Straight
  <2>2. Beside(base, p, q) /\ (Straight => Aligned(base, Sections(p)))
    BY <1>5 DEF p, q
  <2>3. Beside(base, r, s) /\ (Aligned(base, Sections(p)) => Aligned(base, Sections(r)))
    BY <2>1, <2>2, DataLine
  <2>. QED BY <2>1, <2>2, <2>3
<1> HIDE DEF Fine
<1>6. 0 \in T
  BY <1>3, <1>4
<1>7. ASSUME NEW i \in Nat, i \in T PROVE i + 1 \in T
  <2> SUFFICES ASSUME (i + 1) + 1 <= n PROVE Fine((i + 1) + 1)
    OBVIOUS
  <2>1. (i + 1) + 1 \in 1..n /\ (i + 1) + 1 \in 2..n /\ ((i + 1) + 1) - 1 = i + 1
    BY <1>3
  <2>2. Fine(i + 1)
    BY <1>7, <2>1, <1>3
  <2>. QED BY <2>1, <2>2, <1>4, <1>5
<1> HIDE DEF T
<1>8. \A i \in Nat : i \in T
  BY <1>6, <1>7, NatSetInduction
<1>9. Fine(n)
  <2>1. n - 1 \in Nat /\ (n - 1) + 1 = n
    BY <1>3
  <2>. QED BY <1>8, <2>1, <1>3 DEF T
<1>10. Parse(file) = Sections(g[n])
  BY <1>1 DEF Parse, Sections
<1>. QED BY <1>2, <1>9, <1>10 DEF Fine, Beside
-------------------------------------------------------------------------------
(* A word of memory and the bytes behind it.                                 *)
LEMMA WordOfMultiple ==
  ASSUME NEW c \in Nat, WordBytes * c < Space
  PROVE  WordAt(WordBytes * c) = c /\ c \in Words
<1> DEFINE a == WordBytes * c
           t == Space \div WordBytes
<1>1. WordBytes \in Nat \ {0} /\ Space \in Nat \ {0} /\ Space % WordBytes = 0 /\ a \in Nat /\ a < Space
  <2>1. \A p, q \in Nat : p * q \in Nat
    OBVIOUS
  <2>. QED BY <2>1, WordAssumption
<1>2. Space = WordBytes * t /\ t \in Nat
  <2>1. Space = WordBytes * t + (Space % WordBytes)
    BY <1>1, Division
  <2>2. t \in Nat
    BY <1>1
  <2>. QED BY <2>1, <2>2, <1>1
<1>3. WordAt(a) = c
  <2>1. a = WordBytes * c + 0 /\ 0 \in 0..(WordBytes - 1) /\ c \in Int
    BY <1>1
  <2>2. a \div WordBytes = c
    BY <2>1, <1>1, DivUnique
  <2> HIDE DEF a
  <2>3. a % Space = a
    BY <1>1, DivUnique, a = Space * 0 + a, a \in 0..(Space - 1), a \in Int, 0 \in Int
  <2>. QED BY <2>2, <2>3 DEF WordAt
<1>4. ~ (t <= c)
  <2> SUFFICES ASSUME t <= c PROVE FALSE
    OBVIOUS
  <2>1. WordBytes * t <= WordBytes * c
    BY <1>1, <1>2, Ordered
  <2> DEFINE x == WordBytes * t
  <2> HIDE DEF a, t, x
  <2>2. x <= a /\ Space = x
    BY <2>1, <1>2 DEF a, x
  <2>. QED BY <2>2, <1>1
<1>5. c \in Words
  BY <1>2, <1>4 DEF Words
<1>. QED BY <1>3, <1>5

(* An aligned word lies within one word of memory.                           *)
LEMMA WordBegins ==
  ASSUME NEW at \in Nat, at % WordBytes = 0, NEW k \in Nat, NEW r \in 0..(WordBytes - 1), NEW v \in Nat,
         NEW s \in 0..(WordBytes - 1), at + k * WordBytes + r = v * WordBytes + s, v * WordBytes + s < Space
  PROVE  r = s /\ WordAt(at + k * WordBytes) = v /\ v \in Words
<1>1. PICK c \in Nat : at = WordBytes * c
  BY Multiples
<1>2. WordBytes \in Nat \ {0} /\ k * WordBytes \in Nat /\ v * WordBytes \in Nat
  BY WordAssumption, Products
<1> DEFINE n == v * WordBytes + s
           q == c + k
<1>3. at + k * WordBytes = WordBytes * q
  BY <1>1, <1>2
<1>4. n = WordBytes * q + r /\ n = WordBytes * v + s /\ n \in Int /\ q \in Int /\ v \in Int /\ WordBytes * v = v * WordBytes
  <2>1. v * WordBytes = WordBytes * v
    BY <1>2
  <2>. QED BY <2>1, <1>3, <1>2
<1>5. q = v /\ r = s
  <2> HIDE DEF n, q
  <2>1. n \div WordBytes = q /\ n % WordBytes = r
    BY <1>2, <1>4, DivUnique
  <2>2. n \div WordBytes = v /\ n % WordBytes = s
    BY <1>2, <1>4, DivUnique
  <2>. QED BY <2>1, <2>2
<1>6. WordBytes * v < Space
  BY <1>4, <1>2, WordAssumption
<1>. QED BY <1>3, <1>5, <1>6, WordOfMultiple

LEMMA LoadedWords ==
  ASSUME NEW m \in [Words -> Word], NEW file \in Files, ~ Unreadable(file), NEW base \in 0..(Space - 1),
         Tidy(file, base), AllFull(Parse(file))
  PROVE  /\ Aligned(base, Parse(file))
         /\ \A j \in DOMAIN Parse(file) : \A k \in DOMAIN Parse(file)[j].words :
              LET w == WordAt(base + Parse(file)[j].address + (k - 1) * WordBytes)
              IN  w \in Mapped => Loaded(m, file, base)[w] = Parse(file)[j].words[k]
         /\ \A w \in Words : Loaded(m, file, base)[w] # m[w] =>
              /\ w \in Mapped
              /\ \E j \in DOMAIN Parse(file) : \E k \in DOMAIN Parse(file)[j].words :
                    w = WordAt(base + Parse(file)[j].address + (k - 1) * WordBytes)
<1> DEFINE S == Parse(file)
           At(j) == base + S[j].address
           P == Placed(file, base)
           new == Loaded(m, file, base)
           Here1(w, i) == {p \in P : p[1] = w * WordBytes + (WordBytes - i)}
<1>1. file \in Seq(FileLine) /\ S \in Seq(SectionOf) /\ file # << >> /\ file[1][1] = "@" /\ base \in Nat
      /\ WordBytes \in Nat \ {0} /\ Mapped \subseteq Words
  BY ParseType, WordAssumption, InputAssumption DEF Unreadable
<1>2. Aligned(base, S) /\ P = Played(base, S)
  BY <1>1, FileImage DEF Tidy
<1>3. (\A p, q \in P : p[1] = q[1] => p[2] = q[2]) /\ \A p \in P : p[1] < Space
  BY DEF Tidy
<1>4. \A w \in Words : new[w] = IF w \notin Mapped THEN m[w] ELSE
         [i \in 1..WordBytes |-> IF Here1(w, i) = {} THEN m[w][i] ELSE (CHOOSE p \in Here1(w, i) : TRUE)[2]]
  BY DEF Loaded
<1> HIDE DEF S, P, new
<1>5. ASSUME NEW j \in DOMAIN S
      PROVE  At(j) \in Nat /\ At(j) % WordBytes = 0 /\ S[j].words \in Seq(Seq(Byte)) /\ Full(S[j].words)
  <2>1. S[j] \in SectionOf
    BY <1>1
  <2>2. S[j].words \in Seq(Seq(Byte)) /\ Full(S[j].words)
    BY <2>1 DEF AllFull, SectionOf, S
  <2>3. S[j].address \in Nat /\ At(j) % WordBytes = 0
    BY <1>2 DEF Aligned
  <2>. QED BY <2>2, <2>3, <1>1
<1>6. ASSUME NEW j \in DOMAIN S, NEW k \in DOMAIN S[j].words, NEW b \in 1..WordBytes
      PROVE  <<At(j) + (k - 1) * WordBytes + (WordBytes - b), S[j].words[k][b]>> \in P
  BY <1>2 DEF Played, Image
<1>7. ASSUME NEW j \in DOMAIN S, NEW k \in DOMAIN S[j].words,
             WordAt(At(j) + (k - 1) * WordBytes) \in Mapped
      PROVE  new[WordAt(At(j) + (k - 1) * WordBytes)] = S[j].words[k]
  <2> DEFINE a == At(j) + (k - 1) * WordBytes
             w == WordAt(a)
             word == S[j].words[k]
  <2>1. k - 1 \in Nat /\ (k - 1) * WordBytes \in Nat /\ At(j) \in Nat /\ At(j) % WordBytes = 0 /\ a \in Nat
    <3>1. k \in Nat /\ k >= 1
      BY <1>5
    <3>2. k - 1 \in Nat
      BY <3>1
    <3> DEFINE i == k - 1
    <3>3. i \in Nat /\ At(j) \in Nat /\ At(j) % WordBytes = 0
      BY <1>5, <3>2
    <3> HIDE DEF i, At
    <3>4. i * WordBytes \in Nat
      BY <3>3, Products
    <3>5. At(j) + i * WordBytes \in Nat
      BY <3>3, <3>4
    <3>. QED BY <3>3, <3>4, <3>5 DEF i
  <2>2. word \in Seq(Byte) /\ Len(word) = WordBytes
    BY <1>5 DEF Full
  <2>3. a < Space
    <3>1. a + (WordBytes - WordBytes) = a
      BY <2>1, <1>1
    <3>2. WordBytes \in 1..WordBytes
      BY <1>1
    <3>3. a + (WordBytes - WordBytes) < Space
      BY <1>3, <1>6, <3>2
    <3>. QED BY <3>1, <3>3
  <2>4. PICK c \in Nat : a = c * WordBytes /\ WordAt(a) = c
    <3>1. PICK d \in Nat : At(j) = WordBytes * d
      BY <2>1, Multiples
    <3> DEFINE i == k - 1
               c == d + i
    <3>2. i \in Nat /\ a = At(j) + i * WordBytes
      BY <2>1
    <3> HIDE DEF i, At, a
    <3>3. c \in Nat /\ a = WordBytes * c /\ a = c * WordBytes
      BY <3>1, <3>2, <1>1
    <3> HIDE DEF c
    <3>4. WordAt(WordBytes * c) = c
      BY <2>3, <3>3, WordOfMultiple
    <3>. QED BY <3>3, <3>4
  <2>5. w = c /\ c \in Words /\ c \in Mapped
    BY <2>4, <1>1, <1>7
  <2> HIDE DEF At, a, w, word
  <2>6. ASSUME NEW i \in 1..WordBytes PROVE new[c][i] = word[i]
    <3> DEFINE p == <<c * WordBytes + (WordBytes - i), word[i]>>
    <3>1. p \in P
      BY <1>6, <2>4 DEF a, word
    <3>2. p \in Here1(c, i)
      BY <3>1
    <3>3. new[c][i] = (CHOOSE q \in Here1(c, i) : TRUE)[2]
      <4>1. new[c] = [n \in 1..WordBytes |-> IF Here1(c, n) = {} THEN m[c][n] ELSE (CHOOSE q \in Here1(c, n) : TRUE)[2]]
        BY <2>5, <1>4
      <4> HIDE DEF Here1
      <4>. QED BY <4>1, <3>2
    <3> DEFINE q == CHOOSE q \in Here1(c, i) : TRUE
    <3>4. q \in Here1(c, i)
      BY <3>2
    <3>5. q \in P /\ q[1] = p[1]
      BY <3>4
    <3>6. q[2] = p[2]
      BY <1>3, <3>1, <3>5
    <3>. QED BY <3>3, <3>6
  <2>7. new[c] = [i \in 1..WordBytes |-> new[c][i]]
    BY <2>5, <1>4
  <2>8. word = [i \in 1..WordBytes |-> word[i]]
    BY <2>2
  <2>9. new[c] = word
    BY <2>6, <2>7, <2>8
  <2>. QED BY <2>5, <2>9 DEF a, w, word
<1>8. ASSUME NEW w \in Words, new[w] # m[w]
      PROVE  w \in Mapped /\ \E j \in DOMAIN S : \E k \in DOMAIN S[j].words : w = WordAt(At(j) + (k - 1) * WordBytes)
  <2>1. w \in Mapped /\ m[w] \in Word
    BY <1>4, <1>8
  <2>2. m[w] = [i \in 1..WordBytes |-> m[w][i]]
    BY <2>1 DEF Word
  <2>3. new[w] = [i \in 1..WordBytes |-> IF Here1(w, i) = {} THEN m[w][i] ELSE (CHOOSE p \in Here1(w, i) : TRUE)[2]]
    BY <2>1, <1>4
  <2>4. PICK i \in 1..WordBytes : Here1(w, i) # {}
    <3> SUFFICES ASSUME \A i \in 1..WordBytes : Here1(w, i) = {} PROVE new[w] = m[w]
      BY <1>8
    <3> HIDE DEF Here1
    <3>. QED BY <2>2, <2>3
  <2>5. PICK p \in P : p[1] = w * WordBytes + (WordBytes - i)
    BY <2>4
  <2>6. PICK j \in DOMAIN S : p \in Image(At(j), S[j].words)
    BY <2>5, <1>2 DEF Played
  <2>7. PICK k \in DOMAIN S[j].words, b \in 1..WordBytes :
           p = <<At(j) + (k - 1) * WordBytes + (WordBytes - b), S[j].words[k][b]>>
    BY <2>6 DEF Image
  <2>8. k - 1 \in Nat /\ At(j) \in Nat /\ At(j) % WordBytes = 0 /\ WordBytes - b \in 0..(WordBytes - 1)
        /\ WordBytes - i \in 0..(WordBytes - 1) /\ w \in Nat
    <3>1. k \in Nat /\ k >= 1
      BY <1>5
    <3>. QED BY <3>1, <1>5, <1>1 DEF Words
  <2> HIDE DEF At
  <2>9. At(j) + (k - 1) * WordBytes + (WordBytes - b) = w * WordBytes + (WordBytes - i)
        /\ w * WordBytes + (WordBytes - i) < Space
    BY <2>5, <2>7, <1>3
  <2>10. WordAt(At(j) + (k - 1) * WordBytes) = w
    BY <2>8, <2>9, WordBegins
  <2>. QED BY <2>1, <2>10 DEF At
<1>. QED BY <1>2, <1>7, <1>8 DEF S, new
-------------------------------------------------------------------------------
(* What is written is what was asked.  A write is a job, a file one for each *)
(* of its sections; a job has a start and words, and it is done up to the    *)
(* word the gateway counts.                                                  *)
Jobs == IF transfer.op = "W" THEN {1} ELSE DOMAIN Parse(transfer.file)
Start(j) == IF transfer.op = "W" THEN transfer.address ELSE transfer.address + Parse(transfer.file)[j].address
Content(j) == IF transfer.op = "W" THEN <<transfer.word>> ELSE Parse(transfer.file)[j].words
WordOf(j, k) == WordAt(Start(j) + (k - 1) * WordBytes)
Now == IF transfer.op = "W" THEN 1 ELSE Len(Parse(transfer.file)) - Len(sections)

GoodSection(j) == Whole(Parse(transfer.file)[j]) /\ transfer.address + Parse(transfer.file)[j].address < Space
Fit == transfer.op = "WB" => Tidy(transfer.file, transfer.address) /\ \A j \in Jobs : GoodSection(j)

Finished == gate.st = "ACK_RESP" \/ (gate.st = "IDLE" /\ tx = << >>)
Undone(j, k) == j > Now \/ (j = Now /\ phase = "ack" /\ ~ Finished /\ (k - 1) * WordBytes >= gate.count)

(* The jobs ask for what is wanted, and all that differs is still to come.   *)
Goal == \A j \in Jobs : \A k \in DOMAIN Content(j) : WordOf(j, k) \in Mapped => wanted[WordOf(j, k)] = Content(j)[k]
Remains ==
  \A w \in Words : mem[w] # wanted[w] =>
    /\ w \in Mapped
    /\ \E j \in Jobs : \E k \in DOMAIN Content(j) : Undone(j, k) /\ w = WordOf(j, k)

(* The job under way, on the line and in the buffers of the gateway.         *)
Stream == FlattenSeq(Content(Now))
Rest(c) == SubSeq(Stream, c + 1, Len(Stream))
Order == IF transfer.op = "WB" THEN AsBytes(Len(Stream)) \o Stream ELSE Stream
Placing == gate.address = Start(Now)
Sized == transfer.op = "WB" => gate.size = Len(Stream)
Playing ==
  /\ gate.st = "IDLE" /\ tx # << >> => Tail(tx) = AsBytes(Start(Now)) \o Order
  /\ gate.st = "ADDRESS_PHASE" => gate.buf \o tx = AsBytes(Start(Now)) \o Order
  /\ gate.st = "SIZE_PHASE" => Placing /\ gate.buf \o tx = Order
  /\ gate.st = "DATA_PHASE" => Placing /\ Sized /\ gate.buf \o tx = Rest(gate.count)
  /\ gate.st = "WRITE_TO_RC" => Placing /\ Sized /\ gate.word \o tx = Rest(gate.count)

(* The sections that are left are the last ones of the file.                 *)
Progress ==
  transfer.op = "WB" =>
    /\ ~ Unreadable(transfer.file) /\ Len(sections) <= Len(Parse(transfer.file))
    /\ sections = SubSeq(Parse(transfer.file), Now + 1, Len(Parse(transfer.file)))
    /\ phase = "ack" => Now >= 1
    /\ phase = "prompt" => sections = << >>
    /\ \A j \in 1..Now : GoodSection(j)
Writing == sound /\ phase \in {"sections", "ack", "prompt"} /\ transfer # << >> /\ transfer.op \notin Reads
Loading ==
  /\ wanted = [w \in Words |-> wanted[w]]
  /\ sound /\ phase \in {"ack", "data", "prompt"} /\ (transfer = << >> \/ transfer.op \in Reads) => mem = wanted
  /\ Writing => Progress /\ (Fit => Goal /\ Remains /\ (phase = "ack" => Playing))
-------------------------------------------------------------------------------
LEMMA WordNext ==
  ASSUME NEW s \in Seq(Byte), NEW c \in Nat, NEW u \in Seq(Byte), NEW v \in Seq(Byte), Len(u) = WordBytes,
         u \o v = SubSeq(s, c + 1, Len(s))
  PROVE  /\ c + WordBytes <= Len(s) /\ v = SubSeq(s, (c + WordBytes) + 1, Len(s))
         /\ \A b \in 1..WordBytes : u[b] = s[c + b]
<1> DEFINE r == SubSeq(s, c + 1, Len(s))
           t == SubSeq(s, (c + WordBytes) + 1, Len(s))
<1>1. WordBytes \in Nat \ {0} /\ Len(s) \in Nat /\ Len(v) \in Nat
  BY WordAssumption
<1>2. r \in Seq(Byte) /\ Len(r) = (IF c + 1 <= Len(s) THEN Len(s) - c ELSE 0) /\ \A i \in 1..Len(r) : r[i] = s[c + i]
  BY <1>1
<1>3. Len(r) = WordBytes + Len(v) /\ (\A i \in 1..WordBytes : r[i] = u[i]) /\ \A i \in 1..Len(v) : r[WordBytes + i] = v[i]
  <2>1. Len(u \o v) = Len(u) + Len(v)
    OBVIOUS
  <2>2. (\A i \in 1..Len(u) : (u \o v)[i] = u[i]) /\ \A i \in 1..Len(v) : (u \o v)[Len(u) + i] = v[i]
    BY ConcatAt
  <2>. QED BY <2>1, <2>2
<1> HIDE DEF r
<1>4. c + WordBytes <= Len(s) /\ Len(v) = Len(s) - (c + WordBytes)
  BY <1>1, <1>2, <1>3
<1> DEFINE d == c + WordBytes
<1>5. d \in Nat /\ d <= Len(s) /\ Len(v) = Len(s) - d
  BY <1>1, <1>4
<1>6. \A i \in 1..WordBytes : u[i] = s[c + i]
  BY <1>1, <1>2, <1>3
<1>7. \A i \in 1..Len(v) : v[i] = s[d + i]
  <2> TAKE i \in 1..Len(v)
  <2>1. WordBytes + i \in 1..Len(r) /\ c + (WordBytes + i) = d + i
    BY <1>1, <1>3
  <2>. QED BY <2>1, <1>2, <1>3
<1> HIDE DEF d
<1>8. v = SubSeq(s, d + 1, Len(s))
  <2> DEFINE x == SubSeq(s, d + 1, Len(s))
  <2>1. x \in Seq(Byte) /\ Len(x) = Len(s) - d /\ \A i \in 1..Len(x) : x[i] = s[d + i]
    BY <1>5
  <2> HIDE DEF x
  <2>2. Len(x) = Len(v) /\ \A i \in 1..Len(v) : x[i] = v[i]
    BY <2>1, <1>5, <1>7
  <2>3. v = x
    BY <2>1, <2>2, SeqEqual
  <2>. QED BY <2>3 DEF x
<1>. QED BY <1>4, <1>6, <1>8 DEF d

LEMMA AllOf ==
  ASSUME NEW S, NEW s \in Seq(S) PROVE SubSeq(s, 0 + 1, Len(s)) = s
<1> DEFINE x == SubSeq(s, 0 + 1, Len(s))
<1>1. x \in Seq(S) /\ Len(x) = Len(s) /\ \A i \in 1..Len(s) : x[i] = s[i]
  OBVIOUS
<1> HIDE DEF x
<1>2. x = s
  BY <1>1, SeqEqual
<1>. QED BY <1>2 DEF x

(* What the jobs of a file, or of a word, are made of.                       *)
LEMMA JobType ==
  ASSUME TypeInv, transfer \in Transfers, transfer.op \notin Reads, transfer.op = "WB" => ~ Unreadable(transfer.file), Fit
  PROVE  /\ transfer.op \in {"W", "WB"}
         /\ \A j \in Jobs : /\ j \in Nat /\ Content(j) \in Seq(Seq(Byte)) /\ Full(Content(j))
                            /\ Start(j) \in 0..(Space - 1)
                            /\ FlattenSeq(Content(j)) \in Seq(Byte)
                            /\ Len(FlattenSeq(Content(j))) = Len(Content(j)) * WordBytes
                            /\ transfer.op = "W" => Len(Content(j)) = 1
                            /\ transfer.op = "WB" => Len(FlattenSeq(Content(j))) \in 1..(Space - 1)
<1>1. transfer.op \in {"W", "WB"}
  BY TransferType DEF Kinds, Reads
<1>2. CASE transfer.op = "W"
  <2>1. transfer.word \in Seq(Byte) /\ Len(transfer.word) = WordBytes /\ transfer.address \in 0..(Space - 1)
    BY <1>2, TransferType
  <2> DEFINE c == <<transfer.word>>
  <2>2. c \in Seq(Seq(Byte)) /\ Len(c) = 1 /\ Full(c)
    BY <2>1 DEF Full
  <2>3. \A j \in Jobs : j = 1 /\ Content(j) = c /\ Start(j) = transfer.address
    BY <1>2 DEF Jobs, Content, Start
  <2> HIDE DEF c
  <2>4. FlattenSeq(c) \in Seq(Byte) /\ Len(FlattenSeq(c)) = Len(c) * WordBytes
    BY <2>2, FlattenType
  <2> DEFINE d == FlattenSeq(c)
             n == Len(c) * WordBytes
  <2>5. d \in Seq(Byte) /\ Len(d) = n
    BY <2>4
  <2> HIDE DEF d, n
  <2>6. ASSUME NEW j \in Jobs
        PROVE  /\ j \in Nat /\ Content(j) \in Seq(Seq(Byte)) /\ Full(Content(j)) /\ Start(j) \in 0..(Space - 1)
               /\ FlattenSeq(Content(j)) = d /\ Len(Content(j)) * WordBytes = n /\ Len(Content(j)) = 1
    <3>1. j = 1 /\ Content(j) = c /\ Start(j) = transfer.address
      BY <2>3
    <3>2. FlattenSeq(Content(j)) = d /\ Len(Content(j)) * WordBytes = n
      BY <3>1, Zenon DEF d, n
    <3>3. Content(j) \in Seq(Seq(Byte)) /\ Full(Content(j)) /\ Len(Content(j)) = 1
      BY <3>1, <2>2
    <3>4. j \in Nat /\ Start(j) \in 0..(Space - 1)
      BY <3>1, <2>1
    <3>. QED BY <3>2, <3>3, <3>4
  <2>. QED BY <1>1, <1>2, <2>5, <2>6
<1>3. CASE transfer.op = "WB"
  <2> DEFINE S == Parse(transfer.file)
             base == transfer.address
  <2>1. transfer.file \in Files /\ base \in 0..(Space - 1) /\ ~ Unreadable(transfer.file) /\ base \in Nat
    BY <1>3, TransferType, WordAssumption
  <2>2. transfer.file \in Seq(FileLine) /\ S \in Seq(SectionOf) /\ transfer.file # << >> /\ transfer.file[1][1] = "@"
    BY <2>1, ParseType DEF Unreadable
  <2>3. Aligned(base, S)
    BY <1>3, <2>1, <2>2, FileImage DEF Fit, Tidy
  <2>4. ASSUME NEW j \in Jobs
        PROVE  /\ j \in Nat /\ Content(j) \in Seq(Seq(Byte)) /\ Full(Content(j))
               /\ Start(j) \in 0..(Space - 1)
               /\ FlattenSeq(Content(j)) \in Seq(Byte)
               /\ Len(FlattenSeq(Content(j))) = Len(Content(j)) * WordBytes
               /\ Len(FlattenSeq(Content(j))) \in 1..(Space - 1)
    <3>1. j \in DOMAIN S /\ Content(j) = S[j].words /\ Start(j) = base + S[j].address /\ Whole(S[j]) /\ base + S[j].address < Space
      BY <1>3 DEF Jobs, Content, Start, Fit, GoodSection
    <3>2. S[j].address \in Nat
      BY <3>1, <2>3 DEF Aligned
    <3> HIDE DEF S, base
    <3>3. S[j] \in SectionOf /\ j \in Nat
      BY <2>2, <3>1
    <3>4. S[j].size = Len(S[j].words) * WordBytes /\ S[j].words \in Seq(Seq(Byte)) /\ S[j].size \in 1..(Space - 1)
          /\ Full(S[j].words)
      BY <3>1, <3>3 DEF SectionOf, Whole, Full
    <3>5. FlattenSeq(S[j].words) \in Seq(Byte) /\ Len(FlattenSeq(S[j].words)) = Len(S[j].words) * WordBytes
      BY <3>4, FlattenType
    <3>6. Start(j) \in 0..(Space - 1)
      BY <3>1, <3>2, <2>1, WordAssumption
    <3>. QED BY <3>1, <3>3, <3>4, <3>5, <3>6
  <2>. QED BY <1>1, <1>3, <2>4
<1>. QED BY <1>1, <1>2, <1>3

(* The sections are at the last ones.                                        *)
LEMMA NowType ==
  ASSUME TypeInv, transfer \in Transfers, transfer.op \in {"W", "WB"}, Progress
  PROVE  /\ Now \in Nat /\ (transfer.op = "W" => Now = 1 /\ Jobs = {1}) /\ (phase = "ack" => Now \in Jobs)
         /\ transfer.op = "WB" => /\ transfer.file \in Files /\ Parse(transfer.file) \in Seq(SectionOf)
                                  /\ Jobs = 1..Len(Parse(transfer.file))
                                  /\ Now + Len(sections) = Len(Parse(transfer.file))
<1>1. CASE transfer.op = "W"
  BY <1>1 DEF Now, Jobs
<1>2. CASE transfer.op = "WB"
  <2> DEFINE S == Parse(transfer.file)
  <2>1. transfer.file \in Files /\ ~ Unreadable(transfer.file) /\ Len(sections) <= Len(S) /\ (phase = "ack" => Now >= 1)
    BY <1>2, TransferType DEF Progress
  <2>2. S \in Seq(SectionOf)
    BY <2>1, ParseType
  <2>3. Now = Len(S) - Len(sections) /\ Jobs = DOMAIN S
    BY <1>2 DEF Now, Jobs
  <2> HIDE DEF S
  <2>4. Len(sections) \in Nat /\ Len(S) \in Nat /\ Jobs = 1..Len(S)
    BY <2>2, <2>3 DEF TypeInv, TermInv
  <2>. QED BY <1>2, <2>1, <2>2, <2>3, <2>4 DEF S
<1>. QED BY <1>1, <1>2
-------------------------------------------------------------------------------
(* The gateway takes the command in.                                         *)
LEMMA RestOf == ASSUME NEW n PROVE Rest(n) = SubSeq(Stream, n + 1, Len(Stream))
BY DEF Rest

LEMMA PlayingTake ==
  ASSUME TypeInv, transfer \in Transfers, transfer.op \in {"W", "WB"}, Sending, Playing, Gateway, Decode \/ TakeByte,
         Start(Now) \in 0..(Space - 1), Stream \in Seq(Byte), transfer.op = "WB" => Len(Stream) \in 1..(Space - 1)
  PROVE  /\ Playing' /\ ~ Finished /\ ~ Finished'
         /\ gate'.count = gate.count /\ mem' = mem
<1>t. UNCHANGED <<phase, transfer, sections>>
  BY DEF Gateway, terminal
<1>c. Start(Now)' = Start(Now) /\ Stream' = Stream /\ Order' = Order /\ \A c : (Rest(c))' = Rest(c)
  BY <1>t DEF Start, Now, Stream, Order, Rest, Content
<1>0. /\ tx \in Seq(Byte) /\ gate.buf \in Seq(Byte) /\ gate \in GateRecord /\ GateSane
      /\ gate.st \in GateStates /\ gate.count \in Counts /\ WordBytes \in Nat \ {0}
  BY GateFields, WordAssumption DEF TypeInv, LineInv, GateInv
<1>1. AsBytes(Start(Now)) \in Seq(Byte) /\ Len(AsBytes(Start(Now))) = WordBytes /\ Order \in Seq(Byte)
      /\ Number(AsBytes(Start(Now))) = Start(Now)
  <2>1. Start(Now) \in Int /\ Len(Stream) \in Int
    OBVIOUS
  <2>2. AsBytes(Len(Stream)) \in Seq(Byte)
    BY <2>1, AsBytesType
  <2>. QED BY <2>1, <2>2, AsBytesType, NumberOfBytes DEF Order
<1>2. Rest(0) = Stream
  BY AllOf DEF Rest
<1>3. CASE Decode
  <2>1. gate.st = "IDLE" /\ tx # << >> /\ tx' = Tail(tx) /\ mem' = mem
    BY <1>3 DEF Decode
  <2>2. Head(tx) = Opcode[transfer.op]
    BY <2>1 DEF Sending
  <2>3. Head(tx) \in Range(Opcode)
    BY <2>2, Operations DEF Range, Kinds
  <2>4. PICK op \in Kinds : gate' = [gate EXCEPT !.st = "ADDRESS_PHASE", !.kind = op, !.buf = << >>]
    BY <1>3, <2>3, Operations DEF Decode
  <2>5. gate'.st = "ADDRESS_PHASE" /\ gate'.buf = << >> /\ gate'.count = gate.count
    BY <2>4, <1>0 DEF GateRecord
  <2>6. gate'.buf \o tx' = Tail(tx)
    <3>1. Tail(tx) \in Seq(Byte)
      BY <1>0, <2>1
    <3>. QED BY <2>1, <2>5, <3>1
  <2>7. Tail(tx) = AsBytes(Start(Now)) \o Order
    BY <2>1 DEF Playing
  <2>8. Playing'
    BY <2>5, <2>6, <2>7, <1>c DEF Playing
  <2>. QED BY <2>1, <2>5, <2>8 DEF Finished
<1>4. CASE TakeByte
  <2> DEFINE s == gate.buf \o tx
             buf == Append(gate.buf, Head(tx))
  <2>1. tx # << >> /\ tx' = Tail(tx) /\ gate.st \in Receptive /\ mem' = mem
    BY <1>4 DEF TakeByte, Receptive
  <2>2. Len(gate.buf) < WordBytes
    BY <1>0, <2>1 DEF GateSane
  <2>3. buf \in Seq(Byte) /\ Tail(tx) \in Seq(Byte) /\ Len(buf) = Len(gate.buf) + 1 /\ buf \o Tail(tx) = s
        /\ s \in Seq(Byte) /\ << >> \o Tail(tx) = Tail(tx)
    <3>1. buf \in Seq(Byte) /\ Tail(tx) \in Seq(Byte) /\ Len(buf) = Len(gate.buf) + 1 /\ buf \o Tail(tx) = s
      BY <1>0, <2>1, ByteTaken
    <3>2. s \in Seq(Byte)
      BY <1>0
    <3>3. << >> \o Tail(tx) = Tail(tx)
      BY <3>1
    <3>. QED BY <3>1, <3>2, <3>3
  <2>4. CASE Len(buf) < WordBytes
    <3>1. gate' = [gate EXCEPT !.buf = buf]
      BY <1>4, <2>4 DEF TakeByte
    <3> HIDE DEF buf
    <3>2. gate'.buf = buf /\ gate'.st = gate.st /\ gate'.address = gate.address
          /\ gate'.size = gate.size /\ gate'.count = gate.count
      BY <3>1, <1>0 DEF GateRecord
    <3>3. gate'.buf \o tx' = s
      BY <2>1, <2>3, <3>2
    <3>4. Playing'
      <4>1. gate.st \in {"ADDRESS_PHASE", "SIZE_PHASE", "DATA_PHASE"}
        BY <2>1 DEF Receptive
      <4>2. gate.st = "ADDRESS_PHASE" => s = AsBytes(Start(Now)) \o Order
        BY DEF Playing
      <4>3. gate.st = "SIZE_PHASE" => Placing' /\ s = Order
        BY <1>c, <3>2 DEF Playing, Placing
      <4>4. gate.st = "DATA_PHASE" => Placing' /\ Sized' /\ s = Rest(gate.count)
        BY <1>c, <1>t, <3>2 DEF Playing, Placing, Sized
      <4>5. (Rest(gate.count))' = Rest(gate.count)
        BY <1>c, <3>2 DEF Rest
      <4> HIDE DEF s
      <4>. QED BY <4>1, <4>2, <4>3, <4>4, <4>5, <1>c, <3>2, <3>3 DEF Playing
    <3>. QED BY <2>1, <3>2, <3>4 DEF Finished, Receptive
  <2>5. CASE Len(buf) >= WordBytes
    <3>1. Len(gate.buf) + 1 = WordBytes /\ Len(buf) = WordBytes
      BY <1>0, <2>2, <2>3, <2>5
    <3>2. FirstWord(s) = buf /\ AfterWord(s) = Tail(tx)
      BY <1>0, <2>1, <3>1, WordTaken
    <3>3. CASE gate.st = "ADDRESS_PHASE"
      <4>1. gate.kind = transfer.op /\ s = AsBytes(Start(Now)) \o Order /\ gate.count = 0
        BY <3>3, <1>0 DEF Sending, Playing, GateSane
      <4>2. gate' = [gate EXCEPT !.buf = << >>, !.address = Number(buf), !.st = AfterAddress[gate.kind]]
        BY <1>4, <3>1, <3>3, <1>0 DEF TakeByte
      <4> HIDE DEF buf, s
      <4>3. gate'.buf = << >> /\ gate'.st = AfterAddress[transfer.op] /\ gate'.address = Number(buf) /\ gate'.count = 0
        BY <4>1, <4>2, <1>0 DEF GateRecord
      <4>4. buf = AsBytes(Start(Now)) /\ Tail(tx) = Order
        BY <4>1, <3>2, <1>1, FirstAndAfter
      <4>5. Placing'
        BY <4>3, <4>4, <1>1, <1>c DEF Placing
      <4>6. gate'.buf \o tx' = Order
        BY <2>1, <2>3, <4>3, <4>4
      <4>7. gate'.st = IF transfer.op = "W" THEN "DATA_PHASE" ELSE "SIZE_PHASE"
        BY <4>3 DEF AfterAddress
      <4>8. CASE transfer.op = "W"
        <5>1. gate'.buf \o tx' = (Rest(gate.count))' /\ Sized'
          BY <4>3, <4>6, <4>8, <1>2, <1>c, <1>t DEF Order, Rest, Sized
        <5>. QED BY <4>1, <4>3, <4>5, <4>7, <4>8, <5>1, <2>1, <3>3 DEF Playing, Finished
      <4>9. CASE transfer.op = "WB"
        BY <4>1, <4>3, <4>5, <4>6, <4>7, <4>9, <1>c, <2>1, <3>3 DEF Playing, Finished
      <4>. QED BY <4>8, <4>9
    <3>4. CASE gate.st = "SIZE_PHASE"
      <4>1. gate.kind = transfer.op /\ Placing /\ s = Order /\ gate.count = 0 /\ transfer.op = "WB"
        BY <3>4, <1>0 DEF Sending, Playing, GateSane, Addressed
      <4> DEFINE st == IF gate.kind = "WB" THEN "DATA_PHASE" ELSE "ACK_RESP"
      <4>2. gate' = [gate EXCEPT !.buf = << >>, !.size = Number(buf), !.st = st]
        BY <1>4, <3>1, <3>4, <1>0 DEF TakeByte
      <4>3. st = "DATA_PHASE"
        BY <4>1
      <4> HIDE DEF buf, s, st
      <4>4. gate'.buf = << >> /\ gate'.st = "DATA_PHASE" /\ gate'.address = gate.address /\ gate'.count = 0
            /\ gate'.size = Number(buf)
        BY <4>1, <4>2, <4>3, <1>0 DEF GateRecord
      <4> DEFINE n == Len(Stream)
      <4>5. n \in 0..(Space - 1) /\ n \in Int /\ Order = AsBytes(n) \o Stream
        BY <4>1 DEF Order
      <4> HIDE DEF n
      <4>6. AsBytes(n) \in Seq(Byte) /\ Len(AsBytes(n)) = WordBytes /\ Number(AsBytes(n)) = n
        BY <4>5, AsBytesType, NumberOfBytes
      <4>7. buf = AsBytes(n) /\ Tail(tx) = Stream
        BY <4>1, <4>5, <4>6, <3>2, FirstAndAfter
      <4>8. gate'.buf \o tx' = Stream
        BY <2>1, <2>3, <4>4, <4>7
      <4>9. Placing' /\ Sized' /\ gate'.buf \o tx' = (Rest(gate.count))'
        BY <4>1, <4>4, <4>6, <4>7, <4>8, <1>2, <1>c, <1>t DEF Placing, Sized, Rest, n
      <4>. QED BY <4>1, <4>4, <4>9, <2>1, <3>4 DEF Playing, Finished
    <3>5. CASE gate.st = "DATA_PHASE"
      <4>1. Placing /\ Sized /\ s = Rest(gate.count)
        BY <3>5 DEF Playing
      <4>2. gate' = [gate EXCEPT !.buf = << >>, !.word = buf, !.st = "WRITE_TO_RC"]
        BY <1>4, <3>1, <3>5, <1>0 DEF TakeByte
      <4> HIDE DEF buf, s
      <4>3. gate'.st = "WRITE_TO_RC" /\ gate'.address = gate.address /\ gate'.count = gate.count
            /\ gate'.size = gate.size /\ gate'.word = buf
        BY <4>2, <1>0 DEF GateRecord
      <4>4. gate'.word \o tx' = (Rest(gate.count))'
        BY <2>1, <2>3, <4>1, <4>3, <1>c DEF Rest
      <4>5. Placing' /\ Sized'
        BY <4>1, <4>3, <1>c, <1>t DEF Placing, Sized
      <4>. QED BY <4>3, <4>4, <4>5, <2>1, <3>5 DEF Playing, Finished
    <3>. QED BY <2>1, <3>3, <3>4, <3>5 DEF Receptive
  <2>6. Len(buf) < WordBytes \/ Len(buf) >= WordBytes
    BY <2>3, <1>0
  <2>. QED BY <2>4, <2>5, <2>6
<1>. QED BY <1>3, <1>4

(* It stores a word.                                                         *)
LEMMA StoredWord ==
  ASSUME TypeInv, transfer \in Transfers, transfer.op \in {"W", "WB"}, Sending, Playing, StoreWord, Now \in Jobs,
         Content(Now) \in Seq(Seq(Byte)), Full(Content(Now)), Stream \in Seq(Byte),
         Len(Stream) = Len(Content(Now)) * WordBytes, transfer.op = "W" => Len(Content(Now)) = 1
  PROVE  \E k \in DOMAIN Content(Now) :
           /\ Here = WordOf(Now, k) /\ gate.word = Content(Now)[k]
           /\ \A i \in DOMAIN Content(Now) : (i - 1) * WordBytes >= gate.count /\ i # k =>
                (i - 1) * WordBytes >= gate.count + WordBytes
           /\ gate.count + WordBytes <= Len(Stream)
           /\ gate.count + WordBytes = Len(Stream) => k = Len(Content(Now))
           /\ \A i \in DOMAIN Content(Now) : (i - 1) * WordBytes >= gate.count => i >= k
           /\ tx = Rest(gate.count + WordBytes)
<1> DEFINE W == WordBytes
           c == gate.count
           C == Content(Now)
           n == Len(C)
<1>1. gate.st = "WRITE_TO_RC"
  BY DEF StoreWord
<1>2. Placing /\ gate.word \o tx = Rest(c) /\ tx \in Seq(Byte) /\ gate.word \in Word /\ c \in Counts /\ c \in Nat /\ c % W = 0
      /\ W \in Nat \ {0}
  BY <1>1, GateFields, WordAssumption DEF Playing, TypeInv, LineInv, Counts
<1>3. PICK q \in Nat : c = W * q
  BY <1>2, Multiples
<1> HIDE DEF c, C, n
<1>4. n \in Nat /\ Len(Stream) = n * W /\ DOMAIN C = 1..n /\ n * W \in Nat /\ n * W = W * n
  <2>1. n \in Nat /\ Len(Stream) = n * W /\ DOMAIN C = 1..n
    BY DEF C, n
  <2>. QED BY <2>1, <1>2, Products
<1>5. c + W <= Len(Stream) /\ tx = SubSeq(Stream, (c + W) + 1, Len(Stream)) /\ \A b \in 1..W : gate.word[b] = Stream[c + b]
  <2>1. gate.word \in Seq(Byte) /\ Len(gate.word) = W
    BY <1>2, WordIsBytes
  <2>2. gate.word \o tx = SubSeq(Stream, c + 1, Len(Stream))
    BY <1>2, RestOf
  <2>3. c \in Nat /\ Stream \in Seq(Byte) /\ tx \in Seq(Byte)
    BY <1>2
  <2>4. /\ c + WordBytes <= Len(Stream) /\ tx = SubSeq(Stream, (c + WordBytes) + 1, Len(Stream))
        /\ \A b \in 1..WordBytes : gate.word[b] = Stream[c + b]
    BY ONLY <2>1, <2>2, <2>3, WordNext
  <2>. QED BY <2>4
<1> DEFINE k == q + 1
<1>6. W * (q + 1) = c + W /\ W * q = c /\ q * W = c /\ c \in Nat
  BY <1>2, <1>3
<1>7. \A i \in Nat : i <= q => W * i <= c
  <2> TAKE i \in Nat
  <2>1. i <= q => W * i <= W * q
    BY <1>2, Ordered, i \in Int, q \in Int
  <2>. QED BY <2>1, <1>6
<1>8. \A i \in Nat : q + 1 <= i => c + W <= W * i
  <2> TAKE i \in Nat
  <2>1. q + 1 <= i => W * (q + 1) <= W * i
    BY <1>2, Ordered, q + 1 \in Int, i \in Int
  <2>. QED BY <2>1, <1>6
<1>9. q + 1 <= n
  <2> SUFFICES ASSUME ~ (q + 1 <= n) PROVE FALSE
    OBVIOUS
  <2>1. W * n <= c
    BY <1>4, <1>7, n <= q
  <2> DEFINE x == W * n
  <2>2. x <= c /\ c + W <= x /\ x \in Int
    BY <2>1, <1>4, <1>5
  <2> HIDE DEF x
  <2>. QED BY <2>2, <1>2
<1>10. k \in DOMAIN C /\ k - 1 = q /\ k \in Nat
  BY <1>4, <1>9
<1>11. Here = WordOf(Now, k)
  <2>1. Here = WordAt(Start(Now) + c)
    BY <1>2 DEF Here, Placing, c
  <2>. QED BY <2>1, <1>6, <1>10 DEF WordOf
<1>12. gate.word = C[k]
  <2>1. C[k] \in Seq(Byte) /\ Len(C[k]) = W
    BY <1>10 DEF C, Full
  <2>2. \A b \in 1..W : Stream[c + b] = C[k][b]
    <3>1. \A i \in DOMAIN C : \A b \in 1..W : Stream[(i - 1) * W + b] = C[i][b]
      BY FlattenType DEF C, Stream
    <3>2. (k - 1) * W = c
      BY <1>6, <1>10
    <3> HIDE DEF k
    <3>. QED BY <3>1, <3>2, <1>10
  <2>3. gate.word = [b \in 1..W |-> gate.word[b]]
    BY <1>2 DEF Word
  <2>4. C[k] = [b \in 1..W |-> C[k][b]]
    BY <2>1
  <2> HIDE DEF k
  <2>5. \A b \in 1..W : gate.word[b] = C[k][b]
    BY <2>2, <1>5
  <2>. QED BY <2>3, <2>4, <2>5
<1>13. ASSUME NEW i \in DOMAIN C, (i - 1) * W >= c
       PROVE  i >= k /\ (i # k => (i - 1) * W >= c + W)
  <2>1. i \in Nat /\ i - 1 \in Nat /\ (i - 1) * W = W * (i - 1)
    BY <1>2, <1>4
  <2>2. ~ (i <= q)
    <3> SUFFICES ASSUME i <= q PROVE FALSE
      OBVIOUS
    <3>1. W * i <= c
      BY <1>7, <2>1
    <3>2. W * i = W * (i - 1) + W
      BY <1>2, <2>1
    <3> DEFINE x == W * (i - 1)
               y == W * i
    <3>3. y <= c /\ y = x + W /\ x >= c /\ x \in Int
      BY <3>1, <3>2, <2>1, <1>2, <1>13
    <3> HIDE DEF x, y
    <3>. QED BY <3>3, <1>2
  <2>3. i >= k
    BY <2>1, <2>2
  <2>4. ASSUME i # k PROVE (i - 1) * W >= c + W
    <3>1. q + 1 <= i - 1 /\ i - 1 \in Nat
      BY <2>1, <2>3, <2>4
    <3>2. c + W <= W * (i - 1)
      BY <3>1, <1>8
    <3> DEFINE x == W * (i - 1)
    <3>3. (i - 1) * W = x /\ c + W <= x /\ x \in Int
      BY <3>2, <2>1, <1>2
    <3> HIDE DEF x
    <3>. QED BY <3>3, <1>2
  <2>. QED BY <2>3, <2>4
<1>14. ASSUME c + W = Len(Stream) PROVE k = n
  <2> SUFFICES ASSUME k # n PROVE FALSE
    OBVIOUS
  <2>1. k + 1 <= n /\ k + 1 \in Nat
    BY <1>9, <1>4, <1>10
  <2>2. W * (k + 1) <= W * n
    BY <2>1, <1>2, <1>4, Ordered
  <2>3. W * (k + 1) = (c + W) + W
    BY <1>2, <1>3
  <2> DEFINE x == W * n
  <2>4. (c + W) + W <= x /\ x = c + W
    BY <2>2, <2>3, <1>4, <1>14
  <2> HIDE DEF x
  <2>. QED BY <2>4, <1>2, <1>6
<1> HIDE DEF k
<1>. QED BY <1>5, <1>10, <1>11, <1>12, <1>13, <1>14 DEF C, c, n, Rest
-------------------------------------------------------------------------------
LEMMA JobsFixed ==
  ASSUME UNCHANGED transfer
  PROVE  /\ Jobs' = Jobs /\ (Fit' <=> Fit)
         /\ \A j : (Start(j))' = Start(j) /\ (Content(j))' = Content(j) /\ (GoodSection(j))' = GoodSection(j)
         /\ \A j, k : (WordOf(j, k))' = WordOf(j, k)
         /\ wanted' = wanted => (Goal' <=> Goal)
         /\ sections' = sections => Now' = Now
<1>1. /\ Jobs' = Jobs
      /\ \A j : (Start(j))' = Start(j) /\ (Content(j))' = Content(j) /\ (GoodSection(j))' = GoodSection(j)
      /\ sections' = sections => Now' = Now
  BY DEF Jobs, Start, Content, GoodSection, Now
<1>2. \A j, k : (WordOf(j, k))' = WordOf(j, k)
  BY <1>1 DEF WordOf
<1>3. Fit' <=> Fit
  BY <1>1 DEF Fit
<1>4. wanted' = wanted => (Goal' <=> Goal)
  BY <1>1, <1>2 DEF Goal
<1>. QED BY <1>1, <1>2, <1>3, <1>4

(* Nothing is undone that was done before.                                   *)
LEMMA RemainsKept ==
  ASSUME UNCHANGED <<transfer, mem, wanted>>, Remains,
         \A j \in Jobs : \A k \in DOMAIN Content(j) : Undone(j, k) => (Undone(j, k))'
  PROVE  Remains'
<1>1. Jobs' = Jobs /\ (\A j : (Content(j))' = Content(j)) /\ \A j, k : (WordOf(j, k))' = WordOf(j, k)
  BY JobsFixed
<1> SUFFICES ASSUME NEW w \in Words, mem[w] # wanted[w]
             PROVE  w \in Mapped /\ \E j \in Jobs' : \E k \in DOMAIN (Content(j))' : (Undone(j, k))' /\ w = (WordOf(j, k))'
  BY DEF Remains
<1>2. w \in Mapped
  BY DEF Remains
<1>3. PICK j \in Jobs : \E k \in DOMAIN Content(j) : Undone(j, k) /\ w = WordOf(j, k)
  BY DEF Remains
<1>4. PICK k \in DOMAIN Content(j) : Undone(j, k) /\ w = WordOf(j, k)
  BY <1>3
<1>5. (Undone(j, k))'
  BY <1>4
<1>6. j \in Jobs' /\ k \in DOMAIN (Content(j))' /\ w = (WordOf(j, k))'
  BY <1>1, <1>4
<1>. QED BY <1>2, <1>5, <1>6

LEMMA StoreKeeps ==
  ASSUME TypeInv, transfer \in Transfers, transfer.op \in {"W", "WB"}, Sending, Playing, StoreWord, Gateway,
         Now \in Jobs, Now \in Nat, Content(Now) \in Seq(Seq(Byte)), Full(Content(Now)), Stream \in Seq(Byte),
         Len(Stream) = Len(Content(Now)) * WordBytes, transfer.op = "W" => Len(Content(Now)) = 1,
         Goal, Remains
  PROVE  Playing' /\ Remains'
<1>t. UNCHANGED <<phase, transfer, sections, wanted>> /\ tx' = tx
  BY DEF Gateway, terminal, history, StoreWord
<1>j. Jobs' = Jobs /\ Now' = Now /\ (\A j : (Content(j))' = Content(j)) /\ (\A j, k : (WordOf(j, k))' = WordOf(j, k))
      /\ \A j : (Start(j))' = Start(j)
  BY <1>t, JobsFixed
<1>c. Stream' = Stream
  BY <1>j DEF Stream
<1>0. /\ gate.buf \in Seq(Byte) /\ gate \in GateRecord /\ GateSane /\ tx \in Seq(Byte) /\ mem \in [Words -> Word]
      /\ gate.count \in Counts /\ gate.st = "WRITE_TO_RC" /\ gate.buf = << >> /\ phase = "ack"
      /\ gate.kind = transfer.op /\ WordBytes \in Nat \ {0}
  BY GateFields, WordAssumption DEF TypeInv, LineInv, GateInv, MemInv, StoreWord, GateSane, Sending, Addressed
<1>1. PICK k \in DOMAIN Content(Now) :
           /\ Here = WordOf(Now, k) /\ gate.word = Content(Now)[k]
           /\ \A i \in DOMAIN Content(Now) : (i - 1) * WordBytes >= gate.count /\ i # k =>
                (i - 1) * WordBytes >= gate.count + WordBytes
           /\ gate.count + WordBytes <= Len(Stream)
           /\ gate.count + WordBytes = Len(Stream) => k = Len(Content(Now))
           /\ \A i \in DOMAIN Content(Now) : (i - 1) * WordBytes >= gate.count => i >= k
           /\ tx = Rest(gate.count + WordBytes)
  BY StoredWord
<1>2. mem' = IF Here \in Mapped THEN [mem EXCEPT ![Here] = gate.word] ELSE mem
  BY DEF StoreWord
<1>3. ASSUME NEW w \in Words, mem'[w] # wanted[w]
      PROVE  /\ w \in Mapped
             /\ \E j \in Jobs : \E i \in DOMAIN Content(j) :
                   /\ w = WordOf(j, i)
                   /\ j > Now \/ (j = Now /\ i # k /\ i >= k /\ (i - 1) * WordBytes >= gate.count + WordBytes)
  <2>1. Here \in Mapped => wanted[Here] = gate.word /\ Here \in Words
    BY <1>1, InputAssumption DEF Goal
  <2>2. ~ (w = Here /\ Here \in Mapped)
    BY <2>1, <1>2, <1>3, <1>0
  <2>3. mem'[w] = mem[w]
    BY <2>2, <1>2, <1>0
  <2>4. w \in Mapped
    BY <2>3, <1>3 DEF Remains
  <2>p. PICK j \in Jobs : \E i \in DOMAIN Content(j) : Undone(j, i) /\ w = WordOf(j, i)
    BY <2>3, <1>3 DEF Remains
  <2>5. PICK i \in DOMAIN Content(j) : Undone(j, i) /\ w = WordOf(j, i)
    BY <2>p
  <2>6. CASE j > Now
    BY <2>4, <2>5, <2>6
  <2>7. CASE ~ (j > Now)
    <3>1. j = Now /\ (i - 1) * WordBytes >= gate.count
      BY <2>5, <2>7 DEF Undone
    <3>2. i # k
      BY <3>1, <2>2, <2>4, <2>5, <1>1
    <3>3. i >= k /\ (i - 1) * WordBytes >= gate.count + WordBytes
      BY <3>1, <3>2, <2>5, <1>1
    <3>. QED BY <2>4, <2>5, <3>1, <3>2, <3>3
  <2>. QED BY <2>6, <2>7
<1>4. ASSUME gate'.st = "ACK_RESP", k = Len(Content(Now))
      PROVE  Playing' /\ Remains'
  <2>1. Playing'
    BY <1>4 DEF Playing
  <2>2. ASSUME NEW w \in Words, mem'[w] # wanted'[w]
        PROVE  w \in Mapped /\ \E j \in Jobs' : \E i \in DOMAIN (Content(j))' : (Undone(j, i))' /\ w = (WordOf(j, i))'
    <3>1. w \in Mapped
      BY <1>3, <1>t, <2>2
    <3>2. PICK j \in Jobs : \E i \in DOMAIN Content(j) :
                   /\ w = WordOf(j, i)
                   /\ j > Now \/ (j = Now /\ i # k /\ i >= k /\ (i - 1) * WordBytes >= gate.count + WordBytes)
      BY <1>3, <1>t, <2>2
    <3>3. PICK i \in DOMAIN Content(j) :
                   /\ w = WordOf(j, i)
                   /\ j > Now \/ (j = Now /\ i # k /\ i >= k /\ (i - 1) * WordBytes >= gate.count + WordBytes)
      BY <3>2
    <3>4. j > Now
      <4> SUFFICES ASSUME j = Now /\ i # k /\ i >= k PROVE FALSE
        BY <3>3
      <4>1. i \in 1..Len(Content(Now)) /\ Len(Content(Now)) \in Nat
        OBVIOUS
      <4>. QED BY <4>1, <1>4
    <3>5. (Undone(j, i))'
      BY <3>4, <1>j DEF Undone
    <3>. QED BY <3>1, <3>3, <3>5, <1>j
  <2>3. Remains'
    BY <2>2 DEF Remains
  <2>. QED BY <2>1, <2>3
<1>5. CASE transfer.op = "W"
  <2>1. gate' = [gate EXCEPT !.st = "ACK_RESP"]
    BY <1>0, <1>5 DEF StoreWord
  <2>2. gate'.st = "ACK_RESP"
    BY <2>1, <1>0 DEF GateRecord
  <2>3. k = Len(Content(Now))
    BY <1>5
  <2>. QED BY <1>4, <2>2, <2>3
<1>6. CASE transfer.op = "WB"
  <2>1. gate.size = Len(Stream) /\ WholeWords(gate.size) /\ gate.count < gate.size /\ gate.address = Start(Now)
    BY <1>0, <1>6 DEF Sending, Burst, Playing, Sized, Placing
  <2>2. /\ (gate.size - WordBytes) % Space = gate.size - WordBytes
        /\ gate.count # gate.size - WordBytes => Step = gate.count + WordBytes
    BY <2>1, <1>0, WholeWordsApart DEF Step
  <2>3. CASE AtLast
    <3>1. gate' = [gate EXCEPT !.st = "ACK_RESP", !.count = 0]
      BY <1>0, <1>6, <2>3 DEF StoreWord
    <3>2. gate'.st = "ACK_RESP"
      BY <3>1, <1>0 DEF GateRecord
    <3>3. gate.count = gate.size - WordBytes
      BY <2>2, <2>3 DEF AtLast
    <3>4. gate.count + WordBytes = Len(Stream)
      BY <3>3, <2>1, <1>0
    <3>5. k = Len(Content(Now))
      BY <3>4, <1>1
    <3>. QED BY <1>4, <3>2, <3>5
  <2>4. CASE ~ AtLast
    <3>1. Step = gate.count + WordBytes
      BY <2>2, <2>4 DEF AtLast
    <3>2. gate' = [gate EXCEPT !.st = "DATA_PHASE", !.count = Step]
      BY <1>0, <1>6, <2>4 DEF StoreWord
    <3>3. gate'.st = "DATA_PHASE" /\ gate'.count = gate.count + WordBytes /\ gate'.buf = << >>
          /\ gate'.size = gate.size /\ gate'.address = gate.address
      BY <3>1, <3>2, <1>0 DEF GateRecord
    <3>4. gate'.buf \o tx' = tx
      BY <3>3, <1>t, <1>0
    <3>5. (Rest(gate.count))' = Rest(gate.count + WordBytes)
      BY <3>3, <1>c DEF Rest
    <3>6. Playing'
      BY <3>3, <3>4, <3>5, <1>1, <1>j, <1>c, <1>t, <2>1 DEF Playing, Placing, Sized
    <3>7. ASSUME NEW w \in Words, mem'[w] # wanted'[w]
          PROVE  w \in Mapped /\ \E j \in Jobs' : \E i \in DOMAIN (Content(j))' : (Undone(j, i))' /\ w = (WordOf(j, i))'
      <4>1. w \in Mapped
        BY <1>3, <1>t, <3>7
      <4>2. PICK j \in Jobs : \E i \in DOMAIN Content(j) :
                     /\ w = WordOf(j, i)
                     /\ j > Now \/ (j = Now /\ i # k /\ i >= k /\ (i - 1) * WordBytes >= gate.count + WordBytes)
        BY <1>3, <1>t, <3>7
      <4>3. PICK i \in DOMAIN Content(j) :
                     /\ w = WordOf(j, i)
                     /\ j > Now \/ (j = Now /\ i # k /\ i >= k /\ (i - 1) * WordBytes >= gate.count + WordBytes)
        BY <4>2
      <4>4. (Undone(j, i))'
        <5>1. ~ Finished' /\ phase' = "ack"
          BY <3>3, <1>0, <1>t DEF Finished
        <5>. QED BY <4>3, <5>1, <3>3, <1>j DEF Undone
      <4>. QED BY <4>1, <4>3, <4>4, <1>j
    <3>8. Remains'
      BY <3>7 DEF Remains
    <3>. QED BY <3>6, <3>8
  <2>. QED BY <2>3, <2>4
<1>. QED BY <1>5, <1>6

LEMMA NoTransfer == << >> \notin Transfers
BY DEF Transfers

LEMMA LoadingGateway == ASSUME TypeInv, InStep, Loading, Gateway PROVE Loading'
<1>t. UNCHANGED <<phase, transfer, sections, left, wanted, sound>>
  BY DEF Gateway, terminal, history
<1>0. gate \in GateRecord /\ GateSane /\ (transfer # << >> => transfer \in Transfers)
  BY DEF TypeInv, GateInv, TermInv
<1>1. wanted' = [w \in Words |-> wanted'[w]]
  BY <1>t DEF Loading
<1>2. ASSUME sound PROVE phase \in {"ack", "data"} /\ transfer \in Transfers /\ Books /\ (Sending \/ Answering)
  <2>1. ~ Resting
    BY DEF Resting, Gateway, Decode, TakeByte, StoreWord, SendAck, LoadWord, SendByte, DropByte
  <2>. QED BY <2>1, <1>2 DEF InStep, TypeInv, TermInv
<1>3. ASSUME sound, transfer = << >> \/ transfer.op \in Reads PROVE mem' = mem
  <2>1. transfer.op \in Reads /\ gate.st = "WRITE_TO_RC" => FALSE
    BY <1>0, <1>2, <1>3 DEF Sending, Answering, Addressed, GateSane, Reads
  <2>2. transfer # << >>
    BY <1>2, <1>3, NoTransfer
  <2>. QED BY <2>1, <2>2, <1>3 DEF Gateway, Decode, TakeByte, StoreWord, SendAck, LoadWord, SendByte, DropByte
<1>4. sound' /\ phase' \in {"ack", "data", "prompt"} /\ (transfer' = << >> \/ transfer'.op \in Reads) => mem' = wanted'
  BY <1>3, <1>t DEF Loading
<1>5. ASSUME Writing PROVE Progress' /\ (Fit' => Goal' /\ Remains' /\ (phase' = "ack" => Playing'))
  <2>1. sound /\ phase = "ack" /\ transfer \in Transfers /\ transfer.op \in {"W", "WB"} /\ Books /\ Progress
    BY <1>2, <1>5, TransferType DEF Writing, Loading, Kinds, Reads
  <2>2. Progress'
    BY <2>1, <1>t DEF Progress, Now, GoodSection
  <2>3. (Fit' <=> Fit) /\ (Goal' <=> Goal)
    BY <1>t, JobsFixed
  <2>4. ASSUME Fit PROVE Goal' /\ Remains' /\ Playing'
    <3>1. Goal /\ Remains /\ Playing
      BY <2>1, <2>4, <1>5 DEF Loading
    <3>2. Now \in Jobs /\ Now \in Nat
      BY <2>1, NowType
    <3>3. transfer.op \notin Reads /\ (transfer.op = "WB" => ~ Unreadable(transfer.file))
      BY <2>1 DEF Progress, Reads
    <3>4. /\ Content(Now) \in Seq(Seq(Byte)) /\ Full(Content(Now)) /\ Start(Now) \in 0..(Space - 1) /\ Stream \in Seq(Byte)
          /\ Len(Stream) = Len(Content(Now)) * WordBytes /\ (transfer.op = "W" => Len(Content(Now)) = 1)
          /\ transfer.op = "WB" => Len(Stream) \in 1..(Space - 1)
      BY <2>1, <2>4, <3>2, <3>3, JobType DEF Stream
    <3>5. CASE Sending /\ (Decode \/ TakeByte)
      <4>1. Playing' /\ ~ Finished /\ ~ Finished' /\ gate'.count = gate.count /\ mem' = mem
        BY <2>1, <3>1, <3>4, <3>5, PlayingTake
      <4>2. \A j, k : Undone(j, k) => (Undone(j, k))'
        BY <4>1, <1>t, JobsFixed DEF Undone
      <4>. QED BY <4>1, <4>2, <1>t, <2>3, <3>1, RemainsKept
    <3>6. CASE Sending /\ StoreWord
      BY <2>1, <2>3, <3>1, <3>2, <3>4, <3>6, StoreKeeps
    <3>7. CASE Answering
      <4>1. gate.st \in {"IDLE", "ACK_RESP"} /\ tx = << >> /\ gate.kind = transfer.op
        BY <1>0, <2>1, <3>7 DEF Answering, Addressed, GateSane, Reads
      <4>2. SendAck
        BY <4>1 DEF Gateway, Decode, TakeByte, StoreWord, LoadWord, SendByte, DropByte
      <4>3. gate' = [gate EXCEPT !.st = "IDLE"] /\ UNCHANGED <<tx, mem>>
        BY <2>1, <4>1, <4>2 DEF SendAck
      <4>4. gate'.st = "IDLE" /\ gate'.count = gate.count /\ gate.st = "ACK_RESP"
        BY <1>0, <4>2, <4>3 DEF GateRecord, SendAck
      <4>5. Playing' /\ Finished /\ Finished'
        BY <4>1, <4>3, <4>4 DEF Playing, Finished
      <4>6. \A j, k : Undone(j, k) => (Undone(j, k))'
        BY <4>5, <1>t, JobsFixed DEF Undone
      <4>. QED BY <4>3, <4>5, <4>6, <1>t, <2>3, <3>1, RemainsKept
    <3>8. Sending => ~ SendAck /\ ~ LoadWord /\ ~ SendByte /\ ~ DropByte
      BY DEF Sending, SendAck, LoadWord, SendByte, DropByte
    <3>. QED BY <1>2, <2>1, <3>5, <3>6, <3>7, <3>8 DEF Gateway
  <2>. QED BY <2>2, <2>3, <2>4
<1>6. Writing' => Writing
  BY <1>t DEF Writing
<1>. QED BY <1>1, <1>4, <1>5, <1>6 DEF Loading
-------------------------------------------------------------------------------
LEMMA FlattenOne ==
  ASSUME NEW w \in Seq(Byte), Len(w) = WordBytes PROVE FlattenSeq(<<w>>) = w
<1> DEFINE c == <<w>>
           d == FlattenSeq(c)
<1>1. c \in Seq(Seq(Byte)) /\ Full(c) /\ Len(c) = 1 /\ c[1] = w /\ 1 \in DOMAIN c
  BY DEF Full
<1> HIDE DEF c
<1>2. d \in Seq(Byte) /\ Len(d) = Len(c) * WordBytes /\ \A b \in 1..WordBytes : d[(1 - 1) * WordBytes + b] = c[1][b]
  BY <1>1, FlattenType
<1>3. Len(d) = WordBytes /\ \A b \in 1..WordBytes : d[b] = w[b]
  <2>1. WordBytes \in Nat /\ (1 - 1) * WordBytes = 0 /\ 1 * WordBytes = WordBytes
    BY WordAssumption
  <2>2. \A b \in 1..WordBytes : 0 + b = b
    OBVIOUS
  <2>. QED BY <2>1, <2>2, <1>1, <1>2
<1> HIDE DEF d
<1>4. d = w
  BY <1>2, <1>3, SeqEqual
<1>. QED BY <1>4 DEF c, d

LEMMA LoadingAsk ==
  ASSUME TypeInv, InStep, Loading, NEW t \in Transfers, Ask(t) PROVE Loading'
<1>0. /\ transfer' = t /\ mem' = mem /\ gate' = gate /\ tx' = Send(t)
      /\ wanted' = (IF t.op = "WB" /\ Unreadable(t.file) THEN mem ELSE Outcome(t))
      /\ sound' => Resting
      /\ IF t.op = "WB" THEN IF Unreadable(t.file) THEN phase' = "crashed" /\ sections' = << >>
                             ELSE phase' = "sections" /\ sections' = Parse(t.file)
                        ELSE phase' = "ack" /\ sections' = << >>
      /\ t.op \in Kinds /\ t.address \in 0..(Space - 1) /\ t # << >>
  BY TransferType, NoTransfer DEF Ask
<1>m. mem \in [Words -> Word] /\ mem = [w \in Words |-> mem[w]]
  BY DEF TypeInv, MemInv
<1>1. wanted' = [w \in Words |-> wanted'[w]]
  <2>1. CASE wanted' = mem
    BY <2>1, <1>m
  <2>2. CASE t.op = "WB" /\ wanted' = Loaded(mem, t.file, t.address)
    BY <2>2 DEF Loaded
  <2>3. CASE wanted' = [mem EXCEPT ![WordAt(t.address)] = t.word]
    BY <2>3, <1>m
  <2>. QED BY <1>0, <2>1, <2>2, <2>3 DEF Outcome
<1>2. CASE t.op \in Reads
  <2>1. wanted' = mem
    BY <1>0, <1>2 DEF Outcome, Reads
  <2>. QED BY <1>0, <1>1, <1>2, <2>1 DEF Loading, Writing
<1>3. CASE t.op = "W"
  <2>1. phase' = "ack" /\ wanted' = IF WordAt(t.address) \in Mapped THEN [mem EXCEPT ![WordAt(t.address)] = t.word] ELSE mem
    BY <1>0, <1>3 DEF Outcome
  <2>2. t.word \in Seq(Byte) /\ Len(t.word) = WordBytes
    BY <1>3, TransferType
  <2>3. Jobs' = {1} /\ Now' = 1 /\ (Start(1))' = t.address /\ (Content(1))' = <<t.word>> /\ (Start(Now))' = t.address
        /\ (Content(Now))' = <<t.word>>
    BY <1>0, <1>3 DEF Jobs, Now, Start, Content
  <2>4. (WordOf(1, 1))' = WordAt(t.address)
    <3>1. t.address + (1 - 1) * WordBytes = t.address
      BY <1>0, WordAssumption
    <3>. QED BY <2>3, <3>1 DEF WordOf
  <2>5. Progress'
    BY <1>0, <1>3 DEF Progress
  <2>6. ASSUME sound' PROVE Goal' /\ Remains' /\ Playing'
    <3>1. gate.st = "IDLE" /\ tx = << >> /\ gate.count = 0
      BY <1>0, <2>6 DEF Resting, TypeInv, GateInv, GateSane
    <3> DEFINE a == AsBytes(t.address)
               o == Opcode["W"]
    <3>2. a \in Seq(Byte) /\ Len(a) = WordBytes /\ o \in Byte
      BY <1>0, AsBytesType, Operations DEF Kinds
    <3>3. tx' = << >> \o <<o>> \o a \o t.word
      BY <1>0, <1>3, <3>1 DEF Send
    <3> HIDE DEF a, o
    <3>4. tx' # << >> /\ Tail(tx') = a \o t.word
      BY <2>2, <3>2, <3>3, OpcodeFirst
    <3>5. Stream' = t.word
      BY <2>2, <2>3, FlattenOne DEF Stream
    <3>6. Order' = t.word
      BY <1>0, <1>3, <3>5 DEF Order
    <3>7. Playing'
      BY <1>0, <2>3, <3>1, <3>4, <3>6 DEF Playing, a
    <3>8. Goal'
      <4>1. ASSUME NEW j \in Jobs', NEW k \in DOMAIN (Content(j))', (WordOf(j, k))' \in Mapped
            PROVE  wanted'[(WordOf(j, k))'] = (Content(j))'[k]
        <5>1. j = 1 /\ k = 1
          BY <2>3
        <5>2. WordAt(t.address) \in Mapped /\ WordAt(t.address) \in Words
          BY <5>1, <4>1, <2>4, InputAssumption
        <5>3. wanted'[WordAt(t.address)] = t.word
          BY <5>2, <2>1, <1>m
        <5>. QED BY <5>1, <5>3, <2>3, <2>4
      <4>. QED BY <4>1 DEF Goal
    <3>9. Remains'
      <4>1. ASSUME NEW w \in Words, mem'[w] # wanted'[w]
            PROVE  w \in Mapped /\ \E j \in Jobs' : \E k \in DOMAIN (Content(j))' : (Undone(j, k))' /\ w = (WordOf(j, k))'
        <5>1. w = WordAt(t.address) /\ w \in Mapped
          BY <4>1, <2>1, <1>0, <1>m
        <5>2. (Undone(1, 1))'
          <6>1. (1 - 1) * WordBytes = 0
            BY WordAssumption
          <6>2. ~ Finished'
            BY <1>0, <3>1, <3>4 DEF Finished
          <6>. QED BY <1>0, <2>1, <2>3, <3>1, <6>1, <6>2 DEF Undone
        <5>3. 1 \in Jobs' /\ 1 \in DOMAIN (Content(1))'
          BY <2>3
        <5>. QED BY <5>1, <5>2, <5>3, <2>4
      <4>. QED BY <4>1 DEF Remains
    <3>. QED BY <3>7, <3>8, <3>9
  <2>7. Writing' => sound'
    BY DEF Writing
  <2>. QED BY <1>0, <1>1, <1>3, <2>1, <2>5, <2>6, <2>7 DEF Loading, Reads
<1>4. CASE t.op = "WB" /\ Unreadable(t.file)
  BY <1>0, <1>1, <1>4 DEF Loading, Writing
<1>5. CASE t.op = "WB" /\ ~ Unreadable(t.file)
  <2> DEFINE S == Parse(t.file)
  <2>1. phase' = "sections" /\ sections' = S /\ wanted' = Loaded(mem, t.file, t.address) /\ t.file \in Files
    BY <1>0, <1>5, TransferType DEF Outcome
  <2>2. S \in Seq(SectionOf)
    BY <1>5, <2>1, ParseType
  <2>3. Jobs' = DOMAIN S /\ Now' = 0
    <3>1. Len(S) \in Nat
      BY <2>2
    <3>2. Jobs' = DOMAIN S /\ Now' = Len(S) - Len(S)
      BY <1>0, <1>5, <2>1 DEF Jobs, Now
    <3> HIDE DEF S
    <3>. QED BY <3>1, <3>2
  <2>4. \A j : (Content(j))' = S[j].words /\ (Start(j))' = t.address + S[j].address
    BY <1>0, <1>5 DEF Content, Start
  <2>5. \A j, k : (WordOf(j, k))' = WordAt(t.address + S[j].address + (k - 1) * WordBytes)
    BY <2>4 DEF WordOf
  <2>6. Progress'
    <3>1. SubSeq(S, 0 + 1, Len(S)) = S /\ Len(S) <= Len(S)
      <4> HIDE DEF S
      <4>. QED BY <2>2, AllOf
    <3>2. \A j \in 1..0 : FALSE
      OBVIOUS
    <3>. QED BY <1>0, <1>5, <2>1, <2>3, <3>1, <3>2 DEF Progress
  <2>7. ASSUME Fit' PROVE Goal' /\ Remains'
    <3>1. Tidy(t.file, t.address) /\ AllFull(S)
      <4>1. Tidy(t.file, t.address) /\ \A j \in DOMAIN S : Whole(S[j])
        BY <1>0, <1>5, <2>3, <2>7 DEF Fit, GoodSection
      <4>. QED BY <4>1 DEF AllFull, Whole, Full
    <3>2. /\ \A j \in DOMAIN S : \A k \in DOMAIN S[j].words :
               LET w == WordAt(t.address + S[j].address + (k - 1) * WordBytes)
               IN  w \in Mapped => wanted'[w] = S[j].words[k]
          /\ \A w \in Words : wanted'[w] # mem[w] =>
               /\ w \in Mapped
               /\ \E j \in DOMAIN S : \E k \in DOMAIN S[j].words : w = WordAt(t.address + S[j].address + (k - 1) * WordBytes)
      BY <1>0, <1>m, <1>5, <2>1, <3>1, LoadedWords
    <3> HIDE DEF S
    <3>3. Goal'
      BY <2>3, <2>4, <2>5, <3>2 DEF Goal
    <3>4. ASSUME NEW w \in Words, mem'[w] # wanted'[w]
          PROVE  w \in Mapped /\ \E j \in Jobs' : \E k \in DOMAIN (Content(j))' : (Undone(j, k))' /\ w = (WordOf(j, k))'
      <4>1. w \in Mapped
        BY <3>2, <3>4, <1>0
      <4>2. PICK j \in DOMAIN S : \E k \in DOMAIN S[j].words : w = WordAt(t.address + S[j].address + (k - 1) * WordBytes)
        BY <3>2, <3>4, <1>0
      <4>3. PICK k \in DOMAIN S[j].words : w = WordAt(t.address + S[j].address + (k - 1) * WordBytes)
        BY <4>2
      <4>4. (Undone(j, k))'
        <5>1. j \in Nat /\ j > 0
          BY <2>2
        <5>. QED BY <5>1, <2>3 DEF Undone
      <4>. QED BY <4>1, <4>3, <4>4, <2>3, <2>4, <2>5
    <3>5. Remains'
      BY <3>4 DEF Remains
    <3>. QED BY <3>3, <3>5
  <2>. QED BY <1>0, <1>1, <1>5, <2>1, <2>6, <2>7 DEF Loading, Reads
<1>. QED BY <1>0, <1>2, <1>3, <1>4, <1>5 DEF Kinds, Reads
-------------------------------------------------------------------------------
LEMMA NextOf ==
  ASSUME NEW S, NEW s \in Seq(S), NEW c \in Nat, SubSeq(s, c + 1, Len(s)) # << >>
  PROVE  /\ c + 1 <= Len(s) /\ Head(SubSeq(s, c + 1, Len(s))) = s[c + 1]
         /\ Tail(SubSeq(s, c + 1, Len(s))) = SubSeq(s, (c + 1) + 1, Len(s))
<1> DEFINE r == SubSeq(s, c + 1, Len(s))
           x == SubSeq(s, (c + 1) + 1, Len(s))
<1>1. r \in Seq(S) /\ Len(r) = (IF c + 1 <= Len(s) THEN Len(s) - c ELSE 0) /\ \A i \in 1..Len(r) : r[i] = s[c + i]
  OBVIOUS
<1>2. r # << >>
  OBVIOUS
<1> HIDE DEF r
<1>3. Len(r) >= 1 /\ c + 1 <= Len(s)
  BY <1>1, <1>2
<1>4. x \in Seq(S) /\ Len(x) = Len(s) - (c + 1) /\ \A i \in 1..Len(x) : x[i] = s[(c + 1) + i]
  BY <1>3
<1> HIDE DEF x
<1> DEFINE t == Tail(r)
<1>5. t \in Seq(S) /\ Len(t) = Len(r) - 1 /\ \A i \in 1..Len(t) : t[i] = r[i + 1]
  BY <1>1, <1>2, <1>3
<1>6. Head(r) = s[c + 1]
  BY <1>1, <1>2, <1>3
<1> HIDE DEF t
<1>7. Len(t) = Len(x) /\ \A i \in 1..Len(t) : t[i] = x[i]
  <2>1. Len(t) = Len(x)
    BY <1>1, <1>3, <1>4, <1>5
  <2>2. ASSUME NEW i \in 1..Len(t) PROVE t[i] = x[i]
    <3>1. i + 1 \in 1..Len(r) /\ i \in 1..Len(x) /\ c + (i + 1) = (c + 1) + i
      BY <2>1, <1>1, <1>5
    <3>. QED BY <3>1, <1>1, <1>4, <1>5
  <2>. QED BY <2>1, <2>2
<1>8. t = x
  BY <1>4, <1>5, <1>7, SeqEqual
<1>. QED BY <1>3, <1>6, <1>8 DEF r, t, x

LEMMA LoadingSection ==
  ASSUME TypeInv, InStep, Loading, SendSection PROVE Loading'
<1> DEFINE s == Head(sections)
           address == transfer.address + s.address
           S == Parse(transfer.file)
<1>1. /\ phase = "sections" /\ sections # << >> /\ sections \in Seq(SectionOf) /\ transfer \in Transfers
      /\ UNCHANGED <<transfer, gate, mem, wanted>> /\ sections' = Tail(sections)
  BY DEF SendSection, TypeInv, TermInv
<1>2. wanted' = [w \in Words |-> wanted'[w]]
  BY <1>1 DEF Loading
<1>3. CASE address >= Space
  <2>1. ~ sound'
    BY <1>3 DEF SendSection
  <2>. QED BY <1>2, <2>1 DEF Loading, Writing
<1>4. CASE ~ (address >= Space)
  <2>1. phase' = "ack"
        /\ tx' = tx \o <<Opcode["WB"]>> \o AsBytes(address) \o AsBytes(s.size) \o FlattenSeq(s.words)
        /\ sound' = (sound /\ Resting /\ rx = << >> /\ Whole(s))
    BY <1>4 DEF SendSection
  <2>2. CASE ~ sound'
    BY <1>2, <2>2 DEF Loading, Writing
  <2>3. CASE sound'
    <3>1. sound /\ gate.st = "IDLE" /\ tx = << >> /\ Whole(s) /\ gate.count = 0
      BY <2>1, <2>3 DEF Resting, TypeInv, GateInv, GateSane
    <3>2. transfer.op = "WB" /\ transfer # << >>
      BY <1>1, <3>1, NoTransfer DEF InStep, Books
    <3>3. Progress /\ (Fit => Goal /\ Remains)
      BY <1>1, <3>1, <3>2 DEF Loading, Writing, Reads
    <3>4. Now \in Nat /\ S \in Seq(SectionOf) /\ Jobs = 1..Len(S) /\ Now + Len(sections) = Len(S) /\ ~ Unreadable(transfer.file)
          /\ sections = SubSeq(S, Now + 1, Len(S)) /\ \A j \in 1..Now : GoodSection(j)
      BY <1>1, <3>2, <3>3, NowType DEF Progress
    <3> DEFINE n == Now
    <3>5. n + 1 <= Len(S) /\ s = S[n + 1] /\ sections' = SubSeq(S, (n + 1) + 1, Len(S))
      <4> HIDE DEF S, n
      <4>1. n \in Nat /\ S \in Seq(SectionOf) /\ sections = SubSeq(S, n + 1, Len(S))
        BY <3>4 DEF n
      <4>. QED BY <1>1, <4>1, NextOf
    <3>6. Now' = n + 1
      <4>1. Now' = Len(S) - Len(sections')
        BY <1>1, <3>2 DEF Now
      <4>2. sections' \in Seq(SectionOf) /\ Len(sections') = Len(sections) - 1 /\ Len(sections) \in Nat
        BY <1>1
      <4> HIDE DEF S, n
      <4>3. Len(S) \in Nat /\ n + Len(sections) = Len(S) /\ n \in Nat
        BY <3>4 DEF n
      <4>. QED BY <4>1, <4>2, <4>3
    <3> HIDE DEF n
    <3>j. n = Now /\ n \in Nat
      BY <3>4 DEF n
    <3>7. GoodSection(n + 1)
      <4>1. address < Space
        <5>1. address \in Int
          <6>1. s \in SectionOf
            BY <1>1
          <6>. QED BY <6>1, <1>1, TransferType DEF SectionOf
        <5> HIDE DEF address
        <5>. QED BY <5>1, <1>4, WordAssumption
      <4>. QED BY <3>1, <3>5, <4>1 DEF GoodSection
    <3>8. Progress'
      <4>1. \A j \in 1..(n + 1) : GoodSection(j)
        <5>1. \A j \in 1..(n + 1) : j \in 1..n \/ j = n + 1
          BY <3>j
        <5>. QED BY <5>1, <3>4, <3>7, <3>j
      <4>2. Len(sections') <= Len(S)
        <5>1. Len(sections') = Len(sections) - 1 /\ Len(sections) \in Nat
          BY <1>1
        <5> HIDE DEF S
        <5>2. Len(S) \in Nat /\ n + Len(sections) = Len(S)
          BY <3>4, <3>j
        <5>. QED BY <5>1, <5>2, <3>j
      <4>3. n + 1 >= 1
        BY <3>j
      <4>. QED BY <1>1, <2>1, <3>4, <3>5, <3>6, <4>1, <4>2, <4>3, JobsFixed DEF Progress
    <3>9. ASSUME Fit PROVE Goal' /\ Remains' /\ Playing'
      <4>1. n + 1 \in Jobs
        BY <3>4, <3>5, <3>j
      <4>2. \A j \in Jobs : j \in Nat /\ Content(j) \in Seq(Seq(Byte))
        BY <1>1, <3>2, <3>4, <3>9, JobType DEF Reads
      <4> DEFINE a == AsBytes(address)
                 b == AsBytes(s.size)
                 d == FlattenSeq(s.words)
                 o == Opcode["WB"]
      <4>3. Content(n + 1) = s.words /\ Start(n + 1) = address
        BY <3>2, <3>5 DEF Content, Start
      <4>4. s.size = Len(s.words) * WordBytes /\ s.words \in Seq(Seq(Byte)) /\ Full(s.words) /\ address \in Int
            /\ s.size \in Int
        <5>1. s \in SectionOf
          BY <1>1
        <5>2. s.size = Len(s.words) * WordBytes /\ s.words \in Seq(Seq(Byte)) /\ s.size \in Int /\ s.address \in Int
          BY <5>1 DEF SectionOf
        <5>. QED BY <5>2, <3>1, <1>1, TransferType DEF Whole, Full
      <4>5. d \in Seq(Byte) /\ Len(d) = s.size
        BY <4>4, FlattenType
      <4>6. a \in Seq(Byte) /\ Len(a) = WordBytes /\ b \in Seq(Byte) /\ Len(b) = WordBytes /\ o \in Byte
        BY <4>4, AsBytesType, Operations DEF Kinds
      <4>7. tx' = << >> \o <<o>> \o a \o b \o d
        BY <2>1, <3>1
      <4>8. Stream' = d /\ Order' = b \o d /\ (Start(Now))' = address
        <5>1. Stream' = d
          BY <3>6, <4>3, <1>1, JobsFixed DEF Stream
        <5>2. Len(d) = s.size
          BY <4>5
        <5>3. Order' = AsBytes(Len(d)) \o d
          BY <1>1, <3>2, <5>1 DEF Order
        <5>4. (Start(Now))' = address
          BY <3>6, <4>3, <1>1, <3>2, JobsFixed DEF Start
        <5>. QED BY <5>1, <5>2, <5>3, <5>4
      <4> HIDE DEF s, a, b, d, o, address
      <4>9. tx' # << >> /\ Tail(tx') = a \o (b \o d)
        <5> DEFINE c == << >> \o <<o>> \o a
                   e == b \o d
        <5>1. c \in Seq(Byte) /\ e \in Seq(Byte)
          BY <4>5, <4>6
        <5>2. tx' = c \o b \o d
          BY <4>7
        <5> HIDE DEF c
        <5>3. tx' = c \o (b \o d)
          BY <5>1, <5>2, <4>5, <4>6, ConcatAssociative
        <5>4. tx' = << >> \o <<o>> \o a \o e
          BY <5>3 DEF c
        <5> HIDE DEF e
        <5>5. tx' # << >> /\ Tail(tx') = a \o e
          BY <5>1, <5>4, <4>6, OpcodeFirst
        <5>. QED BY <5>5 DEF e
      <4>10. Playing'
        BY <1>1, <3>1, <4>8, <4>9 DEF Playing, a
      <4>11. ASSUME NEW j \in Jobs, NEW k \in DOMAIN Content(j), Undone(j, k) PROVE (Undone(j, k))'
        <5>1. j > n /\ j \in Nat
          BY <4>2, <4>11, <1>1, <3>j DEF Undone
        <5>2. j > n + 1 \/ j = n + 1
          BY <5>1, <3>j
        <5>3. ~ Finished'
          BY <1>1, <3>1, <4>9 DEF Finished
        <5>4. (k - 1) * WordBytes >= 0
          <6>1. k \in 1..Len(Content(j)) /\ k - 1 \in Nat
            BY <4>2
          <6>2. (k - 1) * WordBytes \in Nat
            BY <6>1, Products
          <6>. QED BY <6>2
        <5>. QED BY <1>1, <2>1, <3>1, <3>6, <5>2, <5>3, <5>4 DEF Undone
      <4>12. Goal' /\ Remains'
        BY <1>1, <3>3, <3>9, <4>11, JobsFixed, RemainsKept
      <4>. QED BY <4>10, <4>12
    <3>10. Fit' <=> Fit
      BY <1>1, JobsFixed
    <3>11. Loading'
      BY <1>1, <1>2, <3>2, <3>8, <3>9, <3>10 DEF Loading, Reads
    <3>. QED BY <3>11
  <2>. QED BY <2>2, <2>3
<1>. QED BY <1>3, <1>4

LEMMA LoadingServe ==
  ASSUME TypeInv, InStep, Loading, Serve PROVE Loading'
<1>1. CASE SendSection
  BY <1>1, LoadingSection
<1>2. CASE EndOfFile \/ ReadAck \/ ReadWord
  <2>1. UNCHANGED <<transfer, sections, gate, tx, mem, wanted, sound>>
    BY <1>2 DEF EndOfFile, ReadAck, ReadWord, history
  <2>2. wanted' = [w \in Words |-> wanted'[w]]
    BY <2>1 DEF Loading
  <2>3. CASE ~ sound
    BY <2>1, <2>2, <2>3 DEF Loading, Writing
  <2>4. CASE sound
    <3>1. phase \in {"sections", "ack", "data"}
      BY <1>2 DEF EndOfFile, ReadAck, ReadWord
    <3>2. transfer \in Transfers /\ transfer # << >> /\ transfer.op \in Kinds /\ Books
      BY <2>4, <3>1, NoTransfer, TransferType DEF InStep, TypeInv, TermInv
    <3>3. CASE transfer.op \in Reads
      <4>1. mem = wanted
        BY <2>4, <3>1, <3>2, <3>3 DEF Loading, Books
      <4>. QED BY <2>1, <2>2, <3>3, <4>1 DEF Loading, Writing
    <3>4. CASE transfer.op \notin Reads
      <4>1. phase \in {"sections", "ack"} /\ Writing /\ Progress /\ (Fit => Goal /\ Remains) /\ ~ ReadWord
        BY <2>4, <3>1, <3>2, <3>4 DEF Loading, Writing, Books, ReadWord
      <4>2. phase = "ack" => Finished
        <5> SUFFICES ASSUME phase = "ack" PROVE Finished
          OBVIOUS
        <5>1. ReadAck
          BY <1>2, <4>1 DEF EndOfFile
        <5>2. Answering /\ rx # << >>
          BY <2>4, <5>1, Punctual
        <5>3. left = 0 /\ Ahead = 1 /\ ToCome \in Nat /\ (ToCome = 0 => gate.st = "IDLE") /\ Len(rx) + ToCome = Ahead + left * WordBytes
          BY <3>2, <3>4, <5>2, NothingMissing DEF Books, Answering, Ahead
        <5>4. left * WordBytes = 0
          BY <5>3, WordAssumption
        <5>5. Len(rx) \in Nat /\ Len(rx) >= 1
          BY <5>2 DEF TypeInv, LineInv
        <5>6. ToCome = 0
          <6> DEFINE x == ToCome
                     y == Len(rx)
          <6>1. x \in Nat /\ y \in Nat /\ y >= 1 /\ y + x = 1 + 0
            BY <5>3, <5>4, <5>5
          <6> HIDE DEF x, y
          <6>2. x = 0
            BY <6>1
          <6>. QED BY <6>2 DEF x
        <5>. QED BY <5>2, <5>3, <5>6 DEF Answering, Finished
      <4>3. \A j, k : Undone(j, k) => (Undone(j, k))'
        BY <2>1, <4>1, <4>2, JobsFixed DEF Undone
      <4>4. phase' = IF transfer.op = "W" \/ EndOfFile THEN "prompt" ELSE "sections"
        <5>1. CASE EndOfFile
          BY <5>1 DEF EndOfFile
        <5>2. CASE ReadAck /\ ~ EndOfFile
          <6>1. Onward(TRUE)
            BY <2>4, <5>2, Punctual
          <6>. QED BY <6>1, <3>2, <3>4, <5>2 DEF Onward, Reads, Kinds
        <5>. QED BY <5>1, <5>2, <1>2, <4>1
      <4>5. Progress'
        <5>1. transfer.op = "WB" /\ phase' = "prompt" => sections = << >>
          BY <4>4 DEF EndOfFile
        <5>. QED BY <2>1, <4>1, <4>4, <5>1, JobsFixed DEF Progress
      <4>6. Fit' => Goal' /\ Remains'
        BY <2>1, <4>1, <4>3, JobsFixed, RemainsKept
      <4>. QED BY <2>1, <2>2, <3>2, <3>4, <4>4, <4>5, <4>6 DEF Loading
    <3>. QED BY <3>3, <3>4
  <2>. QED BY <2>3, <2>4
<1>. QED BY <1>1, <1>2 DEF Serve

(* What was asked to be written is in the memory, each byte at its place,    *)
(* and no other byte has changed, when the terminal asks for the next        *)
(* transfer (MemoryAsAsked).                                                 *)
THEOREM WritesWhatWasAsked == Spec => []MemoryAsAsked
<1>1. Init => Loading
  <2> SUFFICES ASSUME Init PROVE Loading
    OBVIOUS
  <2>1. wanted = mem /\ wanted = [w \in Words |-> wanted[w]]
    BY DEF Init
  <2>. QED BY <2>1 DEF Init, Loading, Writing
<1>2. TypeInv /\ InStep /\ Loading /\ [Next]_vars => Loading'
  <2> SUFFICES ASSUME TypeInv, InStep, Loading, [Next]_vars PROVE Loading'
    OBVIOUS
  <2>1. CASE \E t \in Transfers : Ask(t)
    BY <2>1, LoadingAsk
  <2>2. CASE Serve
    BY <2>2, LoadingServe
  <2>3. CASE Quit
    BY <2>3 DEF Quit, history, Loading, Writing
  <2>4. CASE Lose
    BY <2>4 DEF Lose, Loading, Writing
  <2>5. CASE Gateway
    BY <2>5, LoadingGateway
  <2>6. CASE UNCHANGED vars
    <3>1. UNCHANGED <<phase, transfer, sections, tx, gate, mem, wanted, sound>>
      BY <2>6 DEF vars, terminal, history
    <3>2. (Goal' <=> Goal) /\ (Fit' <=> Fit)
      BY <3>1, JobsFixed
    <3>3. Finished' <=> Finished
      BY <3>1 DEF Finished
    <3>4. \A j, k : Undone(j, k) => (Undone(j, k))'
      BY <3>1, <3>3, JobsFixed DEF Undone
    <3>5. Remains => Remains'
      BY <3>1, <3>4, RemainsKept
    <3>6. (Progress' <=> Progress) /\ (Writing' <=> Writing)
      BY <3>1, JobsFixed DEF Progress, Writing
    <3>7. Stream' = Stream
      BY <3>1, JobsFixed DEF Stream
    <3>8. Playing' <=> Playing
      BY <3>1, <3>7, JobsFixed DEF Playing, Order, Rest, Placing, Sized
    <3>. QED BY <3>1, <3>2, <3>5, <3>6, <3>8 DEF Loading
  <2>. QED BY <2>1, <2>2, <2>3, <2>4, <2>5, <2>6 DEF Next
<1>3. TypeInv /\ Loading => MemoryAsAsked
  <2> SUFFICES ASSUME TypeInv, Loading, phase = "prompt", sound,
                      transfer # << >> /\ transfer.op = "WB" => Tidy(transfer.file, transfer.address)
               PROVE  mem = wanted
    BY DEF MemoryAsAsked
  <2>1. CASE transfer = << >> \/ transfer.op \in Reads
    BY <2>1 DEF Loading
  <2>2. CASE transfer # << >> /\ transfer.op \notin Reads
    <3>1. transfer \in Transfers /\ transfer.op \in {"W", "WB"} /\ Progress /\ (Fit => Remains)
      BY <2>2, TransferType DEF TypeInv, TermInv, Loading, Writing, Kinds, Reads
    <3>2. Now \in Nat /\ \A j \in Jobs : j \in Nat /\ j <= Now /\ (transfer.op = "WB" => j \in 1..Now)
      <4>1. CASE transfer.op = "W"
        BY <3>1, <4>1, NowType
      <4>2. CASE transfer.op = "WB"
        <5> DEFINE n == Len(Parse(transfer.file))
        <5>1. Len(sections) = 0
          BY <3>1, <4>2 DEF Progress
        <5>2. Now \in Nat /\ Jobs = 1..n /\ Now + Len(sections) = n
          BY <3>1, <4>2, NowType
        <5> HIDE DEF n
        <5>. QED BY <5>1, <5>2
      <4>. QED BY <3>1, <4>1, <4>2
    <3>3. Fit
      BY <2>2, <3>1, <3>2 DEF Fit, Progress
    <3>4. ASSUME NEW w \in Words PROVE mem[w] = wanted[w]
      <4>1. \A j \in Jobs : \A k \in DOMAIN Content(j) : ~ Undone(j, k)
        BY <3>2 DEF Undone
      <4>. QED BY <3>1, <3>3, <4>1 DEF Remains
    <3>5. mem = [w \in Words |-> mem[w]] /\ wanted = [w \in Words |-> wanted[w]]
      BY DEF TypeInv, MemInv, Loading
    <3>. QED BY <3>4, <3>5
  <2>. QED BY <2>1, <2>2
<1>. QED BY <1>1, <1>2, <1>3, InStepInvariance, PTL DEF Spec
===============================================================================
