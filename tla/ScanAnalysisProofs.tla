------------------------- MODULE ScanAnalysisProofs -------------------------
(***************************************************************************)
(* Proofs about ScanAnalysis and the CuOx row detector, for any frames,    *)
(* any sweeps of directions and any setting of the detector: its bands are *)
(* the maximal runs of its projection and its lines are chords.            *)
(***************************************************************************)
EXTENDS ScanAnalysis, FiniteSetTheorems, SequenceTheorems, WellFoundedInduction, TLAPS

-----------------------------------------------------------------------------
(***************************************************************************)
(* Recursion and induction over the numbers up to n, and extremes.         *)
(***************************************************************************)

\* Induction up to n, with the statement as the set of the numbers it holds of.
LEMMA InductionUpTo ==
  ASSUME NEW n \in Nat, NEW S, 0 \in S,
         \A k \in 1 .. n : k - 1 \in S => k \in S
  PROVE  0 .. n \subseteq S
<1> DEFINE Bad == 0 .. n \ S
<1> SUFFICES ASSUME Bad # {} PROVE FALSE
  OBVIOUS
<1>1. Bad \subseteq Nat
  OBVIOUS
<1>2. PICK k \in Bad : \A m \in Bad : ~(<<m, k>> \in OpToRel(<, Nat))
  BY <1>1, NatLessThanWellFounded, WFMin, Zenon
<1>3. \A m \in Bad : ~(m < k)
  BY <1>1, <1>2, Zenon DEF OpToRel
<1>4. k \in 1 .. n /\ k - 1 \in 0 .. n
  OBVIOUS
<1> QED  BY <1>3, <1>4

\* The values f of a loop over 1 .. n that starts with a and takes step i by g.
Loop(n, a, g, f) == f[0] = a /\ \A i \in 1 .. n : f[i] = g[<<i, f[i - 1]>>]

\* A loop has values, all of them in the set its steps stay in.
LEMMA LoopValues ==
  ASSUME NEW n \in Nat, NEW S, NEW a \in S, NEW g \in [(1 .. n) \X S -> S]
  PROVE  \E f \in [0 .. n -> S] : Loop(n, a, g, f)
<1> DEFINE Good == {m \in 0 .. n : \E f \in [0 .. m -> S] : Loop(m, a, g, f)}
<1>1. 0 \in Good
  <2> DEFINE f == [i \in 0 .. 0 |-> a]
  <2>1. f \in [0 .. 0 -> S] /\ Loop(0, a, g, f)
    BY DEF Loop
  <2> HIDE DEF f
  <2> QED  BY <2>1
<1>2. ASSUME NEW k \in 1 .. n, k - 1 \in Good
      PROVE  k \in Good
  <2>1. PICK f \in [0 .. (k - 1) -> S] : Loop(k - 1, a, g, f)
    BY <1>2
  <2> DEFINE h == [i \in 0 .. k |-> IF i < k THEN f[i] ELSE g[<<k, f[k - 1]>>]]
  <2>2. h \in [0 .. k -> S]
    <3>1. f[k - 1] \in S
      BY <2>1
    <3> QED  BY <3>1
  <2>3. h[0] = a /\ h[k] = g[<<k, f[k - 1]>>] /\ \A i \in 0 .. (k - 1) : h[i] = f[i]
    BY <2>1 DEF Loop
  <2> HIDE DEF h
  <2>4. \A i \in 1 .. k : h[i] = g[<<i, h[i - 1]>>]
    <3> SUFFICES ASSUME NEW i \in 1 .. k PROVE h[i] = g[<<i, h[i - 1]>>]
      OBVIOUS
    <3>1. h[i - 1] = f[i - 1]
      BY <2>3
    <3>2. CASE i < k
      BY <2>1, <2>3, <3>1, <3>2 DEF Loop
    <3>3. CASE i = k
      BY <2>3, <3>1, <3>3
    <3> QED  BY <3>2, <3>3
  <2>5. Loop(k, a, g, h)
    BY <2>3, <2>4 DEF Loop
  <2> QED  BY <2>2, <2>5
<1> HIDE DEF Good
<1>3. n \in Good
  BY <1>1, <1>2, InductionUpTo
<1> QED  BY <1>3 DEF Good

\* Total adds up: its partial sums are natural numbers, each the last one and an
\* entry more.
LEMMA PartialSums ==
  ASSUME NEW n \in Nat, NEW f \in [1 .. n -> Nat]
  PROVE  \E sum \in [0 .. n -> Nat] :
           /\ sum[0] = 0 /\ \A i \in 1 .. n : sum[i] = sum[i - 1] + f[i]
           /\ Total(f, n) = sum[n]
<1> DEFINE Sums(s) == s = [i \in 0 .. n |-> IF i = 0 THEN 0 ELSE s[i - 1] + f[i]]
           g == [p \in (1 .. n) \X Nat |-> p[2] + f[p[1]]]
<1>1. g \in [(1 .. n) \X Nat -> Nat]
  OBVIOUS
<1>2. PICK s \in [0 .. n -> Nat] : Loop(n, 0, g, s)
  <2> HIDE DEF g
  <2>1. 0 \in Nat
    OBVIOUS
  <2> QED  BY <1>1, <2>1, LoopValues, Zenon
<1>3. \A i \in 1 .. n : s[i] = s[i - 1] + f[i]
  <2> SUFFICES ASSUME NEW i \in 1 .. n PROVE s[i] = s[i - 1] + f[i]
    OBVIOUS
  <2>1. i - 1 \in 0 .. n
    OBVIOUS
  <2>2. s[i - 1] \in Nat /\ s[i] = g[<<i, s[i - 1]>>]
    BY <1>2, <2>1 DEF Loop
  <2>3. <<i, s[i - 1]>> \in (1 .. n) \X Nat
    BY <2>2
  <2> QED  BY <2>2, <2>3
<1>4. Sums(s)
  <2>1. s = [i \in 0 .. n |-> s[i]]
    BY <1>2
  <2>2. s[0] = 0
    BY <1>2 DEF Loop
  <2>3. \A i \in 0 .. n : s[i] = IF i = 0 THEN 0 ELSE s[i - 1] + f[i]
    BY <1>3, <2>2
  <2> QED  BY <2>1, <2>3
<1> DEFINE c == CHOOSE t : Sums(t)
<1>5. Sums(c)
  <2> HIDE DEF Sums
  <2> QED  BY <1>4
<1>6. Total(f, n) = c[n]
  BY DEF Total
<1> HIDE DEF c
<1>7. c \in [0 .. n -> Nat] /\ c[0] = 0 /\ \A i \in 1 .. n : c[i] = c[i - 1] + f[i]
  <2> DEFINE Same == {i \in 0 .. n : c[i] = s[i]}
  <2>1. c[0] = 0 /\ \A i \in 1 .. n : c[i] = c[i - 1] + f[i]
    BY <1>5
  <2>2. 0 \in Same
    BY <1>2, <2>1 DEF Loop
  <2>3. \A k \in 1 .. n : k - 1 \in Same => k \in Same
    BY <1>3, <2>1
  <2> HIDE DEF Same
  <2>4. 0 .. n \subseteq Same
    BY <2>2, <2>3, InductionUpTo
  <2>5. \A i \in 0 .. n : c[i] = s[i]
    BY <2>4 DEF Same
  <2>6. c = [i \in 0 .. n |-> s[i]]
    <3>1. c = [i \in 0 .. n |-> c[i]]
      BY <1>5
    <3> QED  BY <2>5, <3>1
  <2> QED  BY <2>1, <2>6, <1>2
<1> QED  BY <1>6, <1>7

\* A finite set of numbers has a greatest and a least one, if it is not empty.
LEMMA Extremes ==
  ASSUME NEW S \in SUBSET Int, IsFiniteSet(S), S # {}
  PROVE  /\ Max(S) \in S /\ \A y \in S : y <= Max(S)
         /\ Min(S) \in S /\ \A y \in S : Min(S) <= y
<1> DEFINE Bounded(T) == /\ \E x \in T : \A y \in T : x >= y
                         /\ \E x \in T : \A y \in T : x =< y
           Good == {k \in Nat : \A T \in SUBSET S : Cardinality(T) = k /\ T # {} => Bounded(T)}
<1>1. 0 \in Good
  BY FS_Subset, FS_EmptySet
<1>2. ASSUME NEW k \in Nat \ {0}, k - 1 \in Good
      PROVE  k \in Good
  <2> SUFFICES ASSUME NEW T \in SUBSET S, Cardinality(T) = k, T # {}
               PROVE  Bounded(T)
    OBVIOUS
  <2>1. PICK x \in T : TRUE
    OBVIOUS
  <2> DEFINE U == T \ {x}
  <2>2. Cardinality(U) = k - 1
    BY <2>1, FS_Subset, FS_RemoveElement
  <2>3. CASE U = {}
    BY <2>1, <2>3
  <2>4. CASE U # {}
    <3>1. Bounded(U)
      BY <1>2, <2>2, <2>4
    <3>2. PICK hi \in U : \A y \in U : hi >= y
      BY <3>1
    <3>3. PICK lo \in U : \A y \in U : lo =< y
      BY <3>1
    <3>4. \E z \in T : \A y \in T : z >= y
      <4>1. \A y \in T : y \in U \/ y = x
        OBVIOUS
      <4>2. x \in Int /\ hi \in Int /\ hi \in T /\ T \subseteq Int
        BY <2>1
      <4> HIDE DEF U
      <4>3. CASE hi >= x
        BY <3>2, <4>1, <4>2, <4>3
      <4>4. CASE x >= hi
        BY <3>2, <4>1, <4>2, <4>4
      <4> QED  BY <4>2, <4>3, <4>4
    <3>5. \E z \in T : \A y \in T : z =< y
      <4>1. \A y \in T : y \in U \/ y = x
        OBVIOUS
      <4>2. x \in Int /\ lo \in Int /\ lo \in T /\ T \subseteq Int
        BY <2>1
      <4> HIDE DEF U
      <4>3. CASE lo =< x
        BY <3>3, <4>1, <4>2, <4>3
      <4>4. CASE x =< lo
        BY <3>3, <4>1, <4>2, <4>4
      <4> QED  BY <4>2, <4>3, <4>4
    <3> QED  BY <3>4, <3>5
  <2> QED  BY <2>3, <2>4
<1>3. Cardinality(S) \in Good
  <2>1. Cardinality(S) \in Nat /\ Cardinality(S) \in 0 .. Cardinality(S)
    BY FS_CardinalityType
  <2>2. \A k \in 1 .. Cardinality(S) : k - 1 \in Good => k \in Good
    <3> SUFFICES ASSUME NEW k \in 1 .. Cardinality(S), k - 1 \in Good PROVE k \in Good
      OBVIOUS
    <3>1. k \in Nat \ {0}
      BY <2>1
    <3> HIDE DEF Good
    <3> QED  BY <1>2, <3>1
  <2> HIDE DEF Good
  <2> QED  BY <1>1, <2>1, <2>2, InductionUpTo
<1>4. Bounded(S)
  BY <1>3
<1>5. Max(S) \in S /\ \A y \in S : Max(S) >= y
  <2>1. \E x \in S : \A y \in S : x >= y
    BY <1>4
  <2> QED  BY <2>1, Zenon DEF Max
<1>6. Min(S) \in S /\ \A y \in S : Min(S) =< y
  <2>1. \E x \in S : \A y \in S : x =< y
    BY <1>4
  <2> QED  BY <2>1, Zenon DEF Min
<1> QED  BY <1>5, <1>6

\* A function of numbers on a finite set has finitely many values.
LEMMA FiniteValues ==
  ASSUME NEW D, IsFiniteSet(D), NEW f, DOMAIN f = D
  PROVE  IsFiniteSet(Range(f))
<1> DEFINE h == [x \in D |-> f[x]]
<1>1. h \in Surjection(D, Range(f))
  BY DEF Surjection, Range
<1> HIDE DEF h
<1> QED  BY <1>1, FS_Surjection

-----------------------------------------------------------------------------
(***************************************************************************)
(* The bands of a profile.                                                 *)
(***************************************************************************)

\* A quotient is between the bounds of its dividend.
LEMMA QuotientBounds ==
  ASSUME NEW a \in Int, NEW b \in Nat \ {0}, NEW lo \in Int, NEW hi \in Int,
         lo * b <= a, a <= hi * b
  PROVE  a \div b \in lo .. hi
<1> DEFINE q == a \div b
<1>1. q \in Int /\ b * q <= a /\ a < b * q + b
  OBVIOUS
<1> HIDE DEF q
<1>2. b * q <= hi * b /\ lo * b < b * (q + 1)
  BY <1>1
<1>3. q <= hi
  <2> SUFFICES ASSUME hi + 1 <= q PROVE FALSE
    BY <1>1
  <2>1. b * (hi + 1) <= b * q
    BY <1>1
  <2> QED  BY <1>1, <1>2, <2>1
<1>4. lo <= q
  <2> SUFFICES ASSUME q + 1 <= lo PROVE FALSE
    BY <1>1
  <2>1. b * (q + 1) <= b * lo
    BY <1>1
  <2> QED  BY <1>1, <1>2, <2>1
<1> QED  BY <1>1, <1>3, <1>4 DEF q

\* The weighted centre of a band with a bin above zero is inside the band: not before
\* its first bin and not after its last.
LEMMA BandCenter ==
  ASSUME NEW bins \in Nat, NEW p \in [1 .. bins -> Nat], NEW start \in Nat, NEW end \in 1 .. bins,
         start < end, NEW top \in (start + 1) .. end, p[top] > 0
  PROVE  /\ Band(p, start, end).low = start
         /\ Band(p, start, end).high = end
         /\ Band(p, start, end).center \in (start * Tenth) .. ((end - 1) * Tenth)
<1> DEFINE width == end - start
           w == [j \in 1 .. width |-> p[start + j]]
           m == [j \in 1 .. width |-> p[start + j] * (start + j - 1)]
<1>1. width \in Nat \ {0}
  OBVIOUS
<1>2. w \in [1 .. width -> Nat] /\ m \in [1 .. width -> Nat]
  OBVIOUS
<1>3. \A j \in 1 .. width : w[j] \in Nat /\ m[j] = w[j] * (start + j - 1)
  OBVIOUS
<1>4. w[top - start] > 0
  OBVIOUS
<1>5. Band(p, start, end) =
        [low |-> start, high |-> end,
         center |-> IF Total(w, width) > 0 THEN (Total(m, width) * Tenth) \div Total(w, width)
                    ELSE ((start + end) * Tenth) \div 2]
  BY DEF Band
<1> HIDE DEF width, w, m
<1>6. PICK W \in [0 .. width -> Nat] :
        /\ W[0] = 0 /\ \A i \in 1 .. width : W[i] = W[i - 1] + w[i]
        /\ Total(w, width) = W[width]
  BY <1>1, <1>2, PartialSums
<1>7. PICK M \in [0 .. width -> Nat] :
        /\ M[0] = 0 /\ \A i \in 1 .. width : M[i] = M[i - 1] + m[i]
        /\ Total(m, width) = M[width]
  BY <1>1, <1>2, PartialSums
<1> DEFINE Holds(i) == start * W[i] <= M[i] /\ M[i] <= (end - 1) * W[i]
                       /\ (top - start <= i => W[i] > 0)
           Between == {i \in 0 .. width : Holds(i)}
<1>8. Holds(0)
  BY <1>1, <1>6, <1>7
<1>9. ASSUME NEW i \in 1 .. width, Holds(i - 1)
      PROVE  Holds(i)
  <2>1. W[i - 1] \in Nat /\ M[i - 1] \in Nat /\ W[i] = W[i - 1] + w[i] /\ M[i] = M[i - 1] + m[i]
    BY <1>1, <1>6, <1>7
  <2>2. w[i] \in Nat /\ m[i] = w[i] * (start + i - 1)
    BY <1>3
  <2>3. start * w[i] <= m[i] /\ m[i] <= (end - 1) * w[i]
    <3>1. w[i] * (i - 1) >= 0 /\ w[i] * (width - i) >= 0
      <4>1. i - 1 \in Nat /\ width - i \in Nat
        BY <1>1
      <4>2. \A x, y \in Nat : x * y >= 0
        OBVIOUS
      <4> QED  BY <2>2, <4>1, <4>2
    <3>2. m[i] = start * w[i] + w[i] * (i - 1)
      BY <2>2
    <3>3. (end - 1) * w[i] = m[i] + w[i] * (width - i)
      <4>1. \A x, a, b \in Int : (a + b) * x = x * a + x * b
        OBVIOUS
      <4>2. /\ start + i - 1 \in Int /\ width - i \in Int /\ w[i] \in Int
            /\ (start + i - 1) + (width - i) = end - 1
        BY <2>2 DEF width
      <4>3. ((start + i - 1) + (width - i)) * w[i] = w[i] * (start + i - 1) + w[i] * (width - i)
        BY <4>1, <4>2, Zenon
      <4> QED  BY <2>2, <4>2, <4>3, Zenon
    <3>4. \A x, y, z \in Int : z >= 0 /\ x = y + z => y <= x
      OBVIOUS
    <3>5. start * w[i] \in Int /\ m[i] \in Int /\ (end - 1) * w[i] \in Int
          /\ w[i] * (i - 1) \in Int /\ w[i] * (width - i) \in Int
      <4>1. i - 1 \in Int /\ width - i \in Int
        BY <1>1
      <4> QED  BY <2>2, <4>1
    <3> QED  BY <3>1, <3>2, <3>3, <3>4, <3>5
  <2>4. start * W[i - 1] <= M[i - 1] /\ M[i - 1] <= (end - 1) * W[i - 1]
    BY <1>9
  <2>5. start * W[i] <= M[i] /\ M[i] <= (end - 1) * W[i]
    <3>1. \A c, a, b, x, y \in Int : c * a <= x /\ c * b <= y => c * (a + b) <= x + y
      OBVIOUS
    <3>2. \A c, a, b, x, y \in Int : x <= c * a /\ y <= c * b => x + y <= c * (a + b)
      OBVIOUS
    <3>3. /\ end - 1 \in Int /\ start \in Int /\ W[i - 1] \in Int /\ M[i - 1] \in Int
          /\ w[i] \in Int /\ m[i] \in Int
      <4>1. m[i] \in Nat
        BY <1>2, <1>1
      <4> QED  BY <2>1, <2>2, <4>1
    <3>4. start * (W[i - 1] + w[i]) <= M[i - 1] + m[i]
      BY <2>3, <2>4, <3>1, <3>3
    <3>5. M[i - 1] + m[i] <= (end - 1) * (W[i - 1] + w[i])
      BY <2>3, <2>4, <3>2, <3>3
    <3> QED  BY <2>1, <3>4, <3>5
  <2>6. top - start <= i => W[i] > 0
    <3>1. CASE top - start = i
      BY <1>4, <2>1, <2>2, <3>1
    <3>2. CASE top - start <= i - 1
      <4>1. W[i - 1] > 0
        BY <1>9, <3>2
      <4> QED  BY <2>1, <2>2, <4>1
    <3> QED  BY <1>1, <3>1, <3>2
  <2> QED  BY <2>6, <2>5
<1> HIDE DEF Holds
<1>10. Holds(width)
  <2>1. 0 \in Between /\ \A i \in 1 .. width : i - 1 \in Between => i \in Between
    BY <1>1, <1>8, <1>9
  <2> HIDE DEF Between
  <2>2. width \in Between
    <3>1. width \in Nat /\ width \in 0 .. width
      BY <1>1
    <3> QED  BY <2>1, <3>1, InductionUpTo
  <2> QED  BY <2>2 DEF Between
<1>11. /\ W[width] \in Nat \ {0} /\ M[width] \in Nat
       /\ start * W[width] <= M[width] /\ M[width] <= (end - 1) * W[width]
  BY <1>1, <1>6, <1>7, <1>10 DEF Holds, width
<1>12. (M[width] * Tenth) \div W[width] \in (start * Tenth) .. ((end - 1) * Tenth)
  <2>1. (start * Tenth) * W[width] <= M[width] * Tenth
    BY <1>11 DEF Tenth
  <2>2. M[width] * Tenth <= ((end - 1) * Tenth) * W[width]
    BY <1>11 DEF Tenth
  <2>3. M[width] * Tenth \in Int /\ start * Tenth \in Int /\ (end - 1) * Tenth \in Int
    BY <1>11 DEF Tenth
  <2> QED  BY <1>11, <2>1, <2>2, <2>3, QuotientBounds
<1> QED  BY <1>5, <1>6, <1>7, <1>11, <1>12

\* The bins above the threshold, and the maximal runs of them.
Over(p, bins, percent) == {i \in 1 .. bins : AboveThreshold(p, percent, i)}
MaximalRun(A, low, high) ==
  low < high /\ low \notin A /\ high + 1 \notin A /\ \A i \in (low + 1) .. high : i \in A

\* A maximal run of a profile that is not all zero has a bin above zero: the threshold
\* is above zero, or all bins are one run.
LEMMA RunHasPeak ==
  ASSUME NEW bins \in Nat, NEW p \in [1 .. bins -> Nat], NEW percent \in Int,
         NEW peak \in 1 .. bins, p[peak] > 0,
         NEW low \in 0 .. bins, NEW high \in 0 .. bins,
         MaximalRun(Over(p, bins, percent), low, high)
  PROVE  \E top \in (low + 1) .. high : p[top] > 0
<1> DEFINE S == {p[j] : j \in DOMAIN p} \cup {0}
           largest == Greatest({p[j] : j \in DOMAIN p})
<1>1. largest \in Nat /\ largest > 0
  <2>1. S \subseteq Nat /\ p[peak] \in S
    OBVIOUS
  <2>2. IsFiniteSet(S)
    <3>1. IsFiniteSet(Range(p))
      BY FS_Interval, FiniteValues
    <3>2. S = Range(p) \cup {0}
      BY DEF Range
    <3> QED  BY <3>1, <3>2, FS_AddElement
  <2>3. largest = Max(S)
    BY DEF Greatest
  <2> HIDE DEF S, largest
  <2>4. Max(S) \in S /\ p[peak] <= Max(S)
    BY <2>1, <2>2, Extremes
  <2>5. Max(S) \in Nat
    BY <2>1, <2>4
  <2>6. p[peak] \in Nat
    OBVIOUS
  <2> QED  BY <2>3, <2>4, <2>5, <2>6
<1>2. \A i \in 1 .. bins : i \in Over(p, bins, percent) <=> p[i] * 100 >= percent * largest
  BY DEF Over, AboveThreshold
<1> HIDE DEF S, largest
<1>3. CASE percent > 0
  <2>1. percent * largest > 0
    BY <1>1, <1>3
  <2>2. high \in 1 .. bins /\ high \in Over(p, bins, percent) /\ high \in (low + 1) .. high
    BY DEF MaximalRun
  <2>3. p[high] * 100 > 0
    BY <1>1, <1>2, <2>1, <2>2
  <2>4. p[high] > 0
    BY <2>2, <2>3
  <2> QED  BY <2>2, <2>4
<1>4. CASE ~(percent > 0)
  <2>1. percent * largest <= 0
    BY <1>1, <1>4
  <2>2. \A i \in 1 .. bins : i \in Over(p, bins, percent)
    <3> SUFFICES ASSUME NEW i \in 1 .. bins PROVE i \in Over(p, bins, percent)
      OBVIOUS
    <3>1. p[i] \in Nat /\ percent * largest \in Int
      BY <1>1
    <3> QED  BY <1>2, <2>1, <3>1
  <2>3. low = 0 /\ high = bins
    BY <2>2 DEF MaximalRun
  <2> QED  BY <2>3
<1> QED  BY <1>3, <1>4

\* The runs that are reported: wide enough, and not the last bin alone.
Reported(p, bins, percent, minWidth, low, high) ==
  /\ low \in 0 .. bins /\ high \in 0 .. bins
  /\ MaximalRun(Over(p, bins, percent), low, high)
  /\ high - low >= minWidth /\ <<low, high>> # <<bins - 1, bins>>

\* What the loop keeps: the bands so far, and whether and where one is open.
AllBands(p, bins) == {Band(p, r[1], r[2]) : r \in (0 .. bins) \X (0 .. bins)}
Accumulators(p, bins) ==
  [bands : Seq(AllBands(p, bins)), inside : BOOLEAN, start : 0 .. bins]

\* The values of the loop of detect_bands.
LEMMA ScanValues ==
  ASSUME NEW bins \in Nat, NEW p \in [1 .. bins -> Nat], NEW percent \in Int,
         NEW minWidth \in Nat, NEW peak \in 1 .. bins, p[peak] > 0
  PROVE  \E acc \in [0 .. bins -> Accumulators(p, bins)] :
           /\ acc[0] = [bands |-> << >>, inside |-> FALSE, start |-> 0]
           /\ \A i \in 1 .. bins : acc[i] = Scan(p, percent, minWidth, acc[i - 1], i)
           /\ DetectBands(p, percent, minWidth) = acc[bins].bands
<1> DEFINE Step(acc, i) == Scan(p, percent, minWidth, acc, i)
           A == Accumulators(p, bins)
           start == [bands |-> << >>, inside |-> FALSE, start |-> 0]
           Scans(acc) == acc = [i \in 0 .. bins |-> IF i = 0 THEN start ELSE Step(acc[i - 1], i)]
           g == [q \in (1 .. bins) \X A |-> Step(q[2], q[1])]
<1>1. start \in A
  BY DEF Accumulators
<1>2. ASSUME NEW acc \in A, NEW i \in 1 .. bins
      PROVE  Step(acc, i) \in A
  <2>1. i - 1 \in 0 .. bins /\ i \in 0 .. bins
    OBVIOUS
  <2>2. \A end \in 0 .. bins :
          Append(acc.bands, Band(p, acc.start, end)) \in Seq(AllBands(p, bins))
    <3> SUFFICES ASSUME NEW end \in 0 .. bins
                 PROVE  Append(acc.bands, Band(p, acc.start, end)) \in Seq(AllBands(p, bins))
      OBVIOUS
    <3>1. <<acc.start, end>> \in (0 .. bins) \X (0 .. bins)
      BY DEF Accumulators
    <3>2. Band(p, acc.start, end) \in AllBands(p, bins)
      BY <3>1 DEF AllBands
    <3>3. acc.bands \in Seq(AllBands(p, bins))
      BY DEF Accumulators
    <3> QED  BY <3>2, <3>3
  <2> QED  BY <2>1, <2>2 DEF Scan, Accumulators
<1> HIDE DEF A, start, Step
<1>3. g \in [(1 .. bins) \X A -> A]
  <2>1. \A q \in (1 .. bins) \X A : Step(q[2], q[1]) \in A
    BY <1>2
  <2> QED  BY <2>1
<1>4. PICK t \in [0 .. bins -> A] : Loop(bins, start, g, t)
  <2> HIDE DEF g
  <2> QED  BY <1>1, <1>3, LoopValues, Zenon
<1>5. \A i \in 1 .. bins : t[i] = Step(t[i - 1], i)
  <2> SUFFICES ASSUME NEW i \in 1 .. bins PROVE t[i] = Step(t[i - 1], i)
    OBVIOUS
  <2>1. t[i - 1] \in A /\ t[i] = g[<<i, t[i - 1]>>]
    <3>1. i - 1 \in 0 .. bins
      OBVIOUS
    <3> HIDE DEF g
    <3> QED  BY <1>4, <3>1 DEF Loop
  <2>2. <<i, t[i - 1]>> \in (1 .. bins) \X A
    BY <2>1
  <2> QED  BY <2>1, <2>2
<1> HIDE DEF g
<1>6. Scans(t)
  <2>1. t = [i \in 0 .. bins |-> t[i]]
    BY <1>4
  <2>2. t[0] = start
    BY <1>4 DEF Loop
  <2>3. \A i \in 0 .. bins : t[i] = IF i = 0 THEN start ELSE Step(t[i - 1], i)
    BY <1>5, <2>2
  <2> QED  BY <2>1, <2>3
<1> DEFINE c == CHOOSE u : Scans(u)
<1>7. Scans(c)
  <2> HIDE DEF Scans
  <2> QED  BY <1>6
<1>8. DetectBands(p, percent, minWidth) = c[bins].bands
  <2>1. Len(p) = bins
    OBVIOUS
  <2>2. ~\A i \in DOMAIN p : p[i] <= 0
    OBVIOUS
  <2> QED  BY <2>1, <2>2 DEF DetectBands, start, Step
<1> HIDE DEF c
<1>9. c[0] = start /\ \A i \in 1 .. bins : c[i] = Step(c[i - 1], i)
  BY <1>7
<1>10. c \in [0 .. bins -> A]
  <2> DEFINE Typed == {i \in 0 .. bins : c[i] \in A}
  <2>1. 0 \in Typed
    BY <1>1, <1>9
  <2>2. \A k \in 1 .. bins : k - 1 \in Typed => k \in Typed
    BY <1>2, <1>9
  <2> HIDE DEF Typed
  <2>3. 0 .. bins \subseteq Typed
    BY <2>1, <2>2, InductionUpTo
  <2>4. \A i \in 0 .. bins : c[i] \in A
    BY <2>3 DEF Typed
  <2>5. c = [i \in 0 .. bins |-> c[i]]
    BY <1>7
  <2> HIDE DEF Scans
  <2> QED  BY <2>4, <2>5
<1> QED  BY <1>8, <1>9, <1>10 DEF A, start, Step

\* detect_bands reports each run that is wide enough and not the last bin alone, and
\* nothing else, each once and in order.
LEMMA DetectedBands ==
  ASSUME NEW bins \in Nat, NEW p \in [1 .. bins -> Nat], NEW percent \in Int,
         NEW minWidth \in Nat, NEW peak \in 1 .. bins, p[peak] > 0,
         NEW bands, bands = DetectBands(p, percent, minWidth)
  PROVE  /\ bands \in Seq(AllBands(p, bins))
         /\ \A j \in DOMAIN bands : \E low, high \in 0 .. bins :
              /\ Reported(p, bins, percent, minWidth, low, high)
              /\ bands[j] = Band(p, low, high)
         /\ \A low, high : Reported(p, bins, percent, minWidth, low, high)
              => \E j \in DOMAIN bands : bands[j] = Band(p, low, high)
         /\ \A i, j \in DOMAIN bands : i < j => bands[i].high < bands[j].low
<1> DEFINE Rep(low, high) == Reported(p, bins, percent, minWidth, low, high)
           A == Over(p, bins, percent)
           B == AllBands(p, bins)
<1>1. \A low, high \in 0 .. bins :
        Band(p, low, high).low = low /\ Band(p, low, high).high = high
  BY DEF Band
<1>2. PICK acc \in [0 .. bins -> Accumulators(p, bins)] :
        /\ acc[0] = [bands |-> << >>, inside |-> FALSE, start |-> 0]
        /\ \A i \in 1 .. bins : acc[i] = Scan(p, percent, minWidth, acc[i - 1], i)
        /\ bands = acc[bins].bands
  BY ScanValues
<1>3. \A i \in 0 .. bins : /\ acc[i].bands \in Seq(B) /\ acc[i].inside \in BOOLEAN
                           /\ acc[i].start \in 0 .. bins
  BY <1>2 DEF Accumulators
<1>4. A \subseteq 1 .. bins /\ \A i \in 1 .. bins : AboveThreshold(p, percent, i) <=> i \in A
  BY DEF Over
<1>5. \A low, high : Rep(low, high) <=>
        /\ low \in 0 .. bins /\ high \in 0 .. bins
        /\ low < high /\ low \notin A /\ high + 1 \notin A
        /\ \A i \in (low + 1) .. high : i \in A
        /\ high - low >= minWidth /\ ~(low = bins - 1 /\ high = bins)
  BY DEF Reported, MaximalRun
<1>6. \A low, high : Rep(low, high) => high \in A /\ high \in Nat /\ low \in Nat
  <2> HIDE DEF Rep, A
  <2> SUFFICES ASSUME NEW low, NEW high, Rep(low, high) PROVE high \in A /\ high \in Nat /\ low \in Nat
    OBVIOUS
  <2>1. low \in Nat /\ high \in Nat /\ low < high /\ \A i \in (low + 1) .. high : i \in A
    BY <1>5
  <2> QED  BY <2>1
<1> HIDE DEF Rep, A, B
<1> DEFINE Open(i) ==
             /\ acc[i].inside => /\ acc[i].start < i /\ acc[i].start \notin A
                               /\ \A k \in (acc[i].start + 1) .. i : k \in A
             /\ ~acc[i].inside => i \notin A \/ i = bins
           Past(i, high) == high < i \/ (high = i /\ i = bins)
           Sound(i) ==
             \A j \in DOMAIN acc[i].bands : \E low, high \in 0 .. bins :
               Rep(low, high) /\ Past(i, high) /\ acc[i].bands[j] = Band(p, low, high)
           Complete(i) ==
             \A low, high : Rep(low, high) /\ Past(i, high)
               => \E j \in DOMAIN acc[i].bands : acc[i].bands[j] = Band(p, low, high)
           InOrder(i) ==
             \A j, k \in DOMAIN acc[i].bands : j < k => acc[i].bands[j].high < acc[i].bands[k].low
           Holds(i) == Open(i) /\ Sound(i) /\ Complete(i) /\ InOrder(i)
<1>7. Holds(0)
  <2>1. acc[0].inside = FALSE /\ acc[0].bands = << >>
    BY <1>2
  <2>2. Open(0)
    BY <1>4, <2>1
  <2>3. Sound(0) /\ InOrder(0)
    BY <2>1
  <2>4. Complete(0)
    BY <1>5
  <2> QED  BY <2>2, <2>3, <2>4
<1>8. ASSUME NEW i \in 1 .. bins, Holds(i - 1)
      PROVE  Holds(i)
  <2> DEFINE a == acc[i - 1]
             b == acc[i]
  <2>1. /\ i - 1 \in 0 .. bins /\ i \in 0 .. bins /\ i - 1 < bins
        /\ a.bands \in Seq(B) /\ a.inside \in BOOLEAN /\ a.start \in 0 .. bins
        /\ b.bands \in Seq(B) /\ b.inside \in BOOLEAN /\ b.start \in 0 .. bins
    BY <1>3
  <2>2. \A low, high : Rep(low, high) /\ Past(i - 1, high) => Past(i, high) /\ high < i - 1
    BY <1>6, <2>1
  <2>3. b.bands = a.bands => Sound(i) /\ InOrder(i)
    <3> HIDE DEF Past
    <3>1. Sound(i - 1) /\ InOrder(i - 1)
      BY <1>8
    <3> QED  BY <2>2, <3>1
  <2>4. CASE i \in A /\ ~a.inside
    <3>1. b.inside = TRUE /\ b.start = i - 1 /\ b.bands = a.bands
      BY <1>2, <1>4, <2>1, <2>4 DEF Scan, Accumulators
    <3>2. i - 1 \notin A
      BY <1>8, <2>1, <2>4
    <3>3. Open(i)
      BY <2>4, <3>1, <3>2
    <3>4. \A low, high : Rep(low, high) /\ Past(i, high) => Past(i - 1, high)
      <4> SUFFICES ASSUME NEW low, NEW high, Rep(low, high), Past(i, high)
                   PROVE  Past(i - 1, high)
        OBVIOUS
      <4>1. /\ high \in A /\ high \in Nat /\ low \in Nat /\ low < high
            /\ \A k \in (low + 1) .. high : k \in A
            /\ ~(low = bins - 1 /\ high = bins)
        BY <1>5, <1>6
      <4>2. high # i - 1
        BY <3>2, <4>1
      <4>3. CASE high = i /\ i = bins
        <5>1. i - 1 \in (low + 1) .. high
          BY <4>1, <4>3, <2>1
        <5> QED  BY <3>2, <4>1, <5>1
      <4> QED  BY <2>1, <4>1, <4>2, <4>3
    <3>5. Complete(i)
      BY <1>8, <3>1, <3>4
    <3>6. Sound(i) /\ InOrder(i)
      BY <2>3, <3>1
    <3> QED  BY <3>3, <3>5, <3>6
  <2>5. CASE a.inside /\ (i \notin A \/ i = bins)
    <3> DEFINE end == IF i \in A THEN i ELSE i - 1
    <3>1. /\ b.inside = FALSE
          /\ b.bands = IF end - a.start >= minWidth
                        THEN Append(a.bands, Band(p, a.start, end)) ELSE a.bands
      <4>1. Len(p) = bins
        OBVIOUS
      <4>2. b = Scan(p, percent, minWidth, a, i)
        BY <1>2
      <4>3. AboveThreshold(p, percent, i) <=> i \in A
        BY <1>4
      <4>4. b = [a EXCEPT !.inside = FALSE,
                   !.bands = IF end - a.start >= minWidth
                               THEN Append(@, Band(p, a.start, end)) ELSE @]
        BY <2>5, <4>1, <4>2, <4>3 DEF Scan
      <4>5. a \in Accumulators(p, bins)
        BY <1>2, <2>1
      <4> HIDE DEF a, b, end
      <4> QED  BY <4>4, <4>5 DEF Accumulators
    <3>2. /\ a.start < i - 1 /\ a.start \notin A
          /\ \A k \in (a.start + 1) .. (i - 1) : k \in A
      BY <1>8, <2>5
    <3>3. end \in 0 .. bins /\ a.start < end /\ Past(i, end)
      <4> HIDE DEF a, b
      <4> QED  BY <2>1, <2>5, <3>2
    <3>4. Rep(a.start, end) <=> end - a.start >= minWidth
      <4> HIDE DEF a, b
      <4>1. \A k \in (a.start + 1) .. end : k \in A
        BY <2>1, <2>5, <3>2
      <4>2. end + 1 \notin A
        BY <1>4, <2>1, <2>5
      <4>3. ~(a.start = bins - 1 /\ end = bins)
        BY <2>1, <2>5, <3>2
      <4>4. a.start \in 0 .. bins /\ end \in 0 .. bins /\ a.start < end /\ a.start \notin A
        BY <2>1, <3>2, <3>3
      <4> HIDE DEF end
      <4> QED  BY <1>5, <4>1, <4>2, <4>3, <4>4
    <3>5. \A low, high : Rep(low, high) /\ Past(i, high)
            => Past(i - 1, high) \/ (low = a.start /\ high = end)
      <4> HIDE DEF a, b
      <4> SUFFICES ASSUME NEW low, NEW high, Rep(low, high), Past(i, high), ~Past(i - 1, high)
                   PROVE  low = a.start /\ high = end
        OBVIOUS
      <4>1. /\ high \in A /\ high \in Nat /\ low \in Nat /\ low < high
            /\ low \notin A /\ high + 1 \notin A
            /\ \A k \in (low + 1) .. high : k \in A
        BY <1>5, <1>6
      <4>2. high = i - 1 \/ (high = i /\ i = bins)
        BY <2>1, <4>1
      <4>3. high = end
        <5>1. CASE i \in A
          <6>1. i = bins /\ end = i
            BY <2>5, <5>1
          <6>2. high + 1 # i
            BY <4>1, <5>1
          <6> QED  BY <4>1, <4>2, <6>1, <6>2
        <5>2. CASE i \notin A
          <6>1. end = i - 1 /\ high # i
            BY <4>1, <5>2
          <6> QED  BY <4>2, <6>1
        <5> QED  BY <5>1, <5>2
      <4>4. a.start \in Nat /\ a.start < high /\ \A k \in (a.start + 1) .. high : k \in A
        <5>1. a.start \in Nat /\ a.start < high
          BY <2>1, <3>2, <4>1, <4>2
        <5>2. \A k \in (a.start + 1) .. high : k \in A
          BY <2>1, <3>2, <4>1, <4>2
        <5> QED  BY <5>1, <5>2
      <4>5. ~(low < a.start) /\ ~(a.start < low)
        <5>1. low < a.start => a.start \in (low + 1) .. high
          BY <4>1, <4>4
        <5>2. a.start < low => low \in (a.start + 1) .. high
          BY <4>1, <4>4
        <5> QED  BY <3>2, <4>1, <4>4, <5>1, <5>2
      <4> QED  BY <4>1, <4>3, <4>4, <4>5
    <3>6. \A j \in DOMAIN a.bands : a.bands[j].high < a.start
      <4> SUFFICES ASSUME NEW j \in DOMAIN a.bands PROVE a.bands[j].high < a.start
        OBVIOUS
      <4>1. PICK low \in 0 .. bins, high \in 0 .. bins :
              Rep(low, high) /\ Past(i - 1, high) /\ a.bands[j] = Band(p, low, high)
        BY <1>8
      <4>2. high + 1 \notin A /\ high < i - 1 /\ high \in A
        BY <1>5, <1>6, <2>2, <4>1
      <4>3. high < a.start
        BY <2>1, <3>2, <4>2
      <4>4. a.bands[j].high = high
        BY <1>1, <4>1
      <4> QED  BY <4>3, <4>4
    <3>7. Open(i)
      BY <2>5, <3>1
    <3> DEFINE new == Band(p, a.start, end)
    <3> HIDE DEF end
    <3>8. CASE end - a.start >= minWidth
      <4>1. b.bands = Append(a.bands, new)
        BY <3>1, <3>8
      <4>2. /\ DOMAIN b.bands = 1 .. (Len(a.bands) + 1) /\ DOMAIN a.bands = 1 .. Len(a.bands)
            /\ b.bands[Len(a.bands) + 1] = new
            /\ \A j \in DOMAIN a.bands : b.bands[j] = a.bands[j]
        <5> HIDE DEF a, b, new
        <5>1. new \in B
          <6>1. <<a.start, end>> \in (0 .. bins) \X (0 .. bins)
            BY <2>1, <3>3
          <6> QED  BY <6>1 DEF new, B, AllBands
        <5> QED  BY <2>1, <4>1, <5>1
      <4>3. new.low = a.start /\ new.high = end
        BY <1>1, <2>1, <3>3
      <4> HIDE DEF new, Past
      <4>4. Sound(i)
        <5> SUFFICES ASSUME NEW j \in DOMAIN b.bands
                     PROVE  \E low, high \in 0 .. bins :
                              Rep(low, high) /\ Past(i, high) /\ b.bands[j] = Band(p, low, high)
          OBVIOUS
        <5>1. CASE j \in DOMAIN a.bands
          <6>1. PICK low \in 0 .. bins, high \in 0 .. bins :
                  Rep(low, high) /\ Past(i - 1, high) /\ a.bands[j] = Band(p, low, high)
            BY <1>8, <5>1
          <6>2. b.bands[j] = a.bands[j]
            BY <4>2, <5>1
          <6> QED  BY <2>2, <6>1, <6>2
        <5>2. CASE j = Len(a.bands) + 1
          <6>1. Rep(a.start, end) /\ b.bands[j] = Band(p, a.start, end)
            BY <3>4, <3>8, <4>2, <5>2 DEF new
          <6> QED  BY <2>1, <3>3, <6>1
        <5> QED  BY <4>2, <5>1, <5>2
      <4>5. Complete(i)
        <5> SUFFICES ASSUME NEW low, NEW high, Rep(low, high), Past(i, high)
                     PROVE  \E j \in DOMAIN b.bands : b.bands[j] = Band(p, low, high)
          OBVIOUS
        <5>1. CASE Past(i - 1, high)
          <6>1. PICK j \in DOMAIN a.bands : a.bands[j] = Band(p, low, high)
            BY <1>8, <5>1
          <6>2. j \in DOMAIN b.bands /\ b.bands[j] = a.bands[j]
            BY <2>1, <4>2
          <6> QED  BY <6>1, <6>2
        <5>2. CASE low = a.start /\ high = end
          <6>1. b.bands[Len(a.bands) + 1] = Band(p, low, high)
            BY <4>2, <5>2 DEF new
          <6>2. Len(a.bands) + 1 \in DOMAIN b.bands
            BY <2>1, <4>2
          <6> QED  BY <6>1, <6>2
        <5> QED  BY <3>5, <5>1, <5>2
      <4>6. InOrder(i)
        <5> SUFFICES ASSUME NEW j \in DOMAIN b.bands, NEW k \in DOMAIN b.bands, j < k
                     PROVE  b.bands[j].high < b.bands[k].low
          OBVIOUS
        <5>1. j \in DOMAIN a.bands
          BY <2>1, <4>2
        <5>2. CASE k \in DOMAIN a.bands
          BY <1>8, <4>2, <5>1, <5>2
        <5>3. CASE k = Len(a.bands) + 1
          BY <3>6, <4>2, <4>3, <5>1, <5>3
        <5>4. k \in DOMAIN a.bands \/ k = Len(a.bands) + 1
          <6> HIDE DEF a, b
          <6>1. Len(a.bands) \in Nat
            BY <2>1
          <6> QED  BY <4>2, <6>1
        <5> QED  BY <5>2, <5>3, <5>4
      <4> QED  BY <3>7, <4>4, <4>5, <4>6
    <3>9. CASE ~(end - a.start >= minWidth)
      <4>1. b.bands = a.bands
        BY <3>1, <3>9
      <4>2. Sound(i) /\ InOrder(i)
        BY <2>3, <4>1
      <4>3. Complete(i)
        BY <1>8, <3>4, <3>5, <3>9, <4>1
      <4> QED  BY <3>7, <4>2, <4>3
    <3> QED  BY <3>8, <3>9
  <2>6. CASE ~(i \in A /\ ~a.inside) /\ ~(a.inside /\ (i \notin A \/ i = bins))
    <3>1. b = a
      <4>1. Len(p) = bins
        OBVIOUS
      <4> QED  BY <1>2, <1>4, <2>1, <2>6, <4>1 DEF Scan, Accumulators
    <3>2. Open(i)
      <4>1. Open(i - 1)
        BY <1>8
      <4>2. CASE a.inside
        <5>1. i \in A /\ b.inside
          BY <2>6, <3>1, <4>2
        <5>2. /\ b.start < i /\ b.start \notin A
              /\ \A k \in (b.start + 1) .. (i - 1) : k \in A
          BY <2>1, <3>1, <4>1, <4>2
        <5> HIDE DEF b
        <5>3. \A k \in (b.start + 1) .. i : k \in A
          BY <2>1, <5>1, <5>2
        <5> QED  BY <5>1, <5>2, <5>3 DEF b
      <4>3. CASE ~a.inside
        BY <2>6, <3>1, <4>3
      <4> QED  BY <4>2, <4>3
    <3>3. \A low, high : Rep(low, high) /\ Past(i, high) => Past(i - 1, high)
      <4> SUFFICES ASSUME NEW low, NEW high, Rep(low, high), Past(i, high), ~Past(i - 1, high)
                   PROVE  FALSE
        OBVIOUS
      <4>1. /\ high \in A /\ high \in Nat /\ low \in Nat /\ low < high
            /\ high + 1 \notin A /\ ~(low = bins - 1 /\ high = bins)
            /\ \A k \in (low + 1) .. high : k \in A
        BY <1>5, <1>6
      <4>2. high = i - 1 \/ (high = i /\ i = bins)
        BY <2>1, <4>1
      <4>3. CASE a.inside
        <5>1. i \in A /\ high + 1 # i /\ i # bins
          BY <2>6, <4>1, <4>3
        <5> QED  BY <4>1, <4>2, <5>1
      <4>4. CASE ~a.inside
        <5>1. i \notin A /\ i - 1 \notin A
          BY <1>8, <2>1, <2>6, <4>4
        <5> QED  BY <4>1, <4>2, <5>1
      <4> QED  BY <4>3, <4>4
    <3>4. Complete(i)
      BY <1>8, <3>1, <3>3
    <3>5. Sound(i) /\ InOrder(i)
      BY <2>3, <3>1
    <3> QED  BY <3>2, <3>4, <3>5
  <2> QED  BY <2>4, <2>5, <2>6
<1>9. Holds(bins)
  <2> HIDE DEF Holds
  <2> DEFINE Good == {i \in 0 .. bins : Holds(i)}
  <2>1. 0 \in Good /\ \A i \in 1 .. bins : i - 1 \in Good => i \in Good
    BY <1>7, <1>8
  <2>2. bins \in 0 .. bins
    OBVIOUS
  <2> HIDE DEF Good
  <2>3. bins \in Good
    BY <2>1, <2>2, InductionUpTo
  <2> QED  BY <2>3 DEF Good
<1>10. \A low, high : Rep(low, high) => Past(bins, high)
  BY <1>5
<1>11. bands \in Seq(B)
  BY <1>2, <1>3
<1> QED  BY <1>2, <1>9, <1>10, <1>11 DEF Rep, B

-----------------------------------------------------------------------------
(***************************************************************************)
(* The score map and its projection.                                       *)
(***************************************************************************)

\* A frame with pixels; the tables of sums over it.
Image(frame, pixels) == Frame(frame, pixels) /\ frame.rows > 0 /\ frame.cols > 0
Tables(frame)        == [(0 .. frame.rows) \X (0 .. frame.cols) -> Int]

\* Filling a row of a table leaves a table of numbers.
LEMMA SatRowType ==
  ASSUME NEW frame, Image(frame, Int), NEW table \in Tables(frame), NEW r \in 1 .. frame.rows
  PROVE  SatRow(frame, table, r) \in Tables(frame)
<1> DEFINE cols == frame.cols
           T == Tables(frame)
           Value(c) == frame.at[<<r - 1, c - 1>>]
           Step(s, c) == [s EXCEPT ![<<r, c>>] = SatEntry(s, Value(c), <<r - 1, c - 1>>)]
           Fills(f) == f = [c \in 0 .. cols |-> IF c = 0 THEN table ELSE Step(f[c - 1], c)]
           g == [q \in (1 .. cols) \X T |-> Step(q[2], q[1])]
<1>1. cols \in Nat /\ frame.rows \in Nat
  BY DEF Image, Frame
<1>2. ASSUME NEW s \in T, NEW c \in 1 .. cols
      PROVE  Step(s, c) \in T
  <2>1. Value(c) \in Int
    <3>1. <<r - 1, c - 1>> \in Cells(frame.rows, frame.cols)
      BY <1>1 DEF Cells
    <3> QED  BY <3>1 DEF Image, Frame
  <2>2. SatEntry(s, Value(c), <<r - 1, c - 1>>) \in Int
    <3> DEFINE p == <<r - 1, c - 1>>
    <3>1. /\ p \in (0 .. frame.rows) \X (0 .. frame.cols)
          /\ <<p[1], p[2] + 1>> \in (0 .. frame.rows) \X (0 .. frame.cols)
          /\ <<p[1] + 1, p[2]>> \in (0 .. frame.rows) \X (0 .. frame.cols)
      BY <1>1
    <3> HIDE DEF p
    <3>2. s[p] \in Int /\ s[<<p[1], p[2] + 1>>] \in Int /\ s[<<p[1] + 1, p[2]>>] \in Int
      BY <3>1 DEF Tables
    <3> HIDE DEF Value
    <3>3. SatEntry(s, Value(c), p) \in Int
      BY <2>1, <3>2 DEF SatEntry
    <3> QED  BY <3>3 DEF p
  <2> HIDE DEF Value
  <2> QED  BY <2>2 DEF Tables
<1> HIDE DEF T, Step
<1>3. table \in T
  BY DEF T
<1>4. g \in [(1 .. cols) \X T -> T]
  <2>1. \A q \in (1 .. cols) \X T : Step(q[2], q[1]) \in T
    BY <1>2
  <2> QED  BY <2>1
<1>5. PICK t \in [0 .. cols -> T] : Loop(cols, table, g, t)
  <2> HIDE DEF g, cols
  <2> QED  BY <1>1, <1>3, <1>4, LoopValues, Zenon
<1>6. \A c \in 1 .. cols : t[c] = Step(t[c - 1], c)
  <2> SUFFICES ASSUME NEW c \in 1 .. cols PROVE t[c] = Step(t[c - 1], c)
    OBVIOUS
  <2>1. t[c - 1] \in T /\ t[c] = g[<<c, t[c - 1]>>]
    <3>1. c - 1 \in 0 .. cols
      BY <1>1
    <3> HIDE DEF g
    <3> QED  BY <1>5, <3>1 DEF Loop
  <2>2. <<c, t[c - 1]>> \in (1 .. cols) \X T
    BY <2>1
  <2> QED  BY <2>1, <2>2
<1> HIDE DEF g
<1>7. Fills(t)
  <2>1. t = [c \in 0 .. cols |-> t[c]]
    BY <1>5
  <2>2. t[0] = table
    BY <1>5 DEF Loop
  <2>3. \A c \in 0 .. cols : t[c] = IF c = 0 THEN table ELSE Step(t[c - 1], c)
    BY <1>1, <1>6, <2>2
  <2> QED  BY <2>1, <2>3
<1> DEFINE f == CHOOSE u : Fills(u)
<1>8. Fills(f)
  <2> HIDE DEF Fills
  <2> QED  BY <1>7
<1>9. SatRow(frame, table, r) = f[cols]
  BY DEF SatRow, Step
<1> HIDE DEF f
<1>10. f[cols] \in T
  <2> DEFINE Typed == {c \in 0 .. cols : f[c] \in T}
  <2>1. 0 \in Typed
    BY <1>1, <1>3, <1>8
  <2>2. \A c \in 1 .. cols : c - 1 \in Typed => c \in Typed
    BY <1>1, <1>2, <1>8
  <2> HIDE DEF Typed, cols
  <2>3. cols \in Nat /\ cols \in 0 .. cols
    BY <1>1
  <2>4. 0 .. cols \subseteq Typed
    BY <2>1, <2>2, <2>3, InductionUpTo, Zenon
  <2> QED  BY <2>3, <2>4 DEF Typed
<1> QED  BY <1>9, <1>10 DEF T

\* The median of the pixels is a number: half of the pixels exist.
LEMMA MedianType ==
  ASSUME NEW frame, Image(frame, Int)
  PROVE  Median(frame) \in Int
<1> DEFINE D == Cells(frame.rows, frame.cols)
           at == frame.at
           S == {v \in Range(at) : Cardinality(UpTo(frame, v)) > Cardinality(D) \div 2}
<1>1. at \in [D -> Int] /\ frame.rows \in Nat \ {0} /\ frame.cols \in Nat \ {0}
  BY DEF Image, Frame
<1>2. IsFiniteSet(D) /\ <<0, 0>> \in D
  <2>1. IsFiniteSet(0 .. (frame.rows - 1)) /\ IsFiniteSet(0 .. (frame.cols - 1))
    <3>1. frame.rows - 1 \in Int /\ frame.cols - 1 \in Int /\ 0 \in Int
      BY <1>1
    <3> QED  BY <3>1, FS_Interval, Zenon
  <2>2. IsFiniteSet(D)
    BY <2>1, FS_Product DEF Cells
  <2> QED  BY <1>1, <2>2 DEF Cells
<1> HIDE DEF D
<1>3. /\ Range(at) \subseteq Int /\ IsFiniteSet(Range(at)) /\ at[<<0, 0>>] \in Range(at)
      /\ \A p \in D : at[p] \in Range(at)
  <2>1. DOMAIN at = D
    BY <1>1
  <2>2. IsFiniteSet(Range(at))
    BY <1>2, <2>1, FiniteValues
  <2> QED  BY <1>1, <1>2, <2>2 DEF Range
<1>4. S \subseteq Int /\ IsFiniteSet(S)
  BY <1>3, FS_Subset
<1>5. S # {}
  <2> DEFINE v == Max(Range(at))
  <2>1. v \in Range(at) /\ \A y \in Range(at) : y <= v
    BY <1>3, Extremes
  <2> HIDE DEF v
  <2>2. UpTo(frame, v) = D
    BY <1>1, <1>3, <2>1 DEF UpTo
  <2>3. Cardinality(D) \in Nat /\ Cardinality(D) # 0
    BY <1>2, FS_CardinalityType, FS_EmptySet
  <2>4. Cardinality(D) > Cardinality(D) \div 2
    <3> DEFINE k == Cardinality(D)
    <3> HIDE DEF k
    <3>1. k \in Nat \ {0} => k > k \div 2
      OBVIOUS
    <3> QED  BY <2>3, <3>1 DEF k
  <2> QED  BY <2>1, <2>2, <2>4
<1>6. Median(frame) = Min(S)
  BY <1>1 DEF Median
<1> HIDE DEF S
<1>7. Min(S) \in S
  BY <1>4, <1>5, Extremes
<1> QED  BY <1>4, <1>6, <1>7

\* Scores are never negative.
LEMMA ScoreType ==
  ASSUME NEW frame, Image(frame, Int), NEW radius \in Nat,
         NEW table \in Tables(frame), NEW squares \in Tables(frame)
  PROVE  /\ Image(Score(frame, table, squares, radius), Nat)
         /\ Score(frame, table, squares, radius).rows = frame.rows
         /\ Score(frame, table, squares, radius).cols = frame.cols
<1> DEFINE D == Cells(frame.rows, frame.cols)
           median == Median(frame)
           variances == [p \in DOMAIN frame.at |->
             LET w == Window(frame, p, radius)
                 n == Area(w)
             IN (NonNegative(n * WindowSum(squares, w) - Sq(WindowSum(table, w))) * Unit) \div (n * n)]
           deviations == [p \in DOMAIN frame.at |->
             LET w == Window(frame, p, 3 * radius)
                 n == Area(w)
             IN (NonNegative(WindowSum(table, w) - n * frame.at[p]) * Unit) \div n
                + NonNegative(median - frame.at[p]) * Unit]
           scored == [frame EXCEPT !.at =
                       [p \in DOMAIN frame.at |-> Max({Normalized(variances)[p], Normalized(deviations)[p]})]]
<1>1. Score(frame, table, squares, radius) = scored
  BY DEF Score
<1>2. /\ DOMAIN frame = {"rows", "cols", "at"} /\ frame.rows \in Nat \ {0} /\ frame.cols \in Nat \ {0}
      /\ frame.at \in [D -> Int] /\ DOMAIN frame.at = D
  BY DEF Image, Frame
<1>3. median \in Int
  BY MedianType
<1> HIDE DEF median
<1>4. ASSUME NEW p \in D, NEW r \in Nat, NEW t \in Tables(frame)
      PROVE  Area(Window(frame, p, r)) \in Nat \ {0} /\ WindowSum(t, Window(frame, p, r)) \in Int
  <2> DEFINE w == Window(frame, p, r)
  <2>1. /\ w.r0 \in 0 .. (frame.rows - 1) /\ w.r1 \in 0 .. (frame.rows - 1) /\ w.r0 <= w.r1
        /\ w.c0 \in 0 .. (frame.cols - 1) /\ w.c1 \in 0 .. (frame.cols - 1) /\ w.c0 <= w.c1
    <3>1. p[1] \in 0 .. (frame.rows - 1) /\ p[2] \in 0 .. (frame.cols - 1)
      BY <1>2 DEF Cells
    <3> QED  BY <1>2, <3>1 DEF Window, NonNegative, Least
  <2> HIDE DEF w
  <2>2. Area(w) \in Nat \ {0}
    <3>1. w.r1 - w.r0 + 1 \in Nat \ {0} /\ w.c1 - w.c0 + 1 \in Nat \ {0}
      BY <1>2, <2>1
    <3>2. \A x, y \in Nat \ {0} : x * y \in Nat \ {0}
      OBVIOUS
    <3> QED  BY <3>1, <3>2 DEF Area
  <2>3. WindowSum(t, w) \in Int
    <3> DEFINE I == (0 .. frame.rows) \X (0 .. frame.cols)
    <3>1. /\ <<w.r1 + 1, w.c1 + 1>> \in I /\ <<w.r0, w.c1 + 1>> \in I
          /\ <<w.r1 + 1, w.c0>> \in I /\ <<w.r0, w.c0>> \in I
      BY <1>2, <2>1
    <3>2. t \in [I -> Int]
      BY DEF Tables
    <3> HIDE DEF I
    <3>3. /\ t[<<w.r1 + 1, w.c1 + 1>>] \in Int /\ t[<<w.r0, w.c1 + 1>>] \in Int
          /\ t[<<w.r1 + 1, w.c0>>] \in Int /\ t[<<w.r0, w.c0>>] \in Int
      BY <3>1, <3>2
    <3> QED  BY <3>3 DEF WindowSum
  <2> QED  BY <2>2, <2>3 DEF w
<1>5. \A x \in Int : NonNegative(x) * Unit \in Nat
  BY DEF NonNegative, Unit
<1>6. \A x \in Nat, n \in Nat \ {0} : x \div n \in Nat /\ n * n \in Nat \ {0}
  OBVIOUS
<1>7. variances \in [D -> Nat]
  <2> SUFFICES ASSUME NEW p \in D PROVE variances[p] \in Nat
    BY <1>2
  <2> DEFINE w == Window(frame, p, radius)
             n == Area(w)
             a == WindowSum(squares, w)
             b == WindowSum(table, w)
  <2>1. n \in Nat \ {0} /\ a \in Int /\ b \in Int
    BY <1>4
  <2>2. variances[p] = (NonNegative(n * a - Sq(b)) * Unit) \div (n * n)
    BY <1>2
  <2> HIDE DEF n, a, b, variances
  <2>3. n * a - Sq(b) \in Int
    BY <2>1 DEF Sq
  <2> QED  BY <1>5, <1>6, <2>1, <2>2, <2>3
<1>8. deviations \in [D -> Nat]
  <2> SUFFICES ASSUME NEW p \in D PROVE deviations[p] \in Nat
    BY <1>2
  <2> DEFINE w == Window(frame, p, 3 * radius)
             n == Area(w)
             b == WindowSum(table, w)
             x == frame.at[p]
  <2>1. n \in Nat \ {0} /\ b \in Int /\ x \in Int
    <3>1. 3 * radius \in Nat
      OBVIOUS
    <3> QED  BY <1>2, <1>4, <3>1
  <2>2. deviations[p] = (NonNegative(b - n * x) * Unit) \div n + NonNegative(median - x) * Unit
    BY <1>2
  <2> HIDE DEF n, b, x, deviations
  <2>3. b - n * x \in Int /\ median - x \in Int
    BY <1>3, <2>1
  <2>4. (NonNegative(b - n * x) * Unit) \div n \in Nat /\ NonNegative(median - x) * Unit \in Nat
    BY <1>5, <1>6, <2>1, <2>3
  <2> QED  BY <2>2, <2>4
<1> HIDE DEF variances, deviations
<1>9. IsFiniteSet(D)
  <2>1. IsFiniteSet(0 .. (frame.rows - 1)) /\ IsFiniteSet(0 .. (frame.cols - 1))
    <3>1. frame.rows - 1 \in Int /\ frame.cols - 1 \in Int /\ 0 \in Int
      BY <1>2
    <3> QED  BY <3>1, FS_Interval, Zenon
  <2> QED  BY <2>1, FS_Product DEF Cells
<1>10. ASSUME NEW map \in [D -> Nat]
       PROVE  Normalized(map) \in [D -> Nat]
  <2> DEFINE S == Range(map) \cup {0}
             max == Greatest(Range(map))
  <2>1. S \subseteq Int /\ S # {}
    BY DEF Range
  <2>2. IsFiniteSet(S)
    <3>1. IsFiniteSet(Range(map))
      BY <1>9, FiniteValues
    <3> QED  BY <3>1, FS_AddElement
  <2>3. max = Max(S)
    BY DEF Greatest
  <2>4. S \subseteq Nat
    BY DEF Range
  <2> HIDE DEF S, max
  <2>5. max \in Nat
    BY <2>1, <2>2, <2>3, <2>4, Extremes
  <2>6. Normalized(map) = IF max > 0 THEN [p \in D |-> (map[p] * Unit) \div max] ELSE map
    BY DEF Normalized, max
  <2>7. CASE max > 0
    <3>1. \A p \in D : (map[p] * Unit) \div max \in Nat
      <4> SUFFICES ASSUME NEW p \in D PROVE (map[p] * Unit) \div max \in Nat
        OBVIOUS
      <4>1. map[p] * Unit \in Nat
        BY DEF Unit
      <4> QED  BY <1>6, <2>5, <2>7, <4>1
    <3> QED  BY <2>6, <2>7, <3>1
  <2>8. CASE ~(max > 0)
    BY <2>6, <2>8
  <2> QED  BY <2>7, <2>8
<1>11. \A p \in D : Max({Normalized(variances)[p], Normalized(deviations)[p]}) \in Nat
  <2> SUFFICES ASSUME NEW p \in D
               PROVE  Max({Normalized(variances)[p], Normalized(deviations)[p]}) \in Nat
    OBVIOUS
  <2> DEFINE S == {Normalized(variances)[p], Normalized(deviations)[p]}
  <2>1. S \subseteq Nat /\ S \subseteq Int /\ S # {}
    BY <1>7, <1>8, <1>10
  <2>2. IsFiniteSet(S)
    <3>1. S = {Normalized(variances)[p]} \cup {Normalized(deviations)[p]}
      OBVIOUS
    <3> DEFINE x == Normalized(variances)[p]
               y == Normalized(deviations)[p]
    <3>2. IsFiniteSet({x})
      BY FS_Singleton, Zenon
    <3> HIDE DEF x, y
    <3>3. IsFiniteSet({x} \cup {y})
      BY <3>2, FS_AddElement, Zenon
    <3> QED  BY <3>1, <3>3 DEF x, y
  <2> HIDE DEF S
  <2>3. Max(S) \in S
    BY <2>1, <2>2, Extremes
  <2> QED  BY <2>1, <2>3 DEF S
<1>12. /\ DOMAIN scored = {"rows", "cols", "at"} /\ scored.rows = frame.rows /\ scored.cols = frame.cols
       /\ scored.at \in [D -> Nat]
  BY <1>2, <1>11
<1> HIDE DEF scored
<1> QED  BY <1>1, <1>2, <1>12 DEF Image, Frame

\* How far a frame reaches along a direction, in parts of 2h from its centre.
Magnitude(x) == IF x < 0 THEN -x ELSE x
Extent(frame, d) == frame.rows * Magnitude(d[1]) + frame.cols * Magnitude(d[2])

\* The corners of a frame are as far before its centre as after it (compute_min_proj).
LEMMA AlongBounds ==
  ASSUME NEW frame, frame.rows \in Nat, frame.cols \in Nat, NEW d, Direction(d)
  PROVE  /\ Extent(frame, d) \in Nat
         /\ MinAlong(frame, d) = -Extent(frame, d) /\ MaxAlong(frame, d) = Extent(frame, d)
<1> DEFINE a == frame.rows * d[1]
           b == frame.cols * d[2]
           S == {Along(frame, d, p[1], p[2]) : p \in Corners(frame)}
           T == {a + b, a - b, b - a, -a - b}
<1>1. d[1] \in Int /\ d[2] \in Int
  BY DEF Direction
<1>2. a \in Int /\ b \in Int
  BY <1>1
<1>3. /\ Along(frame, d, 0, 0) = -a - b /\ Along(frame, d, 0, frame.cols) = b - a
      /\ Along(frame, d, frame.rows, 0) = a - b
      /\ Along(frame, d, frame.rows, frame.cols) = a + b
  BY <1>1 DEF Along
<1>4. Corners(frame) = {<<0, 0>>, <<0, frame.cols>>, <<frame.rows, 0>>, <<frame.rows, frame.cols>>}
  BY DEF Corners
<1>5. S = T
  BY <1>3, <1>4
<1>6. Extent(frame, d) = Magnitude(a) + Magnitude(b)
  <2>1. \A n \in Nat, x \in Int : n * Magnitude(x) = Magnitude(n * x)
    BY DEF Magnitude
  <2> QED  BY <1>1, <2>1 DEF Extent
<1> HIDE DEF a, b, S
<1>7. T \subseteq Int /\ IsFiniteSet(T) /\ T # {}
  <2>1. IsFiniteSet({a + b}) /\ IsFiniteSet({a - b}) /\ IsFiniteSet({b - a}) /\ IsFiniteSet({-a - b})
    BY FS_Singleton
  <2>2. IsFiniteSet({a + b} \cup {a - b}) /\ IsFiniteSet({b - a} \cup {-a - b})
    BY <2>1, FS_Union
  <2>3. IsFiniteSet(({a + b} \cup {a - b}) \cup ({b - a} \cup {-a - b}))
    BY <2>2, FS_Union, Zenon
  <2>4. T = ({a + b} \cup {a - b}) \cup ({b - a} \cup {-a - b})
    OBVIOUS
  <2> QED  BY <1>2, <2>3, <2>4
<1>8. /\ Max(T) \in T /\ \A y \in T : y <= Max(T)
      /\ Min(T) \in T /\ \A y \in T : Min(T) <= y
  BY <1>7, Extremes
<1>9. Max(T) = Magnitude(a) + Magnitude(b) /\ Min(T) = -(Magnitude(a) + Magnitude(b))
  BY <1>2, <1>8 DEF Magnitude
<1>10. MinAlong(frame, d) = Min(T) /\ MaxAlong(frame, d) = Max(T)
  BY <1>5 DEF MinAlong, MaxAlong, S
<1>11. Magnitude(a) + Magnitude(b) \in Nat
  BY <1>2 DEF Magnitude
<1> QED  BY <1>6, <1>9, <1>10, <1>11

\* The projection of a score map has a value for each bin, and the bins end where the
\* frame does.
LEMMA ProjectionType ==
  ASSUME NEW frame, Image(frame, Nat), NEW d, Direction(d)
  PROVE  /\ Bins(frame, d) \in Nat \ {0}
         /\ Projection(frame, d) \in [1 .. Bins(frame, d) -> Nat]
         /\ (Bins(frame, d) - 1) * (2 * d[3]) <= 2 * Extent(frame, d)
<1> DEFINE bins == Bins(frame, d)
           n == frame.rows * frame.cols
           bin == [k \in 1 .. n |-> Least(BinOf(frame, d, Cell(frame.cols, k)), bins - 1)]
           Pixels(b) == {k \in 1 .. n : bin[k] = b - 1}
           Entries(b) == [k \in 1 .. n |-> IF k \in Pixels(b) THEN frame.at[Cell(frame.cols, k)] ELSE 0]
<1>1. /\ frame.rows \in Nat \ {0} /\ frame.cols \in Nat \ {0}
      /\ frame.at \in [Cells(frame.rows, frame.cols) -> Nat]
      /\ d[3] \in Nat \ {0} /\ n \in Nat
  BY DEF Image, Frame, Direction
<1>2. bins \in Nat \ {0} /\ (bins - 1) * (2 * d[3]) <= 2 * Extent(frame, d)
  <2> DEFINE h == 2 * d[3]
             e == Extent(frame, d)
             up == (2 * e + h - 1) \div h
  <2>1. e \in Nat /\ bins = Max({up, 1})
    <3>1. e \in Nat /\ MinAlong(frame, d) = -e /\ MaxAlong(frame, d) = e
      BY <1>1, AlongBounds
    <3> HIDE DEF e
    <3>2. MaxAlong(frame, d) - MinAlong(frame, d) + h - 1 = 2 * e + h - 1
      BY <1>1, <3>1
    <3> QED  BY <3>1, <3>2 DEF Bins
  <2>2. h \in Nat \ {0}
    BY <1>1
  <2> HIDE DEF h, e, bins
  <2>3. up \in Int /\ (up - 1) * h <= 2 * e
    <3>1. up \in Int /\ h * up <= 2 * e + h - 1
      <4> DEFINE m == 2 * e + h - 1
      <4>1. m \in Nat
        BY <2>1, <2>2
      <4> HIDE DEF m
      <4>2. m \div h \in Int /\ h * (m \div h) <= m
        BY <2>2, <4>1
      <4> QED  BY <4>2 DEF m
    <3> HIDE DEF up
    <3> QED  BY <2>1, <2>2, <3>1
  <2> HIDE DEF up
  <2>4. IsFiniteSet({up, 1})
    <3>1. IsFiniteSet({up} \cup {1})
      BY FS_Singleton, FS_AddElement, Zenon
    <3>2. {up, 1} = {up} \cup {1}
      OBVIOUS
    <3> QED  BY <3>1, <3>2
  <2>5. Max({up, 1}) \in {up, 1} /\ \A y \in {up, 1} : y <= Max({up, 1})
    BY <2>3, <2>4, Extremes
  <2>6. bins \in Nat \ {0}
    BY <2>1, <2>3, <2>5
  <2>7. (bins - 1) * h <= 2 * e
    <3>1. CASE bins = up
      BY <2>3, <3>1
    <3>2. CASE bins = 1
      BY <2>1, <2>2, <3>2
    <3> QED  BY <2>1, <2>5, <3>1, <3>2
  <2> QED  BY <2>6, <2>7 DEF h, e
<1> HIDE DEF bins
<1>3. \A k \in 1 .. n : Cell(frame.cols, k) \in Cells(frame.rows, frame.cols)
  <2> SUFFICES ASSUME NEW k \in 1 .. n PROVE Cell(frame.cols, k) \in Cells(frame.rows, frame.cols)
    OBVIOUS
  <2> DEFINE c == frame.cols
             r == frame.rows
  <2>1. (k - 1) % c \in 0 .. (c - 1)
    BY <1>1
  <2>2. k - 1 \in Nat /\ k - 1 < r * c
    BY <1>1
  <2>3. (k - 1) \div c \in 0 .. (r - 1)
    <3> DEFINE q == (k - 1) \div c
    <3> HIDE DEF c, r
    <3>1. c \in Nat \ {0} /\ r \in Nat \ {0}
      BY <1>1 DEF c, r
    <3>2. q \in Int /\ c * q <= k - 1 /\ k - 1 < c * q + c
      BY <2>2, <3>1
    <3> HIDE DEF q
    <3>3. q >= 0
      <4> SUFFICES ASSUME q + 1 <= 0 PROVE FALSE
        BY <3>2
      <4>1. c * (q + 1) <= 0
        BY <3>1, <3>2
      <4> QED  BY <2>2, <3>1, <3>2, <4>1
    <3>4. q < r
      <4> SUFFICES ASSUME r <= q PROVE FALSE
        BY <3>1, <3>2
      <4>1. c * r <= c * q
        BY <3>1, <3>2
      <4> QED  BY <2>2, <3>1, <3>2, <4>1
    <3> QED  BY <3>1, <3>2, <3>3, <3>4 DEF q
  <2> QED  BY <2>1, <2>3 DEF Cell, Cells
<1>4. Projection(frame, d) =
        [b \in 1 .. bins |-> IF Pixels(b) = {} THEN 0 ELSE Total(Entries(b), n) \div Cardinality(Pixels(b))]
  BY DEF Projection, bins
<1>5. ASSUME NEW b \in 1 .. bins, Pixels(b) # {}
      PROVE  Total(Entries(b), n) \div Cardinality(Pixels(b)) \in Nat
  <2>1. Entries(b) \in [1 .. n -> Nat]
    <3> HIDE DEF Pixels, n
    <3> QED  BY <1>1, <1>3
  <2>2. Total(Entries(b), n) \in Nat
    <3> HIDE DEF Entries, n
    <3>1. \E sum \in [0 .. n -> Nat] : Total(Entries(b), n) = sum[n]
      BY <1>1, <2>1, PartialSums
    <3> QED  BY <1>1, <3>1
  <2>3. Cardinality(Pixels(b)) \in Nat \ {0}
    <3>1. IsFiniteSet(1 .. n) /\ Pixels(b) \subseteq 1 .. n
      <4>1. IsFiniteSet(1 .. n)
        <5> HIDE DEF n
        <5>1. n \in Int /\ 1 \in Int
          BY <1>1
        <5> QED  BY <5>1, FS_Interval, Zenon
      <4> QED  BY <4>1
    <3>2. IsFiniteSet(Pixels(b))
      <4> HIDE DEF Pixels
      <4> QED  BY <3>1, FS_Subset
    <3> HIDE DEF Pixels
    <3> QED  BY <1>5, <3>2, FS_CardinalityType, FS_EmptySet
  <2> HIDE DEF Entries, Pixels, n
  <2>4. \A x \in Nat, y \in Nat \ {0} : x \div y \in Nat
    OBVIOUS
  <2> QED  BY <2>2, <2>3, <2>4
<1> HIDE DEF Pixels, Entries, n
<1>6. Projection(frame, d) \in [1 .. bins -> Nat]
  BY <1>4, <1>5
<1> QED  BY <1>2, <1>6 DEF bins

\* detect_angle gives a direction: one of the fine sweep around one of the coarse one.
LEMMA DetectAngleType ==
  ASSUME NEW frame
  PROVE  Direction(DetectAngle(frame))
<1>1. ASSUME NEW im, NEW s, Sweep(s)
      PROVE  \E i \in DOMAIN s : Sharpest(im, s) = s[i]
  <2> DEFINE n == Len(s)
             I == 1 .. n
             variance == [i \in DOMAIN s |-> Variance(Projection(im, s[i]))]
             Step(b, i) == IF variance[i] >= variance[b] THEN i ELSE b
             Bests(f) == f = [i \in 0 .. n |-> IF i = 0 THEN 1 ELSE Step(f[i - 1], i)]
             g == [q \in (1 .. n) \X I |-> Step(q[2], q[1])]
  <2>1. n \in Nat \ {0} /\ DOMAIN s = I /\ 1 \in I
    BY <1>1 DEF Sweep
  <2>2. \A b \in I, i \in 1 .. n : Step(b, i) \in I
    OBVIOUS
  <2> HIDE DEF Step, n
  <2>3. g \in [(1 .. n) \X I -> I]
    <3>1. \A q \in (1 .. n) \X I : Step(q[2], q[1]) \in I
      BY <2>2
    <3> QED  BY <3>1
  <2>4. PICK t \in [0 .. n -> I] : Loop(n, 1, g, t)
    <3> HIDE DEF g, I
    <3>1. n \in Nat
      BY <2>1
    <3> QED  BY <2>1, <2>3, <3>1, LoopValues, Zenon
  <2>5. \A i \in 1 .. n : t[i] = Step(t[i - 1], i)
    <3> SUFFICES ASSUME NEW i \in 1 .. n PROVE t[i] = Step(t[i - 1], i)
      OBVIOUS
    <3>1. t[i - 1] \in I /\ t[i] = g[<<i, t[i - 1]>>]
      <4>1. i - 1 \in 0 .. n
        BY <2>1
      <4> HIDE DEF g
      <4> QED  BY <2>4, <4>1 DEF Loop
    <3>2. <<i, t[i - 1]>> \in (1 .. n) \X I
      BY <3>1
    <3> QED  BY <3>1, <3>2
  <2> HIDE DEF g
  <2>6. Bests(t)
    <3>1. t = [i \in 0 .. n |-> t[i]]
      BY <2>4
    <3>2. t[0] = 1
      BY <2>4 DEF Loop
    <3>3. \A i \in 0 .. n : t[i] = IF i = 0 THEN 1 ELSE Step(t[i - 1], i)
      BY <2>1, <2>5, <3>2
    <3> QED  BY <3>1, <3>3
  <2> DEFINE f == CHOOSE u : Bests(u)
  <2>7. Bests(f)
    <3> HIDE DEF Bests
    <3> QED  BY <2>6
  <2>8. Sharpest(im, s) = s[f[n]]
    BY DEF Sharpest, Step, n
  <2> HIDE DEF f
  <2>9. f[n] \in I
    <3> DEFINE Good == {i \in 0 .. n : f[i] \in I}
    <3>1. 0 \in Good
      BY <2>1, <2>7
    <3>2. \A i \in 1 .. n : i - 1 \in Good => i \in Good
      <4> SUFFICES ASSUME NEW i \in 1 .. n, i - 1 \in Good PROVE i \in Good
        OBVIOUS
      <4>1. f[i - 1] \in I
        OBVIOUS
      <4> HIDE DEF Good, I
      <4>2. i \in 0 .. n /\ i # 0
        BY <2>1
      <4>3. f[i] = Step(f[i - 1], i)
        BY <2>7, <4>2
      <4>4. f[i] \in I
        BY <2>2, <4>1, <4>3
      <4> QED  BY <4>2, <4>4 DEF Good
    <3> HIDE DEF Good, I
    <3>3. n \in Nat /\ n \in 0 .. n
      BY <2>1
    <3>4. n \in Good
      BY <3>1, <3>2, <3>3, InductionUpTo
    <3> QED  BY <3>4 DEF Good
  <2> QED  BY <2>1, <2>8, <2>9
<1> DEFINE small == IF frame.rows >= 16 /\ frame.cols >= 16 THEN Downsample(frame, 4) ELSE frame
<1>2. PICK i \in DOMAIN Coarse : Sharpest(small, Coarse) = Coarse[i]
  <2> HIDE DEF small
  <2> QED  BY <1>1, CuoxRowsAssumption DEF CuoxRowsAssumption
<1>3. Sweep(Fine(Sharpest(small, Coarse)))
  <2> HIDE DEF small
  <2> QED  BY <1>2, CuoxRowsAssumption DEF CuoxRowsAssumption
<1>4. DetectAngle(frame) = Sharpest(frame, Fine(Sharpest(small, Coarse)))
  BY DEF DetectAngle
<1> HIDE DEF small
<1>5. PICK j \in DOMAIN Fine(Sharpest(small, Coarse)) :
        DetectAngle(frame) = Fine(Sharpest(small, Coarse))[j]
  BY <1>1, <1>3, <1>4
<1> QED  BY <1>3, <1>5 DEF Sweep

-----------------------------------------------------------------------------
(***************************************************************************)
(* The lines.                                                              *)
(***************************************************************************)

\* Where two ranges, each a pair of bounds, overlap.
Overlap(r, c) == <<Max({r[1], c[1]}), Min({r[2], c[2]})>>

\* A point of the plane is on the border of a rectangle with a corner at the origin.
OnBorder(y, x, height, width) ==
  LET ys == Ordered(0, height)
      xs == Ordered(0, width)
  IN /\ y \in ys[1] .. ys[2] /\ x \in xs[1] .. xs[2]
     /\ y \in {ys[1], ys[2]} \/ x \in {xs[1], xs[2]}

\* The clipping in the parameter of a line: the middles of the ranges inside the rows
\* and inside the columns are p and -q, their halves m and n.  The ranges meet if the
\* middles are no further apart than the halves, and then the ends of what they share are
\* on the border.
LEMMA Clipping ==
  ASSUME NEW p \in Int, NEW m \in Int, NEW q \in Int, NEW n \in Int,
         Magnitude(p + q) <= Magnitude(m) + Magnitude(n)
  PROVE  LET both == Overlap(Ordered(p - m, p + m), Ordered(-q - n, -q + n))
         IN /\ both[1] <= both[2]
            /\ m # 0 /\ n # 0 /\ Magnitude(p + q) < Magnitude(m) + Magnitude(n)
                 => both[1] < both[2]
            /\ both \in Int \X Int
            /\ \A t \in {both[1], both[2]} : OnBorder(p + m - t, q + n + t, 2 * m, 2 * n)
<1> DEFINE r == Ordered(p - m, p + m)
           c == Ordered(-q - n, -q + n)
           both == Overlap(r, c)
<1>1. ASSUME NEW a \in Int, NEW b \in Int
      PROVE  /\ Max({a, b}) = IF a <= b THEN b ELSE a
             /\ Min({a, b}) = IF a <= b THEN a ELSE b
  <2>1. IsFiniteSet({a, b})
    <3>1. IsFiniteSet({a} \cup {b})
      BY FS_Singleton, FS_AddElement, Zenon
    <3>2. {a, b} = {a} \cup {b}
      OBVIOUS
    <3> QED  BY <3>1, <3>2
  <2> DEFINE S == {a, b}
  <2>2. S \subseteq Int /\ S # {}
    OBVIOUS
  <2>3. /\ Max(S) \in S /\ \A y \in S : y <= Max(S)
        /\ Min(S) \in S /\ \A y \in S : Min(S) <= y
    <3> HIDE DEF S
    <3>1. IsFiniteSet(S)
      BY <2>1 DEF S
    <3> QED  BY <2>2, <3>1, Extremes
  <2> QED  BY <2>3
<1>2. \A a, b \in Int : /\ Ordered(a, b)[1] = IF a <= b THEN a ELSE b
                        /\ Ordered(a, b)[2] = IF a <= b THEN b ELSE a
  BY <1>1 DEF Ordered
<1>3. /\ r[1] = IF 0 <= m THEN p - m ELSE p + m
      /\ r[2] = IF 0 <= m THEN p + m ELSE p - m
      /\ c[1] = IF 0 <= n THEN -q - n ELSE -q + n
      /\ c[2] = IF 0 <= n THEN -q + n ELSE -q - n
  <2>1. p - m \in Int /\ p + m \in Int /\ -q - n \in Int /\ -q + n \in Int
    OBVIOUS
  <2>2. /\ r[1] = IF p - m <= p + m THEN p - m ELSE p + m
        /\ r[2] = IF p - m <= p + m THEN p + m ELSE p - m
    BY <1>2, <2>1, Zenon
  <2>3. /\ c[1] = IF -q - n <= -q + n THEN -q - n ELSE -q + n
        /\ c[2] = IF -q - n <= -q + n THEN -q + n ELSE -q - n
    BY <1>2, <2>1, Zenon
  <2> QED  BY <2>2, <2>3
<1>4. /\ both[1] = IF r[1] <= c[1] THEN c[1] ELSE r[1]
      /\ both[2] = IF r[2] <= c[2] THEN r[2] ELSE c[2]
  <2>1. r[1] \in Int /\ r[2] \in Int /\ c[1] \in Int /\ c[2] \in Int
    BY <1>3
  <2>2. /\ Max({r[1], c[1]}) = IF r[1] <= c[1] THEN c[1] ELSE r[1]
        /\ Min({r[2], c[2]}) = IF r[2] <= c[2] THEN r[2] ELSE c[2]
    BY <1>1, <2>1, Zenon
  <2> QED  BY <2>2 DEF Overlap
<1> HIDE DEF r, c, both
<1>5. /\ Ordered(0, 2 * m)[1] = IF 0 <= m THEN 0 ELSE 2 * m
      /\ Ordered(0, 2 * m)[2] = IF 0 <= m THEN 2 * m ELSE 0
      /\ Ordered(0, 2 * n)[1] = IF 0 <= n THEN 0 ELSE 2 * n
      /\ Ordered(0, 2 * n)[2] = IF 0 <= n THEN 2 * n ELSE 0
  <2>1. 0 \in Int /\ 2 * m \in Int /\ 2 * n \in Int
    OBVIOUS
  <2>2. /\ Ordered(0, 2 * m)[1] = IF 0 <= 2 * m THEN 0 ELSE 2 * m
        /\ Ordered(0, 2 * m)[2] = IF 0 <= 2 * m THEN 2 * m ELSE 0
    BY <1>2, <2>1, Zenon
  <2>3. /\ Ordered(0, 2 * n)[1] = IF 0 <= 2 * n THEN 0 ELSE 2 * n
        /\ Ordered(0, 2 * n)[2] = IF 0 <= 2 * n THEN 2 * n ELSE 0
    BY <1>2, <2>1, Zenon
  <2> QED  BY <2>2, <2>3
<1>6. both \in Int \X Int
  BY <1>3, <1>4 DEF both, Overlap
<1>7. /\ both[1] <= both[2]
      /\ m # 0 /\ n # 0 /\ Magnitude(p + q) < Magnitude(m) + Magnitude(n) => both[1] < both[2]
  BY <1>3, <1>4 DEF Magnitude
<1>8. ASSUME NEW t \in {both[1], both[2]}
      PROVE  OnBorder(p + m - t, q + n + t, 2 * m, 2 * n)
  <2>1. t \in Int
    BY <1>3, <1>4
  <2>2. r[1] <= t /\ t <= r[2] /\ c[1] <= t /\ t <= c[2]
    BY <1>3, <1>4, <1>7
  <2>3. t \in {r[1], r[2], c[1], c[2]}
    BY <1>4
  <2> QED  BY <1>3, <1>5, <2>1, <2>2, <2>3 DEF OnBorder
<1> QED  BY <1>6, <1>7, <1>8 DEF both, r, c

\* A line comes out as it is only if its margin is not negative, and not at all only if
\* it is not positive.
LEMMA RoundedLine ==
  ASSUME NEW margin \in Int, NEW line \in Int \X Int, NEW o \in Rounded(margin, line)
  PROVE  \/ o = NoLine /\ margin <= 0
         \/ o = line /\ o # NoLine /\ margin >= 0
<1>1. line # NoLine
  BY CuoxRowsAssumption DEF CuoxRowsAssumption
<1> QED  BY <1>1 DEF Rounded

\* Whatever comes out of a line through a bin of the frame is a chord, its ends on the
\* border, or a missing line that does not divide the frame.
LEMMA LineCrosses ==
  ASSUME NEW frame, frame.rows \in Nat \ {0}, frame.cols \in Nat \ {0},
         NEW d, Direction(d),
         NEW at \in 0 .. ((Bins(frame, d) - 1) * Tenth),
         Bins(frame, d) \in Nat \ {0},
         (Bins(frame, d) - 1) * (2 * d[3]) <= 2 * Extent(frame, d),
         NEW line \in LineEndpoints(frame, d, at)
  PROVE  IF line = NoLine
           THEN at * 2 * d[3] \notin 1 .. ((MaxAlong(frame, d) - MinAlong(frame, d)) * Tenth - 1)
           ELSE /\ d[2] = 0 => BaseY(frame, d, at) \in 0 .. (2 * frame.rows * Sq(d[3]) * Tenth)
                /\ d[1] = 0 => BaseX(frame, d, at) \in 0 .. (2 * frame.cols * Sq(d[3]) * Tenth)
                /\ d[1] # 0 /\ d[2] # 0 => \A t \in {line[1], line[2]} :
                     OnBorder(BaseY(frame, d, at) * d[1] - t, BaseX(frame, d, at) * d[2] + t,
                              2 * frame.rows * Sq(d[3]) * Tenth * d[1],
                              2 * frame.cols * Sq(d[3]) * Tenth * d[2])
<1> DEFINE c == d[1]
           s == d[2]
           h == d[3]
           R == frame.rows
           K == frame.cols
           E == Extent(frame, d)
           N == Bins(frame, d)
           D == at * 2 * h + MinAlong(frame, d) * Tenth
           hh == Sq(h)
           A == R * hh * Tenth
           B == K * hh * Tenth
           y == BaseY(frame, d, at)
           x == BaseX(frame, d, at)
           Parts == at * 2 * h \in 1 .. ((MaxAlong(frame, d) - MinAlong(frame, d)) * Tenth - 1)
<1>1. /\ c \in Int /\ s \in Int /\ h \in Nat \ {0} /\ R \in Nat \ {0} /\ K \in Nat \ {0}
      /\ Sq(c) + Sq(s) = hh /\ E \in Nat /\ N \in Nat \ {0}
      /\ Tenth = 10 /\ at \in 0 .. ((N - 1) * Tenth)
      /\ MinAlong(frame, d) = -E /\ MaxAlong(frame, d) = E
  BY AlongBounds DEF Direction, Tenth
<1>2. hh \in Nat \ {0} /\ hh = h * h
  <2> HIDE DEF h
  <2> QED  BY <1>1 DEF Sq
<1>3. /\ D \in Int /\ -(10 * E) <= D /\ D <= 10 * E
      /\ Parts => -(10 * E) < D /\ D < 10 * E
  <2> HIDE DEF h, E, N
  <2>1. (N - 1) * (2 * h) <= 2 * E
    BY DEF h, E, N
  <2> DEFINE u == at * (2 * h)
             v == (N - 1) * (2 * h)
  <2>2. u \in Nat /\ v \in Nat
    BY <1>1
  <2>3. u <= 10 * v
    <3>1. at <= 10 * (N - 1)
      BY <1>1
    <3>2. \A i, j \in Nat, k \in Nat : i <= j => i * k <= j * k
      OBVIOUS
    <3>3. at \in Nat /\ 10 * (N - 1) \in Nat /\ 2 * h \in Nat
      BY <1>1
    <3>4. at * (2 * h) <= (10 * (N - 1)) * (2 * h)
      BY <3>1, <3>2, <3>3, Zenon
    <3> QED  BY <1>1, <3>4
  <2>4. D = u - 10 * E
    <3>1. at * 2 * h = u
      BY <1>1
    <3> QED  BY <1>1, <3>1
  <2>5. Parts => u \in 1 .. (20 * E - 1)
    <3>1. at * 2 * h = u /\ (E - (-E)) * 10 = 20 * E
      BY <1>1
    <3> QED  BY <1>1, <3>1
  <2> HIDE DEF u, v, D, Parts
  <2>6. -(10 * E) <= D /\ D <= 10 * E /\ D \in Int
    BY <1>1, <2>1, <2>2, <2>3, <2>4 DEF v
  <2> QED  BY <1>1, <2>2, <2>4, <2>5, <2>6
<1>4. y = A + D * c /\ x = B + D * s
  BY DEF BaseY, BaseX
<1>5. /\ 2 * R * hh * Tenth = 2 * A /\ 2 * K * hh * Tenth = 2 * B
      /\ A \in Nat \ {0} /\ B \in Nat \ {0}
  <2> HIDE DEF hh, R, K
  <2>1. A = (R * hh) * 10 /\ B = (K * hh) * 10
    BY <1>1
  <2>2. R * hh \in Nat \ {0} /\ K * hh \in Nat \ {0}
    BY <1>1, <1>2
  <2>3. 2 * R * hh = 2 * (R * hh) /\ 2 * K * hh = 2 * (K * hh)
    BY <1>1, <1>2
  <2> QED  BY <1>1, <2>1, <2>2, <2>3
<1> DEFINE p == D * Sq(c)
           q == D * Sq(s)
           m == A * c
           n == B * s
<1>6. y * c = p + m /\ x * s = q + n /\ y \in Int /\ x \in Int
  <2> HIDE DEF y, x, D, A, B, c, s
  <2>1. y \in Int /\ x \in Int
    BY <1>1, <1>3, <1>4, <1>5
  <2>2. \A a, b, k \in Int : (a + b * k) * k = b * (k * k) + a * k
    OBVIOUS
  <2>3. (A + D * c) * c = D * (c * c) + A * c /\ (B + D * s) * s = D * (s * s) + B * s
    BY <1>1, <1>3, <1>5, <2>2
  <2> QED  BY <1>4, <2>1, <2>3 DEF Sq
<1>7. p \in Int /\ q \in Int /\ m \in Int /\ n \in Int
  <2> HIDE DEF D, A, B, c, s
  <2> QED  BY <1>1, <1>3, <1>5 DEF Sq
<1>8. /\ Magnitude(p + q) <= Magnitude(m) + Magnitude(n)
      /\ Parts => Magnitude(p + q) < Magnitude(m) + Magnitude(n)
  <2> HIDE DEF D, hh, c, s, E, R, K, Parts
  <2>1. p + q = D * hh
    <3>1. \A a, b, k \in Int : k * a + k * b = k * (a + b)
      OBVIOUS
    <3>2. Sq(c) \in Int /\ Sq(s) \in Int
      BY <1>1 DEF Sq
    <3> QED  BY <1>1, <1>3, <3>1, <3>2
  <2>2. \A k \in Nat, a \in Int : Magnitude(k * a) = k * Magnitude(a)
    BY DEF Magnitude
  <2>3. Magnitude(m) = A * Magnitude(c) /\ Magnitude(n) = B * Magnitude(s)
    <3>1. A \in Nat /\ B \in Nat
      BY <1>5
    <3> HIDE DEF A, B
    <3> QED  BY <1>1, <2>2, <3>1
  <2>4. A * Magnitude(c) + B * Magnitude(s) = (10 * hh) * E
    <3>1. E = R * Magnitude(c) + K * Magnitude(s)
      BY DEF Extent, E, R, K, c, s
    <3>2. Magnitude(c) \in Nat /\ Magnitude(s) \in Nat
      BY <1>1 DEF Magnitude
    <3>3. A = (R * hh) * 10 /\ B = (K * hh) * 10
      BY <1>1
    <3>4. \A i, j, k, a, b \in Nat :
            ((i * k) * 10) * a + ((j * k) * 10) * b = (10 * k) * (i * a + j * b)
      OBVIOUS
    <3> QED  BY <1>1, <1>2, <3>1, <3>2, <3>3, <3>4
  <2>5. Magnitude(D * hh) <= (10 * hh) * E /\ (Parts => Magnitude(D * hh) < (10 * hh) * E)
    <3>1. hh * D \in Int /\ D * hh = hh * D /\ (10 * hh) * E = hh * (10 * E)
      BY <1>1, <1>2, <1>3
    <3>2. /\ Magnitude(D) <= 10 * E /\ Magnitude(D) \in Nat
          /\ Parts => Magnitude(D) < 10 * E
      BY <1>1, <1>3 DEF Magnitude
    <3>3. /\ hh * Magnitude(D) <= hh * (10 * E)
          /\ Parts => hh * Magnitude(D) < hh * (10 * E)
      <4>1. \A i, j \in Nat, k \in Nat \ {0} :
              (i <= j => k * i <= k * j) /\ (i < j => k * i < k * j)
        OBVIOUS
      <4>2. 10 * E \in Nat /\ hh \in Nat \ {0}
        BY <1>1, <1>2
      <4> QED  BY <3>2, <4>1, <4>2, Zenon
    <3>4. Magnitude(D * hh) = hh * Magnitude(D)
      BY <1>2, <1>3, <2>2, <3>1
    <3> QED  BY <3>1, <3>3, <3>4
  <2> QED  BY <2>1, <2>3, <2>4, <2>5
<1> DEFINE byRows == Ordered((y - 2 * A) * c, y * c)
           byCols == Ordered(-x * s, (2 * B - x) * s)
           both == Overlap(byRows, byCols)
<1>9. line \in IF s = 0 THEN Rounded(Least(y, 2 * A - y), <<0, 2 * B>>)
               ELSE IF c = 0 THEN Rounded(Least(x, 2 * B - x), <<0, 2 * A>>)
               ELSE Rounded(both[2] - both[1], both)
  <2> HIDE DEF y, x
  <2> QED  BY <1>5 DEF LineEndpoints, Overlap, y, x
<1>10. ASSUME NEW k \in Nat, NEW a \in Int, E = k * Magnitude(a), a * a = hh
       PROVE  /\ Magnitude(D * a) <= (k * hh) * 10 /\ D * a \in Int
              /\ Parts => Magnitude(D * a) < (k * hh) * 10
  <2> HIDE DEF D, hh, E, Parts
  <2>1. \A i, j \in Nat, b \in Nat \ {0} :
          (i <= j => i * b <= j * b) /\ (i < j => i * b < j * b)
    OBVIOUS
  <2>2. /\ Magnitude(D) \in Nat /\ Magnitude(a) \in Nat /\ D * a \in Int
        /\ Magnitude(D * a) = Magnitude(D) * Magnitude(a)
        /\ Magnitude(a) * Magnitude(a) = hh
    BY <1>3, <1>10 DEF Magnitude
  <2>3. Magnitude(a) \in Nat \ {0} /\ 10 * (k * Magnitude(a)) \in Nat
    <3>1. \A i \in Nat : i * i # 0 => i # 0
      OBVIOUS
    <3>2. hh # 0
      BY <1>2
    <3>3. Magnitude(a) # 0
      BY <2>2, <3>1, <3>2
    <3>4. \A i, j \in Nat : 10 * (i * j) \in Nat
      OBVIOUS
    <3> QED  BY <2>2, <3>3, <3>4
  <2>4. /\ Magnitude(D) <= 10 * (k * Magnitude(a))
        /\ Parts => Magnitude(D) < 10 * (k * Magnitude(a))
    BY <1>1, <1>3, <1>10 DEF Magnitude
  <2>5. /\ Magnitude(D) * Magnitude(a) <= (10 * (k * Magnitude(a))) * Magnitude(a)
        /\ Parts => Magnitude(D) * Magnitude(a) < (10 * (k * Magnitude(a))) * Magnitude(a)
    BY <2>1, <2>2, <2>3, <2>4, Zenon
  <2>6. \A i, b \in Nat : (10 * (i * b)) * b = (i * (b * b)) * 10
    OBVIOUS
  <2> QED  BY <2>2, <2>5, <2>6
<1>11. E = R * Magnitude(c) + K * Magnitude(s)
  BY DEF Extent
<1>12. CASE s = 0
  <2>1. E = R * Magnitude(c) /\ c * c = hh
    <3> HIDE DEF hh, c, s, E, R, K
    <3> QED  BY <1>1, <1>11, <1>12 DEF Sq, Magnitude
  <2>2. /\ Magnitude(D * c) <= A /\ D * c \in Int
        /\ Parts => Magnitude(D * c) < A
    <3> HIDE DEF D, hh, c, E, R, Parts
    <3>1. A = (R * hh) * 10
      BY <1>1
    <3> HIDE DEF A
    <3> QED  BY <1>1, <1>10, <2>1, <3>1
  <2>3. /\ y \in 0 .. 2 * A /\ Least(y, 2 * A - y) \in Int
        /\ Parts => Least(y, 2 * A - y) > 0
    <3> HIDE DEF y, D, A, c, Parts
    <3> QED  BY <1>4, <1>5, <2>2 DEF Magnitude, Least
  <2>4. line = NoLine => ~Parts
    <3> HIDE DEF y, A, B, s, Parts
    <3>1. line \in Rounded(Least(y, 2 * A - y), <<0, 2 * B>>) /\ <<0, 2 * B>> \in Int \X Int
      BY <1>5, <1>9, <1>12
    <3> QED  BY <2>3, <3>1, RoundedLine
  <2>5. c # 0
    BY <1>2, <2>1
  <2> QED  BY <1>5, <1>12, <2>3, <2>4, <2>5
<1>13. CASE c = 0
  <2>1. E = K * Magnitude(s) /\ s * s = hh
    <3> HIDE DEF hh, c, s, E, R, K
    <3> QED  BY <1>1, <1>11, <1>13 DEF Sq, Magnitude
  <2>2. /\ Magnitude(D * s) <= B /\ D * s \in Int
        /\ Parts => Magnitude(D * s) < B
    <3> HIDE DEF D, hh, s, E, K, Parts
    <3>1. B = (K * hh) * 10
      BY <1>1
    <3> HIDE DEF B
    <3> QED  BY <1>1, <1>10, <2>1, <3>1
  <2>3. /\ x \in 0 .. 2 * B /\ Least(x, 2 * B - x) \in Int
        /\ Parts => Least(x, 2 * B - x) > 0
    <3> HIDE DEF x, D, B, s, Parts
    <3> QED  BY <1>4, <1>5, <2>2 DEF Magnitude, Least
  <2>4. s # 0
    BY <1>2, <2>1
  <2>5. line = NoLine => ~Parts
    <3> HIDE DEF x, A, B, s, c, Parts
    <3>1. line \in Rounded(Least(x, 2 * B - x), <<0, 2 * A>>) /\ <<0, 2 * A>> \in Int \X Int
      BY <1>5, <1>9, <1>13, <2>4
    <3> QED  BY <2>3, <3>1, RoundedLine
  <2> QED  BY <1>5, <1>13, <2>3, <2>4, <2>5
<1>14. CASE s # 0 /\ c # 0
  <2>1. byRows = Ordered(p - m, p + m) /\ byCols = Ordered(-q - n, -q + n)
    <3>1. (y - 2 * A) * c = p - m /\ -x * s = -q - n /\ (2 * B - x) * s = -q + n
      <4>1. \A i, j, k \in Int : (i - 2 * j) * k = i * k - 2 * (j * k) /\ -i * k = -(i * k)
                                 /\ (2 * j - i) * k = 2 * (j * k) - i * k
        OBVIOUS
      <4> HIDE DEF y, x, p, q, A, B, c, s
      <4>2. (y - 2 * A) * c = y * c - 2 * m /\ -x * s = -(x * s)
            /\ (2 * B - x) * s = 2 * n - x * s
        BY <1>1, <1>5, <1>6, <4>1
      <4> HIDE DEF m, n
      <4> QED  BY <1>6, <1>7, <4>2
    <3> QED  BY <1>6, <3>1
  <2>2. 2 * frame.rows * Sq(d[3]) * Tenth * d[1] = 2 * m
    <3> HIDE DEF A, c
    <3>1. (2 * A) * c = 2 * (A * c)
      BY <1>1, <1>5
    <3> QED  BY <1>5, <3>1 DEF c
  <2>3. 2 * frame.cols * Sq(d[3]) * Tenth * d[2] = 2 * n
    <3> HIDE DEF B, s
    <3>1. (2 * B) * s = 2 * (B * s)
      BY <1>1, <1>5
    <3> QED  BY <1>5, <3>1 DEF s
  <2>4. m # 0 /\ n # 0
    <3> HIDE DEF A, B, c, s
    <3> QED  BY <1>1, <1>5, <1>14
  <2> HIDE DEF p, q, m, n
  <2>5. /\ both[1] <= both[2] /\ (Parts => both[1] < both[2]) /\ both \in Int \X Int
        /\ \A t \in {both[1], both[2]} : OnBorder(p + m - t, q + n + t, 2 * m, 2 * n)
    <3> DEFINE o == Overlap(Ordered(p - m, p + m), Ordered(-q - n, -q + n))
    <3> HIDE DEF Parts
    <3>1. /\ o[1] <= o[2] /\ (Parts => o[1] < o[2]) /\ o \in Int \X Int
          /\ \A t \in {o[1], o[2]} : OnBorder(p + m - t, q + n + t, 2 * m, 2 * n)
      BY <1>7, <1>8, <2>4, Clipping
    <3>2. both = o
      BY <2>1
    <3> HIDE DEF o, both
    <3> QED  BY <3>1, <3>2
  <2>6. both[1] \in Int /\ both[2] \in Int
    <3> HIDE DEF both
    <3> QED  BY <2>5
  <2>7. (line = NoLine => ~Parts) /\ (line # NoLine => line = both)
    <3> HIDE DEF both, y, x, c, s, A, B, Parts
    <3>1. line \in Rounded(both[2] - both[1], both) /\ both[2] - both[1] \in Int
      BY <1>9, <1>14, <2>6
    <3>2. Parts => both[2] - both[1] > 0
      BY <2>5, <2>6
    <3>3. \/ line = NoLine /\ both[2] - both[1] <= 0
          \/ line = both /\ line # NoLine /\ both[2] - both[1] >= 0
      BY <2>5, <3>1, RoundedLine
    <3> QED  BY <2>6, <3>2, <3>3
  <2>8. \A t \in Int : y * c - t = p + m - t /\ x * s + t = q + n + t
    <3> HIDE DEF y, x, c, s
    <3> QED  BY <1>1, <1>6, <1>7
  <2> HIDE DEF both
  <2> QED  BY <1>14, <2>2, <2>3, <2>5, <2>6, <2>7, <2>8
<1> QED  BY <1>12, <1>13, <1>14

-----------------------------------------------------------------------------
(***************************************************************************)
(* The workflow.                                                           *)
(***************************************************************************)

\* What the store, the scanner and the analyzer hold.
StoreTyped ==
  /\ detector \in Detectors
  /\ buffer \in Frames \cup {Blank}
  /\ DOMAIN store = Keys \cup {FrameKey, ResultKey}
  /\ \A key \in Keys \cup {FrameKey} : store[key] \in Frames \cup {Blank, None}

\* What the stages leave: the frame with its score map, and their projection.
Scored ==
  /\ Image(image, Int) /\ Image(score, Nat)
  /\ score.rows = image.rows /\ score.cols = image.cols
Found == Scored /\ Direction(dir) /\ profile = Projection(score, dir)

Staged ==
  /\ step \in {"idle", "tables", "angle", "bands"}
  /\ step = "tables" =>
       /\ Image(image, Int) /\ row \in 0 .. image.rows
       /\ sat[1] \in Tables(image) /\ sat[2] \in Tables(image)
  /\ step = "angle" => Scored
  /\ step = "bands" => Found

\* A stored result is that of the projection it was computed from.
Reports(bands) ==
  DOMAIN Bands = DOMAIN bands /\ \A i \in DOMAIN bands : Bands[i] \in WithLines(image, dir, bands[i])
Stored ==
  Analysed =>
    Found /\ Reports(DetectBands(profile, detector.percent, detector.minWidth))

IInv == StoreTyped /\ Staged /\ Stored

\* Every stage hands the next one what it needs, and the result belongs to the
\* projection that is kept, whatever is grabbed or missing in between (RunAnalyzer,
\* analyze).
THEOREM StagesInvariant == Spec => []IInv
<1>1. Init => IInv
  <2> SUFFICES ASSUME Init PROVE IInv
    OBVIOUS
  <2>1. StoreTyped
    BY DEF Init, StoreTyped
  <2>2. Staged /\ Stored
    BY DEF Init, Staged, Stored, Analysed
  <2> QED  BY <2>1, <2>2 DEF IInv
<1>2. IInv /\ [Next]_vars => IInv'
  <2> SUFFICES ASSUME IInv, [Next]_vars PROVE IInv'
    OBVIOUS
  <2> USE DEF IInv
  <2>1. FrameKey # ResultKey /\ ResultKey \notin Keys
    BY ScanAnalysisAssumption DEF ScanAnalysisAssumption, FrameKey, ResultKey
  <2>2. ASSUME UNCHANGED <<detector, detection>>, UNCHANGED step, UNCHANGED store \/ ~Analysed',
               UNCHANGED outcome \/ ~Analysed'
        PROVE  Staged' /\ Stored'
    <3>1. Staged'
      BY <2>2 DEF detection, Staged, Scored, Found
    <3>2. Stored'
      BY <2>2 DEF detection, Stored, Analysed, Bands, Scored, Found, Reports
    <3> QED  BY <3>1, <3>2
  <2>3. CASE Grab
    <3>1. StoreTyped'
      BY <2>1, <2>3 DEF Grab, StoreTyped
    <3>2. ~Analysed'
      BY <2>3 DEF Grab, Analysed
    <3> QED  BY <2>2, <2>3, <3>1, <3>2 DEF Grab
  <2>4. CASE Rescan
    <3>1. StoreTyped'
      BY <2>4 DEF Rescan, StoreTyped
    <3> QED  BY <2>2, <2>4, <3>1 DEF Rescan
  <2>5. ASSUME NEW key \in Keys, RunAnalyzer(key)
        PROVE  IInv'
    <3> DEFINE frame == store[key]
    <3>1. UNCHANGED <<detector, buffer, score, dir, profile>> /\ step = "idle"
      BY <2>5 DEF RunAnalyzer
    <3>2. CASE frame = None \/ HasNull(frame)
      <4>1. UNCHANGED <<store, step, image, sat, row>> /\ outcome' # "result"
        BY <2>5, <3>2 DEF RunAnalyzer
      <4>2. StoreTyped'
        BY <3>1, <4>1 DEF StoreTyped
      <4>3. ~Analysed'
        BY <4>1 DEF Analysed
      <4> QED  BY <2>2, <3>1, <4>1, <4>2, <4>3 DEF detection
    <3>3. CASE ~(frame = None \/ HasNull(frame)) /\ (frame.rows < 4 \/ frame.cols < 4)
      <4>1. /\ store' = [store EXCEPT ![ResultKey] = [error |-> TRUE, bands |-> << >>]]
            /\ UNCHANGED <<step, image, sat, row>>
        BY <2>5, <3>3 DEF RunAnalyzer
      <4>2. StoreTyped'
        BY <2>1, <3>1, <4>1 DEF StoreTyped
      <4>3. ~Analysed'
        BY <4>1 DEF Analysed, StoreTyped
      <4> QED  BY <2>2, <3>1, <4>1, <4>2, <4>3 DEF detection
    <3>4. CASE ~(frame = None \/ HasNull(frame)) /\ ~(frame.rows < 4 \/ frame.cols < 4)
      <4>1. /\ image' = Sanitized(frame) /\ sat' = <<EmptySat(frame), EmptySat(frame)>>
            /\ row' = 0 /\ step' = "tables" /\ UNCHANGED store
        BY <2>5, <3>4 DEF RunAnalyzer
      <4>2. StoreTyped'
        BY <3>1, <4>1 DEF StoreTyped
      <4>3. Frame(frame, {NaN} \cup Int)
        <5>1. frame \in Frames \cup {Blank}
          BY <3>4 DEF StoreTyped
        <5> QED  BY <5>1, ScanAnalysisAssumption DEF ScanAnalysisAssumption
      <4>4. Image(Sanitized(frame), Int) /\ Sanitized(frame).rows = frame.rows
            /\ Sanitized(frame).cols = frame.cols
        <5>1. \A q \in DOMAIN frame.at : frame.at[q] # NaN /\ frame.at[q] \in Int
          BY <3>4, <4>3 DEF HasNull, Frame
        <5>2. /\ DOMAIN Sanitized(frame) = {"rows", "cols", "at"}
              /\ Sanitized(frame).rows = frame.rows /\ Sanitized(frame).cols = frame.cols
              /\ Sanitized(frame).at \in [Cells(frame.rows, frame.cols) -> Int]
          BY <4>3, <5>1 DEF Frame, Sanitized
        <5> QED  BY <3>4, <4>3, <5>2 DEF Frame, Image
      <4>5. EmptySat(frame) \in Tables(Sanitized(frame))
        BY <4>4 DEF EmptySat, Tables
      <4>6. Staged'
        BY <4>1, <4>4, <4>5 DEF Staged, Image, Frame
      <4>7. Stored'
        BY <4>1 DEF Stored, Analysed
      <4> QED  BY <4>2, <4>6, <4>7
    <3> QED  BY <3>2, <3>3, <3>4
  <2>6. CASE BuildRow
    <3>1. StoreTyped' /\ Stored'
      BY <2>6 DEF BuildRow, StoreTyped, Stored, Analysed
    <3>2. row' \in 1 .. image.rows /\ Image(image, Int)
      BY <2>6 DEF BuildRow, Staged, Image, Frame
    <3>3. Image(Squared(image), Int) /\ Squared(image).rows = image.rows
          /\ Squared(image).cols = image.cols
      <4>1. \A q \in DOMAIN image.at : Sq(image.at[q]) \in Int
        BY <3>2 DEF Image, Frame, Sq
      <4> QED  BY <3>2, <4>1 DEF Image, Frame, Squared
    <3>4. SatRow(image, sat[1], row') \in Tables(image)
      BY <2>6, <3>2, SatRowType DEF BuildRow, Staged
    <3>5. SatRow(Squared(image), sat[2], row') \in Tables(image)
      BY <2>6, <3>2, <3>3, SatRowType DEF BuildRow, Staged, Tables
    <3>6. Staged'
      BY <2>6, <3>2, <3>4, <3>5 DEF BuildRow, Staged
    <3> QED  BY <3>1, <3>6
  <2>7. CASE BuildScore
    <3>1. StoreTyped' /\ Stored'
      BY <2>7 DEF BuildScore, StoreTyped, Stored, Analysed
    <3>2. Scored'
      BY <2>7, ScoreType, ScanAnalysisAssumption
      DEF BuildScore, Staged, Scored, StoreTyped, ScanAnalysisAssumption
    <3> QED  BY <2>7, <3>1, <3>2 DEF BuildScore, Staged
  <2>8. CASE FindAngle
    <3>1. StoreTyped' /\ Stored'
      BY <2>8 DEF FindAngle, StoreTyped, Stored, Analysed
    <3>2. Direction(dir')
      BY <2>8, DetectAngleType, ScanAnalysisAssumption
      DEF FindAngle, StoreTyped, ScanAnalysisAssumption
    <3>3. Found'
      BY <2>8, <3>2 DEF FindAngle, Staged, Scored, Found
    <3> QED  BY <2>8, <3>1, <3>3 DEF FindAngle, Staged
  <2>9. CASE FindBands
    <3>1. StoreTyped'
      BY <2>1, <2>9 DEF FindBands, StoreTyped
    <3>2. Staged' /\ Found'
      BY <2>9 DEF FindBands, detection, Staged, Scored, Found
    <3>3. Reports(DetectBands(profile, detector.percent, detector.minWidth))'
      <4> DEFINE bands == DetectBands(profile, detector.percent, detector.minWidth)
                 sets == [i \in DOMAIN bands |-> WithLines(image, dir, bands[i])]
      <4>1. PICK reported \in Picks(sets) :
              store' = [store EXCEPT ![ResultKey] =
                [error |-> FALSE, dir |-> dir, bands |-> reported]]
        BY <2>9 DEF FindBands
      <4>2. DOMAIN reported = DOMAIN sets /\ \A i \in DOMAIN sets : reported[i] \in sets[i]
        <5> HIDE DEF sets
        <5> QED  BY DEF Picks
      <4>3. Bands' = reported
        BY <4>1 DEF Bands, StoreTyped
      <4>4. UNCHANGED <<detector, image, dir, profile>>
        BY <2>9 DEF FindBands, detection
      <4>5. bands' = bands
        BY <4>4
      <4>6. DOMAIN reported = DOMAIN bands
            /\ \A i \in DOMAIN bands : reported[i] \in WithLines(image, dir, bands[i])
        BY <4>2
      <4>7. \A i : WithLines(image, dir, bands[i])' = WithLines(image, dir, bands[i])
        BY <4>4, <4>5
      <4> QED  BY <4>3, <4>5, <4>6, <4>7 DEF Reports
    <3> QED  BY <3>1, <3>2, <3>3 DEF Stored
  <2>10. CASE UNCHANGED vars
    <3>1. StoreTyped'
      BY <2>10 DEF vars, StoreTyped
    <3> QED  BY <2>2, <2>10, <3>1 DEF vars
  <2> QED  BY <2>3, <2>4, <2>5, <2>6, <2>7, <2>8, <2>9, <2>10 DEF Next
<1> QED  BY <1>1, <1>2, PTL DEF Spec

\* A stored band is a piece of the projection with its centre inside, and its lines are
\* those of the bins inside it.
Inside ==
  Analysed => \A i \in DOMAIN Bands :
    LET band == Bands[i]
    IN /\ band.low \in Nat /\ band.high \in (band.low + 1) .. Bins(score, dir)
       /\ band.center \in (band.low * Tenth) .. ((band.high - 1) * Tenth)
       /\ band.centerLine \in LineEndpoints(image, dir, band.center)
       /\ band.lowLine \in LineEndpoints(image, dir, band.low * Tenth)
       /\ band.highLine \in LineEndpoints(image, dir, (band.high - 1) * Tenth)

\* The stored bands are the maximal runs that are wide enough, each once and in order,
\* with the centre inside (detect_bands).
THEOREM BandsAreMaximalRunsHolds == Spec => [](BandsAreMaximalRuns /\ Inside)
<1>1. IInv => BandsAreMaximalRuns /\ Inside
  <2> SUFFICES ASSUME IInv, Analysed PROVE BandsAreMaximalRuns /\ Inside
    BY DEF BandsAreMaximalRuns, Inside
  <2> DEFINE bins == Bins(score, dir)
             percent == detector.percent
             minWidth == detector.minWidth
             b == DetectBands(profile, percent, minWidth)
             Rep(low, high) == Reported(profile, bins, percent, minWidth, low, high)
             Peak == \E i \in 1 .. bins : profile[i] > 0
  <2>1. /\ bins \in Nat \ {0} /\ profile \in [1 .. bins -> Nat]
        /\ percent \in Int /\ minWidth \in Nat
    <3>1. Image(score, Nat) /\ Direction(dir) /\ profile = Projection(score, dir)
      BY DEF IInv, Stored, Found, Scored
    <3>2. bins \in Nat \ {0} /\ profile \in [1 .. bins -> Nat]
      BY <3>1, ProjectionType
    <3>3. percent \in Int /\ minWidth \in Nat
      BY ScanAnalysisAssumption DEF ScanAnalysisAssumption, IInv, StoreTyped
    <3> QED  BY <3>2, <3>3
  <2>2. /\ DOMAIN Bands = DOMAIN b
        /\ \A i \in DOMAIN b : Bands[i] \in WithLines(image, dir, b[i])
    BY DEF IInv, Stored, Reports
  <2> HIDE DEF bins, percent, minWidth, b
  <2>3. Len(profile) = bins /\ DOMAIN profile = 1 .. bins
    BY <2>1
  <2>4. \A low, high : Rep(low, high) <=>
          <<low, high>> \in Runs /\ high - low >= minWidth /\ <<low, high>> # <<bins - 1, bins>>
    <3>1. \A i : Above(i) <=> i \in Over(profile, bins, percent)
      BY <2>3 DEF Above, Over, percent
    <3> QED  BY <2>3, <3>1 DEF Reported, MaximalRun, Runs
  <2>5. CASE ~Peak
    <3>1. b = << >>
      BY <2>1, <2>3, <2>5 DEF DetectBands, b
    <3>2. DOMAIN Bands = {}
      BY <2>2, <3>1
    <3> QED  BY <2>3, <2>5, <3>2 DEF BandsAreMaximalRuns, Inside
  <2>6. CASE Peak
    <3>1. PICK peak \in 1 .. bins : profile[peak] > 0
      BY <2>6
    <3>2. /\ b \in Seq(AllBands(profile, bins))
          /\ \A j \in DOMAIN b : \E low, high \in 0 .. bins :
               Rep(low, high) /\ b[j] = Band(profile, low, high)
          /\ \A low, high : Rep(low, high) =>
               \E j \in DOMAIN b : b[j] = Band(profile, low, high)
          /\ \A i, j \in DOMAIN b : i < j => b[i].high < b[j].low
      BY <2>1, <3>1, DetectedBands DEF b
    <3>3. ASSUME NEW low, NEW high, Rep(low, high)
          PROVE  /\ low \in Nat /\ high \in (low + 1) .. bins
                 /\ Band(profile, low, high).low = low /\ Band(profile, low, high).high = high
                 /\ Band(profile, low, high).center \in (low * Tenth) .. ((high - 1) * Tenth)
      <4>1. /\ low \in 0 .. bins /\ high \in 0 .. bins /\ low < high
            /\ MaximalRun(Over(profile, bins, percent), low, high)
        BY <3>3 DEF Reported, MaximalRun
      <4>2. PICK top \in (low + 1) .. high : profile[top] > 0
        BY <2>1, <3>1, <4>1, RunHasPeak
      <4>3. low \in Nat /\ high \in 1 .. bins /\ high \in (low + 1) .. bins /\ bins \in Nat
        BY <2>1, <4>1
      <4>4. /\ Band(profile, low, high).low = low /\ Band(profile, low, high).high = high
            /\ Band(profile, low, high).center \in (low * Tenth) .. ((high - 1) * Tenth)
        <5>1. low < high
          BY <4>1
        <5>2. profile \in [1 .. bins -> Nat]
          BY <2>1
        <5> HIDE DEF Rep, Peak
        <5> QED  BY <4>2, <4>3, <5>1, <5>2, BandCenter
      <4> QED  BY <4>3, <4>4
    <3>4. \A i \in DOMAIN Bands :
            /\ Bands[i].low = b[i].low /\ Bands[i].high = b[i].high /\ Bands[i].center = b[i].center
            /\ Bands[i].centerLine \in LineEndpoints(image, dir, b[i].center)
            /\ Bands[i].lowLine \in LineEndpoints(image, dir, b[i].low * Tenth)
            /\ Bands[i].highLine \in LineEndpoints(image, dir, NonNegative(b[i].high - 1) * Tenth)
      BY <2>2 DEF WithLines
    <3>5. \A i \in DOMAIN Bands : \E low, high \in 0 .. bins :
            Rep(low, high) /\ b[i] = Band(profile, low, high)
      BY <2>2, <3>2
    <3>6. Inside
      <4> SUFFICES ASSUME NEW i \in DOMAIN Bands
                   PROVE  LET band == Bands[i]
                          IN /\ band.low \in Nat /\ band.high \in (band.low + 1) .. bins
                             /\ band.center \in (band.low * Tenth) .. ((band.high - 1) * Tenth)
                             /\ band.centerLine \in LineEndpoints(image, dir, band.center)
                             /\ band.lowLine \in LineEndpoints(image, dir, band.low * Tenth)
                             /\ band.highLine \in LineEndpoints(image, dir, (band.high - 1) * Tenth)
        BY DEF Inside, bins
      <4>1. PICK low, high \in 0 .. bins : Rep(low, high) /\ b[i] = Band(profile, low, high)
        BY <3>5
      <4>2. /\ low \in Nat /\ high \in (low + 1) .. bins
            /\ b[i].low = low /\ b[i].high = high
            /\ b[i].center \in (low * Tenth) .. ((high - 1) * Tenth)
        BY <3>3, <4>1
      <4>3. NonNegative(high - 1) = high - 1
        BY <4>2 DEF NonNegative
      <4> QED  BY <3>4, <4>2, <4>3
    <3>7. BandsAreMaximalRuns
      <4>1. {<<Bands[i].low, Bands[i].high>> : i \in DOMAIN Bands}
              = {r \in Runs : /\ r[2] - r[1] >= minWidth /\ r # <<bins - 1, bins>>
                              /\ \E i \in 1 .. bins : profile[i] > 0}
        <5>1. ASSUME NEW i \in DOMAIN Bands
              PROVE  \E low, high : Rep(low, high) /\ <<Bands[i].low, Bands[i].high>> = <<low, high>>
          BY <3>3, <3>4, <3>5
        <5>2. ASSUME NEW low, NEW high, Rep(low, high)
              PROVE  \E i \in DOMAIN Bands : <<low, high>> = <<Bands[i].low, Bands[i].high>>
          <6>1. PICK j \in DOMAIN b : b[j] = Band(profile, low, high)
            BY <3>2, <5>2
          <6>2. j \in DOMAIN Bands /\ Bands[j].low = low /\ Bands[j].high = high
            BY <2>2, <3>3, <3>4, <5>2, <6>1
          <6> QED  BY <6>2
        <5>3. \A r \in Runs : r = <<r[1], r[2]>>
          BY DEF Runs
        <5> HIDE DEF Rep
        <5> QED  BY <2>4, <2>6, <5>1, <5>2, <5>3
      <4>2. \A i, j \in DOMAIN Bands : i < j => Bands[i].high < Bands[j].low
        BY <2>2, <3>2, <3>4
      <4>3. \A i \in DOMAIN Bands :
              Bands[i].center \in (Bands[i].low * Tenth) .. (Bands[i].high * Tenth)
        BY <2>1, <3>6 DEF Inside, Tenth, bins
      <4> QED  BY <2>3, <4>1, <4>2, <4>3 DEF BandsAreMaximalRuns, minWidth
    <3> QED  BY <3>6, <3>7
  <2> QED  BY <2>5, <2>6
<1> QED  BY <1>1, StagesInvariant, PTL

\* The lines of the stored bands that divide the frame are there, and those that are
\* there are chords of the frame (compute_min_proj, line_endpoints).
THEOREM LinesAreChordsHolds == Spec => []LinesAreChords
<1> DEFINE Sound(line, at) == IF line = NoLine THEN ~Divides(at) ELSE IsChord(line, at)
<1>1. IInv /\ Inside => LinesAreChords
  <2> SUFFICES ASSUME IInv, Inside, Analysed, NEW i \in DOMAIN Bands
               PROVE  /\ Sound(Bands[i].centerLine, Bands[i].center)
                      /\ Sound(Bands[i].lowLine, Bands[i].low * Tenth)
                      /\ Sound(Bands[i].highLine, (Bands[i].high - 1) * Tenth)
    BY DEF LinesAreChords
  <2> DEFINE bins == Bins(image, dir)
             band == Bands[i]
  <2>1. /\ Direction(dir) /\ image.rows \in Nat \ {0} /\ image.cols \in Nat \ {0}
        /\ Image(score, Nat) /\ score.rows = image.rows /\ score.cols = image.cols
    BY DEF IInv, Stored, Found, Scored, Image, Frame
  <2>2. Bins(score, dir) = bins /\ Extent(score, dir) = Extent(image, dir)
    BY <2>1 DEF Bins, MinAlong, MaxAlong, Corners, Along, Extent
  <2>3. bins \in Nat \ {0} /\ (bins - 1) * (2 * dir[3]) <= 2 * Extent(image, dir)
    BY <2>1, <2>2, ProjectionType
  <2>4. ASSUME NEW at \in 0 .. ((bins - 1) * Tenth), NEW line \in LineEndpoints(image, dir, at)
        PROVE  Sound(line, at)
    BY <2>1, <2>3, <2>4, LineCrosses DEF IsChord, Divides, OnBorder, EndX, EndY, Side
  <2>5. /\ band.low \in Nat /\ band.high \in (band.low + 1) .. bins
        /\ band.center \in (band.low * Tenth) .. ((band.high - 1) * Tenth)
        /\ band.centerLine \in LineEndpoints(image, dir, band.center)
        /\ band.lowLine \in LineEndpoints(image, dir, band.low * Tenth)
        /\ band.highLine \in LineEndpoints(image, dir, (band.high - 1) * Tenth)
    BY <2>2 DEF Inside
  <2> HIDE DEF bins, band
  <2>6. /\ band.center \in 0 .. ((bins - 1) * Tenth)
        /\ band.low * Tenth \in 0 .. ((bins - 1) * Tenth)
        /\ (band.high - 1) * Tenth \in 0 .. ((bins - 1) * Tenth)
    BY <2>3, <2>5 DEF Tenth
  <2> QED  BY <2>4, <2>5, <2>6 DEF band
<1> QED  BY <1>1, StagesInvariant, BandsAreMaximalRunsHolds, PTL
=============================================================================
