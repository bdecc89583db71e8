--------------------------- MODULE MCScanAnalysis ---------------------------
(***************************************************************************)
(* An instance of ScanAnalysis: directions of small whole numbers in place *)
(* of the sweeps' decimal degrees, and small frames with stripes, with a   *)
(* texture and with a gradient.                                            *)
(***************************************************************************)
EXTENDS ScanAnalysis

\* The largest h of a direction: of a bound for which TLC's integers do.
MaxH == 150

Coprime(m, n) == \A k \in 2..m : m % k # 0 \/ n % k # 0

\* The direction of twice the angle with tangent n / m.
DoubleAngle(m, n) ==
  LET halve == IF m % 2 = 1 /\ n % 2 = 1 THEN 2 ELSE 1
  IN <<(Sq(m) - Sq(n)) \div halve, (2 * m * n) \div halve, (Sq(m) + Sq(n)) \div halve>>

\* All directions up to MaxH from 0 to 180 degrees, in the order of the angle.
Directions ==
  LET pairs  == {q \in (1..17) \X (0..17) : Coprime(q[1], q[2])}
      all    == {d \in {DoubleAngle(q[1], q[2]) : q \in pairs} : d[3] <= MaxH}
      rank   == [d \in all |-> Cardinality({e \in all : e[1] * d[3] >= d[1] * e[3]})]
  IN [i \in 1..Cardinality(all) |-> CHOOSE d \in all : rank[d] = i]

\* Every second of them, and each with two neighbours on both sides.
MCCoarse == [i \in 1..((Len(Directions) + 1) \div 2) |-> Directions[2 * i - 1]]

MCFine(d) ==
  LET n == Len(Directions)
      i == CHOOSE i \in 1..n : Directions[i] = d
  IN [k \in 1..5 |-> Directions[((i + k + n - 4) % n) + 1]]

Square(n, pixel(_, _)) == [rows |-> n, cols |-> n, at |-> [p \in Cells(n, n) |-> pixel(p[1], p[2])]]

\* Dark stripes lo .. hi on a bright ground, along the rows or the columns: of one
\* pixel to half of the frame, at either border and inside.
RowStripe(n, lo, hi) == Square(n, LAMBDA y, x : IF y \in lo..hi THEN 0 ELSE 3)
ColStripe(n, lo, hi) == Square(n, LAMBDA y, x : IF x \in lo..hi THEN 0 ELSE 3)
Stripes(n, places)   == UNION {{RowStripe(n, p[1], p[2]), ColStripe(n, p[1], p[2])} : p \in places}
Places(n) == {p \in (0..(n - 1)) \X (0..(n - 1)) : p[2] - p[1] \in 0..(n \div 2 - 1)}

Textured == Square(6, LAMBDA y, x : IF y \in 2..3 /\ (y + x) % 2 = 0 THEN 3 ELSE 0)
Diagonal == Square(6, LAMBDA y, x : IF (y + x) % 5 \in {0, 1} THEN 0 ELSE 3)
Corner   == Square(5, LAMBDA y, x : IF y + x = 8 THEN 3 ELSE 0)
Wide     == [rows |-> 4, cols |-> 7, at |-> [p \in Cells(4, 7) |-> (2 * p[1] + p[2]) % 4]]
Flat     == Square(4, LAMBDA y, x : 2)
Small    == Square(3, LAMBDA y, x : y)
Partial  == Square(4, LAMBDA y, x : IF y = 3 THEN NaN ELSE x)

MCBlank  == Square(4, LAMBDA y, x : NaN)

MCFrames ==
  Stripes(6, Places(6)) \cup Stripes(16, {<<5, 9>>})
  \cup {Textured, Diagonal, Corner, Wide, Flat, Small, Partial}

MCDetectors ==
  {[radius |-> 1, percent |-> s[1], minWidth |-> s[2], fixed |-> s[3]] :
     s \in {<<30, 2, None>>, <<50, 1, None>>, <<30, 1, <<4, 3, 5>>>>, <<50, 1, <<-3, 4, 5>>>>}}
=============================================================================
