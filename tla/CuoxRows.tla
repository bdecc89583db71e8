------------------------------ MODULE CuoxRows ------------------------------
(***************************************************************************)
(* The detector of CuOx rows (analyzer/cuox_rows.rs): bands of a scan      *)
(* frame, their angle and their edge lines.  A frame is a record of its    *)
(* size and its pixels; pixels are integers or NaN.  Floats are fixed-     *)
(* point numbers of Unit parts, rounded down by each division.             *)
(***************************************************************************)
EXTENDS Integers, SequencesExt, FiniteSets

CONSTANTS
  NaN,     \* a pixel that is not finite
  NoLine,  \* a line that misses the frame
  Coarse,  \* the directions of the coarse sweep, in its order
  Fine(_)  \* the directions of the fine sweep around one of them

\* The parts of one, and the parts of a bin that a band's centre is rounded to.
Unit == 1000
Tenth == 10

Sq(x)          == x * x
NonNegative(x) == IF x < 0 THEN 0 ELSE x
Least(a, b)    == IF a <= b THEN a ELSE b
Greatest(S)    == Max(S \cup {0})

\* A direction is <<c, s, h>>, the angle with cosine c/h and sine s/h.
Direction(d) == d \in Int \X Int \X Int /\ d[3] > 0 /\ Sq(d[1]) + Sq(d[2]) = Sq(d[3])

\* What a sweep goes through.
Sweep(s) == s \in Seq(Int \X Int \X Int) /\ s # << >> /\ \A i \in DOMAIN s : Direction(s[i])

\* The fine sweep starts from a direction of the coarse one; no line is a missing one.
ASSUME CuoxRowsAssumption ==
  /\ Sweep(Coarse)
  /\ \A i \in DOMAIN Coarse : Sweep(Fine(Coarse[i]))
  /\ NoLine \notin Int \X Int

\* The sum of the first n numbers of f, added in turn.
Total(f, n) ==
  LET sum[i \in 0..n] == IF i = 0 THEN 0 ELSE sum[i - 1] + f[i]
  IN sum[n]

\* The pixels of a frame, and the k-th of them in the order of the loops over rows
\* and columns.
Cells(rows, cols) == (0..(rows - 1)) \X (0..(cols - 1))
Cell(cols, k)     == <<(k - 1) \div cols, (k - 1) % cols>>

\* NaN and the infinities become 0.
Sanitized(image) ==
  [image EXCEPT !.at = [p \in DOMAIN image.at |-> IF image.at[p] = NaN THEN 0 ELSE image.at[p]]]

-----------------------------------------------------------------------------
(***************************************************************************)
(* Step 1: the score map.                                                  *)
(***************************************************************************)

\* A plausible bug: the strip above is not added.
SatEntry_RowOnly(sat, value, p) == value + sat[<<p[1] + 1, p[2]>>]

\* The table's next entry from its three neighbours.
SatEntry(sat, value, p) ==
  value + sat[<<p[1], p[2] + 1>>] + sat[<<p[1] + 1, p[2]>>] - sat[p]

\* What the second table sums.
Squared(image) == [image EXCEPT !.at = [p \in DOMAIN image.at |-> Sq(image.at[p])]]

\* A summed-area table starts with zeros, a padding row and column included, and is
\* filled row by row.
EmptySat(image) == [p \in (0..image.rows) \X (0..image.cols) |-> 0]
SatRow(image, sat, r) ==
  LET filled[c \in 0..image.cols] ==
        IF c = 0 THEN sat
        ELSE LET s == filled[c - 1]
             IN [s EXCEPT ![<<r, c>>] =
                   SatEntry(s, image.at[<<r - 1, c - 1>>], <<r - 1, c - 1>>)]
  IN filled[image.cols]

\* sat_query: the sum over the rows and columns of a window.
WindowSum(sat, w) ==
  sat[<<w.r1 + 1, w.c1 + 1>>] - sat[<<w.r0, w.c1 + 1>>] - sat[<<w.r1 + 1, w.c0>>]
  + sat[<<w.r0, w.c0>>]

\* The window of a radius around a pixel, clipped to the frame.
Window(image, p, radius) ==
  [r0 |-> NonNegative(p[1] - radius), r1 |-> Least(p[1] + radius, image.rows - 1),
   c0 |-> NonNegative(p[2] - radius), c1 |-> Least(p[2] + radius, image.cols - 1)]

Area(w) == (w.r1 - w.r0 + 1) * (w.c1 - w.c0 + 1)

\* The middle of the sorted pixels, the upper one of two: the least value that more
\* than half of the pixels do not exceed.
UpTo(image, v) == {p \in DOMAIN image.at : image.at[p] <= v}
Median(image) ==
  Min({v \in Range(image.at) :
         Cardinality(UpTo(image, v)) > Cardinality(DOMAIN image.at) \div 2})

\* normalize_map: to 0 .. 1, unless the map is zero.
Normalized(map) ==
  LET max == Greatest(Range(map))
  IN IF max > 0 THEN [p \in DOMAIN map |-> (map[p] * Unit) \div max] ELSE map

\* build_score_map: the larger of the local variance and of how much a pixel is
\* darker than its wider neighbourhood and than the median.
Score(image, sat, squares, radius) ==
  LET median == Median(image)
      variances == [p \in DOMAIN image.at |->
        LET w == Window(image, p, radius)
            n == Area(w)
        IN (NonNegative(n * WindowSum(squares, w) - Sq(WindowSum(sat, w))) * Unit) \div (n * n)]
      deviations == [p \in DOMAIN image.at |->
        LET w == Window(image, p, 3 * radius)
            n == Area(w)
        IN (NonNegative(WindowSum(sat, w) - n * image.at[p]) * Unit) \div n
           + NonNegative(median - image.at[p]) * Unit]
      v == Normalized(variances)
      d == Normalized(deviations)
  IN [image EXCEPT !.at = [p \in DOMAIN image.at |-> Max({v[p], d[p]})]]

-----------------------------------------------------------------------------
(***************************************************************************)
(* Step 2: the angle.                                                      *)
(***************************************************************************)

\* Averages of factor x factor blocks; what is left over is dropped.
Downsample(image, factor) ==
  LET rows == image.rows \div factor
      cols == image.cols \div factor
  IN [rows |-> rows, cols |-> cols,
      at |-> [p \in Cells(rows, cols) |->
        LET n == factor * factor
            Value(q) == image.at[<<p[1] * factor + q[1], p[2] * factor + q[2]>>]
        IN Total([k \in 1..n |-> Value(Cell(factor, k))], n) \div n]]

\* Where a point is along the direction, in parts of 2h from the centre.
Along(image, dir, y, x) == (2 * y - image.rows) * dir[1] + (2 * x - image.cols) * dir[2]

\* compute_min_proj and its counterpart: over the corners of the frame.
Corners(image) == {<<y, x>> : y \in {0, image.rows}, x \in {0, image.cols}}
MinAlong(image, dir) == Min({Along(image, dir, p[1], p[2]) : p \in Corners(image)})
MaxAlong(image, dir) == Max({Along(image, dir, p[1], p[2]) : p \in Corners(image)})

BinOf(image, dir, p) ==
  (Along(image, dir, p[1], p[2]) - MinAlong(image, dir)) \div (2 * dir[3])

\* n_bins: the extent of the frame along the direction, rounded up.
Bins(image, dir) ==
  LET span == MaxAlong(image, dir) - MinAlong(image, dir)
  IN Max({(span + 2 * dir[3] - 1) \div (2 * dir[3]), 1})

\* project_at_angle: the average of the pixels of each bin, 0 for an empty one.
Projection(image, dir) ==
  LET n == image.rows * image.cols
      bins == Bins(image, dir)
      bin  == [k \in 1..n |-> Least(BinOf(image, dir, Cell(image.cols, k)), bins - 1)]
      Pixels(b) == {k \in 1..n : bin[k] = b - 1}
  IN [b \in 1..bins |->
        LET pixels == Pixels(b)
            values == [k \in 1..n |-> IF k \in pixels THEN image.at[Cell(image.cols, k)] ELSE 0]
        IN IF pixels = {} THEN 0 ELSE Total(values, n) \div Cardinality(pixels)]

\* projection_variance.
Variance(profile) ==
  LET n == Len(profile)
      mean == Total(profile, n) \div n
  IN Total([i \in 1..n |-> Sq(profile[i] - mean)], n) \div n

\* The direction whose profile varies most, the last of equals (max_by).
Sharpest(image, directions) ==
  LET variance == [i \in DOMAIN directions |-> Variance(Projection(image, directions[i]))]
      best[i \in 0..Len(directions)] ==
        IF i = 0 THEN 1
        ELSE LET b == best[i - 1] IN IF variance[i] >= variance[b] THEN i ELSE b
  IN directions[best[Len(directions)]]

\* detect_angle: a coarse sweep, on a smaller copy if the frame is large enough,
\* and a fine one around its best.
DetectAngle(score) ==
  LET small == IF score.rows >= 16 /\ score.cols >= 16 THEN Downsample(score, 4) ELSE score
  IN Sharpest(score, Fine(Sharpest(small, Coarse)))

-----------------------------------------------------------------------------
(***************************************************************************)
(* Step 3: the bands.                                                      *)
(***************************************************************************)

\* The weighted centre, in tenths of a bin, and the edges, the upper one exclusive;
\* bins count from 0.
Band(profile, start, end) ==
  LET width   == end - start
      weights == Total([j \in 1..width |-> profile[start + j]], width)
      moments == Total([j \in 1..width |-> profile[start + j] * (start + j - 1)], width)
  IN [low |-> start, high |-> end,
      center |-> IF weights > 0 THEN (moments * Tenth) \div weights
                 ELSE ((start + end) * Tenth) \div 2]

\* Above the threshold, a percentage of the largest value.
AboveThreshold(profile, percent, i) ==
  profile[i] * 100 >= percent * Greatest({profile[j] : j \in DOMAIN profile})

\* A plausible bug: a band that reaches the last bin is never closed.
Scan_OpenAtEnd(profile, percent, minWidth, acc, i) ==
  LET above == AboveThreshold(profile, percent, i) IN
  IF above /\ ~acc.inside THEN [acc EXCEPT !.inside = TRUE, !.start = i - 1]
  ELSE IF acc.inside /\ ~above
    THEN [acc EXCEPT !.inside = FALSE,
            !.bands = IF i - 1 - acc.start >= minWidth
                        THEN Append(@, Band(profile, acc.start, i - 1)) ELSE @]
    ELSE acc

\* One bin of detect_bands: a band opens at a bin above the threshold, and closes
\* at one below or at the last bin; a band cannot do both at the same bin.
Scan(profile, percent, minWidth, acc, i) ==
  LET above == AboveThreshold(profile, percent, i) IN
  IF above /\ ~acc.inside THEN [acc EXCEPT !.inside = TRUE, !.start = i - 1]
  ELSE IF acc.inside /\ (~above \/ i = Len(profile))
    THEN LET end == IF above THEN i ELSE i - 1
         IN [acc EXCEPT !.inside = FALSE,
               !.bands = IF end - acc.start >= minWidth
                           THEN Append(@, Band(profile, acc.start, end)) ELSE @]
    ELSE acc

DetectBands(profile, percent, minWidth) ==
  LET scanned[i \in 0..Len(profile)] ==
        IF i = 0 THEN [bands |-> << >>, inside |-> FALSE, start |-> 0]
        ELSE Scan(profile, percent, minWidth, scanned[i - 1], i)
  IN IF \A i \in DOMAIN profile : profile[i] <= 0 THEN << >> ELSE scanned[Len(profile)].bands

-----------------------------------------------------------------------------
(***************************************************************************)
(* Step 4: the lines.  With t the parameter of a line along the band, a    *)
(* line is the range of t inside the frame; t is in parts of 2*h*c*s*Tenth,*)
(* or of 2*h*h*Tenth for a line along a side.                              *)
(***************************************************************************)

\* Twice the point where the line crosses the axis of the projection, in parts of
\* h * h * Tenth; `at` is in tenths of a bin.
BaseY(image, dir, at) ==
  image.rows * Sq(dir[3]) * Tenth + (at * 2 * dir[3] + MinAlong(image, dir) * Tenth) * dir[1]
BaseX(image, dir, at) ==
  image.cols * Sq(dir[3]) * Tenth + (at * 2 * dir[3] + MinAlong(image, dir) * Tenth) * dir[2]

Ordered(a, b) == <<Min({a, b}), Max({a, b})>>

\* What a line with a margin inside the frame may come out as: where it only touches
\* the frame the floats decide, and either can happen.
Rounded(margin, line) ==
  (IF margin >= 0 THEN {line} ELSE {}) \cup (IF margin <= 0 THEN {NoLine} ELSE {})

\* A plausible bug: the clip against the columns is forgotten.
LineEndpoints_RowsOnly(image, dir, at) ==
  LET c == dir[1]
      s == dir[2]
      y == BaseY(image, dir, at)
      x == BaseX(image, dir, at)
      height == 2 * image.rows * Sq(dir[3]) * Tenth
      width  == 2 * image.cols * Sq(dir[3]) * Tenth
  IN IF s = 0 THEN Rounded(Least(y, height - y), <<0, width>>)
     ELSE IF c = 0 THEN Rounded(Least(x, width - x), <<0, height>>)
     ELSE {Ordered((y - height) * c, y * c)}

\* line_endpoints: the part of the line inside the frame.  Along a side it is the
\* whole side, if the line is inside at all.
LineEndpoints(image, dir, at) ==
  LET c == dir[1]
      s == dir[2]
      y == BaseY(image, dir, at)
      x == BaseX(image, dir, at)
      height == 2 * image.rows * Sq(dir[3]) * Tenth
      width  == 2 * image.cols * Sq(dir[3]) * Tenth
      byRows == Ordered((y - height) * c, y * c)
      byCols == Ordered(-x * s, (width - x) * s)
      both   == <<Max({byRows[1], byCols[1]}), Min({byRows[2], byCols[2]})>>
  IN IF s = 0 THEN Rounded(Least(y, height - y), <<0, width>>)
     ELSE IF c = 0 THEN Rounded(Least(x, width - x), <<0, height>>)
     ELSE Rounded(both[2] - both[1], both)

\* The band with the lines analyze may report; the upper one is that of the last bin
\* inside the band.
WithLines(image, dir, band) ==
  [low : {band.low}, high : {band.high}, center : {band.center},
   centerLine : LineEndpoints(image, dir, band.center),
   lowLine    : LineEndpoints(image, dir, band.low * Tenth),
   highLine   : LineEndpoints(image, dir, NonNegative(band.high - 1) * Tenth)]

\* The functions that take an element of each of some sets.
Picks(sets) ==
  LET open == {i \in DOMAIN sets : \E x, y \in sets[i] : x # y}
      Pick(i, g) == IF i \in open THEN g[i] ELSE CHOOSE x \in sets[i] : TRUE
  IN {f \in {[i \in DOMAIN sets |-> Pick(i, g)] : g \in [open -> UNION {sets[i] : i \in open}]} :
        \A i \in DOMAIN sets : f[i] \in sets[i]}
=============================================================================
