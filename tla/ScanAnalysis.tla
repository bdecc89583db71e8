---------------------------- MODULE ScanAnalysis ----------------------------
(***************************************************************************)
(* The scan-analysis workflow: GrabScanFrame (action/scan.rs) puts a frame *)
(* of the scanner into the data store (action/store.rs), RunAnalyzer       *)
(* (analyzer/adapter.rs) takes one out, runs the CuOx row detector on it   *)
(* and stores its result.  The detector's stages are steps of their own.   *)
(***************************************************************************)
EXTENDS CuoxRows, TLC

CONSTANTS
  None,       \* no entry, no stage
  Frames,     \* what the scan buffer may hold
  Blank,      \* what it holds before the first scan
  Detectors,  \* the detector's fields: radius, percent, minWidth and fixed
  Keys,       \* the keys a workflow reads frames from
  MaxGrabs    \* bound on the frames grabbed in a behaviour

\* A frame of pixels, or of numbers.
Frame(frame, pixels) ==
  /\ DOMAIN frame = {"rows", "cols", "at"}
  /\ frame.rows \in Nat /\ frame.cols \in Nat
  /\ frame.at \in [Cells(frame.rows, frame.cols) -> pixels]

FrameKey  == "scan_frame"
ResultKey == "cuox_row_detector"

\* The detector's fields are usize and f32; a threshold of a whole percentage.
ASSUME ScanAnalysisAssumption ==
  /\ \A frame \in Frames \cup {Blank} : Frame(frame, {NaN} \cup Int)
  /\ \A d \in Detectors :
       /\ d.radius \in Nat /\ d.percent \in Int /\ d.minWidth \in Nat
       /\ d.fixed = None \/ Direction(d.fixed)
  /\ ResultKey \notin Keys

VARIABLES
  detector,  \* the analyzer of the workflow
  buffer,    \* the frame in the scanner, of the direction asked for
  store,     \* ctx.store: key -> frame, result or None
  step,      \* "idle", or the stage of analyze to come
  image,     \* the sanitized frame
  sat,       \* the two summed-area tables
  row,       \* the rows of them that are filled
  score,
  dir,       \* angle_deg
  profile,   \* projection
  outcome,   \* what the last action returned, "none" while one runs
  grabs      \* history: the frames grabbed so far

detection == <<image, sat, row, score, dir, profile>>
vars      == <<detector, buffer, store, step, detection, outcome, grabs>>

Init ==
  /\ detector \in Detectors
  /\ buffer = Blank
  /\ store = [k \in Keys \cup {FrameKey, ResultKey} |-> None]
  /\ step = "idle"
  /\ image = None /\ sat = None /\ row = 0 /\ score = None
  /\ dir = None /\ profile = None
  /\ outcome = "none"
  /\ grabs = 0

-----------------------------------------------------------------------------
\* JSON has no NaN: a pixel that is not finite is stored as null.
HasNull(frame) == \E p \in DOMAIN frame.at : frame.at[p] = NaN

\* GrabScanFrame::execute: always the same key, or the error of the call.
Grab ==
  /\ step = "idle" /\ grabs < MaxGrabs
  /\ grabs' = grabs + 1
  /\ \/ store' = [store EXCEPT ![FrameKey] = buffer] /\ outcome' = "frame"
     \/ UNCHANGED store /\ outcome' = "failed"
  /\ UNCHANGED <<detector, buffer, step, detection>>

\* The scanner goes on, or the other direction is asked for next.
Rescan ==
  /\ step = "idle" /\ grabs < MaxGrabs
  /\ buffer' \in Frames \ {buffer}
  /\ UNCHANGED <<detector, store, step, detection, outcome, grabs>>

\* RunAnalyzer::execute up to the analyzer: no such entry, an entry whose data is
\* not all numbers, or a frame; and analyze's first checks, which report an empty
\* or too small frame as a result without bands.
RunAnalyzer(key) ==
  LET frame == store[key]
  IN /\ step = "idle"
     /\ IF frame = None \/ HasNull(frame)
          THEN /\ outcome' = IF frame = None THEN "missing" ELSE "malformed"
               /\ UNCHANGED <<store, step, image, sat, row>>
        ELSE IF frame.rows < 4 \/ frame.cols < 4
          THEN /\ store' = [store EXCEPT ![ResultKey] = [error |-> TRUE, bands |-> << >>]]
               /\ outcome' = "result"
               /\ UNCHANGED <<step, image, sat, row>>
          ELSE /\ image' = Sanitized(frame)
               /\ sat' = <<EmptySat(frame), EmptySat(frame)>>
               /\ row' = 0
               /\ step' = "tables"
               /\ outcome' = "none"
               /\ UNCHANGED store
     /\ UNCHANGED <<detector, buffer, score, dir, profile, grabs>>

\* Step 1: the tables, a row at a time, and the score map.
BuildRow ==
  /\ step = "tables" /\ row < image.rows
  /\ row' = row + 1
  /\ sat' = <<SatRow(image, sat[1], row'), SatRow(Squared(image), sat[2], row')>>
  /\ UNCHANGED <<detector, buffer, store, step, image, score, dir, profile, outcome, grabs>>

BuildScore ==
  /\ step = "tables" /\ row = image.rows
  /\ score' = Score(image, sat[1], sat[2], detector.radius)
  /\ step' = "angle"
  /\ UNCHANGED <<detector, buffer, store, image, sat, row, dir, profile, outcome, grabs>>

\* Step 2: the angle, detected unless it is fixed, and the projection at it.
FindAngle ==
  /\ step = "angle"
  /\ dir' = IF detector.fixed = None THEN DetectAngle(score) ELSE detector.fixed
  /\ profile' = Projection(score, dir')
  /\ step' = "bands"
  /\ UNCHANGED <<detector, buffer, store, image, sat, row, score, outcome, grabs>>

\* Steps 3 and 4: the bands with their lines; RunAnalyzer stores the result under
\* the analyzer's name.
FindBands ==
  /\ step = "bands"
  /\ LET bands == DetectBands(profile, detector.percent, detector.minWidth)
     IN \E reported \in Picks([i \in DOMAIN bands |-> WithLines(image, dir, bands[i])]) :
          store' = [store EXCEPT ![ResultKey] =
            [error |-> FALSE, dir |-> dir, bands |-> reported]]
  /\ outcome' = "result"
  /\ step' = "idle"
  /\ UNCHANGED <<detector, buffer, detection, grabs>>

Next ==
  \/ Grab \/ Rescan
  \/ \E key \in Keys : RunAnalyzer(key)
  \/ BuildRow \/ BuildScore \/ FindAngle \/ FindBands

Spec == Init /\ [][Next]_vars

-----------------------------------------------------------------------------
(***************************************************************************)
(* Properties.                                                             *)
(***************************************************************************)

\* The stored result is that of the stages that ran last.
Analysed == step = "idle" /\ outcome = "result" /\ ~store[ResultKey].error
Bands    == store[ResultKey].bands

Above(i) == i \in DOMAIN profile /\ AboveThreshold(profile, detector.percent, i)

\* The maximal runs of bins above the threshold, as <<low, high>>.
Runs ==
  {r \in (0..Len(profile)) \X (0..Len(profile)) :
     /\ r[1] < r[2]
     /\ \A i \in (r[1] + 1)..r[2] : Above(i)
     /\ ~Above(r[1]) /\ ~Above(r[2] + 1)}

\* The bands are the maximal runs that are wide enough, each once and in order,
\* with the centre inside.  A run of the last bin alone is not reported
\* (detect_bands).
BandsAreMaximalRuns ==
  Analysed =>
    LET n == Len(profile)
    IN /\ {<<Bands[i].low, Bands[i].high>> : i \in DOMAIN Bands}
            = {r \in Runs : /\ r[2] - r[1] >= detector.minWidth /\ r # <<n - 1, n>>
                            /\ \E i \in 1..n : profile[i] > 0}
       /\ \A i, j \in DOMAIN Bands : i < j => Bands[i].high < Bands[j].low
       /\ \A i \in DOMAIN Bands :
            Bands[i].center \in (Bands[i].low * Tenth)..(Bands[i].high * Tenth)

\* The ends of a line, in the parts of BaseY and BaseX times c and s, for a
\* direction that is not along a side.
EndY(at, t) == BaseY(image, dir, at) * dir[1] - t
EndX(at, t) == BaseX(image, dir, at) * dir[2] + t
Side(n, f)  == Ordered(0, 2 * n * Sq(dir[3]) * Tenth * f)

\* The line parts the corners of the frame.
Divides(at) ==
  at * 2 * dir[3] \in 1..((MaxAlong(image, dir) - MinAlong(image, dir)) * Tenth - 1)

IsChord(line, at) ==
  /\ dir[2] = 0 => BaseY(image, dir, at) \in 0..(2 * image.rows * Sq(dir[3]) * Tenth)
  /\ dir[1] = 0 => BaseX(image, dir, at) \in 0..(2 * image.cols * Sq(dir[3]) * Tenth)
  /\ dir[1] # 0 /\ dir[2] # 0 => \A t \in {line[1], line[2]} :
       LET y == EndY(at, t)
           x == EndX(at, t)
           ys == Side(image.rows, dir[1])
           xs == Side(image.cols, dir[2])
       IN /\ y \in ys[1]..ys[2] /\ x \in xs[1]..xs[2]
          /\ y \in {ys[1], ys[2]} \/ x \in {xs[1], xs[2]}

\* Every line of every band that divides the frame is there, and both ends of every
\* line that is there are on the frame's border; the line of the first bin only
\* touches the frame, and may be missing (compute_min_proj, line_endpoints).
LinesAreChords ==
  Analysed => \A i \in DOMAIN Bands :
    LET Sound(line, at) == IF line = NoLine THEN ~Divides(at) ELSE IsChord(line, at)
    IN /\ Sound(Bands[i].centerLine, Bands[i].center)
       /\ Sound(Bands[i].lowLine, Bands[i].low * Tenth)
       /\ Sound(Bands[i].highLine, (Bands[i].high - 1) * Tenth)

\* The pixels that are no further than a radius from one.
Around(p, radius) ==
  {q \in DOMAIN image.at : q[1] - p[1] \in -radius..radius /\ q[2] - p[2] \in -radius..radius}

\* The window of a pixel, of both radii of the score map and at the frame's border
\* too, counts the pixels around it, and the tables give their sum and that of their
\* squares (build_sat, build_sat_sq, sat_query, the clipping in build_score_map).
WindowsAreNeighbourhoods ==
  step = "tables" /\ row = image.rows =>
    \A p \in DOMAIN image.at, radius \in {detector.radius, 3 * detector.radius} :
      LET w == Window(image, p, radius)
      IN /\ Area(w) = Cardinality(Around(p, radius))
         /\ WindowSum(sat[1], w) = SumFunctionOnSet(image.at, Around(p, radius))
         /\ WindowSum(sat[2], w) = SumFunctionOnSet(Squared(image).at, Around(p, radius))
=============================================================================
