# rusty-tip: TLA+ models, model checking and proofs

rusty-tip automates a scanning probe microscope. Its main program conditions a
tip: it fires bias pulses, moves to a fresh spot, measures the frequency shift,
and repeats until the tip is sharp and stays sharp under a bias sweep. This
directory models the parts of the program whose correctness depends on order,
on failure and on several threads, checks them with TLC on small instances, and
proves the most important results with TLAPS for every instance.

Source paths below are relative to the repository (`src/tip_prep/runner.rs`);
PROJECT.json gives, for every definition, the lines it stands for.

## 1. Inventory

| Part | State it keeps | Operations | Correct when |
|---|---|---|---|
| Tip preparation `tip_prep/runner.rs` | cycle, baseline, current plan, saved scan settings | `run`, `check_stability`, `confirm_sharp`, sweeps | the tip is withdrawn whenever the motor moves or a maximum pulse fires; settings come back; `Completed` is earned |
| Pulse strategies `tip_prep/pulse_state.rs`, `controller_types.rs` | voltage, stall counter, capped history, pulse counter | `signed_voltage`, `fire_max_pulse_voltage`, `update_voltage`, `reset` | voltage within bounds, stepped up only after a stall, reset takes effect, polarity switches every n-th pulse |
| Life cycle `routine/mod.rs` | -- | `run_routine` | prepare, routine, one withdraw, one teardown, in this order, panics included |
| Runtime `routine/rt.rs`, `routine/subsystems.rs` | cycle count, budgets | `settle`, `check_shutdown`, `cycles`, `guarded`, `exec` | stop is noticed, budgets hold, cleanups run |
| Actions `action/*.rs` | -- (instrument) | `CalibratedApproach`, `Reposition`, single calls | safe-tip protection is restored; errors propagate |
| Shutdown flag `shutdown.rs` | boolean, mutex, condition variable | `request`, `reset`, `wait_timeout` | no lost wakeup, no stale answer |
| Stream reader `buffered_tcp_reader.rs` | ring buffer, stream error, thread | buffering thread, `get_data_since`, `stop` | bounded, in order, ends |
| Nanonis controller `nanonis_controller.rs` | client, reader, channel map | `prepare`, `teardown`, `auto_approach`, `collect_tcp_samples`, ... | fresh distinct samples; torn down once |
| Stable reading `action/signals.rs` | -- | `ReadStableSignal` | retries end; unstable readings are marked |
| GUI session `bin/tip-prep-gui/app.rs` | status, message, phase, controller thread, channel | Start, Stop, per-frame update | one run at a time; the shown status is true |
| GUI configuration tab `bin/tip-prep-gui/app.rs` | the form, file paths | Load, edit, Reset, Save, Start | the run gets what was loaded; what was saved comes back |
| Configuration `config.rs`, `controller_types.rs` | -- | load, default, validate | omitted keys keep their meaning; what a run gets is valid |
| Command line `bin/tip-prep/main.rs` | controller, bus, flag | set-up, Ctrl+C handler, prompt, run | what was acquired is released on every exit; life cycle |
| Events `event/*.rs` | observers, accumulator | `emit` | -- |
| Signal registry `signal_registry.rs` | signals, TCP channels | `from_names`, `add_tcp_map`, look-up | a reading is of the signal that was asked for |
| CuOx row detector `analyzer/cuox_rows.rs` | -- | `analyze` | windows, bands and lines are those of the frame |
| Scan analysis `action/scan.rs`, `action/store.rs`, `analyzer/adapter.rs` | data store | `GrabScanFrame`, `RunAnalyzer` | the stored result is that of the stored frame |
| Mock controller, plotting | -- | simulation, display | not control logic |

How they interact. A front end builds a controller and an event bus and calls
`run_tip_prep`, which calls `run_routine` with the `TipPrep` routine; the
routine reaches the instrument only through `Rt`, whose handles execute
actions on the `SpmController`. Readings come from the stream: the stream's own
thread sends frames to a buffering thread, which fills a ring buffer that the
controller thread reads. A second thread (Ctrl+C handler, GUI) stops the run
through the `ShutdownFlag`. The GUI gets the routine's phases over a channel
and joins the controller thread when it has ended. Both front ends load the same
configuration files; the GUI converts them into a form and back. The controller
looks signals up in the registry, whose TCP map decides which stream channel a
reading is taken from. The analyzer workflow is separate: its actions share the
data store.

What is hard: every instrument call can fail, also inside cleanups and with its
effect unknown; a stop can arrive between any two calls and is noticed only
where the code looks; an early return crosses up to three nested cleanups; four
threads share the buffer, the flag and the channel; the pulse strategy's
counters are reset in several places. PROJECT.json lists each hazard at its
line with the property that would catch it.

## 2. Modules

| Module | Models | Correspondence |
|---|---|---|
| `PulseStrategy` | pulse strategies | operators; `UpdateVoltage` is `update_voltage`, a record is the `PulseState` struct |
| `PulseState` | the strategy driven as `run()` drives it | one action per pulse, reading, failed check; the instrument is left out |
| `RoutineLifecycle` | the contract of `run_routine` | abstract specification |
| `Instrument` | the controller trait | one operator per call: what a call that may fail can do to tip, scan, bias, speed, properties, safe-tip |
| `TipPrep` | runner, `run_routine`, composite actions, guarded cleanups, flag, budgets | `pc` is the next call or decision, `site` the call site of the shared sequence withdraw, move, approach, read; one action per instrument call |
| `ShutdownFlag` | `shutdown.rs` | one action per critical section |
| `StreamReader` | buffering thread, ring buffer, `collect_tcp_samples` | one action per step between accesses to shared state; the thread of the nanonis-rs crate is external |
| `GuiSession` | GUI thread and controller thread | one action per third of a frame (drain, check, button) and per event of the run |
| `Configuration` | defaults, serde defaults, loading, validation, both conversions of the form | operators on documents, configurations and forms |
| `GuiConfiguration` | the configuration tab | one action per button, edit and end of a run; files are a function from paths |
| `SignalRegistry` | names to signals, channels, look-up | operators |
| `StableReading` | gates, retries and backoff of `ReadStableSignal` | operators; its steps are the controller's `sample`, `collect`, `gate`, `backoff` |
| `NanonisController` | prepare, teardown, streams, approach, withdraw, moves, readings | `at` is the next call to the instrument of the operation going on; `controller` the fields of the struct, `instrument` what it drives |
| `CommandLine` | `main()`, the handler, the routine as a sequence of operations | extends the three modules above; `main` is the place in `run()`, `step` the place in the routine |
| `CuoxRows` | the detector | one operator per function |
| `ScanAnalysis` | `GrabScanFrame`, `RunAnalyzer`, the stages of `analyze` | the data store is a function; each stage is an action |
| `MC*` | instances | readings, polarities, clamp |
| `*Proofs` | theorems | see section 6 |

`TipPrep` extends `Instrument` and `PulseStrategy`, and instantiates
`RoutineLifecycle` under the refinement `Phase`; `CommandLine` instantiates the
same `RoutineLifecycle`, so that the contract is checked once for the routine
and once for a real controller under it. Definitions whose name ends in
`_Something` after another definition's name are faulty variants of it: each
property has one that breaks it.

### Abstractions in TipPrep

- A call that fails may or may not have taken effect (`Effect`): the error may
  be a lost reply. `lost` records which settings had a failing call, and is
  the only excuse the restoration properties accept.
- Voltages are levels; the linear method's frequency shift is counted in units
  of which the clamp spans `VoltageSteps`, so interpolation is exact. The bias
  counts sweep steps, with the lower end of `bias_range` at 0 (its width, not its
  offset, decides the stepped values).
- The controller has all capabilities; initially nothing scans, the settings
  are the operator's, and the tip is withdrawn or engaged.
- A stable reading is any member of `Readings`, or an error.
- The polarity-switch counter is kept modulo `switch_every_n_pulses`; without
  a cycle limit the cycle count is not kept.
- Centering the frequency shift and the setpoint change nothing that is
  tracked; logging and events are left out.

### Abstractions in CommandLine and what it extends

- As in TipPrep, a call that fails may or may not have taken effect. An error of
  the connection may make every later call fail (`linked`); nothing in the program
  calls the client's reconnect.
- Only the waiting forms of approach and withdraw are used by the routine.
  Withdrawing does not end an approach that is running; only the halt does.
- The routine is begin, wait, setpoint, approach, settle, then any sequence of
  readings and moves: what it decides is TipPrep's matter.
- Signal names are sequences of words; the alias look-up matches words where the
  code matches substrings, but for the pairs in `Inside`. Where the code iterates over a hash map, the order is
  a choice.
- A reading has `NumSamples` samples, each fresh or stale, and may pass or fail
  each gate; means and slopes are not computed.
- The settling times inside `Reposition` and `CalibratedApproach` and the backoff
  between the attempts of a reading are plain sleeps: nothing happens in them, and
  they are left out here and in TipPrep. A stop does not interrupt them, so that
  `BoundedAfterStop`, which counts pulses and moves, says nothing of the time a
  stop takes.

### Abstractions in Configuration

- A file is a function from some keys to values, tables flattened. One key stands
  for each group the code treats alike (one rate for three, one optional string
  for two); texts that are only passed on are left out; timing and
  signal_stability are opaque values.
- Numbers are counted in thousandths and the form's unit ratio is 1000; a text is
  the number it spells, empty, or junk. Rounding by the printed form is left out.
- Values are typed as serde types them (`IsValue`): what a file or the environment
  spells with a wrong type is `Junk`, and fails to load. A path that is spelled out
  is not the empty text, which the form cannot tell from none.

### Abstractions in CuoxRows

- Numbers are fractions with 1000 parts, rounded down. Pixels are small
  integers or `NaN`; infinities are treated as `NaN`, as the code does.
- A direction is a rational point of the circle, so that sine and cosine are
  exact. The instance sweeps the 98 directions whose denominator is at most 150:
  every second of them coarsely, and each with two neighbours on both sides finely
  (the code: 180 whole degrees, and 41 tenths of a degree). No property says which
  angle is detected, and the theorems hold for any sweeps.
- Where floats decide a comparison of two equal numbers, the outcome is a choice
  (`Rounded`): the line of bin 0 passes through a corner or along a side of the frame
  and may or may not be found. Only there is the margin zero; a tenth of a bin away
  it is far above the rounding. A centre is rounded down to tenths of a bin, so that
  one within the first tenth of bin 0 counts as touching.
- Which bin a pixel on the edge of two bins is counted to, and the number of bins of
  an extent that is a whole number, are decided exactly; the code may be one off. The
  bands are stated of whatever projection comes out.
- `Sanitized` is what `analyze` does to pixels that are not finite; in the workflow it
  changes nothing, because `RunAnalyzer` refuses such frames before.
- Frames are rectangular: the data store can hold ragged rows only if something
  other than GrabScanFrame writes them.

## 3. Runs

| Run | Question | Instance and why it is enough |
|---|---|---|
| `TipPrep_safety` | tip safety, restoration, honest outcomes, life cycle, under any failure, stop or timeout | one cycle, so that the initial check, a cycle's check and the cycle limit all occur; both sweep polarities; two bias steps (first and last differ); two polls (one retry, then timeout); one sharp and one blunt reading, so that every confirmation, final check and retry goes either way; safe-tip protection on or off when the operator starts the run |
| `TipPrep_progress` | does a cycle always end, does a stop or the time budget end the run | no cycle limit; one bias step, two polls |
| `PulseState_stepping` | stepping strategy | `HistoryCap` below `CyclesBeforeStep`, the case the code's 100 hides; readings that rise, fall and change insignificantly; switch every 3rd pulse |
| `ShutdownFlag` | lost wakeups, stale answers | two waiters, two requesters, two resets: each pair of operations can overtake |
| `StreamReader` | samples of a measurement | buffer of 2 and a metadata frame with 4 data frames after it (eviction), 2 samples, one short frame, a clock of 3 instants (equal stamps, stamps before and after a cursor) |
| `GuiSession` | shown status | two queued events, any number of runs |
| `CommandLine` | release, approach, channels of readings, moves, life cycle, return of every operation | 4 samples, one retry; displacements of none, two and three axes; five reports of names (alias, exact name, no channel, not at all) with and without a configured mapping |
| `GuiConfiguration` | what a run gets, what is saved | one path; five documents, one for each outcome of loading, with all kinds of optional and tagged values; two edits out of eight, so that a second can undo or add to the first |
| `ScanAnalysis` | the detector's result | 39 frames: stripes of one pixel to half the frame at every place of 6 x 6 frames, both borders included, and one of a 16 x 16 frame (the smallest that is downsampled), texture, diagonal, corner, gradient of 4 x 7, flat, too small, with `NaN`; detected and fixed angles, two thresholds and widths; bands that start in bin 0 and that end in the last; one grab |

Violation runs each show one disagreement between the code and what a comment
or document of the repository says:

| Run | Disagreement |
|---|---|
| `TipPrep_bias` | a stopped or failed sweep leaves a stepped bias (docs/tip-prep/algorithm.md: restored "no matter how the sweep ends") |
| `GuiConfiguration_timing` | a file's `[tip_prep.timing]` is dropped between loading it and starting or saving (configs/mock_demo.toml counts on it) |
| `GuiConfiguration_speed` | an omitted `scan_speed_m_s` is loaded as 5 nm/s (docs/tip-prep/config.md: "omit to keep current") |

Other disagreements met while modelling, which no run is spent on:

- A failed read of the safe-tip status counts as "disabled", so that the restore
  step disables a protection the operator had enabled (`z_controller.rs:255`,
  comment at `:216`). `SafeTipRestoredUnlessUnread` excuses exactly this.
- A run that completes between `drain_events` and `is_finished` is shown as idle
  (`app.rs:951`, comment at `:980`); with `check_stability = false` every
  completed run is, since "stable" is never announced.
- A failed run is shown as idle, since the thread returns `Ok(())`
  (`app.rs:1859`, comment at `:965`).
- Ctrl+C at the prompt does not cancel: the flag is first looked at after the
  initial approach (`main.rs:285`, prompt at `:296`).
- The linear method gives sharper readings the higher voltage
  (`pulse_state.rs:227`, comprehensive_config.toml:248), and its reset after a
  failed stability check is overwritten by the next reading before it is used.
- A row band that starts in the last bin is never closed and not reported
  (`cuox_rows.rs:459`). `BandsAreMaximalRuns` excuses exactly this.
- The mean of the last attempt's batch is returned as a reading although it failed a
  gate or has too few samples (`signals.rs:185`). The documents say that a batch
  "must pass" (docs/tip-prep/config.md:58, with retries "before giving up", `:65`;
  docs/tip-prep/algorithm.md:40), that it is accepted "only if it passes"
  (`subsystems.rs:109`), and that the stable batch's mean is returned
  (`signals.rs:120`). `ReadingsAreSound` claims the gates only while a retry is left.
- A move steps x, y, z in this order (`nanonis_controller.rs:645`), so that the
  retraction comes last; its parameter is documented as "Z retraction steps before
  the lateral move" (`subsystems.rs:169`). `MovesInTurn` leaves the order open.
- The lines of a band that starts in bin 0 may be null, since its low line only touches
  the frame and rounding decides (`cuox_rows.rs:572`, `:576`); the test
  `bands_have_line_coordinates_in_output` expects all lines of all bands, and its
  frame has no such band. `LinesAreChords` claims the lines that divide the frame.
- `GrabScanFrame` always writes `scan_frame` (`scan.rs:126`), so `source_key`
  (`adapter.rs:29`) cannot keep two grabs apart.
- A frame with a missing pixel is refused by `RunAnalyzer`, because JSON has no
  `NaN`; the detector's own handling of `NaN` is reached only from other callers.
- `NaN` passes the validators, which reject what compares true; the form's default
  polarity is not `AppConfig::default()`'s; Start does not validate the form.

Deadlock is checked where a run cannot stop: `TipPrep` and `CommandLine` (with an
explicit step after the end), `ShutdownFlag`, `GuiSession`, `GuiConfiguration`,
`ScanAnalysis`. `PulseState` ends when the tip
is accepted, and `StreamReader` ends when stream, clock and threads are done.

Bounds, all in guards or in a cfg: `HistoryCap` (100 in the code), `MaxPolls`
(50), `BiasSteps`, `MaxCycles`, `MaxResets`, `MaxFrames`, `MaxTime`,
`MaxQueue`, `MaxRetries`, `MaxEdits`, `MaxGrabs`; `atLevel` and `sinceSwitch` saturate at the number they are compared
with, `latePulses` and `lateMoves` at 2.

## 4. Fairness

- `TipPrep`: `WF(Routine)`. The routine is one thread, and each instrument call
  returns: the client has socket timeouts, and the waiting calls have their own.
  Nothing is assumed of a stop request or of the clock.
- `PulseState`: `WF(Next)`, for the same reason.
- `ShutdownFlag`: each waiter's step and each notification; a mutex is held for
  a few instructions. No deadline has to pass and nobody has to call.
- `StreamReader`: the buffering thread and the collecting thread keep running.
  The stream need not send or end, and a timeout need not elapse.
- `CommandLine`: the program's one thread goes on; every call to the instrument
  returns, with an answer or an error. An approach need not end: its timeout
  does. Ctrl+C and Enter are not assumed.
- `GuiConfiguration`, `ScanAnalysis`: safety only, no fairness.
- `GuiSession`: the window repaints every 100 ms; a stopped run ends, which
  `StopEndsRun` of `TipPrep` shows; an accepted run returns.

## 5. Properties

Safety of the tip: `TipClear`, `ScanConfined`, `WithdrawnAtEnd`. Restoration:
`SettingsRestored`, `SafeTipRestoredUnlessUnread`. Truth of what is reported:
`CompletedIsEarned`, `OutcomeHasCause`, `HonestStatus`. Stopping:
`BoundedAfterStop`, `StopEndsRun`, `CyclesEnd`, `StopIsNoticed`. Strategy:
`StepsUpOnlyAfterStall`, `EveryNthPulseSwitched`, `ResetReachesNextPulse`,
`StallReachesMax`. Threads: `NoLostWakeup`, `AnswersAreCurrent`,
`RequestWakesSleepers`, `FreshAndDistinct`, `NothingSkipped`,
`DeathEndsCollection`, `StopReturns`, `SingleRun`. Controller: `ReleasedAtEnd`,
`ApproachAccounted`, `ReadingsAreSound`, `MovesInTurn`, `CallsReturn`.
Configuration: `LoadedIsRun`, `SavedReloads`. Image: `BandsAreMaximalRuns`,
`LinesAreChords`, `WindowsAreNeighbourhoods`. Refinement: `ImplementsLifecycle`, twice. The
type invariants of `ShutdownFlag` and `GuiSession` are proved and no longer run. Each has its statement as a comment in its module.

Two excuses are stated in the properties because the code has them: a sample may
be skipped when it shares its instant with an earlier frame (`NothingSkipped`;
the cursor moves by one nanosecond), and `reset()` before a waiter has woken up
cancels the stop (`RequestWakesSleepers`).

## 6. Proofs

Proved for every value of the constants that the named assumptions allow. They are
stated in the modules that declare the constants, and TLC evaluates each on its
instance:

| Assumption | Says | Because |
|---|---|---|
| `PulseAssumption`, `SharpAssumption`, `TipPrepAssumption` | the method is one of three, steps and history cap are positive, readings are numbers | `PulseMethod::validate`, the types of the fields |
| `ShutdownAssumption`, `GuiAssumption` | threads that wait and threads that request differ; the bounds are numbers | -- |
| `StreamAssumption` | the ring buffer and a measurement hold at least one sample | the callers pass positive sizes |
| `ControllerAssumption` | a measurement has a sample; a displacement is a sequence of different axes | as above; the three fields of `MotorDisplacement` |
| `SignalsAssumption` | signals are numbered 0 to 127; configured indices and channels are bytes | `Signal`, "Nanonis signal index (0-127)"; `u8` |
| `CuoxRowsAssumption`, `ScanAnalysisAssumption` | the sweeps of angles are not empty and hold directions; a missing line is not a pair of numbers; frames are rectangles of pixels, the detector's radius and width natural numbers, its threshold any whole percentage; no workflow reads the detector's own result as a frame | 180 and 41 angles in `detect_angle`; the frames of `GrabScanFrame`; `usize` and `f32` fields; `RunAnalyzer` could only fail on it |
| `ValuesAssumption` | the special values (`NaN`, `None`, `Empty`, `Junk`) differ from each other and from all values of a field, sequences and functions of those included | they are model values |
| `EnvironmentAssumption`, `FilesAssumption` | files, environment and edits hold typed values or `Junk` | `try_deserialize`, the widgets of the form |

**`PulseStateProofs`.** First the operators: `UpdateVoltageType`, from one lemma per
operator, says that the voltage stays between its bounds for every method, reading
and history, and `UpdateSteppingEffect` when the stepping strategy moves it. Then
`IInv` adds three facts to the types. `StallAtLevel`: the
code's stall counter never runs ahead of the updates since the voltage last
changed, which is why a step up needs a real stall although the counter is reset in
four places. `CountedSinceSwitch`: the code's pulse counter is, modulo
`switch_every_n_pulses`, the number of pulses since the last switched one, whichever
of the two pulse sites fired them. `ResetLasts`: after a reset the voltage is the
lowest until the next pulse. Two theorems are conditional, because the code is:
`StepsUpOnlyAfterStallHolds` excludes "linear", which sets the voltage from each
reading, and `ResetReachesNextPulseHolds` excludes it too (the reading that follows
a reset overwrites it) together with `cycles_before_step = 0`, which validation
accepts and which makes every update a step up.

**`TipPrepProofs`.** The invariant is built in layers, each inductive relative to the
earlier ones. `Control` ties `pc`, `site` and `ret` together: which sequence can be
active at which site, and where a pending error can be. On it rest the type parts;
then `Held` (a setting that differs from the operator's is held in a saved local or
was lost), `Withdrawn` (where the tip is known to be up), `SafeHeld`, `Earned` (how
`good` and `swept` relate to the place in the confirmation and in the sweeps), `Late`
(what can still follow a stop). Each layer's theorem ends with the checked property
that follows from it. `LifecycleImplemented` maps every step to a step of
`RoutineLifecycle` or to a stutter.

**`ShutdownFlagProofs`.** `NoLostWakeup` is inductive together with the types, since
parking and the test of the flag are one critical section. `AnswersAreCurrent`
follows step by step.

**`StreamReaderProofs`.** Three layers over the types. `Pipeline` follows the frames
that were received: the channel holds the frames sent last without a gap, what is
pushed is in order of counter and of time, and the ring buffer is a suffix of it.
`Measurement` follows the cursor of `collect_tcp_samples`: all collected samples lie
behind it, they are in strict order, and what the cursor passed is collected or
shares its instant with an earlier frame. It needs the pipeline, because only
frames in order of time make one cursor enough. `FreshAndDistinct` and `NothingSkipped`
follow. The model filters with its own `Filter`, a recursive function that
`FilterEmbeds` characterises for every sequence: the entries kept, in their order,
each as often as it occurs.

**`GuiSessionProofs`.** `IInv` adds that a thread exists exactly while a run is shown as
running, that "stable" is the last announcement of an accepted run, and that every
queued or seen phase was announced by the present run.

**`CommandLineProofs`.** `Control` says at which step of which operation, and where in
`main()`, the program can be; every other layer needs it. `Releasing` and `Toggled`
follow what is held on the way to the end (the stream, the reader, auto-pause,
the signal output) and which call on it failed; at the end they are `ReleasedAtEnd`.
`ApproachTracked` and `TipRaised` tie the controller's belief to the tip and the
approach, for `ApproachAccounted`. `Moving` gives `MovesInTurn`, and `Reported` the
refinement `LifecycleImplemented`.

`ReadingsAreSound` has two parts. `Streaming` and `Judged` give `ReadingsFresh`: a
polled reading has all its samples, a streamed one comes from the stream as it was
set up for this run (or the restart failed), and any but the last attempt passed its
gates with enough samples. Which signal is read rests on three lemmas about the
registry and the controller. `TableEntries`: every entry of the table carries the
name and the channel of its index, and a name reported twice stands for its last
signal. `FreqShiftFound`: what is found under "freq shift" is reported as the
frequency shift, since of all aliases only those of an oscillation controller's
frequency shift and the abbreviations give that name. `ChannelPositions`: the sorted
channels have each channel at the position that the mapping gives its signals, by
counting the channels below it. `Mapped` carries these facts from the set-up to the
reading: once the controller is configured, the instrument streams the channels of
the table's signals and the mapping is theirs.

**`GuiConfigurationProofs`.** `RoundTrip` is about every configuration whose fields have
their types: made into a form and back it is accepted, and equal but for the ports
after the first, a disabled switch, an empty mapping and the timings.
`LoadedIsRunHolds` needs `Typed` (files and form keep their types through any edit),
`SourceInForm` (what was loaded is still what the form shows) and `SavedOnDisk`.
`SavedReloadsHolds` combines the last with `RoundTrip` and the layering of
environment, file and defaults; it assumes that no variable of the environment is
ill-typed, as otherwise no file loads at all.

**`ScanAnalysisProofs`.** Frames, sweeps and detectors are arbitrary here; so are the
size of a frame, the number of bins and the angle, as long as it is a rational point
of the circle. The argument follows the stages:

- Types. `SatRowType`, `ScoreType`, `DetectAngleType` and `ProjectionType` say what each
  stage gives: tables of numbers, scores and projections that are never negative (the
  median exists because half of the pixels do; a window has at least one pixel), an
  angle of the sweep, and at least one bin, with the last bin beginning inside the
  frame's extent. `Staged` carries them from action to action.
- Bands. `ScanValues` gives the values of the loop of `detect_bands`; `DetectedBands`
  goes along it, with the invariant that every band so far is a reported run, every
  reported run that has ended is a band, the bands are in order, and a band is open
  exactly while the bins since its start are above the threshold and the bin before it
  is not. A run that is not all zero has a bin above zero (`RunHasPeak`: the threshold
  is above zero, or all bins are one run), so its weights are not zero and its centre
  lies between its first and its last bin (`BandCenter`, which needs the partial sums
  of weights and moments).
- Lines. Along a direction the corners of a frame are equally far on both sides of its
  centre (`AlongBounds`), at the sum of the sides' shares. A line through a bin is
  no further from the centre than that, so that the two ranges of its parameter
  meet, and each end of their intersection is on a side (`Clipping`). If it parts the
  corners it is nearer, and the ranges overlap by more than a point: then rounding has
  no say and the line is there (`RoundedLine`, `LineCrosses`; the cases along a side
  need only that the sine or the cosine is then one).
- `Stored` says that the result belongs to the projection that is kept. It is
  inductive because a grab or a missing frame ends `Analysed` and because a refused
  frame is stored as an error (`StagesInvariant`). `BandsAreMaximalRunsHolds` adds
  `Inside`, where the stored bands and lines lie, on which `LinesAreChordsHolds` rests.

How induction over data is done. The induction theorems of the library take an operator
and cannot be used; `InductionUpTo` states induction over an interval for a *set*,
from the well-foundedness of `<` on the naturals, and that serves for recursive
functions: `LoopValues` builds the values of a loop from its step, so that the function
the model defines is what its body says. `Extremes` does the same for the library's
`Max` and `Min`. Operators of the library that the prover cannot expand are replaced by
definitions of our own: `Filter` for `SelectSeq`, `Over` for `@@`.

Model-checked only:

- liveness (`CyclesEnd`, `StopEndsRun`, `StallReachesMax`, `RequestWakesSleepers`,
  `DeathEndsCollection`, `StopReturns`, `StopIsNoticed`, `CallsReturn`), which is out
  of the prover's reach, as is ENABLED;
- `WindowsAreNeighbourhoods`: its reference adds up a set of pixels with a fold of the
  community modules, which is recursive over sets.

Every other property that a passing run checks is stated by a theorem.

## 7. Not modelled

- Mock controller: a simulator; the models let the instrument answer in every
  way instead. Plotting, console and log output, the capability check and the
  accumulator of the event bus: output, or decided before a run.
- Actions outside tip preparation and scan analysis (oscilloscope, position, PLL,
  tip shaper): one call each, nothing kept.
- The end of the process (closed window, kill) leaves nothing of the program to
  check: the tip then stays where it was. `CommandLine` has the one case the
  program knows of, Ctrl+C before the handler is set.
- The PNG front end of the detector, and lengths in nanometres.
- `status_interval = 0` is accepted by validation and panics at the first cycle; the
  panic is an ending of `TipPrep`, and the theorems cover it.

## 8. Plan

1. Composition of `ShutdownFlag` with a routine's waits, and of `StreamReader` as the
   source of the samples of `StableReading`.
2. `WindowsAreNeighbourhoods` for any frame, with a reference of sums of sums: the
   partial sums of a table are those of its rows.
