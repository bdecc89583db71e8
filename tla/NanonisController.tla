-------------------------- MODULE NanonisController --------------------------
(***************************************************************************)
(* NanonisController (src/nanonis_controller.rs): the operations of the    *)
(* SpmController trait that take more than one call to the instrument, one *)
(* call per step, so that anything may happen between two of them.         *)
(*                                                                         *)
(* A call is answered "ok", with a "protocol" error (SpmError::Protocol or *)
(* Hardware) or with a "connection" error (Io or Timeout).  A failed call  *)
(* may or may not have taken effect.  A connection error may poison the    *)
(* connection, and then every later call fails without effect: nothing in  *)
(* the program calls reconnect().                                          *)
(*                                                                         *)
(* auto_approach is always called with wait = true by this program.        *)
(***************************************************************************)
EXTENDS Integers, FiniteSets, SequencesExt

CONSTANTS
  NumSamples,    \* num_samples of a stable reading
  MaxRetries,    \* max_retries of a stable reading
  Displacements  \* the axes a move steps, in the order of move_motor_3d

ASSUME ControllerAssumption ==
  /\ NumSamples \in Nat \ {0}
  /\ MaxRetries \in Nat
  /\ Displacements \subseteq Seq({"x", "y", "z"})
  /\ \A axes \in Displacements : \A i, j \in DOMAIN axes : i # j => axes[i] # axes[j]

\* Control: the operation, its next step, and what it returned.
VARIABLES
  op,      \* the operation in progress, or the last one
  at,      \* its next step, "idle" between operations
  answer   \* "ok", "protocol", "connection" or "timeout"; "none" before the end

\* The controller.
VARIABLES
  linked,      \* the connection is not poisoned
  configured,  \* configured_channel_count is Some
  mapping,     \* signal_to_data_position
  reader,      \* tcp_reader is Some
  tornDown     \* torn_down

\* The instrument.
VARIABLES
  logger,     \* the TCP logger: "off", or running a session from before ("old") or a "new" one
  streamed,   \* the channels a new session streams
  autoPause,  \* safe-tip auto-pause: the "operator"'s, "on" or "off"
  output,     \* the mode of the refreshed user output: "own" or "toggled"
  approach,   \* the auto-approach module is running
  tip         \* "clear" or "engaged"

\* Locals of the operation in progress.
VARIABLES
  pending,  \* start_streaming: the signals to stream
  target,   \* move_motor_3d: the axes to move
  moved,    \* the axes moved so far
  expired,  \* poll_until: the timeout has passed
  found,    \* auto_approach: it was already running
  got,      \* samples of the current batch
  attempt,  \* attempt of the stable reading
  reading   \* what the stable reading published

\* History, read by no action.
VARIABLES
  failed,  \* the recorded calls whose last try returned an error
  loose    \* an approach nobody waits for is running or has engaged the tip: "no",
           \* "inherited" from before the program, or "left" by a failed call

control    == <<op, at, answer>>
controller == <<configured, mapping, reader, tornDown>>
instrument == <<logger, streamed, autoPause, output, approach, tip>>
motion     == <<target, moved>>
sampling   == <<got, attempt, reading>>
locals     == <<pending, motion, expired, found, sampling>>
history    == <<failed, loose>>
cvars      == <<control, controller, linked, instrument, locals, history>>

Replies == {"ok", "protocol", "connection"}

\* The calls whose failure a property has to excuse.
Recorded == {"restart", "toggle", "untoggle", "start", "poll", "halt", "withdraw",
             "stopStream", "releaseSafeTip"}

NoReading == [size |-> 0, stable |-> FALSE, attempt |-> 0, source |-> "none"]

ControllerInit ==
  /\ op = "none" /\ at = "idle" /\ answer = "none"
  /\ linked = TRUE /\ configured = FALSE /\ mapping = << >> /\ reader = FALSE
  /\ tornDown = FALSE
  /\ logger \in {"off", "old"} /\ streamed = << >> /\ autoPause = "operator" /\ output = "own"
  /\ approach \in BOOLEAN /\ tip \in {"clear", "engaged"}
  /\ pending = {} /\ target = << >> /\ moved = << >> /\ expired = FALSE /\ found = FALSE
  /\ got = 0 /\ attempt = 0 /\ reading = NoReading
  /\ failed = {} /\ loose = IF approach THEN "inherited" ELSE "no"

-----------------------------------------------------------------------------
(***************************************************************************)
(* Calls and operations.                                                   *)
(***************************************************************************)

\* An operation begins: its locals are new.
Begin(name, first, signals, axes) ==
  /\ at = "idle"
  /\ op' = name /\ at' = first /\ answer' = "none"
  /\ pending' = signals /\ target' = axes /\ moved' = << >>
  /\ expired' = FALSE /\ found' = FALSE /\ got' = 0 /\ attempt' = 0 /\ reading' = NoReading
  /\ UNCHANGED <<controller, linked, instrument, history>>

Goto(next) == at' = next /\ UNCHANGED <<op, answer>>

Return(a) == at' = "idle" /\ answer' = a /\ UNCHANGED op

\* The client sends a command and gets the answer r.
Called(r) ==
  /\ r \in (IF linked THEN Replies ELSE {"connection"})
  /\ linked' \in (IF r = "connection" THEN {linked, FALSE} ELSE {linked})
  /\ failed' = IF r = "ok" THEN failed \ {at} ELSE failed \cup ({at} \cap Recorded)

\* What x may be after a call answered r that should have made it `new`.
After(r, x, new) == IF r = "ok" THEN {new} ELSE IF linked THEN {x, new} ELSE {x}

\* `?`: go on, or return the error.
Try(r, next) == IF r = "ok" THEN Goto(next) ELSE Return(r)

-----------------------------------------------------------------------------
(***************************************************************************)
(* prepare().  The layout, the settings and the user output are optional.  *)
(***************************************************************************)
BeginPrepare == Begin("prepare", "layout", {}, << >>)

\* canonicalize() may fail before the call is made.
LoadLayout ==
  /\ at = "layout"
  /\ \/ \E r \in Replies : Called(r) /\ Try(r, "settings")
     \/ Goto("settings") /\ UNCHANGED <<linked, failed>>
  /\ UNCHANGED <<controller, instrument, locals, loose>>

LoadSettings ==
  /\ at = "settings"
  /\ \/ \E r \in Replies : Called(r) /\ Try(r, "zHome")
     \/ Goto("zHome") /\ UNCHANGED <<linked, failed>>
  /\ UNCHANGED <<controller, instrument, locals, loose>>

SetZHome ==
  /\ at = "zHome"
  /\ \E r \in Replies : Called(r) /\ Try(r, "safeTip")
  /\ UNCHANGED <<controller, instrument, locals, loose>>

\* safe_tip_configure(false, true, threshold).
SafeTipConfigure ==
  /\ at = "safeTip"
  /\ \E r \in Replies :
       /\ Called(r)
       /\ autoPause' \in After(r, autoPause, "on")
       /\ Try(r, "mode") \/ Return(r)
  /\ UNCHANGED <<controller, logger, streamed, output, approach, tip, locals, loose>>

\* refresh_tcp_channel_list: the mode is read, changed and set back.
ReadMode ==
  /\ at = "mode"
  /\ \E r \in Replies : Called(r) /\ Try(r, "toggle")
  /\ UNCHANGED <<controller, instrument, locals, loose>>

ToggleOutput ==
  /\ at = "toggle"
  /\ \E r \in Replies : Called(r) /\ output' \in After(r, output, "toggled") /\ Try(r, "untoggle")
  /\ UNCHANGED <<controller, logger, streamed, autoPause, approach, tip, locals, loose>>

UntoggleOutput ==
  /\ at = "untoggle"
  /\ \E r \in Replies : Called(r) /\ output' \in After(r, output, "own") /\ Return(r)
  /\ UNCHANGED <<controller, logger, streamed, autoPause, approach, tip, locals, loose>>

-----------------------------------------------------------------------------
(***************************************************************************)
(* start_streaming().  `signals` are the registry's tcp_signals().         *)
(***************************************************************************)
BeginStreaming(signals) == Begin("stream", "channels", signals, << >>)

\* tcp_channels: sorted, without duplicates.
Channels(signals) ==
  LET used == {s.channel : s \in signals}
  IN  [p \in 1 .. Cardinality(used) |->
         CHOOSE c \in used : Cardinality({d \in used : d < c}) = p - 1]

\* A plausible bug: the channels are not sorted, but in the order of the indices.
PositionOf_ByIndex(channel, signals) ==
  LET index == (CHOOSE s \in signals : s.channel = channel).index
  IN  Cardinality({s \in signals : s.index <= index})

\* tcp_to_position; the code counts from 0.
PositionOf(channel, signals) ==
  CHOOSE p \in DOMAIN Channels(signals) : Channels(signals)[p] = channel

SignalMapping(signals) ==
  [i \in {s.index : s \in signals} |->
     PositionOf((CHOOSE s \in signals : s.index = i).channel, signals)]

\* data_stream_configure: tcplog_chs_set.  Without signals, Ok(false).
SetChannels ==
  /\ at = "channels"
  /\ IF pending = {}
       THEN Return("ok") /\ UNCHANGED <<linked, failed, streamed>>
       ELSE \E r \in Replies :
              Called(r) /\ streamed' \in After(r, streamed, Channels(pending)) /\ Try(r, "oversampling")
  /\ UNCHANGED <<controller, logger, autoPause, output, approach, tip, locals, loose>>

\* data_stream_configure: tcplog_oversampl_set; then set_channel_mapping.
SetOversampling ==
  /\ at = "oversampling"
  /\ \E r \in Replies : Called(r) /\ Try(r, "restart")
  /\ IF answer' = "none"
       THEN configured' = TRUE /\ mapping' = SignalMapping(pending)
       ELSE UNCHANGED <<configured, mapping>>
  /\ UNCHANGED <<reader, tornDown, instrument, locals, loose>>

\* The stream of an earlier session is stopped; an error is ignored.
StopLingering ==
  /\ at = "restart"
  /\ \E r \in Replies : Called(r) /\ logger' \in After(r, logger, "off") /\ Goto("run")
  /\ UNCHANGED <<controller, streamed, autoPause, output, approach, tip, locals, loose>>

\* tcplog_start; a logger that still runs goes on with its session.
StartLogger ==
  /\ at = "run"
  /\ \E r \in Replies :
       /\ Called(r)
       /\ logger' \in After(r, logger, IF logger = "off" THEN "new" ELSE logger)
       /\ Try(r, "attach")
  /\ UNCHANGED <<controller, streamed, autoPause, output, approach, tip, locals, loose>>

\* start_tcp_reader: a reader that exists is stopped, a new one connects.
AttachReader ==
  /\ at = "attach"
  /\ \E ok \in BOOLEAN :
       /\ ok => configured
       /\ reader' = ok
       /\ Return(IF ok THEN "ok" ELSE "protocol")
  /\ UNCHANGED <<linked, configured, mapping, tornDown, instrument, locals, history>>

-----------------------------------------------------------------------------
(***************************************************************************)
(* teardown(), also called by Drop.                                        *)
(***************************************************************************)
BeginTeardown == Begin("teardown", "teardown", {}, << >>)

Teardown ==
  /\ at = "teardown"
  /\ tornDown' = TRUE
  /\ IF tornDown THEN Return("ok") ELSE Goto("stopStream")
  /\ UNCHANGED <<linked, configured, mapping, reader, instrument, locals, history>>

\* Errors of the three steps are only logged.
StopStream ==
  /\ at = "stopStream"
  /\ \E r \in Replies : Called(r) /\ logger' \in After(r, logger, "off") /\ Goto("stopReader")
  /\ UNCHANGED <<controller, streamed, autoPause, output, approach, tip, locals, loose>>

StopReader ==
  /\ at = "stopReader"
  /\ reader' = FALSE
  /\ Goto("releaseSafeTip")
  /\ UNCHANGED <<linked, configured, mapping, tornDown, instrument, locals, history>>

\* safe_tip_configure(false, false, threshold).
ReleaseSafeTip ==
  /\ at = "releaseSafeTip"
  /\ \E r \in Replies : Called(r) /\ autoPause' \in After(r, autoPause, "off") /\ Return("ok")
  /\ UNCHANGED <<controller, logger, streamed, output, approach, tip, locals, loose>>

-----------------------------------------------------------------------------
(***************************************************************************)
(* auto_approach(true, timeout).                                           *)
(***************************************************************************)
BeginApproach == Begin("approach", "status", {}, << >>)

\* Found running: Ok at once.  A failed query does not matter.
CheckApproach ==
  /\ at = "status"
  /\ \E r \in Replies :
       /\ Called(r)
       /\ found' = (r = "ok" /\ approach)
       /\ IF r = "ok" /\ approach THEN Return("ok") ELSE Goto("open")
  /\ UNCHANGED <<controller, instrument, pending, motion, expired, sampling, loose>>

\* Only a connection error is propagated.
OpenModule ==
  /\ at = "open"
  /\ \E r \in Replies : Called(r) /\ IF r = "connection" THEN Return(r) ELSE Goto("start")
  /\ UNCHANGED <<controller, instrument, locals, loose>>

\* Every error becomes a protocol error.
StartApproach ==
  /\ at = "start"
  /\ \E r \in Replies :
       /\ Called(r)
       /\ approach' \in After(r, approach, TRUE)
       /\ IF r = "ok" THEN Goto("poll") ELSE Return("protocol")
       /\ loose' = IF r = "ok" THEN "no" ELSE IF approach' /\ ~approach THEN "left" ELSE loose
  /\ UNCHANGED <<controller, logger, streamed, autoPause, output, tip, locals>>

\* A plausible bug: the clock is not looked at.
PollApproach_NoTimeout ==
  /\ at = "poll"
  /\ \E r \in Replies :
       /\ Called(r)
       /\ IF r = "ok" /\ approach THEN Goto("pause") ELSE Return(r)
       /\ loose' = IF r # "ok" /\ approach THEN "left" ELSE loose
  /\ UNCHANGED <<controller, instrument, locals>>

\* poll_until looks at its clock before it asks.
PollApproach ==
  /\ at = "poll"
  /\ IF expired
       THEN Goto("halt") /\ UNCHANGED <<linked, failed, loose>>
       ELSE \E r \in Replies :
              /\ Called(r)
              /\ IF r = "ok" /\ approach THEN Goto("pause") ELSE Return(r)
              /\ loose' = IF r # "ok" /\ approach THEN "left" ELSE loose
  /\ UNCHANGED <<controller, instrument, locals>>

\* poll_interval.
Pause ==
  /\ at = "pause"
  /\ Goto("poll")
  /\ UNCHANGED <<controller, linked, instrument, locals, history>>

\* A plausible bug: the approach is not switched off after the timeout.
HaltApproach_Skipped ==
  /\ at = "halt"
  /\ Return("timeout")
  /\ UNCHANGED <<controller, linked, instrument, locals, failed>>
  /\ loose' = IF approach THEN "left" ELSE loose

HaltApproach ==
  /\ at = "halt"
  /\ \E r \in Replies : Called(r) /\ approach' \in After(r, approach, FALSE)
  /\ Return("timeout")
  /\ loose' = IF approach' THEN "left" ELSE loose
  /\ UNCHANGED <<controller, logger, streamed, autoPause, output, tip, locals>>

\* The timeout of poll_until.
Expire ==
  /\ at \in {"poll", "pause"} /\ ~expired
  /\ expired' = TRUE
  /\ UNCHANGED <<control, controller, linked, instrument, pending, motion, found, sampling, history>>

\* The instrument has reached the surface.
ApproachEnds ==
  /\ approach
  /\ approach' = FALSE /\ tip' = "engaged"
  /\ UNCHANGED <<control, controller, linked, logger, streamed, autoPause, output, locals, history>>

-----------------------------------------------------------------------------
(***************************************************************************)
(* withdraw() and move_motor_3d().                                         *)
(***************************************************************************)
BeginWithdraw == Begin("withdraw", "withdraw", {}, << >>)

Withdraw ==
  /\ at = "withdraw"
  /\ \E r \in Replies : Called(r) /\ tip' \in After(r, tip, "clear") /\ Return(r)
  /\ loose' = IF tip' = "clear" /\ ~approach THEN "no" ELSE loose
  /\ UNCHANGED <<controller, logger, streamed, autoPause, output, approach, locals>>

BeginMove(axes) == Begin("move", "move", {}, axes)

\* A plausible bug: the error of an axis is swallowed.
MoveAxis_Swallowed ==
  /\ at = "move" /\ Len(moved) < Len(target)
  /\ \E r \in Replies :
       /\ Called(r)
       /\ moved' \in After(r, moved, Append(moved, target[Len(moved) + 1]))
       /\ IF r = "ok" /\ Len(moved') < Len(target) THEN Goto("move") ELSE Return("ok")
  /\ UNCHANGED <<controller, instrument, pending, target, expired, found, sampling, loose>>

\* One axis after the other; an error ends the move where it is.
MoveAxis ==
  /\ at = "move" /\ Len(moved) < Len(target)
  /\ \E r \in Replies :
       /\ Called(r)
       /\ moved' \in After(r, moved, Append(moved, target[Len(moved) + 1]))
       /\ IF r = "ok" /\ Len(moved') < Len(target) THEN Goto("move") ELSE Return(r)
  /\ UNCHANGED <<controller, instrument, pending, target, expired, found, sampling, loose>>

\* No axis has steps.
MoveNothing ==
  /\ at = "move" /\ target = << >>
  /\ Return("ok")
  /\ UNCHANGED <<controller, linked, instrument, locals, history>>

-----------------------------------------------------------------------------
ControllerStep ==
  \/ LoadLayout \/ LoadSettings \/ SetZHome \/ SafeTipConfigure
  \/ ReadMode \/ ToggleOutput \/ UntoggleOutput
  \/ SetChannels \/ SetOversampling \/ StopLingering \/ StartLogger \/ AttachReader
  \/ Teardown \/ StopStream \/ StopReader \/ ReleaseSafeTip
  \/ CheckApproach \/ OpenModule \/ StartApproach \/ PollApproach \/ Pause \/ HaltApproach
  \/ Withdraw \/ MoveAxis \/ MoveNothing
=============================================================================
