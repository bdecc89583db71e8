---------------------------- MODULE StreamReader ----------------------------
(***************************************************************************)
(* How the frequency shift gets from the TCP data stream into a            *)
(* measurement: the stream's own thread (nanonis-rs, external), the        *)
(* buffering thread of BufferedTCPReader (src/buffered_tcp_reader.rs) and  *)
(* the controller thread in collect_tcp_samples                            *)
(* (src/nanonis_controller.rs), which share the ring buffer, the stream    *)
(* error and the shutdown signal.                                          *)
(*                                                                         *)
(* A frame is its counter and the instant it was received.  Instants are   *)
(* ticks of a clock; frames received in quick succession may share one.    *)
(***************************************************************************)
EXTENDS Integers, SequencesExt

CONSTANTS
  BufferSize,   \* buffer_size
  NumSamples,   \* num_samples of a collection
  ShortFrames,  \* counters of the frames without a value at data_position
  MaxFrames,    \* bound on the frames of the stream
  MaxTime       \* bound on the clock

ASSUME StreamAssumption ==
  /\ BufferSize \in Nat \ {0} /\ NumSamples \in Nat \ {0}
  /\ ShortFrames \subseteq Nat
  /\ MaxFrames \in Nat /\ MaxTime \in Nat

VARIABLES
  now,        \* the clock
  stream,     \* the stream's thread: "up", or how it ended
  sent,       \* frames it has sent
  channel,    \* counters on their way to the buffering thread
  thread,     \* where the buffering thread is
  held,       \* the stamped frame it is about to push
  buffer,     \* the ring buffer
  error,      \* stream_error is Some
  shutdown,   \* shutdown_signal
  at,         \* where the controller thread is
  cursor,     \* collect_tcp_samples: the frames still to read start here
  collected,  \* collect_tcp_samples: the frames read so far
  elapsed,    \* the collection's timeout has passed
  result      \* what the last collection returned

\* History, read by no action.
VARIABLES
  began,   \* when the collection began
  pushed   \* every frame pushed so far

reader    == <<thread, held, buffer, error>>
source    == <<stream, sent, channel>>
collector == <<cursor, collected, elapsed, result, began>>
vars      == <<now, source, reader, shutdown, at, collector, pushed>>

Endings == {"clean", "error", "panic"}

Frames == [counter : 1 .. MaxFrames, time : 0 .. MaxTime]

NoFrame == [counter |-> 0, time |-> 0]

\* The frames with a value at data_position.
Valued == {f \in Frames : f.counter \notin ShortFrames}

TypeOK ==
  /\ now \in 0 .. MaxTime
  /\ stream \in {"up"} \cup Endings
  /\ sent \in 0 .. MaxFrames + 1
  /\ channel \in Seq(0 .. MaxFrames)
  /\ thread \in {"loop", "recv", "push", "join", "exit", "finished"}
  /\ held \in Frames \cup {NoFrame}
  /\ buffer \in Seq(Frames) /\ Len(buffer) <= BufferSize
  /\ error \in BOOLEAN /\ shutdown \in BOOLEAN
  /\ at \in {"idle", "loop", "error", "get", "sleep", "joining", "stopped"}
  /\ cursor \in 0 .. MaxTime + 1
  /\ collected \in Seq(Frames) /\ Len(collected) <= NumSamples
  /\ elapsed \in BOOLEAN
  /\ result \in {"none", "complete", "partial", "timeout", "aborted"}
  /\ began \in 0 .. MaxTime
  /\ pushed \in Seq(Frames)

Init ==
  /\ now = 0
  /\ stream = "up" /\ sent = 0 /\ channel = << >>
  /\ thread = "loop" /\ held = NoFrame /\ buffer = << >> /\ error = FALSE
  /\ shutdown = FALSE
  /\ at = "idle"
  /\ cursor = 0 /\ collected = << >> /\ elapsed = FALSE /\ result = "none"
  /\ began = 0 /\ pushed = << >>

Tick ==
  /\ now < MaxTime
  /\ now' = now + 1
  /\ UNCHANGED <<source, reader, shutdown, at, collector, pushed>>

-----------------------------------------------------------------------------
(***************************************************************************)
(* The stream's thread.  Its first frame, counter 0, lists the signals.    *)
(***************************************************************************)
Send ==
  /\ stream = "up" /\ sent <= MaxFrames
  /\ channel' = Append(channel, sent)
  /\ sent' = sent + 1
  /\ UNCHANGED <<now, stream, reader, shutdown, at, collector, pushed>>

End ==
  /\ stream = "up"
  /\ stream' \in Endings
  /\ UNCHANGED <<now, sent, channel, reader, shutdown, at, collector, pushed>>

-----------------------------------------------------------------------------
(***************************************************************************)
(* The buffering thread.                                                   *)
(***************************************************************************)
CheckShutdown ==
  /\ thread = "loop"
  /\ thread' = IF shutdown THEN "exit" ELSE "recv"
  /\ UNCHANGED <<now, source, held, buffer, error, shutdown, at, collector, pushed>>

\* recv_timeout returns a frame, which is stamped unless it is the first one.
Receive ==
  /\ thread = "recv" /\ channel # << >>
  /\ channel' = Tail(channel)
  /\ IF Head(channel) = 0
       THEN thread' = "loop" /\ held' = held
       ELSE thread' = "push" /\ held' = [counter |-> Head(channel), time |-> now]
  /\ UNCHANGED <<now, stream, sent, buffer, error, shutdown, at, collector, pushed>>

\* recv_timeout returns Timeout or, when the sender is gone, Disconnected.
ReceiveFails ==
  /\ thread = "recv" /\ channel = << >>
  /\ thread' = IF stream = "up" THEN "loop" ELSE "join"
  /\ UNCHANGED <<now, source, held, buffer, error, shutdown, at, collector, pushed>>

\* A plausible bug: off by one.
Bounded_OneMore(b) == IF Len(b) > BufferSize + 1 THEN Tail(b) ELSE b

Bounded(b) == IF Len(b) > BufferSize THEN Tail(b) ELSE b

\* push_back and pop_front under the write lock.
Push ==
  /\ thread = "push"
  /\ thread' = "loop"
  /\ buffer' = Bounded(Append(buffer, held))
  /\ pushed' = Append(pushed, held)
  /\ held' = NoFrame
  /\ UNCHANGED <<now, source, error, shutdown, at, collector>>

\* join() of the stream's thread tells why it ended.
Join ==
  /\ thread = "join"
  /\ thread' = "exit"
  /\ error' = (stream \in {"error", "panic"})
  /\ UNCHANGED <<now, source, held, buffer, shutdown, at, collector, pushed>>

Exit ==
  /\ thread = "exit"
  /\ thread' = "finished"
  /\ UNCHANGED <<now, source, held, buffer, error, shutdown, at, collector, pushed>>

-----------------------------------------------------------------------------
(***************************************************************************)
(* The controller thread: collect_tcp_samples, clear_buffer and stop.      *)
(***************************************************************************)
Collect ==
  /\ at = "idle"
  /\ at' = "loop"
  /\ cursor' = now /\ began' = now
  /\ collected' = << >> /\ elapsed' = FALSE /\ result' = "none"
  /\ UNCHANGED <<now, source, reader, shutdown, pushed>>

Elapse ==
  /\ at \in {"loop", "error", "get", "sleep"}
  /\ elapsed' = TRUE
  /\ UNCHANGED <<now, source, reader, shutdown, at, cursor, collected, result, began, pushed>>

Enough == Len(collected) >= NumSamples

Outcome ==
  CASE collected = << >> -> "timeout"
    [] Enough            -> "complete"
    [] OTHER             -> "partial"

\* A plausible bug: is_buffering does not look at the thread.
IsBuffering_FlagOnly == ~shutdown

IsBuffering == ~shutdown /\ thread # "finished"

\* The head of the loop, with is_buffering.
LoopHead ==
  /\ at = "loop"
  /\ IF Enough \/ elapsed
       THEN at' = "idle" /\ result' = Outcome
       ELSE at' = (IF IsBuffering THEN "get" ELSE "error") /\ result' = result
  /\ UNCHANGED <<now, source, reader, shutdown, cursor, collected, elapsed, began, pushed>>

\* stream_error, asked once the buffering thread is gone.
CheckError ==
  /\ at = "error"
  /\ IF error THEN at' = "idle" /\ result' = "aborted" ELSE at' = "get" /\ result' = result
  /\ UNCHANGED <<now, source, reader, shutdown, cursor, collected, elapsed, began, pushed>>

\* The entries of s that are in A, in their order (iter().filter()).
Filter(s, A) ==
  LET kept[i \in 0 .. Len(s)] ==
        IF i = 0 THEN << >> ELSE IF s[i] \in A THEN Append(kept[i - 1], s[i]) ELSE kept[i - 1]
  IN  kept[Len(s)]

\* get_data_since.
DataSince(t) == Filter(buffer, {f \in Frames : f.time >= t})

Take(s, n) == SubSeq(s, 1, IF n < Len(s) THEN n ELSE Len(s))

\* A plausible bug: the last frame is read again.
CursorAfter_SameFrame(frames) == Last(frames).time

\* A plausible bug: the cursor is set to the present.
CursorAfter_Now(frames) == now

\* frame.timestamp + 1 ns.
CursorAfter(frames) == Last(frames).time + 1

\* The code leaves the frames at the last sample it needs; its cursor is not
\* read again then.
GetData ==
  LET frames == DataSince(cursor)
  IN  /\ at = "get"
      /\ collected' = collected \o Take(Filter(frames, Valued), NumSamples - Len(collected))
      /\ cursor' = IF frames = << >> THEN cursor ELSE CursorAfter(frames)
      /\ at' = IF Len(collected') < NumSamples THEN "sleep" ELSE "loop"
      /\ UNCHANGED <<now, source, reader, shutdown, elapsed, result, began, pushed>>

Sleep ==
  /\ at = "sleep"
  /\ at' = "loop"
  /\ UNCHANGED <<now, source, reader, shutdown, collector, pushed>>

ClearBuffer ==
  /\ at = "idle"
  /\ buffer' = << >>
  /\ UNCHANGED <<now, source, thread, held, error, shutdown, at, collector, pushed>>

\* A plausible bug: the thread is joined without being told to stop.
Stop_JoinOnly ==
  /\ at = "idle"
  /\ at' = "joining"
  /\ UNCHANGED <<now, source, reader, shutdown, collector, pushed>>

\* stop: the signal, then join.
Stop ==
  /\ at = "idle"
  /\ at' = "joining"
  /\ shutdown' = TRUE
  /\ UNCHANGED <<now, source, reader, collector, pushed>>

Joined ==
  /\ at = "joining" /\ thread = "finished"
  /\ at' = "stopped"
  /\ UNCHANGED <<now, source, reader, shutdown, collector, pushed>>

-----------------------------------------------------------------------------
Buffering == CheckShutdown \/ Receive \/ ReceiveFails \/ Push \/ Join \/ Exit

Collecting == LoopHead \/ CheckError \/ GetData \/ Sleep \/ Joined

Next ==
  \/ Tick \/ Send \/ End
  \/ Buffering \/ Collecting
  \/ Collect \/ Elapse \/ ClearBuffer \/ Stop

Spec == Init /\ [][Next]_vars

\* Both threads keep running.  The stream may stop sending without ending, no
\* timeout is needed, and nobody has to collect or stop.
FairSpec == Spec /\ WF_vars(Buffering) /\ WF_vars(Collecting)

-----------------------------------------------------------------------------
(***************************************************************************)
(* Properties.                                                             *)
(***************************************************************************)

\* A measurement consists of distinct samples in the order of the stream, all
\* received after it began (collect_tcp_samples: "to avoid re-reading
\* already-seen frames"; "to avoid duplicates"), while the buffering thread
\* pushes and evicts.
FreshAndDistinct ==
  /\ \A i \in 1 .. Len(collected) : collected[i].time >= began
  /\ \A i, j \in 1 .. Len(collected) : i < j => collected[i].counter < collected[j].counter

\* No sample between two samples of a measurement is left out, although one
\* may be stamped before and pushed after a look at the buffer: it was evicted
\* by the ring buffer, or it shares its instant with an earlier frame.
NothingSkipped ==
  \A f \in ToSet(pushed) :
    /\ f \in Valued /\ f \notin ToSet(collected)
    /\ f.time >= began
    /\ collected # << >> /\ f.counter < Last(collected).counter
    => \/ f \notin ToSet(buffer)
       \/ \E g \in ToSet(pushed) : g.counter < f.counter /\ g.time = f.time

\* A collection on a stream that died with an error ends without waiting for
\* its timeout (collect_tcp_samples: "provides an immediate, descriptive error").
DeathEndsCollection ==
  (at = "loop" /\ thread = "finished" /\ stream \in {"error", "panic"}) ~> at = "idle"

\* stop() returns, whatever the stream and the buffering thread are doing.
StopReturns == at = "joining" ~> at = "stopped"
=============================================================================
