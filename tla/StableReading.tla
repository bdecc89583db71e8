--------------------------- MODULE StableReading ---------------------------
(***************************************************************************)
(* ReadStableSignal (src/action/signals.rs) on a NanonisController: the    *)
(* batches it reads with read_signal_samples, its two gates, its retries   *)
(* and the measurement it publishes.  What happens inside                  *)
(* collect_tcp_samples is the subject of StreamReader; here only its       *)
(* result matters.                                                         *)
(***************************************************************************)
EXTENDS NanonisController

BeginReading == Begin("read", "read", {}, << >>)

\* The gates: thresholds on the standard deviation and on the drift.  Both are
\* zero for fewer than two samples (compute_stability_metrics).
Gates(n) == IF n < 2 THEN {TRUE} ELSE BOOLEAN

TooFew(n) == n < NumSamples \div 2

\* read_signal_samples: without a reader, read_signal is polled.
ReadSamples(freqShift) ==
  /\ at = "read"
  /\ IF ~reader THEN Goto("sample")
     ELSE IF freqShift \in DOMAIN mapping THEN Goto("collect")
     ELSE Return("protocol")
  /\ UNCHANGED <<controller, linked, instrument, locals, history>>

ReadSignal ==
  /\ at = "sample"
  /\ \E r \in Replies :
       /\ Called(r)
       /\ got' = IF r = "ok" THEN got + 1 ELSE got
       /\ IF r # "ok" THEN Return(r) ELSE Goto(IF got' < NumSamples THEN "sample" ELSE "gate")
  /\ UNCHANGED <<controller, instrument, pending, motion, expired, found, attempt, reading, loose>>

\* collect_tcp_samples: a batch, which may be short, or nothing at all: the
\* stream has died or the timeout has passed.
CollectSamples ==
  /\ at = "collect"
  /\ \/ got' \in 1 .. NumSamples /\ Goto("gate")
     \/ got' = 0 /\ \E a \in {"connection", "timeout"} : Return(a)
  /\ UNCHANGED <<controller, linked, instrument, pending, motion, expired, found, attempt, reading,
                 history>>

\* A plausible bug: one retry too many.
Retries_OneMore(quiet) == (TooFew(got) \/ ~quiet) /\ attempt <= MaxRetries

\* A batch is read again when it is too short or not quiet, and retries are left.
Retries(quiet) == (TooFew(got) \/ ~quiet) /\ attempt < MaxRetries

Judge ==
  /\ at = "gate"
  /\ \E noiseOk, driftOk \in Gates(got) :
       LET quiet == noiseOk /\ driftOk
       IN  IF Retries(quiet)
             THEN Goto("backoff") /\ UNCHANGED reading
             ELSE /\ Return("ok")
                  /\ reading' = [size |-> got, stable |-> quiet, attempt |-> attempt,
                                 source |-> IF reader THEN "stream" ELSE "polled"]
  /\ UNCHANGED <<controller, linked, instrument, pending, motion, expired, found, got, attempt,
                 history>>

\* A sleep of 100 ms, doubled with every attempt.
Backoff ==
  /\ at = "backoff"
  /\ attempt' = attempt + 1 /\ got' = 0
  /\ Goto("read")
  /\ UNCHANGED <<controller, linked, instrument, pending, motion, expired, found, reading, history>>

ReadingStep(freqShift) ==
  ReadSamples(freqShift) \/ ReadSignal \/ CollectSamples \/ Judge \/ Backoff
=============================================================================
