-------------------------- MODULE RoutineLifecycle --------------------------
(***************************************************************************)
(* What run_routine (src/routine/mod.rs) promises about any routine: after *)
(* a successful prepare() the routine ends in some way -- an outcome, an   *)
(* error, a shutdown request, a panic -- and then, in this order and       *)
(* exactly once, the tip is withdrawn (best effort), the controller is     *)
(* torn down, and the ending is handed to the caller with a shutdown       *)
(* request turned into the outcome StoppedByUser.                          *)
(*                                                                         *)
(* TipPrep implements this specification.                                  *)
(***************************************************************************)

VARIABLES
  phase,  \* "prepare", "running", "withdraw", "teardown" or "done"
  ret,    \* what the routine, and then run_routine, returns
  stop    \* the ShutdownFlag, set by another thread

vars == <<phase, ret, stop>>

\* Outcomes the routine can return as Ok(...).
Outcomes == {"completed", "stoppedByUser", "timedOut", "cycleLimit"}

\* Every way routine.run() can end; "shutdownRequested" is
\* Err(SpmError::ShutdownRequested), "fault" any other error.
Endings == Outcomes \cup {"shutdownRequested", "fault", "panic"}

\* The last match of run_routine.
Surface(r) == IF r = "shutdownRequested" THEN "stoppedByUser" ELSE r

TypeOK ==
  /\ phase \in {"prepare", "running", "withdraw", "teardown", "done"}
  /\ ret \in Endings \cup {"none", "prepareError"}
  /\ stop \in BOOLEAN

Init == phase = "prepare" /\ ret = "none" /\ stop \in BOOLEAN

RequestStop == ~stop /\ stop' = TRUE /\ UNCHANGED <<phase, ret>>

\* controller.prepare()?
Prepare ==
  /\ phase = "prepare"
  /\ \/ phase' = "running" /\ ret' = ret
     \/ phase' = "done" /\ ret' = "prepareError"
  /\ UNCHANGED stop

\* The routine ends; it may report a stop only when one was requested.
End(r) ==
  /\ phase = "running"
  /\ r \in {"stoppedByUser", "shutdownRequested"} => stop
  /\ phase' = "withdraw"
  /\ ret' = r
  /\ UNCHANGED stop

Withdraw == phase = "withdraw" /\ phase' = "teardown" /\ UNCHANGED <<ret, stop>>

Teardown ==
  /\ phase = "teardown"
  /\ phase' = "done"
  /\ ret' = Surface(ret)
  /\ UNCHANGED stop

Next ==
  \/ RequestStop \/ Prepare
  \/ \E r \in Endings : End(r)
  \/ Withdraw \/ Teardown

Spec == Init /\ [][Next]_vars
=============================================================================
