----------------------------- MODULE Instrument -----------------------------
(***************************************************************************)
(* The instrument behind the SpmController trait, as far as the routine's  *)
(* correctness depends on it.  Every call may fail; a failed call may or   *)
(* may not have taken effect, because an error can be a lost reply as well *)
(* as a rejected command.  Each operator constrains one primed variable;   *)
(* the caller says what else stays unchanged.                              *)
(***************************************************************************)
EXTENDS Integers

VARIABLES
  tip,    \* "withdrawn", "home" (go_z_home: tens of nm off) or "engaged"
  scan,   \* whether a scan has been started and not stopped
  bias,   \* the bias voltage, in units of a sweep step
  speed,  \* scan speed: "original" or "sweep"
  props,  \* scan properties: "original" or "sweep"
  safe    \* whether safe-tip protection is enabled

hw == <<tip, scan, bias, speed, props, safe>>

InstrumentTypeOK ==
  /\ tip \in {"withdrawn", "home", "engaged"}
  /\ scan \in BOOLEAN
  /\ bias \in Int
  /\ speed \in {"original", "sweep"}
  /\ props \in {"original", "sweep"}
  /\ safe \in BOOLEAN

\* What `x` may be after a call that should have made it `new`.
Effect(ok, x, new) == IF ok THEN {new} ELSE {x, new}

WithdrawTip(ok)      == tip'   \in Effect(ok, tip, "withdrawn")
AutoApproach(ok)     == tip'   \in Effect(ok, tip, "engaged")
GoZHome(ok)          == tip'   \in Effect(ok, tip, "home")
ScanAction(ok, on)   == scan'  \in Effect(ok, scan, on)
SetBias(ok, v)       == bias'  \in Effect(ok, bias, v)
SpeedSet(ok, v)      == speed' \in Effect(ok, speed, v)
PropsSet(ok, v)      == props' \in Effect(ok, props, v)
SafeTipSet(ok, on)   == safe'  \in Effect(ok, safe, on)
=============================================================================
