----------------------------- MODULE MCTipPrep -----------------------------
(***************************************************************************)
(* Instances of TipPrep.  The sharp window is 0 .. 1; readings are one     *)
(* below it and both values inside, so that a final reading can agree with *)
(* the baseline, differ from it inside the window, or leave the window.    *)
(***************************************************************************)
EXTENDS TipPrep

Blunt == -3

MCReadings == {Blunt, 0, 1}

\* Enough where only the order of the steps matters.
TwoReadings == {Blunt, 0}

MCClampLo == -3

BothPolarities == <<1, -1>>
Negative == <<-1>>
=============================================================================
