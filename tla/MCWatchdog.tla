----------------------------- MODULE MCWatchdog -----------------------------
(* Instances of Watchdog for TLC: one tick at a time, or two that overlap. *)
EXTENDS Watchdog, TLC

CONSTANTS tick1, tick2

MCOneTick  == {tick1}
MCTwoTicks == {tick1, tick2}

\* Ticks differ in name only; no property names one.
MCSymmetry == Permutations(MCTwoTicks)
=============================================================================
