----------------------------- MODULE MCMetering -----------------------------
(* Constant values for the TLC run of Metering. *)
EXTENDS Metering

CONSTANTS c1, c2, c3
=============================================================================
