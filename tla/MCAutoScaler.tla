---------------------------- MODULE MCAutoScaler ----------------------------
(* Constant values for the TLC runs of AutoScaler. *)
EXTENDS AutoScaler

CONSTANTS c1, p1, p2, bg, now

\* Threshold outcomes.  (Nothing orders the up and down thresholds of a policy, so a
\* sample may also pass neither test or both; the runs get as far without those.)
High == [up |-> TRUE, down |-> FALSE]
Low  == [up |-> FALSE, down |-> TRUE]

OnlyHigh  == {High}
OnlyLow   == {Low}
HighLow   == {High, Low}

\* What users write: room to scale, no room, a longer cooldown, and limits that
\* nothing orders.
Policy(min, max, cooldown) ==
  [enabled |-> TRUE, min |-> min, max |-> max, cooldown |-> cooldown]
WideOrNarrow == {Policy(1, 2, 1), Policy(1, 1, 1)}
SoonOrLate   == {Policy(1, 2, 1), Policy(1, 2, 2)}
AtLeastTwo   == {Policy(2, 3, 1), Policy(3, 3, 1)}

OnC1     == [p \in Policies |-> c1]
NoSeed   == <<>>
OneSeed  == <<c1>>
TwoSeeds == <<c1, c1>>

\* Ports users choose when they leave room for replicas.
Spread   == [c \in Parents |-> 3000]

\* 0 takes the branch `or "0.5"`, and a launch can succeed; 500 is what the deploy
\* schema writes, and every launch raises.
TextCpu  == [c \in Parents |-> 0]
IntCpu   == [c \in Parents |-> 500]
=============================================================================
