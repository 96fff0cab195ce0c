-------------------------------- MODULE Fleet --------------------------------
(***************************************************************************)
(* What the auto-scaler promises about a family, the running members of a  *)
(* parent container: it changes by one member at a time; the scaler adds a *)
(* member only below the ceiling and removes one only above the floor; all *)
(* else is the doing of its users.  AutoScaler implements this             *)
(* specification, with its policies, sessions, evaluators and docker left  *)
(* out of sight.                                                           *)
(***************************************************************************)
EXTENDS Integers

CONSTANTS
  Families,  \* parent containers
  Floor,     \* smallest min_replicas of any policy
  Ceiling    \* largest max_replicas a policy can have

VARIABLES
  size,      \* running members of each family
  joined,    \* members users started
  left       \* members users stopped or deleted

fleetVars == <<size, joined, left>>

FleetInit ==
  /\ size \in [Families -> Floor..Ceiling]
  /\ joined = [c \in Families |-> 0]
  /\ left = [c \in Families |-> 0]

\* scale_up: there was room for one more.
Grow(c) ==
  /\ size[c] < Ceiling + joined[c]
  /\ size' = [size EXCEPT ![c] = @ + 1]
  /\ UNCHANGED <<joined, left>>

\* scale_down: there was one to spare.
Shrink(c) ==
  /\ size[c] + left[c] > Floor
  /\ size' = [size EXCEPT ![c] = @ - 1]
  /\ UNCHANGED <<joined, left>>

\* A user starts a member that is not running.
Join(c) ==
  /\ size' = [size EXCEPT ![c] = @ + 1]
  /\ joined' = [joined EXCEPT ![c] = @ + 1]
  /\ UNCHANGED left

\* A user stops or deletes a running member.
Depart(c) ==
  /\ size[c] > 0
  /\ size' = [size EXCEPT ![c] = @ - 1]
  /\ left' = [left EXCEPT ![c] = @ + 1]
  /\ UNCHANGED joined

FleetNext == \E c \in Families : Grow(c) \/ Shrink(c) \/ Join(c) \/ Depart(c)

FleetSpec == FleetInit /\ [][FleetNext]_fleetVars
=============================================================================
