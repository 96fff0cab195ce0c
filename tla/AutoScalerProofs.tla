-------------------------- MODULE AutoScalerProofs --------------------------
(***************************************************************************)
(* Type correctness of AutoScaler, for every value of its constants, and   *)
(* lemmas about its operators that FleetProofs builds on.                  *)
(***************************************************************************)
EXTENDS AutoScaler, FiniteSetTheorems, TLAPS

-----------------------------------------------------------------------------
(* Types of the operators *)

\* A policy row stays one when its age or its switch changes.
LEMMA RowTypes ==
  /\ Never \in Nat /\ Blank \in PolicyRow
  /\ \A a \in 0..Never : Older(a) \in 0..Never
  /\ \A r \in PolicyRow : [r EXCEPT !.age = 0] \in PolicyRow
                          /\ [r EXCEPT !.age = Older(@)] \in PolicyRow
                          /\ [r EXCEPT !.enabled = ~@] \in PolicyRow
<1>1. /\ Never \in Nat /\ 0 \in 0..Never /\ Never \in 0..Never
      /\ 1 \in 1..MaxReplicasLimit /\ 1 \in 1..MaxCooldown
  BY BoundAssumption DEF Never
<1>2. Blank \in PolicyRow
  BY <1>1 DEF Blank, PolicyRow
<1>3. \A a \in 0..Never : Older(a) \in 0..Never
  BY BoundAssumption DEF Never, Older
<1>4. ASSUME NEW r \in PolicyRow
      PROVE  /\ [r EXCEPT !.age = 0] \in PolicyRow
             /\ [r EXCEPT !.age = Older(@)] \in PolicyRow
             /\ [r EXCEPT !.enabled = ~@] \in PolicyRow
  <2>1. [r EXCEPT !.age = 0] \in PolicyRow
    BY <1>1 DEF PolicyRow
  <2>2. Older(r.age) \in 0..Never
    BY <1>3 DEF PolicyRow
  <2>3. [r EXCEPT !.age = Older(@)] \in PolicyRow
    BY <2>2 DEF PolicyRow
  <2>4. [r EXCEPT !.enabled = ~@] \in PolicyRow
    BY DEF PolicyRow
  <2> QED
    BY <2>1, <2>3, <2>4
<1> QED
  BY <1>1, <1>2, <1>3, <1>4

\* What a user's request makes of a row: its limits are the row's or the request's.
LEMMA OverwrittenRow ==
  ASSUME NEW r \in PolicyRow, NEW s \in Settings, NEW given
  PROVE  /\ Overwritten(r, s, given) \in PolicyRow
         /\ Overwritten(r, s, given).age = r.age
         /\ Overwritten(r, s, given).min \in {r.min, s.min}
         /\ "min" \in given => Overwritten(r, s, given).min = s.min
<1>1. s \in Setting
  BY BoundAssumption
<1> QED
  BY <1>1 DEF Overwritten, PolicyRow, Setting

\* The members of a family that run are finitely many, so their count is a number.
LEMMA RunningFinite ==
  ASSUME NEW c
  PROVE  IsFiniteSet(Running(c)) /\ ReplicaCount(c) \in Nat
<1>1. IsFiniteSet(Replica)
  BY FS_Interval, BoundAssumption DEF Replica
<1>2. IsFiniteSet(Container)
  BY <1>1, FS_Union, IdAssumption DEF Container
<1>3. IsFiniteSet(Running(c))
  BY <1>2, FS_Subset DEF Running
<1> QED
  BY <1>3, FS_CardinalityType DEF ReplicaCount

-----------------------------------------------------------------------------
(* Type correctness *)

\* Leaving an evaluation keeps the types of what an evaluator holds.
LEMMA LeaveType ==
  ASSUME TypeOK, NEW e \in Evaluators, NEW tx \in BOOLEAN, Leave(e, tx)
  PROVE  /\ pc' \in [Evaluators -> {"idle", "next", "sampling", "decide",
                                    "run", "record", "pick", "retire"}]
         /\ queue' \in [Evaluators -> SUBSET Policies]
         /\ snap' \in [Evaluators -> [Policies -> PolicyRow]]
         /\ expired' \in [Evaluators -> SUBSET Policies]
         /\ cur' \in [Evaluators -> Policies \cup {None}]
         /\ target' \in [Evaluators -> Replica \cup {None}]
         /\ \A f \in Evaluators : pc'[f] \notin {"idle", "next"} => cur'[f] \in Policies
<1>1. [p \in Policies |-> Blank] \in [Policies -> PolicyRow]
  BY RowTypes
<1>2. [snap[e] EXCEPT ![cur[e]] = Blank] \in [Policies -> PolicyRow]
  BY RowTypes DEF TypeOK
<1> QED
  BY <1>1, <1>2 DEF TypeOK, Leave

\* So does the end of a round.
LEMMA IdleType ==
  ASSUME TypeOK, NEW e \in Evaluators, Idle(e)
  PROVE  /\ pc' \in [Evaluators -> {"idle", "next", "sampling", "decide",
                                    "run", "record", "pick", "retire"}]
         /\ queue' \in [Evaluators -> SUBSET Policies]
         /\ snap' \in [Evaluators -> [Policies -> PolicyRow]]
         /\ expired' \in [Evaluators -> SUBSET Policies]
         /\ \A f \in Evaluators : pc'[f] \notin {"idle", "next"} => cur[f] \in Policies
  BY RowTypes DEF TypeOK, Idle

\* The initial states are well typed.
LEMMA InitType == Init => TypeOK
<1> SUFFICES ASSUME Init PROVE TypeOK
  OBVIOUS
<1>1. \A i \in 1..Len(Seeded) : Seeded[i] \in Parents
  BY SeedAssumption
<1>2. index \in [Replica -> Nat]
  <2>1. \A i \in 1..Len(Seeded) :
          Cardinality({j \in 1..i : Seeded[j] = Seeded[i]}) \in Nat
    <3> SUFFICES ASSUME NEW i \in 1..Len(Seeded)
                 PROVE  Cardinality({j \in 1..i : Seeded[j] = Seeded[i]}) \in Nat
      OBVIOUS
    <3>1. IsFiniteSet(1..i)
      BY FS_Interval, SeedAssumption
    <3>2. IsFiniteSet({j \in 1..i : Seeded[j] = Seeded[i]})
      BY <3>1, FS_Subset
    <3> QED
      BY <3>2, FS_CardinalityType
  <2>2. Len(Seeded) \in Nat
    BY SeedAssumption
  <2>3. ASSUME NEW i \in Replica
        PROVE  index[i] \in Nat
    BY <2>1, <2>2 DEF Init, Replica
  <2> QED
    BY <2>3 DEF Init
<1>3. policy \in [Policies -> PolicyRow]
  <2>1. [enabled |-> TRUE, min |-> InitMin, max |-> InitMax,
         cooldown |-> Cooldown, age |-> Never] \in PolicyRow
    BY RowTypes, BoundAssumption DEF PolicyRow
  <2> QED
    BY <2>1, RowTypes DEF Init
<1>4. status \in [Container -> {"absent", "running", "stopped"}]
  BY DEF Init
<1>5. family \in [Replica -> Parents \cup {None}]
  BY <1>1, SeedAssumption DEF Init, Replica
<1>6. /\ snap \in [Evaluators -> [Policies -> PolicyRow]]
      /\ starts \in [Parents -> 0..MaxUserStarts]
      /\ stops \in [Parents -> 0..MaxUserStops]
  BY RowTypes, BoundAssumption DEF Init
<1> QED
  BY <1>2, <1>3, <1>4, <1>5, <1>6 DEF Init, TypeOK

\* The steps of evaluators keep the types.
LEMMA StepType ==
  ASSUME TypeOK, NEW e \in Evaluators, StartRound(e) \/ Step(e)
  PROVE  TypeOK'
<1> USE DEF rowVars, policyVars, userVars
<1>1. CASE StartRound(e)
  <2> DEFINE due == {p \in Policies : pstate[p] = "live" /\ policy[p].enabled}
  <2>1. [p \in Policies |-> IF p \in due THEN policy[p] ELSE Blank]
          \in [Policies -> PolicyRow]
    BY RowTypes DEF TypeOK
  <2>2. snap' \in [Evaluators -> [Policies -> PolicyRow]]
    BY <1>1, <2>1 DEF StartRound, TypeOK
  <2> QED
    BY <1>1, <2>2 DEF StartRound, TypeOK
<1>2. CASE EndRound(e)
  BY <1>2, IdleType DEF EndRound, TypeOK
<1>3. ASSUME NEW p \in Policies, AbortRound(e, p)
      PROVE  TypeOK'
  BY <1>3, IdleType DEF AbortRound, TypeOK
<1>4. ASSUME NEW p \in Policies, SkipPolicy(e, p)
      PROVE  TypeOK'
  <2>1. [snap EXCEPT ![e][p] = Blank] \in [Evaluators -> [Policies -> PolicyRow]]
    BY RowTypes DEF TypeOK
  <2> QED
    BY <1>4, <2>1 DEF SkipPolicy, Access, TypeOK
<1>5. ASSUME NEW p \in Policies, SamplePolicy(e, p)
      PROVE  TypeOK'
  <2>1. Reloaded(e, p) \in PolicyRow
    BY DEF Reloaded, TypeOK
  <2>2. [snap EXCEPT ![e][p] = Reloaded(e, p)] \in [Evaluators -> [Policies -> PolicyRow]]
    BY <2>1 DEF TypeOK
  <2> QED
    BY <1>5, <2>2 DEF SamplePolicy, Access, TypeOK
<1>6. CASE Decide(e)
  <2>1. CASE Leave(e, FALSE)
    BY <1>6, <2>1, LeaveType DEF Decide, TypeOK
  <2>2. CASE ~Leave(e, FALSE)
    <3>1. /\ pc' = [pc EXCEPT ![e] = "run"] \/ pc' = [pc EXCEPT ![e] = "pick"]
          /\ UNCHANGED <<queue, snap, expired, cur, target>>
      BY <1>6, <2>2 DEF Decide
    <3> QED
      BY <1>6, <3>1 DEF Decide, TypeOK
  <2> QED
    BY <2>1, <2>2
<1>7. CASE RunFails(e)
  BY <1>7, LeaveType DEF RunFails, TypeOK
<1>8. CASE RunReplica(e)
  <2> DEFINE c == PolicyOn[cur[e]]
             n == ReplicaCount(c)
  <2>1. PICK i \in Replica :
          /\ family' = [family EXCEPT ![i] = c]
          /\ index' = [index EXCEPT ![i] = n]
          /\ \/ /\ docker' = [docker EXCEPT ![i] = "down"]
                /\ Leave(e, FALSE)
             \/ /\ docker' = [docker EXCEPT ![i] = "up"]
                /\ pc' = [pc EXCEPT ![e] = "record"]
                /\ target' = [target EXCEPT ![e] = i]
                /\ UNCHANGED <<queue, snap, expired, cur>>
    BY <1>8 DEF RunReplica
  <2>2. c \in Parents
    BY <1>8, IdAssumption DEF RunReplica, TypeOK
  <2>3. n \in Nat
    BY RunningFinite
  <2>4. /\ family' \in [Replica -> Parents \cup {None}]
        /\ index' \in [Replica -> Nat]
        /\ docker' \in [Replica -> {"none", "down", "up"}]
    BY <2>1, <2>2, <2>3 DEF TypeOK
  <2>5. CASE Leave(e, FALSE)
    BY <1>8, <2>4, <2>5, LeaveType DEF RunReplica, TypeOK
  <2>6. CASE ~Leave(e, FALSE)
    <3>1. /\ pc' = [pc EXCEPT ![e] = "record"]
          /\ target' = [target EXCEPT ![e] = i]
          /\ UNCHANGED <<queue, snap, expired, cur>>
      BY <2>1, <2>6
    <3>2. pc[e] = "run" /\ UNCHANGED <<status, policyVars, userVars>>
      BY <1>8 DEF RunReplica
    <3> QED
      BY <2>4, <3>1, <3>2 DEF TypeOK
  <2> QED
    BY <2>5, <2>6
<1>9. CASE RecordReplica(e)
  <2>1. status' \in [Container -> {"absent", "running", "stopped"}]
    BY <1>9 DEF RecordReplica, TypeOK
  <2>2. policy' \in [Policies -> PolicyRow]
    BY <1>9, RowTypes DEF RecordReplica, TypeOK
  <2> QED
    BY <1>9, <2>1, <2>2, LeaveType DEF RecordReplica, TypeOK
<1>10. CASE RecordFails(e)
  BY <1>10, LeaveType DEF RecordFails, TypeOK
<1>11. CASE PickReplica(e)
  <2>1. CASE Leave(e, FALSE) /\ UNCHANGED docker
    BY <1>11, <2>1, LeaveType DEF PickReplica, TypeOK
  <2>2. ASSUME NEW i \in Newest(PolicyOn[cur[e]]),
               \/ docker' = [docker EXCEPT ![i] = "none"]
               \/ UNCHANGED docker
               \/ docker' = [docker EXCEPT ![i] = "down"],
               target' = [target EXCEPT ![e] = i],
               pc' = [pc EXCEPT ![e] = "retire"],
               UNCHANGED <<queue, snap, expired, cur>>
        PROVE  TypeOK'
    <3>1. i \in Replica
      BY <2>2 DEF Newest, RunningReplicas
    <3>2. docker' \in [Replica -> {"none", "down", "up"}]
      BY <2>2, <3>1 DEF TypeOK
    <3> QED
      BY <1>11, <2>2, <3>1, <3>2 DEF PickReplica, TypeOK
  <2> QED
    BY <1>11, <2>1, <2>2 DEF PickReplica
<1>12. CASE RetireReplica(e)
  <2>1. status' \in [Container -> {"absent", "running", "stopped"}]
    BY <1>12 DEF RetireReplica, TypeOK
  <2>2. policy' \in [Policies -> PolicyRow]
    BY <1>12, RowTypes DEF RetireReplica, TypeOK
  <2> QED
    BY <1>12, <2>1, <2>2, LeaveType DEF RetireReplica, TypeOK
<1>13. CASE RetireFails(e)
  BY <1>13, LeaveType DEF RetireFails, TypeOK
<1> QED
  BY <1>1, <1>2, <1>3, <1>4, <1>5, <1>6, <1>7, <1>8, <1>9, <1>10, <1>11, <1>12, <1>13
  DEF Step

\* A counter below its bound can be raised by one.
LEMMA CounterType ==
  ASSUME NEW M \in Nat, NEW f \in [Parents -> 0..M], NEW c, f[c] < M
  PROVE  [f EXCEPT ![c] = @ + 1] \in [Parents -> 0..M]
<1>1. CASE c \in Parents
  BY <1>1
<1>2. CASE c \notin Parents
  BY <1>2
<1> QED
  BY <1>1, <1>2

\* The routes users call keep the types.
LEMMA UserType ==
  ASSUME TypeOK, UserStep
  PROVE  TypeOK'
<1> USE DEF rowVars, policyVars, userVars, evalVars
<1>1. ASSUME NEW x \in Container, start_container(x)
      PROVE  TypeOK'
  <2>1. starts' \in [Parents -> 0..MaxUserStarts]
    <3> DEFINE c == FamilyOf(x)
    <3>1. starts \in [Parents -> 0..MaxUserStarts] /\ MaxUserStarts \in Nat
      BY BoundAssumption DEF TypeOK
    <3>2. starts[c] < MaxUserStarts /\ starts' = [starts EXCEPT ![c] = @ + 1]
      BY <1>1 DEF start_container
    <3>3. [starts EXCEPT ![c] = @ + 1] \in [Parents -> 0..MaxUserStarts]
      <4> HIDE DEF c
      <4> QED
        BY <3>1, <3>2, CounterType
    <3> QED
      BY <3>2, <3>3
  <2>2. status' \in [Container -> {"absent", "running", "stopped"}]
    BY <1>1 DEF start_container, TypeOK
  <2> QED
    BY <1>1, <2>1, <2>2 DEF start_container, TypeOK
<1>2. ASSUME NEW x \in Container, stop_container(x)
      PROVE  TypeOK'
  <2>1. stops' \in [Parents -> 0..MaxUserStops]
    <3> DEFINE c == FamilyOf(x)
    <3>1. stops \in [Parents -> 0..MaxUserStops] /\ MaxUserStops \in Nat
      BY BoundAssumption DEF TypeOK
    <3>2. stops[c] < MaxUserStops /\ stops' = [stops EXCEPT ![c] = @ + 1]
      BY <1>2 DEF stop_container
    <3>3. [stops EXCEPT ![c] = @ + 1] \in [Parents -> 0..MaxUserStops]
      <4> HIDE DEF c
      <4> QED
        BY <3>1, <3>2, CounterType
    <3> QED
      BY <3>2, <3>3
  <2>2. status' \in [Container -> {"absent", "running", "stopped"}]
    BY <1>2 DEF stop_container, TypeOK
  <2> QED
    BY <1>2, <2>1, <2>2 DEF stop_container, TypeOK
<1>3. ASSUME NEW x \in Container, delete_container(x)
      PROVE  TypeOK'
  <2>1. policy' \in [Policies -> PolicyRow]
    BY <1>3, RowTypes DEF delete_container, TypeOK
  <2>2. stops' \in [Parents -> 0..MaxUserStops]
    <3> DEFINE c == FamilyOf(x)
    <3>1. stops \in [Parents -> 0..MaxUserStops] /\ MaxUserStops \in Nat
      BY BoundAssumption DEF TypeOK
    <3>2. CASE status[x] = "running"
      <4>1. stops[c] < MaxUserStops /\ stops' = [stops EXCEPT ![c] = @ + 1]
        BY <1>3, <3>2 DEF delete_container
      <4>2. [stops EXCEPT ![c] = @ + 1] \in [Parents -> 0..MaxUserStops]
        <5> HIDE DEF c
        <5> QED
          BY <3>1, <4>1, CounterType
      <4> QED
        BY <4>1, <4>2
    <3>3. CASE status[x] # "running"
      BY <1>3, <3>1, <3>3 DEF delete_container
    <3> QED
      BY <3>2, <3>3
  <2> QED
    BY <1>3, <2>1, <2>2 DEF delete_container, TypeOK
<1>4. ASSUME NEW p \in Policies, CheckNoPolicy(p)
      PROVE  TypeOK'
  BY <1>4 DEF CheckNoPolicy, TypeOK
<1>5. ASSUME NEW p \in Policies, InsertPolicy(p)
      PROVE  TypeOK'
  <2>1. \A s \in Settings : Overwritten(Blank, s, Fields) \in PolicyRow
    BY RowTypes, OverwrittenRow
  <2>2. policy' \in [Policies -> PolicyRow]
    BY <1>5, <2>1 DEF InsertPolicy, TypeOK
  <2> QED
    BY <1>5, <2>2 DEF InsertPolicy, TypeOK
<1>6. ASSUME NEW p \in Policies, update_scaling_policy(p)
      PROVE  TypeOK'
  <2>1. \A u \in Settings \X SUBSET Fields :
          Overwritten(policy[p], u[1], u[2]) \in PolicyRow
    BY OverwrittenRow DEF TypeOK
  <2>2. policy' \in [Policies -> PolicyRow]
    BY <1>6, <2>1 DEF update_scaling_policy, TypeOK
  <2> QED
    BY <1>6, <2>2 DEF update_scaling_policy, TypeOK
<1>7. ASSUME NEW p \in Policies, toggle_scaling_policy(p)
      PROVE  TypeOK'
  <2>1. policy' \in [Policies -> PolicyRow]
    BY <1>7, RowTypes DEF toggle_scaling_policy, TypeOK
  <2> QED
    BY <1>7, <2>1 DEF toggle_scaling_policy, TypeOK
<1>8. ASSUME NEW p \in Policies, delete_scaling_policy(p)
      PROVE  TypeOK'
  BY <1>8, RowTypes DEF delete_scaling_policy, TypeOK
<1> QED
  BY <1>1, <1>2, <1>3, <1>4, <1>5, <1>6, <1>7, <1>8 DEF UserStep

\* Every variable keeps its type; an evaluator past the start of an evaluation
\* has a policy.
THEOREM TypeCorrect == Spec => []TypeOK
<1>1. TypeOK /\ [Next]_vars => TypeOK'
  <2> SUFFICES ASSUME TypeOK, [Next]_vars PROVE TypeOK'
    OBVIOUS
  <2>1. CASE \E e \in Evaluators : StartRound(e) \/ Step(e)
    BY <2>1, StepType
  <2>2. CASE UserStep
    BY <2>2, UserType
  <2>3. CASE Crash
    BY <2>3, RowTypes DEF Crash, TypeOK, rowVars, userVars
  <2>4. CASE Tick
    <3>1. /\ policy' \in [Policies -> PolicyRow]
          /\ snap' \in [Evaluators -> [Policies -> PolicyRow]]
      BY <2>4, RowTypes DEF Tick, TypeOK
    <3> QED
      BY <2>4, <3>1 DEF Tick, TypeOK, rowVars, userVars
  <2>5. CASE UNCHANGED vars
    BY <2>5 DEF TypeOK, vars, rowVars, policyVars, evalVars, userVars
  <2> QED
    BY <2>1, <2>2, <2>3, <2>4, <2>5
    DEF Next, autoscaler_background_task, evaluate_policies_now
<1> QED
  BY InitType, <1>1, PTL DEF Spec
=============================================================================
