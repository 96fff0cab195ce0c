------------------------------ MODULE FleetProofs ------------------------------
(***************************************************************************)
(* The size of a family under AutoScaler: FleetBound and FleetFloor hold   *)
(* in every reachable state, and every step is one of Fleet or none, for   *)
(* any number of evaluators, policies and parents, on either database,     *)
(* with every fault.                                                       *)
(***************************************************************************)
EXTENDS AutoScalerProofs

-----------------------------------------------------------------------------
(* What a change of one row does to the counts *)

\* A family whose running members do not change keeps its size.
LEMMA CountSame ==
  ASSUME NEW c, Running(c)' = Running(c)
  PROVE  ReplicaCount(c)' = ReplicaCount(c)
  BY DEF ReplicaCount

\* One more running member makes the family larger by one.
LEMMA CountRaise ==
  ASSUME TypeOK, NEW c, NEW x \in Container, status[x] # "running",
         status' = [status EXCEPT ![x] = "running"], family' = family
  PROVE  ReplicaCount(c)' =
           IF FamilyOf(x) = c THEN ReplicaCount(c) + 1 ELSE ReplicaCount(c)
<1>1. CASE FamilyOf(x) = c
  <2>1. Running(c)' = Running(c) \cup {x} /\ x \notin Running(c)
    BY <1>1 DEF Running, FamilyOf, TypeOK
  <2> QED
    BY <1>1, <2>1, RunningFinite, FS_AddElement DEF ReplicaCount
<1>2. CASE FamilyOf(x) # c
  <2>1. Running(c)' = Running(c)
    BY <1>2 DEF Running, FamilyOf, TypeOK
  <2> QED
    BY <1>2, <2>1 DEF ReplicaCount
<1> QED
  BY <1>1, <1>2

\* One running member less makes it smaller by one.
LEMMA CountLower ==
  ASSUME TypeOK, NEW c, NEW x \in Container, NEW v \in {"stopped", "absent"},
         status' = [status EXCEPT ![x] = v], family' = family
  PROVE  ReplicaCount(c)' =
           IF FamilyOf(x) = c /\ status[x] = "running"
           THEN ReplicaCount(c) - 1 ELSE ReplicaCount(c)
<1>1. CASE FamilyOf(x) = c /\ status[x] = "running"
  <2>1. Running(c)' = Running(c) \ {x} /\ x \in Running(c)
    BY <1>1 DEF Running, FamilyOf, TypeOK
  <2> QED
    BY <1>1, <2>1, RunningFinite, FS_RemoveElement DEF ReplicaCount
<1>2. CASE ~(FamilyOf(x) = c /\ status[x] = "running")
  <2>1. Running(c)' = Running(c)
    BY <1>2 DEF Running, FamilyOf, TypeOK
  <2> QED
    BY <1>2, <2>1 DEF ReplicaCount
<1> QED
  BY <1>1, <1>2

-----------------------------------------------------------------------------
(* Initial states *)

\* At the start every family is within its limits.
LEMMA InitCounts ==
  ASSUME Init, NEW c \in Parents
  PROVE  ReplicaCount(c) \in InitMin..MaxReplicasLimit
<1>1. Len(Seeded) \in Nat /\ 1..Len(Seeded) \subseteq Replica
  BY SeedAssumption, BoundAssumption DEF Replica
<1>2. \A i \in 1..Len(Seeded) : i \notin Parents /\ Seeded[i] \in Parents
  BY <1>1, SeedAssumption, IdAssumption
<1>3. \A x \in Container : status[x] = "running" <=> x \in Parents \cup 1..Len(Seeded)
  BY DEF Init
<1>4. \A i \in 1..Len(Seeded) : FamilyOf(i) = Seeded[i]
  BY <1>1, <1>2 DEF Init, FamilyOf
<1>5. Running(c) = Brood(c)
  BY <1>1, <1>2, <1>3, <1>4 DEF Running, Brood, FamilyOf, Container
<1> QED
  BY <1>5, SeedAssumption DEF ReplicaCount

\* The initial states satisfy the invariant.
LEMMA FleetInit == Init => IInv
<1> SUFFICES ASSUME Init PROVE IInv
  OBVIOUS
<1>1. TypeOK
  BY InitType
<1>2. \A c \in Parents : ReplicaCount(c) \in InitMin..MaxReplicasLimit
  BY InitCounts
<1>3. FleetBound /\ FleetFloor
  BY <1>2, BoundAssumption DEF Init, FleetBound, FleetFloor
<1>4. Exclusive /\ TargetKnown /\ Room /\ Spare
  BY DEF Init, Exclusive, Busy, TargetKnown, Room, Spare
<1>5. Unlaunched
  <2> SUFFICES ASSUME NEW i \in Replica, family[i] = None
               PROVE  status[i] = "absent"
    BY DEF Unlaunched
  <2>1. i \in Nat /\ i >= 1 /\ i \notin Parents /\ i \in Container
    BY IdAssumption, BoundAssumption DEF Replica, Container
  <2>2. i \notin 1..Len(Seeded)
    <3>1. ASSUME i \in 1..Len(Seeded)
          PROVE  FALSE
      <4>1. family[i] = Seeded[i]
        BY <3>1, SeedAssumption DEF Init
      <4>2. Seeded[i] \in Parents
        BY <3>1, SeedAssumption
      <4> QED
        BY <4>1, <4>2, IdAssumption
    <3> QED
      BY <3>1
  <2> QED
    BY <2>1, <2>2 DEF Init
<1>6. MinKept
  BY BoundAssumption DEF Init, MinKept, Blank
<1> QED
  BY <1>1, <1>3, <1>4, <1>5, <1>6 DEF IInv

-----------------------------------------------------------------------------
(* Steps of an evaluator *)

\* An evaluator that takes a step has the event loop to itself.
LEMMA Alone ==
  ASSUME TypeOK, Exclusive, NEW e \in Evaluators, StartRound(e) \/ Step(e)
  PROVE  /\ \A f \in Evaluators \ {e} :
              ~Busy(f) /\ pc'[f] = pc[f] /\ snap'[f] = snap[f]
         /\ Exclusive'
<1>1. Busy(e) \/ LoopFree
  BY DEF StartRound, Step, EndRound, AbortRound, SkipPolicy, SamplePolicy, Access, Decide,
         RunFails, RunReplica, RecordReplica, RecordFails, PickReplica, RetireReplica,
         RetireFails, Busy
<1>2. \E v, w : pc' = [pc EXCEPT ![e] = v] /\ snap' = [snap EXCEPT ![e] = w]
  <2>1. CASE StartRound(e)
    BY <2>1 DEF StartRound
  <2>2. CASE EndRound(e) \/ \E p \in Policies : AbortRound(e, p)
    BY <2>2 DEF EndRound, AbortRound, Idle
  <2>3. ASSUME NEW p \in Policies, SkipPolicy(e, p)
        PROVE  \E v, w : pc' = [pc EXCEPT ![e] = v] /\ snap' = [snap EXCEPT ![e] = w]
    <3>1. pc' = [pc EXCEPT ![e] = pc[e]] /\ snap' = [snap EXCEPT ![e][p] = Blank]
      BY <2>3 DEF SkipPolicy, TypeOK
    <3>2. snap' = [snap EXCEPT ![e] = [snap[e] EXCEPT ![p] = Blank]]
      BY <3>1
    <3> QED
      BY <3>1, <3>2
  <2>4. ASSUME NEW p \in Policies, SamplePolicy(e, p)
        PROVE  \E v, w : pc' = [pc EXCEPT ![e] = v] /\ snap' = [snap EXCEPT ![e] = w]
    <3>1. snap' = [snap EXCEPT ![e] = [snap[e] EXCEPT ![p] = Reloaded(e, p)]]
      BY <2>4 DEF SamplePolicy
    <3>2. \E v : pc' = [pc EXCEPT ![e] = v]
      BY <2>4 DEF SamplePolicy
    <3> QED
      BY <3>1, <3>2
  <2>5. ASSUME NEW tx \in BOOLEAN, Leave(e, tx)
        PROVE  \E v, w : pc' = [pc EXCEPT ![e] = v] /\ snap' = [snap EXCEPT ![e] = w]
    BY <2>5 DEF Leave
  <2>6. ASSUME NEW v, pc' = [pc EXCEPT ![e] = v], snap' = snap
        PROVE  \E w : snap' = [snap EXCEPT ![e] = w]
    <3>1. snap' = [snap EXCEPT ![e] = snap[e]]
      BY <2>6 DEF TypeOK
    <3> QED
      BY <3>1
  <2>7. CASE Decide(e)
    BY <2>5, <2>6, <2>7 DEF Decide
  <2>8. CASE RunReplica(e)
    BY <2>5, <2>6, <2>8 DEF RunReplica
  <2>9. CASE PickReplica(e)
    BY <2>5, <2>6, <2>9 DEF PickReplica
  <2>10. CASE RunFails(e) \/ RecordReplica(e) \/ RecordFails(e)
              \/ RetireReplica(e) \/ RetireFails(e)
    BY <2>5, <2>10 DEF RunFails, RecordReplica, RecordFails, RetireReplica, RetireFails
  <2> QED
    BY <2>1, <2>2, <2>3, <2>4, <2>7, <2>8, <2>9, <2>10 DEF Step
<1>3. \A f \in Evaluators \ {e} : ~Busy(f)
  BY <1>1 DEF Exclusive, LoopFree
<1>4. \A f \in Evaluators \ {e} : pc'[f] = pc[f] /\ snap'[f] = snap[f]
  BY <1>2 DEF TypeOK
<1>5. Exclusive'
  BY <1>3, <1>4 DEF Exclusive, Busy
<1> QED
  BY <1>3, <1>4, <1>5

\* The minimum of every row and of every copy an evaluator may act on.
LEMMA MinStep ==
  ASSUME TypeOK, Exclusive, MinKept, NEW e \in Evaluators, StartRound(e) \/ Step(e)
  PROVE  MinKept'
<1> DEFINE Kept(s) == \A p \in Policies : s[p].enabled => s[p].min >= InitMin
<1>1. ~Blank.enabled
  BY DEF Blank
<1>2. ASSUME NEW tx \in BOOLEAN, Leave(e, tx)
      PROVE  Kept(snap'[e])
  <2>1. \A p \in Policies : snap'[e][p] = Blank \/ snap'[e][p] = snap[e][p]
    BY <1>2 DEF Leave, TypeOK
  <2> QED
    BY <1>1, <2>1 DEF MinKept
<1>3. CASE StartRound(e)
  <2>1. \A p \in Policies : snap'[e][p] = Blank
                           \/ (pstate[p] = "live" /\ snap'[e][p] = policy[p])
    BY <1>3 DEF StartRound, TypeOK
  <2>2. Kept(snap'[e])
    BY <1>1, <2>1 DEF MinKept
  <2> QED
    BY <1>3, <2>2, Alone DEF MinKept, StartRound, policyVars
<1>4. CASE EndRound(e) \/ \E p \in Policies : AbortRound(e, p)
  <2>1. \A p \in Policies : snap'[e][p] = Blank
    BY <1>4 DEF EndRound, AbortRound, Idle, TypeOK
  <2> QED
    BY <1>1, <1>4, <2>1, Alone DEF MinKept, EndRound, AbortRound, policyVars
<1>5. ASSUME NEW p \in Policies, SkipPolicy(e, p)
      PROVE  MinKept'
  <2>1. \A q \in Policies : snap'[e][q] = Blank \/ snap'[e][q] = snap[e][q]
    BY <1>5 DEF SkipPolicy, TypeOK
  <2>2. Step(e)
    BY <1>5 DEF Step
  <2> QED
    BY <1>1, <1>5, <2>1, <2>2, Alone DEF MinKept, SkipPolicy, policyVars
<1>6. ASSUME NEW p \in Policies, SamplePolicy(e, p)
      PROVE  MinKept'
  <2>1. \A q \in Policies :
          (snap'[e][q] = snap[e][q]) \/ (pstate[q] = "live" /\ snap'[e][q] = policy[q])
    <3>1. /\ snap'[e] = [snap[e] EXCEPT ![p] = Reloaded(e, p)]
          /\ p \in expired[e] => pstate[p] = "live"
      BY <1>6 DEF SamplePolicy, Access, TypeOK
    <3>2. snap[e] \in [Policies -> PolicyRow]
      BY DEF TypeOK
    <3>3. snap'[e][p] = Reloaded(e, p) /\ \A q \in Policies \ {p} : snap'[e][q] = snap[e][q]
      BY <3>1, <3>2
    <3>4. CASE p \in expired[e]
      BY <3>1, <3>3, <3>4 DEF Reloaded
    <3>5. CASE p \notin expired[e]
      BY <3>3, <3>5 DEF Reloaded
    <3> QED
      BY <3>4, <3>5
  <2>2. Step(e)
    BY <1>6 DEF Step
  <2> QED
    BY <1>6, <2>1, <2>2, Alone DEF MinKept, SamplePolicy, policyVars
<1>7. CASE RecordReplica(e) \/ RetireReplica(e)
  <2>1. pstate' = pstate /\ \A p \in Policies : policy'[p].min = policy[p].min
    <3>1. pstate' = pstate /\ policy' = [policy EXCEPT ![cur[e]].age = 0]
      BY <1>7 DEF RecordReplica, RetireReplica
    <3>2. ASSUME NEW r \in PolicyRow
          PROVE  [r EXCEPT !.age = 0].min = r.min
      BY DEF PolicyRow
    <3>3. \A p \in Policies : policy'[p] = policy[p] \/ policy'[p] = [policy[p] EXCEPT !.age = 0]
      BY <3>1 DEF TypeOK
    <3> QED
      BY <3>1, <3>2, <3>3 DEF TypeOK
  <2>2. Kept(snap'[e])
    BY <1>2, <1>7 DEF RecordReplica, RetireReplica
  <2> QED
    BY <2>1, <2>2, Alone DEF MinKept
<1>8. CASE RunFails(e) \/ RecordFails(e) \/ RetireFails(e)
  <2>1. Kept(snap'[e]) /\ UNCHANGED policyVars
    BY <1>2, <1>8 DEF RunFails, RecordFails, RetireFails
  <2> QED
    BY <2>1, Alone DEF MinKept, policyVars
<1>9. CASE Decide(e) \/ RunReplica(e) \/ PickReplica(e)
  <2>1. (snap' = snap \/ Leave(e, FALSE)) /\ UNCHANGED policyVars
    <3>1. CASE Decide(e)
      BY <3>1 DEF Decide
    <3>2. CASE RunReplica(e)
      BY <3>2 DEF RunReplica
    <3>3. CASE PickReplica(e)
      BY <3>3 DEF PickReplica
    <3> QED
      BY <1>9, <3>1, <3>2, <3>3
  <2>2. Kept(snap'[e])
    BY <1>2, <2>1 DEF MinKept
  <2> QED
    BY <2>1, <2>2, Alone DEF MinKept, policyVars
<1> QED
  BY <1>3, <1>4, <1>5, <1>6, <1>7, <1>8, <1>9 DEF Step

\* What is left to show of a step of e that leaves the rows alone: the facts
\* about e itself, when it is between two awaits.
LEMMA QuietStep ==
  ASSUME IInv, NEW e \in Evaluators, StartRound(e) \/ Step(e),
         UNCHANGED <<status, family, userVars>>,
         pc'[e] \notin {"idle", "next", "sampling", "decide"} =>
           cur'[e] = cur[e] /\
           LET c == PolicyOn[cur[e]]
           IN  /\ pc'[e] \in {"run", "record"} =>
                    ReplicaCount(c) < MaxReplicasLimit + starts[c]
               /\ pc'[e] \in {"pick", "retire"} => ReplicaCount(c) + stops[c] > InitMin
               /\ pc'[e] \in {"record", "retire"} =>
                    target'[e] \in Replica /\ family[target'[e]] = c
               /\ pc'[e] = "record" => status[target'[e]] = "absent"
  PROVE  IInv'
<1>1. TypeOK'
  BY StepType DEF IInv
<1>2. Exclusive' /\ MinKept'
  BY Alone, MinStep DEF IInv
<1>3. \A f \in Evaluators \ {e} : pc'[f] \in {"idle", "sampling"}
  BY Alone DEF IInv, Busy
<1>4. ASSUME NEW c
      PROVE  ReplicaCount(c)' = ReplicaCount(c)
  BY CountSame DEF Running, FamilyOf
<1>5. FleetBound' /\ FleetFloor' /\ Unlaunched'
  BY <1>4 DEF IInv, FleetBound, FleetFloor, Unlaunched, userVars
<1>6. Room'
  BY <1>3, <1>4 DEF Room, userVars
<1>7. Spare'
  BY <1>3, <1>4 DEF Spare, userVars
<1>8. TargetKnown'
  BY <1>3 DEF TargetKnown
<1> QED
  BY <1>1, <1>2, <1>5, <1>6, <1>7, <1>8 DEF IInv

\* The steps of evaluators keep the invariant.
LEMMA FleetStep ==
  ASSUME IInv, NEW e \in Evaluators, StartRound(e) \/ Step(e)
  PROVE  IInv'
<1> USE DEF rowVars
<1>1. CASE StartRound(e) \/ EndRound(e) \/ \E p \in Policies : AbortRound(e, p)
  <2>1. pc'[e] \in {"next", "idle"}
    BY <1>1 DEF StartRound, EndRound, AbortRound, Idle, IInv, TypeOK
  <2>2. UNCHANGED <<status, family, userVars>>
    BY <1>1 DEF StartRound, EndRound, AbortRound
  <2> QED
    BY <2>1, <2>2, QuietStep
<1>2. CASE \E p \in Policies : SkipPolicy(e, p) \/ SamplePolicy(e, p)
  <2>1. pc'[e] \in {"next", "sampling", "decide"}
    BY <1>2 DEF SkipPolicy, SamplePolicy, Access, IInv, TypeOK
  <2>2. UNCHANGED <<status, family, userVars>>
    BY <1>2 DEF SkipPolicy, SamplePolicy
  <2> QED
    BY <2>1, <2>2, QuietStep
<1>3. ASSUME NEW tx \in BOOLEAN, Leave(e, tx), UNCHANGED <<status, family, userVars>>
      PROVE  IInv'
  <2>1. pc'[e] = "next"
    BY <1>3 DEF Leave, IInv, TypeOK
  <2> QED
    BY <1>3, <2>1, QuietStep
<1>4. CASE RunFails(e) \/ RecordFails(e) \/ RetireFails(e)
  BY <1>3, <1>4 DEF RunFails, RecordFails, RetireFails
<1>5. CASE Decide(e)
  <2> DEFINE c == PolicyOn[cur[e]]
             s == snap[e][cur[e]]
             n == ReplicaCount(c)
  <2>1. UNCHANGED <<status, family, userVars>>
    BY <1>5 DEF Decide
  <2>2. cur[e] \in Policies /\ c \in Parents /\ s \in PolicyRow /\ n \in Nat
    BY <1>5, IdAssumption, RunningFinite DEF Decide, IInv, TypeOK
  <2>3. starts[c] \in Nat /\ stops[c] \in Nat /\ s.min \in Nat /\ s.max \in Nat
        /\ s.max <= MaxReplicasLimit
    BY <2>2, BoundAssumption DEF IInv, TypeOK, PolicyRow
  <2>4. CASE \E m \in Metrics : should_scale_up(s, m, n) /\ pc' = [pc EXCEPT ![e] = "run"]
                               /\ cur' = cur
    <3>1. pc'[e] = "run" /\ n < MaxReplicasLimit + starts[c]
      BY <2>2, <2>3, <2>4, BoundAssumption DEF should_scale_up, IInv, TypeOK
    <3> QED
      BY <2>1, <2>4, <3>1, QuietStep
  <2>5. CASE \E m \in Metrics : should_scale_down(s, m, n) /\ pc' = [pc EXCEPT ![e] = "pick"]
                               /\ cur' = cur
    <3>1. pc'[e] = "pick" /\ s.enabled /\ n > s.min
      BY <2>5 DEF should_scale_down, IInv, TypeOK
    <3>2. n + stops[c] > InitMin
      BY <2>2, <2>3, <3>1, BoundAssumption DEF IInv, MinKept
    <3> QED
      BY <2>1, <2>5, <3>1, <3>2, QuietStep
  <2>6. CASE Leave(e, FALSE)
    BY <1>3, <2>1, <2>6
  <2> QED
    BY <1>5, <2>4, <2>5, <2>6 DEF Decide
<1>6. CASE PickReplica(e)
  <2>1. UNCHANGED <<status, family, userVars>>
    BY <1>6 DEF PickReplica
  <2>2. CASE Leave(e, FALSE)
    BY <1>3, <2>1, <2>2
  <2>3. ASSUME NEW i \in Newest(PolicyOn[cur[e]]),
               target' = [target EXCEPT ![e] = i],
               pc' = [pc EXCEPT ![e] = "retire"], cur' = cur
        PROVE  IInv'
    <3>1. i \in Replica /\ family[i] = PolicyOn[cur[e]]
      BY DEF Newest, RunningReplicas
    <3>2. pc'[e] = "retire" /\ target'[e] = i
      BY <2>3 DEF IInv, TypeOK
    <3>3. ReplicaCount(PolicyOn[cur[e]]) + stops[PolicyOn[cur[e]]] > InitMin
      BY <1>6 DEF PickReplica, IInv, Spare
    <3> QED
      BY <2>1, <2>3, <3>1, <3>2, <3>3, QuietStep
  <2> QED
    BY <1>6, <2>2, <2>3 DEF PickReplica
<1>7. CASE RunReplica(e) \/ RecordReplica(e) \/ RetireReplica(e)
  <2> DEFINE c == PolicyOn[cur[e]]
             t == target[e]
  <2>1. cur[e] \in Policies /\ c \in Parents
    BY <1>7, IdAssumption DEF RunReplica, RecordReplica, RetireReplica, IInv, TypeOK
  <2>2. TypeOK' /\ Exclusive' /\ MinKept'
    BY StepType, Alone, MinStep DEF IInv
  <2>3. \A f \in Evaluators \ {e} : pc'[f] \in {"idle", "sampling"}
    BY Alone DEF IInv, Busy
  <2>4. UNCHANGED userVars
    BY <1>7 DEF RunReplica, RecordReplica, RetireReplica
  <2>5. ASSUME NEW d \in Parents
        PROVE  ReplicaCount(d) \in Nat /\ starts[d] \in Nat /\ stops[d] \in Nat
    BY RunningFinite, BoundAssumption DEF IInv, TypeOK
  <2>6. CASE RunReplica(e)
    <3>1. PICK i \in Replica :
            /\ family[i] = None
            /\ family' = [family EXCEPT ![i] = c]
            /\ \/ Leave(e, FALSE)
               \/ /\ pc' = [pc EXCEPT ![e] = "record"]
                  /\ target' = [target EXCEPT ![e] = i]
                  /\ cur' = cur
      BY <2>6 DEF RunReplica
    <3>2. status' = status /\ status[i] = "absent"
      BY <2>6, <3>1 DEF RunReplica, IInv, Unlaunched
    <3>3. ASSUME NEW d
          PROVE  ReplicaCount(d)' = ReplicaCount(d)
      <4>1. \A x \in Container : status[x] = "running" => FamilyOf(x)' = FamilyOf(x)
        BY <3>1, <3>2 DEF FamilyOf, Container, IInv, TypeOK
      <4> QED
        BY <3>2, <4>1, CountSame DEF Running
    <3>4. FleetBound' /\ FleetFloor'
      BY <2>4, <3>3 DEF IInv, FleetBound, FleetFloor, userVars
    <3>5. Unlaunched'
      BY <2>1, <3>1, <3>2, IdAssumption DEF IInv, TypeOK, Unlaunched
    <3>6. pc'[e] = "next" \/ (pc'[e] = "record" /\ target'[e] = i /\ cur'[e] = cur[e])
      BY <3>1 DEF Leave, IInv, TypeOK
    <3>7. ReplicaCount(c) < MaxReplicasLimit + starts[c]
      BY <2>6 DEF RunReplica, IInv, Room
    <3>8. Room' /\ Spare'
      BY <2>3, <2>4, <3>3, <3>6, <3>7 DEF Room, Spare, userVars
    <3>9. family'[i] = c
      BY <3>1 DEF IInv, TypeOK
    <3>10. TargetKnown'
      BY <2>3, <3>2, <3>6, <3>9 DEF TargetKnown
    <3> QED
      BY <2>2, <3>4, <3>5, <3>8, <3>10 DEF IInv
  <2>7. CASE RecordReplica(e) \/ RetireReplica(e)
    <3>1. /\ family' = family /\ pc'[e] = "next"
          /\ pc[e] \in {"record", "retire"}
      BY <2>7 DEF RecordReplica, RetireReplica, Leave, IInv, TypeOK
    <3>2. t \in Replica /\ t \in Container /\ family[t] = c /\ FamilyOf(t) = c
      BY <3>1, IdAssumption, BoundAssumption
      DEF IInv, TargetKnown, FamilyOf, Container, Replica
    <3>3. Unlaunched'
      <4>1. \E v : status' = [status EXCEPT ![t] = v]
        BY <2>7 DEF RecordReplica, RetireReplica
      <4>2. \A i \in Replica : family[i] = None => i # t
        BY <2>1, <3>2, IdAssumption
      <4>3. Replica \subseteq Container
        BY DEF Container
      <4> QED
        BY <3>1, <4>1, <4>2, <4>3 DEF IInv, Unlaunched, TypeOK
    <3>4. Room' /\ Spare' /\ TargetKnown'
      BY <2>3, <3>1 DEF Room, Spare, TargetKnown
    <3>5. CASE RecordReplica(e)
      <4>1. status' = [status EXCEPT ![t] = "running"] /\ status[t] # "running"
        BY <3>5 DEF RecordReplica, IInv, TargetKnown
      <4>2. \A d \in Parents :
              ReplicaCount(d)' = IF d = c THEN ReplicaCount(d) + 1 ELSE ReplicaCount(d)
        BY <3>1, <3>2, <4>1, CountRaise DEF IInv
      <4>3. ReplicaCount(c) < MaxReplicasLimit + starts[c]
        BY <3>5 DEF RecordReplica, IInv, Room
      <4>4. FleetBound' /\ FleetFloor'
        BY <2>4, <2>5, <4>2, <4>3, BoundAssumption DEF IInv, FleetBound, FleetFloor, userVars
      <4> QED
        BY <2>2, <3>3, <3>4, <4>4 DEF IInv
    <3>6. CASE RetireReplica(e)
      <4>1. status' = [status EXCEPT ![t] = "stopped"]
        BY <3>6 DEF RetireReplica
      <4>2. \A d \in Parents :
              ReplicaCount(d)' = IF d = c /\ status[t] = "running"
                                 THEN ReplicaCount(d) - 1 ELSE ReplicaCount(d)
        BY <3>1, <3>2, <4>1, CountLower DEF IInv
      <4>3. ReplicaCount(c) + stops[c] > InitMin
        BY <3>6 DEF RetireReplica, IInv, Spare
      <4>4. FleetBound' /\ FleetFloor'
        BY <2>4, <2>5, <4>2, <4>3, BoundAssumption DEF IInv, FleetBound, FleetFloor, userVars
      <4> QED
        BY <2>2, <3>3, <3>4, <4>4 DEF IInv
    <3> QED
      BY <2>7, <3>5, <3>6
  <2> QED
    BY <1>7, <2>6, <2>7
<1> QED
  BY <1>1, <1>2, <1>4, <1>5, <1>6, <1>7 DEF Step

-----------------------------------------------------------------------------
(* Steps of users, faults and time *)

\* A change of one row that an evaluator may be counting on.
LEMMA RowStep ==
  ASSUME IInv, UserStep, UNCHANGED <<family, evalVars>>, MinKept',
         NEW x \in Container, status[x] # "absent",
         \/ /\ status[x] # "running" /\ status' = [status EXCEPT ![x] = "running"]
            /\ starts' = [starts EXCEPT ![FamilyOf(x)] = @ + 1] /\ stops' = stops
         \/ /\ status[x] = "running"
            /\ \E v \in {"stopped", "absent"} : status' = [status EXCEPT ![x] = v]
            /\ stops' = [stops EXCEPT ![FamilyOf(x)] = @ + 1] /\ starts' = starts
         \/ /\ status[x] # "running"
            /\ \E v \in {"stopped", "absent"} : status' = [status EXCEPT ![x] = v]
            /\ stops' = stops /\ starts' = starts
  PROVE  IInv'
<1> USE DEF evalVars
<1>1. TypeOK'
  BY UserType DEF IInv
<1>2. ASSUME NEW c \in Parents
      PROVE  /\ ReplicaCount(c) \in Nat /\ starts[c] \in Nat /\ stops[c] \in Nat
             /\ ReplicaCount(c)' \in Nat /\ starts'[c] \in Nat /\ stops'[c] \in Nat
             /\ ReplicaCount(c)' - starts'[c] <= ReplicaCount(c) - starts[c]
             /\ ReplicaCount(c)' + stops'[c] >= ReplicaCount(c) + stops[c]
  <2>1. ReplicaCount(c) \in Nat /\ starts[c] \in Nat /\ stops[c] \in Nat
    BY RunningFinite, BoundAssumption DEF IInv, TypeOK
  <2>2. CASE /\ status[x] # "running" /\ status' = [status EXCEPT ![x] = "running"]
             /\ starts' = [starts EXCEPT ![FamilyOf(x)] = @ + 1] /\ stops' = stops
    <3>1. ReplicaCount(c)' = IF FamilyOf(x) = c THEN ReplicaCount(c) + 1 ELSE ReplicaCount(c)
      BY <2>2, CountRaise DEF IInv
    <3>2. starts'[c] = IF FamilyOf(x) = c THEN starts[c] + 1 ELSE starts[c]
      BY <2>2 DEF IInv, TypeOK
    <3> QED
      BY <2>1, <2>2, <3>1, <3>2
  <2>3. CASE /\ status[x] = "running"
             /\ \E v \in {"stopped", "absent"} : status' = [status EXCEPT ![x] = v]
             /\ stops' = [stops EXCEPT ![FamilyOf(x)] = @ + 1] /\ starts' = starts
    <3>1. ReplicaCount(c)' = IF FamilyOf(x) = c THEN ReplicaCount(c) - 1 ELSE ReplicaCount(c)
      BY <2>3, CountLower DEF IInv
    <3>2. stops'[c] = IF FamilyOf(x) = c THEN stops[c] + 1 ELSE stops[c]
      BY <2>3 DEF IInv, TypeOK
    <3>3. FamilyOf(x) = c => ReplicaCount(c) >= 1
      <4>1. FamilyOf(x) = c => x \in Running(c)
        BY <2>3 DEF Running
      <4> QED
        BY <2>1, <4>1, RunningFinite, FS_EmptySet DEF ReplicaCount
    <3> QED
      BY <2>1, <2>3, <3>1, <3>2, <3>3
  <2>4. CASE /\ status[x] # "running"
             /\ \E v \in {"stopped", "absent"} : status' = [status EXCEPT ![x] = v]
             /\ stops' = stops /\ starts' = starts
    <3>1. ReplicaCount(c)' = ReplicaCount(c)
      BY <2>4, CountLower DEF IInv
    <3> QED
      BY <2>1, <2>4, <3>1
  <2> QED
    BY <2>2, <2>3, <2>4
<1>3. FleetBound' /\ FleetFloor'
  BY <1>2, BoundAssumption DEF IInv, FleetBound, FleetFloor
<1>4. Exclusive'
  BY DEF IInv, Exclusive, Busy
<1>5. \A i \in Replica : status[i] = "absent" => status'[i] = "absent"
  BY DEF IInv, TypeOK, Container
<1>6. Unlaunched' /\ TargetKnown'
  BY <1>5 DEF IInv, Unlaunched, TargetKnown
<1>7. \A e \in Evaluators : pc[e] \notin {"idle", "next"} => PolicyOn[cur[e]] \in Parents
  BY IdAssumption DEF IInv, TypeOK
<1>8. Room' /\ Spare'
  <2>1. ASSUME NEW e \in Evaluators, pc[e] \in {"run", "record"}
        PROVE  ReplicaCount(PolicyOn[cur[e]])'
                 < MaxReplicasLimit + starts'[PolicyOn[cur[e]]]
    BY <1>2, <1>7, <2>1, BoundAssumption DEF IInv, Room
  <2>2. ASSUME NEW e \in Evaluators, pc[e] \in {"pick", "retire"}
        PROVE  ReplicaCount(PolicyOn[cur[e]])' + stops'[PolicyOn[cur[e]]] > InitMin
    BY <1>2, <1>7, <2>2, BoundAssumption DEF IInv, Spare
  <2> QED
    BY <2>1, <2>2 DEF Room, Spare
<1> QED
  BY <1>1, <1>3, <1>4, <1>6, <1>8 DEF IInv

\* The routes users call keep it.
LEMMA UserFleet ==
  ASSUME IInv, UserStep
  PROVE  IInv'
<1> USE DEF rowVars, policyVars, userVars, evalVars
<1>1. ASSUME NEW x \in Container, start_container(x) \/ stop_container(x)
      PROVE  IInv'
  <2>1. MinKept'
    BY <1>1 DEF start_container, stop_container, IInv, MinKept
  <2> QED
    BY <1>1, <2>1, RowStep DEF start_container, stop_container
<1>2. ASSUME NEW x \in Container, delete_container(x)
      PROVE  IInv'
  <2>1. \A p \in Policies : pstate'[p] = "live" => pstate[p] = "live" /\ policy'[p] = policy[p]
    BY <1>2 DEF delete_container, IInv, TypeOK
  <2>2. MinKept'
    BY <1>2, <2>1 DEF delete_container, IInv, MinKept
  <2> QED
    BY <1>2, <2>2, RowStep DEF delete_container
<1>3. ASSUME NEW p \in Policies,
             \/ CheckNoPolicy(p) \/ InsertPolicy(p) \/ update_scaling_policy(p)
             \/ toggle_scaling_policy(p) \/ delete_scaling_policy(p)
      PROVE  IInv'
  <2>1. UNCHANGED <<rowVars, evalVars, userVars>>
    BY <1>3 DEF CheckNoPolicy, InsertPolicy, update_scaling_policy, toggle_scaling_policy,
                delete_scaling_policy
  <2>2. ASSUME NEW c
        PROVE  ReplicaCount(c)' = ReplicaCount(c)
    BY <2>1, CountSame DEF Running, FamilyOf
  <2>3. TypeOK'
    BY UserType DEF IInv
  <2>4. \A q \in Policies : pstate'[q] = "live" => policy'[q].min >= InitMin
    <3>1. CASE CheckNoPolicy(p)
      BY <3>1 DEF CheckNoPolicy, IInv, MinKept
    <3>2. CASE InsertPolicy(p)
      <4>1. CASE pstate' = pstate /\ policy' = policy
        BY <4>1 DEF IInv, MinKept
      <4>2. CASE ~(pstate' = pstate /\ policy' = policy)
        <5>1. PICK s \in Settings :
                /\ pstate' = [pstate EXCEPT ![p] = "live"]
                /\ policy' = [policy EXCEPT ![p] = Overwritten(Blank, s, Fields)]
          BY <3>2, <4>2 DEF InsertPolicy
        <5>2. Overwritten(Blank, s, Fields).min = s.min
          BY RowTypes, OverwrittenRow DEF Fields
        <5> QED
          BY <5>1, <5>2, SeedAssumption DEF IInv, TypeOK, MinKept
      <4> QED
        BY <4>1, <4>2
    <3>3. CASE update_scaling_policy(p)
      <4>1. PICK u \in Settings \X SUBSET Fields :
              policy' = [policy EXCEPT ![p] = Overwritten(policy[p], u[1], u[2])]
        BY <3>3 DEF update_scaling_policy
      <4>2. u[1] \in Settings
        OBVIOUS
      <4>3. Overwritten(policy[p], u[1], u[2]).min \in {policy[p].min, u[1].min}
        BY <4>2, OverwrittenRow DEF IInv, TypeOK
      <4>4. pstate' = pstate /\ pstate[p] = "live"
        BY <3>3 DEF update_scaling_policy
      <4> QED
        BY <4>1, <4>2, <4>3, <4>4, SeedAssumption DEF IInv, TypeOK, MinKept
    <3>4. CASE toggle_scaling_policy(p)
      <4>1. ASSUME NEW r \in PolicyRow
            PROVE  [r EXCEPT !.enabled = ~@].min = r.min
        BY DEF PolicyRow
      <4>2. policy' = [policy EXCEPT ![p] = [policy[p] EXCEPT !.enabled = ~@]]
            /\ pstate' = pstate
        BY <3>4 DEF toggle_scaling_policy
      <4> QED
        BY <4>1, <4>2 DEF IInv, TypeOK, MinKept
    <3>5. CASE delete_scaling_policy(p)
      BY <3>5 DEF delete_scaling_policy, IInv, TypeOK, MinKept
    <3> QED
      BY <1>3, <3>1, <3>2, <3>3, <3>4, <3>5
  <2> QED
    BY <2>1, <2>2, <2>3, <2>4 DEF IInv, Exclusive, Busy, Unlaunched, TargetKnown, MinKept,
       Room, Spare, FleetBound, FleetFloor
<1> QED
  BY <1>1, <1>2, <1>3 DEF UserStep

\* A restart keeps it.
LEMMA CrashFleet ==
  ASSUME IInv, Crash
  PROVE  IInv'
<1> USE DEF rowVars, userVars
<1>1. TypeOK'
  BY RowTypes DEF Crash, IInv, TypeOK
<1>2. ASSUME NEW c
      PROVE  ReplicaCount(c)' = ReplicaCount(c)
  BY CountSame DEF Crash, Running, FamilyOf
<1>3. \A e \in Evaluators : pc'[e] = "idle" /\ \A p \in Policies : snap'[e][p] = Blank
  BY DEF Crash
<1> QED
  BY <1>1, <1>2, <1>3 DEF Crash, IInv, Exclusive, Busy, Unlaunched, TargetKnown, MinKept,
     Room, Spare, FleetBound, FleetFloor, Blank

\* Time keeps the types.
LEMMA TickType ==
  ASSUME TypeOK, Tick
  PROVE  TypeOK'
<1>1. /\ policy' \in [Policies -> PolicyRow]
      /\ snap' \in [Evaluators -> [Policies -> PolicyRow]]
  BY RowTypes DEF Tick, TypeOK
<1> QED
  BY <1>1 DEF Tick, TypeOK, rowVars, userVars

\* Time keeps the invariant.
LEMMA TickFleet ==
  ASSUME IInv, Tick
  PROVE  IInv'
<1> USE DEF rowVars, userVars
<1>1. TypeOK'
  BY TickType DEF IInv
<1>2. ASSUME NEW c
      PROVE  ReplicaCount(c)' = ReplicaCount(c)
  BY CountSame DEF Tick, Running, FamilyOf
<1>3. ASSUME NEW r \in PolicyRow
      PROVE  [r EXCEPT !.age = Older(@)].min = r.min
             /\ [r EXCEPT !.age = Older(@)].enabled = r.enabled
  BY DEF PolicyRow
<1>4. MinKept'
  <2>1. \A p \in Policies : policy'[p].min = policy[p].min
    <3>1. ASSUME NEW p \in Policies
          PROVE  policy'[p] = [policy[p] EXCEPT !.age = Older(@)] /\ policy[p] \in PolicyRow
      BY DEF Tick, IInv, TypeOK
    <3> QED
      BY <1>3, <3>1
  <2>2. \A e \in Evaluators, p \in Policies :
          snap'[e][p].min = snap[e][p].min /\ snap'[e][p].enabled = snap[e][p].enabled
    <3>1. ASSUME NEW e \in Evaluators, NEW p \in Policies
          PROVE  /\ snap'[e][p] = [snap[e][p] EXCEPT !.age = Older(@)]
                 /\ snap[e][p] \in PolicyRow
      BY DEF Tick, IInv, TypeOK
    <3> QED
      BY <1>3, <3>1
  <2> QED
    BY <2>1, <2>2 DEF Tick, IInv, MinKept
<1> QED
  BY <1>1, <1>2, <1>4 DEF Tick, IInv, Exclusive, Busy, Unlaunched, TargetKnown,
     Room, Spare, FleetBound, FleetFloor

-----------------------------------------------------------------------------
(* The theorems *)

\* IInv is inductive.
THEOREM FleetInvariant == Spec => []IInv
<1>1. IInv /\ [Next]_vars => IInv'
  <2> SUFFICES ASSUME IInv, [Next]_vars PROVE IInv'
    OBVIOUS
  <2>1. CASE \E e \in Evaluators : StartRound(e) \/ Step(e)
    BY <2>1, FleetStep
  <2>2. CASE UserStep
    BY <2>2, UserFleet
  <2>3. CASE Crash
    BY <2>3, CrashFleet
  <2>4. CASE Tick
    BY <2>4, TickFleet
  <2>5. CASE UNCHANGED vars
    <3>1. ASSUME NEW c
          PROVE  ReplicaCount(c)' = ReplicaCount(c)
      BY <2>5, CountSame DEF Running, FamilyOf, vars, rowVars
    <3> QED
      BY <2>5, <3>1 DEF vars, rowVars, policyVars, evalVars, userVars, IInv, TypeOK, Exclusive,
         Busy, Unlaunched, TargetKnown, MinKept, Room, Spare, FleetBound, FleetFloor
  <2> QED
    BY <2>1, <2>2, <2>3, <2>4, <2>5
    DEF Next, autoscaler_background_task, evaluate_policies_now
<1> QED
  BY FleetInit, <1>1, PTL DEF Spec

\* However many evaluators overlap, a family exceeds the schema's limit only by
\* the members its users started.
THEOREM FleetIsBounded == Spec => []FleetBound
<1>1. IInv => FleetBound
  BY DEF IInv
<1> QED
  BY <1>1, FleetInvariant, PTL

\* However many evaluators overlap, a family falls below the smallest minimum
\* only by the members its users stopped or deleted.
THEOREM FleetHasFloor == Spec => []FleetFloor
<1>1. IInv => FleetFloor
  BY DEF IInv
<1> QED
  BY <1>1, FleetInvariant, PTL

-----------------------------------------------------------------------------
(* AutoScaler implements Fleet *)

\* A step that leaves the rows and the users' counts alone is a stutter of Fleet.
LEMMA FleetStutter ==
  ASSUME UNCHANGED userVars, \A c \in Parents : Running(c)' = Running(c)
  PROVE  UNCHANGED F!fleetVars
<1>1. \A c \in Parents : ReplicaCount(c)' = ReplicaCount(c)
  BY CountSame
<1> QED
  BY <1>1 DEF F!fleetVars, userVars

\* A change of one family's count and one of the user counters is a change of
\* the mapped functions at that family.
LEMMA SizeRaised ==
  ASSUME NEW c \in Parents,
         \A d \in Parents :
           ReplicaCount(d)' = IF d = c THEN ReplicaCount(d) + 1 ELSE ReplicaCount(d)
  PROVE  [d \in Parents |-> ReplicaCount(d)]'
           = [[d \in Parents |-> ReplicaCount(d)] EXCEPT ![c] = @ + 1]
  OBVIOUS

\* How the abstract sizes change when one becomes smaller.
LEMMA SizeLowered ==
  ASSUME NEW c \in Parents,
         \A d \in Parents :
           ReplicaCount(d)' = IF d = c THEN ReplicaCount(d) - 1 ELSE ReplicaCount(d)
  PROVE  [d \in Parents |-> ReplicaCount(d)]'
           = [[d \in Parents |-> ReplicaCount(d)] EXCEPT ![c] = @ - 1]
  OBVIOUS

\* A step of an evaluator grows or shrinks one family, or none.
LEMMA EvaluatorRefines ==
  ASSUME IInv, NEW e \in Evaluators, StartRound(e) \/ Step(e)
  PROVE  [F!FleetNext]_F!fleetVars
<1> USE DEF rowVars
<1> DEFINE c == PolicyOn[cur[e]]
           t == target[e]
<1>1. CASE RecordReplica(e) \/ RetireReplica(e)
  <2>1. UNCHANGED <<family, userVars>> /\ pc[e] \in {"record", "retire"}
    BY <1>1 DEF RecordReplica, RetireReplica
  <2>2. c \in Parents /\ t \in Replica /\ t \in Container /\ FamilyOf(t) = c
    <3>1. cur[e] \in Policies
      BY <2>1 DEF IInv, TypeOK
    <3>2. t \in Replica /\ family[t] = c
      BY <2>1 DEF IInv, TargetKnown
    <3> QED
      BY <3>1, <3>2, IdAssumption, BoundAssumption DEF FamilyOf, Container, Replica
  <2>3. CASE RecordReplica(e)
    <3>1. status' = [status EXCEPT ![t] = "running"] /\ status[t] # "running"
      BY <2>3 DEF RecordReplica, IInv, TargetKnown
    <3>2. \A d \in Parents :
            ReplicaCount(d)' = IF d = c THEN ReplicaCount(d) + 1 ELSE ReplicaCount(d)
      BY <2>1, <2>2, <3>1, CountRaise DEF IInv
    <3>3. ReplicaCount(c) < MaxReplicasLimit + starts[c]
      BY <2>3 DEF RecordReplica, IInv, Room
    <3>4. F!Grow(c)
      BY <2>1, <2>2, <3>2, <3>3, SizeRaised DEF F!Grow, userVars
    <3> QED
      BY <2>2, <3>4 DEF F!FleetNext
  <2>4. CASE RetireReplica(e)
    <3>1. status' = [status EXCEPT ![t] = "stopped"]
      BY <2>4 DEF RetireReplica
    <3>2. \A d \in Parents :
            ReplicaCount(d)' = IF d = c /\ status[t] = "running"
                               THEN ReplicaCount(d) - 1 ELSE ReplicaCount(d)
      BY <2>1, <2>2, <3>1, CountLower DEF IInv
    <3>3. CASE status[t] = "running"
      <4>1. ReplicaCount(c) + stops[c] > InitMin
        BY <2>4 DEF RetireReplica, IInv, Spare
      <4>2. F!Shrink(c)
        BY <2>1, <2>2, <3>2, <3>3, <4>1, SizeLowered DEF F!Shrink, userVars
      <4> QED
        BY <2>2, <4>2 DEF F!FleetNext
    <3>4. CASE status[t] # "running"
      BY <2>1, <3>2, <3>4 DEF F!fleetVars, userVars
    <3> QED
      BY <3>3, <3>4
  <2> QED
    BY <1>1, <2>3, <2>4
<1>2. CASE RunReplica(e)
  <2>1. PICK i \in Replica : family[i] = None /\ family' = [family EXCEPT ![i] = c]
    BY <1>2 DEF RunReplica
  <2>2. status' = status /\ status[i] = "absent" /\ UNCHANGED userVars
    BY <1>2, <2>1 DEF RunReplica, IInv, Unlaunched
  <2>3. \A x \in Container : status[x] = "running" => FamilyOf(x)' = FamilyOf(x)
    BY <2>1, <2>2 DEF FamilyOf, Container, IInv, TypeOK
  <2> QED
    BY <2>2, <2>3, FleetStutter DEF Running
<1>3. CASE ~(RecordReplica(e) \/ RetireReplica(e) \/ RunReplica(e))
  <2>1. UNCHANGED <<status, family, userVars>>
    BY <1>3 DEF StartRound, Step, EndRound, AbortRound, SkipPolicy, SamplePolicy, Decide,
       RunFails, RecordFails, PickReplica, RetireFails
  <2> QED
    BY <2>1, FleetStutter DEF Running, FamilyOf
<1> QED
  BY <1>1, <1>2, <1>3

\* A step of a user makes one member join or depart, or none.
LEMMA UserRefines ==
  ASSUME IInv, UserStep
  PROVE  [F!FleetNext]_F!fleetVars
<1> USE DEF rowVars, policyVars, evalVars
<1>1. ASSUME NEW x \in Container,
             start_container(x) \/ stop_container(x) \/ delete_container(x)
      PROVE  [F!FleetNext]_F!fleetVars
  <2> DEFINE c == FamilyOf(x)
  <2>1. family' = family /\ status[x] # "absent"
    BY <1>1 DEF start_container, stop_container, delete_container
  <2>2. c \in Parents
    BY <2>1 DEF FamilyOf, Container, IInv, TypeOK, Unlaunched
  <2>3. starts \in [Parents -> Nat] /\ stops \in [Parents -> Nat]
    BY BoundAssumption DEF IInv, TypeOK
  <2>4. CASE start_container(x)
    <3>1. /\ status[x] # "running" /\ status' = [status EXCEPT ![x] = "running"]
          /\ starts' = [starts EXCEPT ![c] = @ + 1] /\ stops' = stops
      BY <2>4 DEF start_container
    <3>2. \A d \in Parents :
            ReplicaCount(d)' = IF d = c THEN ReplicaCount(d) + 1 ELSE ReplicaCount(d)
      BY <2>1, <3>1, CountRaise DEF IInv
    <3>3. F!Join(c)
      BY <2>2, <3>1, <3>2, SizeRaised DEF F!Join
    <3> QED
      BY <2>2, <3>3 DEF F!FleetNext
  <2>5. CASE stop_container(x) \/ delete_container(x)
    <3>1. /\ \E v \in {"stopped", "absent"} : status' = [status EXCEPT ![x] = v]
          /\ starts' = starts
          /\ stops' = IF status[x] = "running" THEN [stops EXCEPT ![c] = @ + 1] ELSE stops
      BY <2>5 DEF stop_container, delete_container
    <3>2. \A d \in Parents :
            ReplicaCount(d)' = IF d = c /\ status[x] = "running"
                               THEN ReplicaCount(d) - 1 ELSE ReplicaCount(d)
      BY <2>1, <3>1, CountLower DEF IInv
    <3>3. CASE status[x] = "running"
      <4>1. ReplicaCount(c) > 0
        <5>1. x \in Running(c)
          BY <3>3 DEF Running
        <5> QED
          BY <5>1, RunningFinite, FS_EmptySet DEF ReplicaCount, IInv
      <4>2. F!Depart(c)
        BY <2>2, <3>1, <3>2, <3>3, <4>1, SizeLowered DEF F!Depart
      <4> QED
        BY <2>2, <4>2 DEF F!FleetNext
    <3>4. CASE status[x] # "running"
      BY <3>1, <3>2, <3>4 DEF F!fleetVars
    <3> QED
      BY <3>3, <3>4
  <2> QED
    BY <1>1, <2>4, <2>5
<1>2. ASSUME NEW p \in Policies,
             \/ CheckNoPolicy(p) \/ InsertPolicy(p) \/ update_scaling_policy(p)
             \/ toggle_scaling_policy(p) \/ delete_scaling_policy(p)
      PROVE  [F!FleetNext]_F!fleetVars
  <2>1. UNCHANGED <<rowVars, userVars>>
    BY <1>2 DEF CheckNoPolicy, InsertPolicy, update_scaling_policy, toggle_scaling_policy,
                delete_scaling_policy
  <2> QED
    BY <2>1, FleetStutter DEF Running, FamilyOf
<1> QED
  BY <1>1, <1>2 DEF UserStep

\* For all constants: every step of the scaler, of its faults and of its users
\* is one step of Fleet or none.
THEOREM FleetRefinement == Spec => ImplementsFleet
<1>1. Init => F!FleetInit
  <2> SUFFICES ASSUME Init PROVE F!FleetInit
    OBVIOUS
  <2>1. \A c \in Parents : ReplicaCount(c) \in InitMin..MaxReplicasLimit
    BY InitCounts
  <2> QED
    BY <2>1 DEF Init, F!FleetInit
<1>2. IInv /\ [Next]_vars => [F!FleetNext]_F!fleetVars
  <2> SUFFICES ASSUME IInv, [Next]_vars PROVE [F!FleetNext]_F!fleetVars
    OBVIOUS
  <2>1. CASE \E e \in Evaluators : StartRound(e) \/ Step(e)
    BY <2>1, EvaluatorRefines
  <2>2. CASE UserStep
    BY <2>2, UserRefines
  <2>3. CASE Crash \/ Tick \/ UNCHANGED vars
    <3>1. UNCHANGED <<rowVars, userVars>>
      BY <2>3 DEF Crash, Tick, vars
    <3> QED
      BY <3>1, FleetStutter DEF Running, FamilyOf, rowVars
  <2> QED
    BY <2>1, <2>2, <2>3 DEF Next, autoscaler_background_task, evaluate_policies_now
<1> QED
  BY <1>1, <1>2, FleetInvariant, PTL DEF Spec, ImplementsFleet, F!FleetSpec
=============================================================================
