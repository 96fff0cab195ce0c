----------------------------- MODULE MirrorProofs -----------------------------
(***************************************************************************)
(* Rows and docker containers of replicas under AutoScaler agree, for any  *)
(* number of evaluators, policies and parents, on either database, as long *)
(* as RowsFollowDocker; and whatever fails and whatever users do, there    *)
(* are five ways to lose one and no other.                                 *)
(***************************************************************************)
EXTENDS FleetProofs

\* The initial states satisfy the invariant.
LEMMA MirrorInit == Init => MirrorInv
<1> SUFFICES ASSUME Init PROVE MirrorInv
  OBVIOUS
<1>1. TypeOK /\ Exclusive /\ Unlaunched
  BY FleetInit DEF IInv
<1>2. InFlight /\ RoundLive
  BY DEF Init, InFlight, RoundLive
<1>3. ASSUME NEW i \in Replica
      PROVE  /\ docker[i] = "up" <=> status[i] = "running"
             /\ family[i] = None => docker[i] = "none"
  <2>1. i \in Container /\ i \notin Parents
    BY IdAssumption, BoundAssumption DEF Replica, Container
  <2>2. i \in 1..Len(Seeded) <=> i <= Len(Seeded)
    BY SeedAssumption, BoundAssumption DEF Replica
  <2>3. i <= Len(Seeded) => family[i] = Seeded[i] /\ Seeded[i] \in Parents
    BY <2>2, SeedAssumption DEF Init
  <2> QED
    BY <2>1, <2>2, <2>3, IdAssumption DEF Init
<1> QED
  BY <1>1, <1>2, <1>3 DEF MirrorInv, FleetMirrorsDocker

\* Whoever has a replica in hand is between a docker command and the commit.
InHands == \A f \in Evaluators : target[f] # None => pc[f] \in {"record", "retire"}

\* The evaluators that do not take the step stay where they are, at an await
\* and with no replica in flight.
LEMMA Bystanders ==
  ASSUME TypeOK, Exclusive, InHands, NEW e \in Evaluators, StartRound(e) \/ Step(e),
         NEW f \in Evaluators \ {e}
  PROVE  /\ pc'[f] = pc[f] /\ pc[f] \in {"idle", "sampling"}
         /\ target[f] = None /\ target'[f] = None
         /\ cur'[f] = cur[f] /\ queue'[f] = queue[f]
<1>1. pc'[f] = pc[f] /\ pc[f] \in {"idle", "sampling"}
  BY Alone DEF Busy
<1>2. target[f] = None
  BY <1>1 DEF InHands
<1> DEFINE Only(t, c, q) == /\ target' = [target EXCEPT ![e] = t]
                            /\ cur' = [cur EXCEPT ![e] = c]
                            /\ queue' = [queue EXCEPT ![e] = q]
<1>3. \E t, c, q : Only(t, c, q)
  <2>1. /\ target = [target EXCEPT ![e] = target[e]]
        /\ cur = [cur EXCEPT ![e] = cur[e]]
        /\ queue = [queue EXCEPT ![e] = queue[e]]
    BY DEF TypeOK
  <2>2. ASSUME NEW tx \in BOOLEAN, Leave(e, tx)
        PROVE  \E t, c, q : Only(t, c, q)
    BY <2>2 DEF Leave
  <2>3. CASE StartRound(e) \/ EndRound(e) \/ \E p \in Policies : AbortRound(e, p)
    BY <2>1, <2>3 DEF StartRound, EndRound, AbortRound, Idle
  <2>4. ASSUME NEW p \in Policies, SkipPolicy(e, p) \/ SamplePolicy(e, p)
        PROVE  \E t, c, q : Only(t, c, q)
    <3>1. CASE SkipPolicy(e, p)
      <4>1. target' = target /\ cur' = cur /\ queue' = [queue EXCEPT ![e] = queue[e] \ {p}]
        BY <3>1 DEF SkipPolicy
      <4> QED
        BY <2>1, <4>1
    <3>2. CASE SamplePolicy(e, p)
      <4>1. /\ target' = [target EXCEPT ![e] = target[e]]
            /\ cur' = [cur EXCEPT ![e] = p]
            /\ queue' = [queue EXCEPT ![e] = queue[e]]
        BY <2>1, <3>2 DEF SamplePolicy
      <4> QED
        BY <4>1
    <3> QED
      BY <2>4, <3>1, <3>2
  <2>5. CASE Decide(e)
    <3>1. Leave(e, FALSE) \/ UNCHANGED <<target, cur, queue>>
      BY <2>5 DEF Decide
    <3>2. UNCHANGED <<target, cur, queue>> => Only(target[e], cur[e], queue[e])
      BY <2>1
    <3> QED
      BY <2>2, <3>1, <3>2
  <2>6. CASE RunFails(e) \/ RecordReplica(e) \/ RecordFails(e)
             \/ RetireReplica(e) \/ RetireFails(e)
    BY <2>2, <2>6 DEF RunFails, RecordReplica, RecordFails, RetireReplica, RetireFails
  <2>7. CASE RunReplica(e) \/ PickReplica(e)
    <3>1. \/ Leave(e, FALSE)
          \/ \E i : /\ target' = [target EXCEPT ![e] = i]
                    /\ cur' = [cur EXCEPT ![e] = cur[e]]
                    /\ queue' = [queue EXCEPT ![e] = queue[e]]
      BY <2>1, <2>7 DEF RunReplica, PickReplica
    <3> QED
      BY <2>2, <3>1
  <2> QED
    BY <2>3, <2>4, <2>5, <2>6, <2>7 DEF Step
<1> QED
  BY <1>1, <1>2, <1>3 DEF TypeOK

\* The steps that neither run, remove nor record a replica have none in hand.
LEMMA EmptyHanded ==
  ASSUME TypeOK, InHands, NEW e \in Evaluators,
         \/ StartRound(e) \/ EndRound(e) \/ Decide(e) \/ RunFails(e)
         \/ \E p \in Policies : AbortRound(e, p) \/ SkipPolicy(e, p) \/ SamplePolicy(e, p)
  PROVE  /\ UNCHANGED <<status, family, index, docker, pstate>>
         /\ target[e] = None /\ target'[e] = None
         /\ pc'[e] \notin {"record", "retire"}
<1>1. UNCHANGED <<status, family, index, docker, pstate>>
  BY DEF StartRound, EndRound, Decide, RunFails, AbortRound, SkipPolicy, SamplePolicy,
     rowVars, policyVars
<1>2. target[e] = None /\ pc[e] \notin {"record", "retire"}
  <2>1. pc[e] \notin {"record", "retire"}
    BY DEF StartRound, EndRound, Decide, RunFails, AbortRound, SkipPolicy, SamplePolicy, Access
  <2> QED
    BY <2>1 DEF InHands
<1>3. CASE \/ StartRound(e) \/ EndRound(e)
           \/ \E p \in Policies : AbortRound(e, p) \/ SkipPolicy(e, p) \/ SamplePolicy(e, p)
  <2>1. target' = target
    BY <1>3 DEF StartRound, EndRound, AbortRound, SkipPolicy, SamplePolicy
  <2>2. pc'[e] \in {"idle", "next", "sampling", "decide"}
    BY <1>3 DEF StartRound, EndRound, AbortRound, Idle, SkipPolicy, SamplePolicy, Access, TypeOK
  <2> QED
    BY <1>1, <1>2, <2>1, <2>2
<1>4. CASE RunFails(e) \/ Decide(e)
  <2>1. \/ Leave(e, FALSE)
        \/ pc'[e] \in {"run", "pick"} /\ target' = target
    BY <1>4 DEF RunFails, Decide, TypeOK
  <2>2. Leave(e, FALSE) => pc'[e] = "next" /\ target'[e] = None
    BY DEF Leave, TypeOK
  <2> QED
    BY <1>1, <1>2, <2>1, <2>2
<1> QED
  BY <1>3, <1>4

\* What is left to show of a step of e: the facts about e itself.
LEMMA MirrorFrame ==
  ASSUME MirrorInv, NEW e \in Evaluators, StartRound(e) \/ Step(e), pstate' = pstate,
         \A p \in queue'[e] : pstate[p] = "live",
         pc'[e] \notin {"idle", "next"} => pstate[cur'[e]] = "live",
         target'[e] # None => pc'[e] \in {"record", "retire"},
         pc'[e] = "record" => /\ target'[e] \in Replica
                              /\ docker'[target'[e]] = "up" /\ status'[target'[e]] = "absent",
         pc'[e] = "retire" => /\ target'[e] \in Replica
                              /\ docker'[target'[e]] = "none"
                              /\ status'[target'[e]] = "running",
         \A i \in Replica : target'[e] # i => (docker'[i] = "up" <=> status'[i] = "running"),
         \A i \in Replica : family'[i] = None => status'[i] = "absent" /\ docker'[i] = "none"
  PROVE  MirrorInv'
<1>1. TypeOK' /\ Exclusive'
  BY StepType, Alone DEF MirrorInv
<1>2. Unlaunched' /\ FleetMirrorsDocker'
  BY DEF Unlaunched, FleetMirrorsDocker
<1>3. InFlight'
  BY Bystanders DEF MirrorInv, InFlight, InHands
<1>4. RoundLive'
  BY Bystanders DEF RoundLive, MirrorInv, InFlight, InHands
<1> QED
  BY <1>1, <1>2, <1>3, <1>4 DEF MirrorInv
\* The steps of evaluators keep it, as long as commits and removals succeed.
LEMMA MirrorStep ==
  ASSUME RowsFollowDocker, MirrorInv, NEW e \in Evaluators, StartRound(e) \/ Step(e)
  PROVE  MirrorInv'
<1> USE DEF rowVars, policyVars
<1> DEFINE t == target[e]
<1>1. pc[e] \notin {"record", "retire"} => t = None
  BY DEF MirrorInv, InFlight
<1>2. \A tx \in BOOLEAN : Leave(e, tx) =>
        pc'[e] = "next" /\ target'[e] = None /\ queue'[e] = queue[e] \ {cur[e]}
  BY DEF Leave, MirrorInv, TypeOK
<1>3. CASE \/ StartRound(e) \/ EndRound(e) \/ Decide(e) \/ RunFails(e)
           \/ \E p \in Policies : AbortRound(e, p) \/ SkipPolicy(e, p) \/ SamplePolicy(e, p)
  <2>2. /\ UNCHANGED <<status, family, docker, pstate>>
        /\ t = None /\ target'[e] = None /\ pc'[e] \notin {"record", "retire"}
    BY <1>3, EmptyHanded DEF MirrorInv, InFlight, InHands
  <2>3. /\ \A p \in queue'[e] : pstate[p] = "live"
        /\ pc'[e] \notin {"idle", "next"} => pstate[cur'[e]] = "live"
    <3>1. CASE StartRound(e)
      BY <3>1 DEF StartRound, MirrorInv, TypeOK
    <3>2. CASE EndRound(e) \/ \E p \in Policies : AbortRound(e, p)
      BY <3>2 DEF EndRound, AbortRound, Idle, MirrorInv, TypeOK
    <3>3. ASSUME NEW p \in Policies, SkipPolicy(e, p)
          PROVE  /\ \A q \in queue'[e] : pstate[q] = "live"
                 /\ pc'[e] \notin {"idle", "next"} => pstate[cur'[e]] = "live"
      BY <3>3 DEF SkipPolicy, Access, MirrorInv, TypeOK, RoundLive
    <3>4. ASSUME NEW p \in Policies, SamplePolicy(e, p)
          PROVE  /\ \A q \in queue'[e] : pstate[q] = "live"
                 /\ pc'[e] \notin {"idle", "next"} => pstate[cur'[e]] = "live"
      BY <3>4 DEF SamplePolicy, Access, MirrorInv, TypeOK, RoundLive
    <3>5. CASE RunFails(e)
      BY <1>2, <3>5 DEF RunFails, MirrorInv, RoundLive
    <3>6. CASE Decide(e)
      <4>1. Leave(e, FALSE) \/ (cur' = cur /\ queue' = queue)
        BY <3>6 DEF Decide
      <4>2. pc[e] \notin {"idle", "next"}
        BY <3>6 DEF Decide
      <4> QED
        BY <1>2, <4>1, <4>2 DEF MirrorInv, RoundLive
    <3> QED
      BY <1>3, <3>1, <3>2, <3>3, <3>4, <3>5, <3>6
  <2>4. \A i \in Replica : docker[i] = "up" <=> status[i] = "running"
    <3>1. \A f \in Evaluators : target[f] = None
      BY <2>2, Bystanders DEF MirrorInv, InFlight, InHands
    <3>2. \A i \in Replica : i # None
      BY IdAssumption, BoundAssumption DEF Replica
    <3> QED
      BY <3>1, <3>2 DEF MirrorInv, FleetMirrorsDocker
  <2> QED
    BY <2>2, <2>3, <2>4, MirrorFrame DEF MirrorInv, Unlaunched
<1>4. \A i \in Replica : t # i => (docker[i] = "up" <=> status[i] = "running")
  <2>1. \A f \in Evaluators \ {e} : target[f] = None
    BY Bystanders DEF MirrorInv, InFlight, InHands
  <2>2. \A i \in Replica : i # None
    BY IdAssumption, BoundAssumption DEF Replica
  <2> QED
    BY <2>1, <2>2 DEF MirrorInv, FleetMirrorsDocker
<1>5. Replica \subseteq Container /\ \A i \in Replica : i # None
  BY IdAssumption, BoundAssumption DEF Replica, Container
<1>6. pc[e] \notin {"idle", "next"} => pstate[cur[e]] = "live" /\ PolicyOn[cur[e]] \in Parents
  BY IdAssumption DEF MirrorInv, RoundLive, TypeOK
<1>7. CASE RunReplica(e)
  <2>1. PICK i \in Replica :
          /\ family[i] = None /\ family' = [family EXCEPT ![i] = PolicyOn[cur[e]]]
          /\ \/ /\ docker' = [docker EXCEPT ![i] = "down"]
                /\ Leave(e, FALSE)
             \/ /\ docker' = [docker EXCEPT ![i] = "up"]
                /\ pc' = [pc EXCEPT ![e] = "record"]
                /\ target' = [target EXCEPT ![e] = i]
                /\ UNCHANGED <<queue, cur>>
    BY <1>7 DEF RunReplica
  <2>2. pc[e] = "run" /\ t = None /\ status' = status /\ pstate' = pstate
    BY <1>1, <1>7 DEF RunReplica
  <2>3. status[i] = "absent" /\ docker[i] = "none"
    BY <2>1 DEF MirrorInv, Unlaunched
  <2>4. \A j \in Replica : family'[j] = None => status'[j] = "absent" /\ docker'[j] = "none"
    BY <1>5, <1>6, <2>1, <2>2, IdAssumption DEF MirrorInv, Unlaunched, TypeOK
  <2>5. CASE docker' = [docker EXCEPT ![i] = "down"] /\ Leave(e, FALSE)
    <3>1. \A j \in Replica : docker'[j] = "up" <=> status'[j] = "running"
      BY <1>4, <1>5, <2>2, <2>3, <2>5 DEF MirrorInv, TypeOK
    <3>2. \A p \in queue'[e] : pstate[p] = "live"
      BY <1>2, <2>5 DEF MirrorInv, RoundLive
    <3> QED
      BY <1>2, <2>2, <2>4, <2>5, <3>1, <3>2, MirrorFrame
  <2>6. CASE /\ docker' = [docker EXCEPT ![i] = "up"]
             /\ pc' = [pc EXCEPT ![e] = "record"]
             /\ target' = [target EXCEPT ![e] = i]
             /\ UNCHANGED <<queue, cur>>
    <3>1. pc'[e] = "record" /\ target'[e] = i /\ docker'[i] = "up"
      BY <2>6 DEF MirrorInv, TypeOK
    <3>2. \A j \in Replica : i # j => (docker'[j] = "up" <=> status'[j] = "running")
      BY <1>4, <1>5, <2>2, <2>6 DEF MirrorInv, TypeOK
    <3>3. (\A p \in queue'[e] : pstate[p] = "live") /\ pstate[cur'[e]] = "live"
      BY <1>6, <2>2, <2>6 DEF MirrorInv, RoundLive
    <3> QED
      BY <2>2, <2>3, <2>4, <3>1, <3>2, <3>3, MirrorFrame
  <2> QED
    BY <2>1, <2>5, <2>6
<1>8. CASE RecordReplica(e) \/ RetireReplica(e)
  <2>1. pc[e] \in {"record", "retire"} /\ Leave(e, TRUE)
        /\ UNCHANGED <<family, docker, pstate>>
    BY <1>8 DEF RecordReplica, RetireReplica
  <2>2. /\ t \in Replica
        /\ status' = [status EXCEPT ![t] = IF docker[t] = "up" THEN "running" ELSE "stopped"]
        /\ docker[t] = "up" \/ docker[t] = "none"
    BY <1>8 DEF RecordReplica, RetireReplica, MirrorInv, InFlight
  <2>3. \A i \in Replica : docker'[i] = "up" <=> status'[i] = "running"
    BY <1>4, <1>5, <2>1, <2>2 DEF MirrorInv, TypeOK
  <2>4. \A i \in Replica : family'[i] = None => status'[i] = "absent" /\ docker'[i] = "none"
    <3>1. family[t] # None
      BY <2>1, <2>2 DEF MirrorInv, InFlight, Unlaunched
    <3> QED
      BY <1>5, <2>1, <2>2, <3>1 DEF MirrorInv, Unlaunched, TypeOK
  <2>5. \A p \in queue'[e] : pstate[p] = "live"
    BY <1>2, <2>1 DEF MirrorInv, RoundLive
  <2> QED
    BY <1>2, <2>1, <2>3, <2>4, <2>5, MirrorFrame
<1>9. CASE PickReplica(e)
  <2>1. /\ pc[e] = "pick" /\ t = None /\ UNCHANGED <<status, family, pstate>>
        /\ "stop" \notin Faults
    BY <1>1, <1>9 DEF PickReplica, RowsFollowDocker
  <2>2. \/ Leave(e, FALSE) /\ docker' = docker
        \/ \E i \in RunningReplicas(PolicyOn[cur[e]]) :
             /\ docker' = [docker EXCEPT ![i] = "none"]
             /\ target' = [target EXCEPT ![e] = i]
             /\ pc' = [pc EXCEPT ![e] = "retire"]
             /\ UNCHANGED <<queue, cur>>
    BY <1>9, <2>1 DEF PickReplica, Newest
  <2>3. CASE Leave(e, FALSE) /\ docker' = docker
    <3>1. \A j \in Replica : docker'[j] = "up" <=> status'[j] = "running"
      BY <1>4, <1>5, <2>1, <2>3
    <3>2. \A p \in queue'[e] : pstate[p] = "live"
      BY <1>2, <2>3 DEF MirrorInv, RoundLive
    <3> QED
      BY <1>2, <2>1, <2>3, <3>1, <3>2, MirrorFrame DEF MirrorInv, Unlaunched
  <2>4. ASSUME NEW i \in RunningReplicas(PolicyOn[cur[e]]),
               docker' = [docker EXCEPT ![i] = "none"],
               target' = [target EXCEPT ![e] = i],
               pc' = [pc EXCEPT ![e] = "retire"],
               UNCHANGED <<queue, cur>>
        PROVE  MirrorInv'
    <3>1. i \in Replica /\ status[i] = "running"
      BY DEF RunningReplicas
    <3>2. pc'[e] = "retire" /\ target'[e] = i /\ docker'[i] = "none"
      BY <2>4, <3>1 DEF MirrorInv, TypeOK
    <3>3. \A j \in Replica : i # j => (docker'[j] = "up" <=> status'[j] = "running")
      BY <1>4, <1>5, <2>1, <2>4 DEF MirrorInv, TypeOK
    <3>4. (\A p \in queue'[e] : pstate[p] = "live") /\ pstate[cur'[e]] = "live"
      BY <1>6, <2>1, <2>4 DEF MirrorInv, RoundLive
    <3>5. \A j \in Replica : family'[j] = None => status'[j] = "absent" /\ docker'[j] = "none"
      BY <2>1, <2>4, <3>1 DEF MirrorInv, Unlaunched, TypeOK
    <3> QED
      BY <2>1, <3>1, <3>2, <3>3, <3>4, <3>5, MirrorFrame
  <2> QED
    BY <2>2, <2>3, <2>4
<1>10. ~RecordFails(e) /\ ~RetireFails(e)
  BY <1>6 DEF RecordFails, RetireFails, CommitFails, RowsFollowDocker, MirrorInv, InFlight
<1> QED
  BY <1>3, <1>7, <1>8, <1>9, <1>10 DEF Step

\* The routes users still call keep it.
LEMMA MirrorUser ==
  ASSUME RowsFollowDocker, MirrorInv, UserStep
  PROVE  MirrorInv'
<1> USE DEF rowVars, policyVars, evalVars
<1>1. PICK p \in Policies :
        CheckNoPolicy(p) \/ InsertPolicy(p) \/ update_scaling_policy(p)
        \/ toggle_scaling_policy(p)
  BY DEF UserStep, RowsFollowDocker, start_container, stop_container, delete_container,
     delete_scaling_policy
<1>2. UNCHANGED <<status, family, docker, evalVars>>
  BY <1>1 DEF CheckNoPolicy, InsertPolicy, update_scaling_policy, toggle_scaling_policy
<1>3. pstate' = pstate \/ pstate' = [pstate EXCEPT ![p] = "live"]
  BY <1>1 DEF CheckNoPolicy, InsertPolicy, update_scaling_policy, toggle_scaling_policy
<1>4. TypeOK'
  BY UserType DEF MirrorInv
<1>5. \A q \in Policies : pstate[q] = "live" => pstate'[q] = "live"
  BY <1>3 DEF MirrorInv, TypeOK
<1>6. RoundLive'
  BY <1>2, <1>5 DEF MirrorInv, RoundLive, TypeOK
<1> QED
  BY <1>2, <1>4, <1>6
  DEF MirrorInv, Exclusive, Busy, Unlaunched, InFlight, FleetMirrorsDocker

\* While the rows follow docker, a replica that no evaluator is working on runs
\* in the database exactly when its container is up.
THEOREM RowsMatchDocker ==
  ASSUME RowsFollowDocker
  PROVE  Spec => []FleetMirrorsDocker
<1>1. MirrorInv /\ [Next]_vars => MirrorInv'
  <2> SUFFICES ASSUME MirrorInv, [Next]_vars PROVE MirrorInv'
    OBVIOUS
  <2>1. CASE \E e \in Evaluators : StartRound(e) \/ Step(e)
    BY <2>1, MirrorStep
  <2>2. CASE UserStep
    BY <2>2, MirrorUser
  <2>3. ~Crash
    BY DEF Crash, RowsFollowDocker
  <2>4. CASE Tick
    <3>1. TypeOK'
      BY <2>4, TickType DEF MirrorInv
    <3> QED
      BY <2>4, <3>1 DEF Tick, rowVars, userVars, MirrorInv, Exclusive, Busy, Unlaunched,
         InFlight, RoundLive, FleetMirrorsDocker
  <2>5. CASE UNCHANGED vars
    BY <2>5 DEF vars, rowVars, policyVars, evalVars, userVars, MirrorInv, TypeOK, Exclusive,
       Busy, Unlaunched, InFlight, RoundLive, FleetMirrorsDocker
  <2> QED
    BY <2>1, <2>2, <2>3, <2>4, <2>5
    DEF Next, autoscaler_background_task, evaluate_policies_now
<1>2. MirrorInv => FleetMirrorsDocker
  BY DEF MirrorInv
<1> QED
  BY MirrorInit, <1>1, <1>2, PTL DEF Spec

-----------------------------------------------------------------------------
(* How a replica is lost when anything may fail *)

\* At the start nobody has a replica in hand and docker has only the seeds.
LEMMA HeldInit == Init => Held
<1> SUFFICES ASSUME Init PROVE Held
  OBVIOUS
<1>1. ASSUME NEW i \in Replica, family[i] = None
      PROVE  docker[i] = "none"
  <2>1. i \in 1..Len(Seeded) <=> i <= Len(Seeded)
    BY SeedAssumption, BoundAssumption DEF Replica
  <2>2. i <= Len(Seeded) => family[i] = Seeded[i] /\ Seeded[i] \in Parents
    BY <2>1, SeedAssumption DEF Init
  <2> QED
    BY <1>1, <2>2, IdAssumption DEF Init
<1> QED
  BY <1>1 DEF Init, Held

\* The commit that e is at fails, or docker failed at what it retires.
Fumbled(e, i) ==
  /\ target[e] = i
  /\ RecordFails(e) \/ RetireFails(e) \/ (RetireReplica(e) /\ docker[i] = "up")

\* A step of an evaluator keeps Held, and loses a replica only where it says.
LEMMA HeldStep ==
  ASSUME IInv, Held, NEW e \in Evaluators, StartRound(e) \/ Step(e)
  PROVE  /\ Held'
         /\ \A i \in Replica : ~Estranged(i) /\ Estranged(i)' => Fumbled(e, i)
<1> USE DEF rowVars
<1> DEFINE t == target[e]
           LostRight == \A i \in Replica : ~Estranged(i) /\ Estranged(i)' => Fumbled(e, i)
<1>1. TypeOK /\ Exclusive /\ InHands
  BY DEF IInv, Held, InHands
<1>2. \A f \in Evaluators \ {e} :
        /\ pc'[f] = pc[f] /\ pc[f] \notin {"record", "retire"}
        /\ target[f] = None /\ target'[f] = None
  BY <1>1, Bystanders
<1>3. Replica \subseteq Container /\ \A i \in Replica : i # None
  BY IdAssumption, BoundAssumption DEF Replica, Container
<1>4. pc[e] \notin {"record", "retire"} => t = None
  BY <1>1 DEF InHands
<1>5. \A tx \in BOOLEAN : Leave(e, tx) => pc'[e] = "next" /\ target'[e] = None
  BY <1>1 DEF Leave, TypeOK
\* Held' is about e alone.
<1>6. ASSUME target'[e] # None => pc'[e] \in {"record", "retire"},
             pc'[e] = "record" => docker'[target'[e]] = "up",
             pc'[e] = "retire" => target'[e] \in Replica,
             \A i \in Replica : family'[i] = None => docker'[i] = "none"
      PROVE  Held'
  BY <1>2, <1>6 DEF Held
\* A replica e has neither before nor after is lost only if row or docker moves.
<1>7. ASSUME NEW i \in Replica, t # i, docker'[i] = docker[i], status'[i] = status[i],
             ~Estranged(i), Estranged(i)'
      PROVE  FALSE
  BY <1>2, <1>3, <1>7 DEF Estranged
<1>8. CASE \/ StartRound(e) \/ EndRound(e) \/ Decide(e) \/ RunFails(e)
           \/ \E p \in Policies : AbortRound(e, p) \/ SkipPolicy(e, p) \/ SamplePolicy(e, p)
  <2>1. /\ UNCHANGED <<status, family, docker>>
        /\ t = None /\ target'[e] = None /\ pc'[e] \notin {"record", "retire"}
    BY <1>1, <1>8, EmptyHanded
  <2>2. Held'
    BY <1>6, <2>1 DEF Held
  <2>3. LostRight
    BY <1>3, <1>7, <2>1
  <2> QED
    BY <2>2, <2>3
<1>9. CASE RunReplica(e)
  <2>1. PICK i \in Replica :
          /\ family[i] = None /\ family' = [family EXCEPT ![i] = PolicyOn[cur[e]]]
          /\ \/ docker' = [docker EXCEPT ![i] = "down"] /\ Leave(e, FALSE)
             \/ /\ docker' = [docker EXCEPT ![i] = "up"]
                /\ pc' = [pc EXCEPT ![e] = "record"]
                /\ target' = [target EXCEPT ![e] = i]
    BY <1>9 DEF RunReplica
  <2>2. /\ t = None /\ status' = status /\ PolicyOn[cur[e]] \in Parents
        /\ status[i] = "absent" /\ docker[i] = "none"
    <3>1. pc[e] = "run" /\ status' = status
      BY <1>9 DEF RunReplica
    <3>2. PolicyOn[cur[e]] \in Parents
      BY <1>1, <3>1, IdAssumption DEF TypeOK
    <3>3. status[i] = "absent" /\ docker[i] = "none"
      BY <2>1 DEF IInv, Unlaunched, Held
    <3> QED
      BY <1>4, <3>1, <3>2, <3>3
  <2>3. \A j \in Replica : family'[j] = None => docker'[j] = "none"
    <3>1. \A j \in Replica \ {i} : family'[j] = family[j] /\ docker'[j] = docker[j]
      BY <1>1, <2>1 DEF TypeOK
    <3>2. family'[i] # None
      BY <1>1, <2>1, <2>2, IdAssumption DEF TypeOK
    <3> QED
      BY <3>1, <3>2 DEF Held
  <2>4. \A j \in Replica \ {i} : docker'[j] = docker[j]
    BY <1>1, <2>1 DEF TypeOK
  <2>5. CASE docker' = [docker EXCEPT ![i] = "down"] /\ Leave(e, FALSE)
    <3>1. docker'[i] = "down" /\ ~Estranged(i)'
      BY <1>1, <2>1, <2>2, <2>5 DEF TypeOK, Estranged
    <3>2. LostRight
      BY <1>3, <1>7, <2>2, <2>4, <3>1
    <3> QED
      BY <1>5, <1>6, <2>3, <2>5, <3>2
  <2>6. CASE /\ docker' = [docker EXCEPT ![i] = "up"]
             /\ pc' = [pc EXCEPT ![e] = "record"]
             /\ target' = [target EXCEPT ![e] = i]
    <3>1. docker'[i] = "up" /\ pc'[e] = "record" /\ target'[e] = i
      BY <1>1, <2>1, <2>6 DEF TypeOK
    <3>2. ~Estranged(i)'
      BY <3>1 DEF Estranged
    <3>3. LostRight
      BY <1>3, <1>7, <2>2, <2>4, <3>2
    <3> QED
      BY <1>6, <2>3, <3>1, <3>3
  <2> QED
    BY <2>1, <2>5, <2>6
<1>10. CASE RecordReplica(e) \/ RetireReplica(e)
  <2>1. /\ t \in Replica /\ Leave(e, TRUE) /\ UNCHANGED <<family, docker>>
        /\ status' = [status EXCEPT ![t] = IF RecordReplica(e) THEN "running" ELSE "stopped"]
    BY <1>10 DEF RecordReplica, RetireReplica, Held, IInv, TargetKnown
  <2>2. Held'
    BY <1>5, <1>6, <2>1 DEF Held
  <2>3. \A j \in Replica \ {t} : status'[j] = status[j]
    BY <1>1, <1>3, <2>1 DEF TypeOK
  <2>4. ASSUME NEW i \in Replica, t = i, Estranged(i)'
        PROVE  Fumbled(e, i)
    <3>1. status'[i] = IF RecordReplica(e) THEN "running" ELSE "stopped"
      BY <1>1, <1>3, <2>1, <2>4 DEF TypeOK
    <3>2. RecordReplica(e) => docker[i] = "up"
      BY <2>4 DEF RecordReplica, Held
    <3> QED
      BY <1>10, <2>1, <2>4, <3>1, <3>2 DEF Estranged, Fumbled
  <2>5. LostRight
    <3> SUFFICES ASSUME NEW i \in Replica, ~Estranged(i), Estranged(i)'
                 PROVE  Fumbled(e, i)
      OBVIOUS
    <3>1. t # i => docker'[i] = docker[i] /\ status'[i] = status[i]
      BY <2>1, <2>3
    <3>2. t = i
      BY <1>7, <3>1
    <3> QED
      BY <2>4, <3>2
  <2> QED
    BY <2>2, <2>5
<1>11. CASE RecordFails(e) \/ RetireFails(e)
  <2>1. UNCHANGED <<family, docker, status>> /\ Leave(e, TRUE)
    BY <1>11 DEF RecordFails, RetireFails
  <2>2. Held'
    BY <1>5, <1>6, <2>1 DEF Held
  <2> QED
    BY <1>7, <1>11, <2>1, <2>2 DEF Fumbled
<1>12. CASE PickReplica(e)
  <2>1. t = None /\ UNCHANGED <<family, status>>
    BY <1>4, <1>12 DEF PickReplica
  <2>2. \/ Leave(e, FALSE) /\ docker' = docker
        \/ \E i \in RunningReplicas(PolicyOn[cur[e]]) :
             /\ docker' \in {docker, [docker EXCEPT ![i] = "none"], [docker EXCEPT ![i] = "down"]}
             /\ target' = [target EXCEPT ![e] = i]
             /\ pc' = [pc EXCEPT ![e] = "retire"]
    BY <1>12 DEF PickReplica, Newest
  <2>3. CASE Leave(e, FALSE) /\ docker' = docker
    BY <1>3, <1>5, <1>6, <1>7, <2>1, <2>3 DEF Held
  <2>4. ASSUME NEW i \in RunningReplicas(PolicyOn[cur[e]]),
               docker' \in {docker, [docker EXCEPT ![i] = "none"], [docker EXCEPT ![i] = "down"]},
               target' = [target EXCEPT ![e] = i],
               pc' = [pc EXCEPT ![e] = "retire"]
        PROVE  Held' /\ LostRight
    <3>1. i \in Replica /\ status[i] = "running"
      BY DEF RunningReplicas
    <3>2. family[i] # None
      BY <3>1 DEF IInv, Unlaunched
    <3>3. pc'[e] = "retire" /\ target'[e] = i /\ \A j \in Replica \ {i} : docker'[j] = docker[j]
      BY <1>1, <2>4 DEF TypeOK
    <3>4. Held'
      BY <1>6, <2>1, <3>1, <3>2, <3>3 DEF Held
    <3>5. ~Estranged(i)'
      BY <3>3 DEF Estranged
    <3> QED
      BY <1>3, <1>7, <2>1, <3>3, <3>4, <3>5
  <2> QED
    BY <2>2, <2>3, <2>4
<1> QED
  BY <1>8, <1>9, <1>10, <1>11, <1>12 DEF Step

\* A route keeps Held, and loses only the replica it was called for.
LEMMA HeldUser ==
  ASSUME IInv, Held, UserStep
  PROVE  /\ Held'
         /\ \A i \in Replica : ~Estranged(i) /\ Estranged(i)'
              => start_container(i) \/ stop_container(i) \/ delete_container(i)
<1> USE DEF rowVars, policyVars, evalVars
<1>1. UNCHANGED <<family, docker, pc, target>>
  BY DEF UserStep, start_container, stop_container, delete_container, CheckNoPolicy,
         InsertPolicy, update_scaling_policy, toggle_scaling_policy, delete_scaling_policy
<1>2. Held'
  BY <1>1 DEF Held
<1>3. ASSUME NEW i \in Replica, status'[i] # status[i]
      PROVE  start_container(i) \/ stop_container(i) \/ delete_container(i)
  <2>1. PICK x \in Container : start_container(x) \/ stop_container(x) \/ delete_container(x)
    BY <1>3 DEF UserStep, CheckNoPolicy, InsertPolicy, update_scaling_policy,
       toggle_scaling_policy, delete_scaling_policy
  <2>2. \E s : status' = [status EXCEPT ![x] = s]
    BY <2>1 DEF start_container, stop_container, delete_container
  <2>3. i \in Container
    BY DEF Container
  <2>4. i = x
    BY <1>3, <2>2, <2>3 DEF IInv, TypeOK
  <2> QED
    BY <2>1, <2>4
<1> QED
  BY <1>1, <1>2, <1>3 DEF Estranged

\* Whatever fails and whatever users call, a replica's row and its container come
\* apart in the ways LostForCause lists and in no other, for any number of
\* evaluators, parents and policies, on either database.
THEOREM LostOnlyForCause == Spec => LostForCause
<1> DEFINE Cause(i) ==
             \/ Crash \/ start_container(i) \/ stop_container(i) \/ delete_container(i)
             \/ \E e \in Evaluators :
                  /\ target[e] = i
                  /\ RecordFails(e) \/ RetireFails(e) \/ (RetireReplica(e) /\ docker[i] = "up")
           Rightly == \A i \in Replica : ~Estranged(i) /\ Estranged(i)' => Cause(i)
<1>1. IInv /\ Held /\ [Next]_vars => Held' /\ [Rightly]_vars
  <2> SUFFICES ASSUME IInv, Held, [Next]_vars PROVE Held' /\ [Rightly]_vars
    OBVIOUS
  <2>1. CASE \E e \in Evaluators : StartRound(e) \/ Step(e)
    BY <2>1, HeldStep DEF Fumbled
  <2>2. CASE UserStep
    BY <2>2, HeldUser
  <2>3. CASE Crash
    BY <2>3 DEF Crash, Held, rowVars
  <2>4. CASE Tick
    BY <2>4 DEF Tick, rowVars, Held, Estranged
  <2>5. CASE UNCHANGED vars
    BY <2>5 DEF vars, rowVars, evalVars, Held
  <2> QED
    BY <2>1, <2>2, <2>3, <2>4, <2>5
    DEF Next, autoscaler_background_task, evaluate_policies_now
<1> QED
  BY HeldInit, FleetInvariant, <1>1, PTL DEF Spec, LostForCause
=============================================================================
