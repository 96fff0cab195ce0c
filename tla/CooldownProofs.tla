---------------------------- MODULE CooldownProofs ----------------------------
(***************************************************************************)
(* The cooldown holds under AutoScaler as long as one activation of        *)
(* evaluate_all_policies is under way at a time, for any policies, users,  *)
(* faults and restarts, on either database.  What an activation decides on *)
(* is a copy of the row, so the proof is about the age in that copy.       *)
(***************************************************************************)
EXTENDS FleetProofs

\* There is only the background loop, or only one request at a time.
OneEvaluator == \A e, f \in Evaluators : e = f

-----------------------------------------------------------------------------
(* The invariant *)

\* A policy that is being created has not existed before, and a round only has
\* policies that have.
Born ==
  /\ \A p \in creating : pstate[p] = "unborn"
  /\ \A e \in Evaluators : \A p \in queue[e] : pstate[p] # "unborn"

\* What a round has not expired of its copies is as old as the row.
Fresh ==
  \A e \in Evaluators : \A p \in queue[e] \ expired[e] :
    pstate[p] = "live" => snap[e][p].age = policy[p].age

\* The policy in hand is one of those.
InHand ==
  \A e \in Evaluators : pc[e] \notin {"idle", "next"} => cur[e] \in queue[e] \ expired[e]

\* A scaling of this age is over for a cooldown period of that many ticks.
Rested(age, cooldown) == IF Postgres THEN age >= cooldown ELSE age = Never

\* From the decision to its commit the row stays cooled down, by the cooldown
\* period of the copy.
Decided ==
  \A e \in Evaluators :
    pc[e] \in {"run", "record", "pick", "retire"} /\ pstate[cur[e]] = "live"
      => Rested(policy[cur[e]].age, snap[e][cur[e]].cooldown)

CInv == TypeOK /\ Born /\ Fresh /\ InHand /\ Decided

-----------------------------------------------------------------------------
(* Steps *)

\* At the start no round has loaded anything.
LEMMA CInit == Init => CInv
<1> SUFFICES ASSUME Init PROVE CInv
  OBVIOUS
<1>1. TypeOK
  BY InitType
<1> QED
  BY <1>1 DEF Init, CInv, Born, Fresh, InHand, Decided

\* The end of an evaluation, with or without a commit.
LEMMA LeaveStep ==
  ASSUME OneEvaluator, CInv, TypeOK', NEW e \in Evaluators, NEW tx \in BOOLEAN,
         Leave(e, tx), UNCHANGED <<pstate, creating>>, tx \/ UNCHANGED policy
  PROVE  CInv'
<1>1. \A f \in Evaluators : f = e
  BY DEF OneEvaluator
<1>2. pc'[e] = "next" /\ queue'[e] = queue[e] \ {cur[e]}
  BY DEF Leave, CInv, TypeOK
<1>3. Born'
  BY <1>1, <1>2 DEF CInv, Born
<1>4. CASE tx
  <2>1. expired'[e] = queue'[e]
    BY <1>2, <1>4 DEF Leave, CInv, TypeOK
  <2> QED
    BY <1>1, <1>2, <1>3, <2>1 DEF CInv, Fresh, InHand, Decided
<1>5. CASE ~tx
  <2>1. expired'[e] = expired[e]
    BY <1>5 DEF Leave, CInv, TypeOK
  <2>2. \A p \in Policies \ {cur[e]} : snap'[e][p] = snap[e][p]
    BY <1>5 DEF Leave, CInv, TypeOK
  <2>3. queue[e] \subseteq Policies
    BY DEF CInv, TypeOK
  <2> QED
    BY <1>1, <1>2, <1>3, <1>5, <2>1, <2>2, <2>3 DEF CInv, Fresh, InHand, Decided
<1> QED
  BY <1>4, <1>5

\* The end of a round drops every copy.
LEMMA IdleStep ==
  ASSUME OneEvaluator, CInv, TypeOK', NEW e \in Evaluators,
         Idle(e), UNCHANGED policyVars
  PROVE  CInv'
<1>1. \A f \in Evaluators : f = e
  BY DEF OneEvaluator
<1>2. pc'[e] = "idle" /\ queue'[e] = {}
  BY DEF Idle, CInv, TypeOK
<1> QED
  BY <1>1, <1>2 DEF policyVars, CInv, Born, Fresh, InHand, Decided

\* A step of the activation.
LEMMA OwnStep ==
  ASSUME OneEvaluator, CInv, NEW e \in Evaluators, StartRound(e) \/ Step(e)
  PROVE  CInv'
<1> USE DEF rowVars, policyVars, userVars
<1>1. TypeOK'
  BY StepType DEF CInv
<1>2. \A f \in Evaluators : f = e
  BY DEF OneEvaluator
<1>3. /\ queue[e] \subseteq Policies /\ expired[e] \subseteq Policies
      /\ \A p \in Policies : policy[p].age \in Int /\ snap[e][p].age \in Int
  BY BoundAssumption DEF CInv, TypeOK, PolicyRow, Never
<1>4. CASE StartRound(e)
  <2>1. \A p \in queue'[e] :
          p \in Policies /\ pstate[p] = "live" /\ snap'[e][p] = policy[p]
    BY <1>4 DEF StartRound, CInv, TypeOK
  <2>2. pc'[e] = "next"
    BY <1>4 DEF StartRound, CInv, TypeOK
  <2> QED
    BY <1>1, <1>2, <1>4, <2>1, <2>2 DEF StartRound, CInv, Born, Fresh, InHand, Decided
<1>5. CASE EndRound(e)
  BY <1>1, <1>5, IdleStep DEF EndRound
<1>6. ASSUME NEW p \in Policies, AbortRound(e, p)
      PROVE  CInv'
  BY <1>1, <1>6, IdleStep DEF AbortRound
<1>7. ASSUME NEW p \in Policies, SkipPolicy(e, p)
      PROVE  CInv'
  <2>1. /\ queue'[e] = queue[e] \ {p} /\ expired'[e] = expired[e] \ {p}
        /\ \A q \in Policies \ {p} : snap'[e][q] = snap[e][q]
    BY <1>7 DEF SkipPolicy, Access, CInv, TypeOK
  <2>2. pc[e] = "next" /\ pc' = pc
    BY <1>7 DEF SkipPolicy, Access
  <2> QED
    BY <1>1, <1>2, <1>3, <1>7, <2>1, <2>2 DEF SkipPolicy, CInv, Born, Fresh, InHand, Decided
<1>8. ASSUME NEW p \in Policies, SamplePolicy(e, p)
      PROVE  CInv'
  <2>1. /\ queue' = queue /\ p \in queue[e] /\ expired'[e] = expired[e] \ {p}
        /\ cur'[e] = p /\ pc'[e] \in {"decide", "sampling"}
        /\ \A q \in Policies \ {p} : snap'[e][q] = snap[e][q]
        /\ snap'[e][p] = Reloaded(e, p)
    BY <1>8 DEF SamplePolicy, Access, CInv, TypeOK
  <2>2. pstate[p] = "live" => snap'[e][p].age = policy[p].age
    BY <1>3, <2>1 DEF Reloaded, CInv, Fresh
  <2> QED
    BY <1>1, <1>2, <1>3, <1>8, <2>1, <2>2
       DEF SamplePolicy, CInv, Born, Fresh, InHand, Decided
<1>9. CASE Decide(e)
  <2>1. CASE Leave(e, FALSE)
    BY <1>1, <1>9, <2>1, LeaveStep DEF Decide
  <2>2. CASE ~Leave(e, FALSE)
    <3>1. /\ UNCHANGED <<queue, snap, expired, cur>> /\ pc'[e] \in {"run", "pick"}
          /\ Rested(snap[e][cur[e]].age, snap[e][cur[e]].cooldown)
      BY <1>9, <2>2
         DEF Decide, should_scale_up, should_scale_down, CooledDown, Rested, CInv, TypeOK
    <3>2. cur[e] \in queue[e] \ expired[e]
      BY <1>9 DEF Decide, CInv, InHand
    <3>3. pstate[cur[e]] = "live" => Rested(policy[cur[e]].age, snap[e][cur[e]].cooldown)
      BY <3>1, <3>2 DEF CInv, Fresh
    <3> QED
      BY <1>1, <1>2, <1>9, <3>1, <3>2, <3>3 DEF Decide, CInv, Born, Fresh, InHand, Decided
  <2> QED
    BY <2>1, <2>2
<1>10. CASE RunFails(e)
  BY <1>1, <1>10, LeaveStep DEF RunFails
<1>11. ASSUME pc[e] \in {"run", "pick"}, pc'[e] \in {"record", "retire"},
              UNCHANGED <<policyVars, queue, snap, expired, cur>>
       PROVE  CInv'
  BY <1>1, <1>2, <1>11 DEF CInv, Born, Fresh, InHand, Decided
<1>12. CASE RunReplica(e)
  <2>1. CASE Leave(e, FALSE)
    BY <1>1, <1>12, <2>1, LeaveStep DEF RunReplica
  <2>2. CASE ~Leave(e, FALSE)
    BY <1>11, <1>12, <2>2 DEF RunReplica, CInv, TypeOK
  <2> QED
    BY <2>1, <2>2
<1>13. CASE RecordReplica(e) \/ RecordFails(e) \/ RetireReplica(e) \/ RetireFails(e)
  BY <1>1, <1>13, LeaveStep DEF RecordReplica, RecordFails, RetireReplica, RetireFails
<1>14. CASE PickReplica(e)
  <2>1. CASE Leave(e, FALSE)
    BY <1>1, <1>14, <2>1, LeaveStep DEF PickReplica
  <2>2. CASE ~Leave(e, FALSE)
    BY <1>11, <1>14, <2>2 DEF PickReplica, CInv, TypeOK
  <2> QED
    BY <2>1, <2>2
<1> QED
  BY <1>4, <1>5, <1>6, <1>7, <1>8, <1>9, <1>10, <1>12, <1>13, <1>14 DEF Step

\* What users do to the rows leaves the age of a live policy alone, and creates
\* none that a round could have.
LEMMA UserKeepsAge ==
  ASSUME CInv, UserStep, NEW p \in Policies, pstate'[p] = "live", pstate[p] # "unborn"
  PROVE  pstate[p] = "live" /\ policy'[p].age = policy[p].age
<1>1. policy[p] \in PolicyRow
  BY DEF CInv, TypeOK
<1>2. ASSUME NEW x \in Container, start_container(x) \/ stop_container(x) \/ delete_container(x)
      PROVE  pstate[p] = "live" /\ policy'[p].age = policy[p].age
  <2>1. CASE start_container(x) \/ stop_container(x)
    BY <2>1 DEF start_container, stop_container, policyVars
  <2>2. CASE delete_container(x)
    <3>1. /\ pstate'[p] = IF PolicyOn[p] = x /\ pstate[p] = "live" THEN "deleted" ELSE pstate[p]
          /\ policy'[p] = IF PolicyOn[p] = x THEN Blank ELSE policy[p]
      BY <2>2 DEF delete_container
    <3> QED
      BY <3>1
  <2> QED
    BY <1>2, <2>1, <2>2
<1>3. ASSUME NEW q \in Policies, CheckNoPolicy(q)
      PROVE  pstate[p] = "live" /\ policy'[p].age = policy[p].age
  BY <1>3 DEF CheckNoPolicy
<1>4. ASSUME NEW q \in Policies, InsertPolicy(q)
      PROVE  pstate[p] = "live" /\ policy'[p].age = policy[p].age
  <2>1. p # q
    BY <1>4 DEF InsertPolicy, CInv, Born
  <2> QED
    BY <1>4, <2>1 DEF InsertPolicy, CInv, TypeOK
<1>5. ASSUME NEW q \in Policies, update_scaling_policy(q) \/ toggle_scaling_policy(q)
      PROVE  pstate[p] = "live" /\ policy'[p].age = policy[p].age
  <2>1. pstate' = pstate
    BY <1>5 DEF update_scaling_policy, toggle_scaling_policy
  <2>2. CASE update_scaling_policy(q)
    <3>1. PICK u \in Settings \X SUBSET Fields :
            policy' = [policy EXCEPT ![q] = Overwritten(policy[q], u[1], u[2])]
      BY <2>2 DEF update_scaling_policy
    <3>2. u[1] \in Settings
      OBVIOUS
    <3>3. Overwritten(policy[q], u[1], u[2]).age = policy[q].age
      BY <3>2, OverwrittenRow DEF CInv, TypeOK
    <3> QED
      BY <2>1, <3>1, <3>3 DEF CInv, TypeOK
  <2>3. CASE toggle_scaling_policy(q)
    <3>1. policy'[p] \in {policy[p], [policy[p] EXCEPT !.enabled = ~policy[p].enabled]}
      BY <2>3 DEF toggle_scaling_policy, CInv, TypeOK
    <3> QED
      BY <1>1, <2>1, <3>1 DEF PolicyRow
  <2> QED
    BY <1>5, <2>2, <2>3
<1>6. ASSUME NEW q \in Policies, delete_scaling_policy(q)
      PROVE  pstate[p] = "live" /\ policy'[p].age = policy[p].age
  BY <1>6 DEF delete_scaling_policy, CInv, TypeOK
<1> QED
  BY <1>2, <1>3, <1>4, <1>5, <1>6 DEF UserStep

\* The routes keep the invariant.
LEMMA UserCool ==
  ASSUME CInv, UserStep
  PROVE  CInv'
<1>1. TypeOK'
  BY UserType DEF CInv
<1>2. UNCHANGED evalVars
  BY DEF UserStep, start_container, stop_container, delete_container, CheckNoPolicy,
         InsertPolicy, update_scaling_policy, toggle_scaling_policy, delete_scaling_policy
<1>3. \A p \in Policies : pstate[p] # "unborn" => pstate'[p] # "unborn"
  BY DEF CInv, TypeOK, UserStep, start_container, stop_container, delete_container,
         CheckNoPolicy, InsertPolicy, update_scaling_policy, toggle_scaling_policy,
         delete_scaling_policy, policyVars
<1>4. \A p \in creating' : pstate'[p] = "unborn"
  BY DEF CInv, TypeOK, Born, UserStep, start_container, stop_container, delete_container,
         CheckNoPolicy, InsertPolicy, update_scaling_policy, toggle_scaling_policy,
         delete_scaling_policy, policyVars
<1>5. \A e \in Evaluators : queue[e] \subseteq Policies
  BY DEF CInv, TypeOK
<1>6. Born'
  BY <1>2, <1>3, <1>4, <1>5 DEF CInv, Born, evalVars
<1>7. Fresh'
  BY <1>2, <1>5, UserKeepsAge DEF CInv, Born, Fresh, evalVars
<1>8. InHand'
  BY <1>2 DEF CInv, InHand, evalVars
<1>9. Decided'
  <2> SUFFICES ASSUME NEW e \in Evaluators,
                      pc[e] \in {"run", "record", "pick", "retire"}, pstate'[cur[e]] = "live"
               PROVE  Rested(policy'[cur[e]].age, snap[e][cur[e]].cooldown)
    BY <1>2 DEF Decided, evalVars, Rested
  <2>1. cur[e] \in queue[e] /\ cur[e] \in Policies
    BY <1>5 DEF CInv, InHand
  <2> QED
    BY <2>1, UserKeepsAge DEF CInv, Born, Decided
<1> QED
  BY <1>1, <1>6, <1>7, <1>8, <1>9 DEF CInv

\* Row and copy grow older together.
LEMMA TickCool ==
  ASSUME CInv, Tick
  PROVE  CInv'
<1>1. TypeOK'
  BY TickType DEF CInv
<1>2. \A p \in Policies : policy'[p].age = Older(policy[p].age) /\ policy[p].age \in Int
  BY BoundAssumption DEF Tick, CInv, TypeOK, PolicyRow, Never
<1>3. \A e \in Evaluators, p \in Policies :
        /\ snap'[e][p].age = Older(snap[e][p].age)
        /\ snap'[e][p].cooldown = snap[e][p].cooldown
        /\ snap[e][p].cooldown \in 1..MaxCooldown
  <2> SUFFICES ASSUME NEW e \in Evaluators, NEW p \in Policies
               PROVE  /\ snap'[e][p].age = Older(snap[e][p].age)
                      /\ snap'[e][p].cooldown = snap[e][p].cooldown
                      /\ snap[e][p].cooldown \in 1..MaxCooldown
    OBVIOUS
  <2>1. snap[e][p] \in PolicyRow
    BY DEF CInv, TypeOK
  <2>2. snap'[e][p] = [snap[e][p] EXCEPT !.age = Older(snap[e][p].age)]
    BY DEF Tick
  <2> QED
    BY <2>1, <2>2 DEF PolicyRow
<1>4. \A e \in Evaluators : queue[e] \subseteq Policies
  BY DEF CInv, TypeOK
<1>5. UNCHANGED <<pstate, creating, pc, queue, expired, cur>>
  BY DEF Tick
<1>6. Fresh'
  BY <1>2, <1>3, <1>4, <1>5 DEF CInv, Fresh
<1>7. Born' /\ InHand'
  BY <1>5 DEF CInv, Born, InHand
<1>8. Decided'
  <2> SUFFICES ASSUME NEW e \in Evaluators,
                      pc[e] \in {"run", "record", "pick", "retire"}, pstate[cur[e]] = "live"
               PROVE  Rested(policy'[cur[e]].age, snap'[e][cur[e]].cooldown)
    BY <1>5 DEF Decided, Rested
  <2>1. cur[e] \in Policies
    BY <1>4 DEF CInv, InHand
  <2>2. policy'[cur[e]].age = Older(policy[cur[e]].age) /\ policy[cur[e]].age \in Int
    BY <1>2, <2>1
  <2>3. Rested(policy[cur[e]].age, snap[e][cur[e]].cooldown)
    BY DEF CInv, Decided
  <2>4. /\ snap'[e][cur[e]].cooldown = snap[e][cur[e]].cooldown
        /\ snap[e][cur[e]].cooldown \in 1..MaxCooldown
    BY <1>3, <2>1
  <2> QED
    BY <2>2, <2>3, <2>4, BoundAssumption DEF Rested, Older, Never
<1> QED
  BY <1>1, <1>6, <1>7, <1>8 DEF CInv

\* Every step keeps the invariant.
LEMMA CStep ==
  ASSUME OneEvaluator, CInv, [Next]_vars
  PROVE  CInv'
<1>1. CASE \E e \in Evaluators : StartRound(e) \/ Step(e)
  BY <1>1, OwnStep
<1>2. CASE UserStep
  BY <1>2, UserCool
<1>3. CASE Tick
  BY <1>3, TickCool
<1>4. CASE Crash
  <2>1. TypeOK'
    BY <1>4, RowTypes DEF Crash, CInv, TypeOK, rowVars, userVars
  <2> QED
    BY <1>4, <2>1 DEF Crash, CInv, Born, Fresh, InHand, Decided
<1>5. CASE UNCHANGED vars
  BY <1>5 DEF vars, rowVars, policyVars, evalVars, userVars, CInv, TypeOK, Born, Fresh,
              InHand, Decided
<1> QED
  BY <1>1, <1>2, <1>3, <1>4, <1>5
     DEF Next, autoscaler_background_task, evaluate_policies_now

\* With one activation of evaluate_all_policies at a time no policy scales before the
\* cooldown period its evaluator loaded is over, counted from the last scaling that
\* was committed: whatever users write into the row meanwhile, and however often the
\* process restarts, the age decided on is the row's.  (A longer cooldown period
\* written between the load and the commit is not seen by that round.)
THEOREM CooldownHolds ==
  ASSUME OneEvaluator
  PROVE  Spec => CooldownRespected
<1>1. CInv /\ [Next]_vars => CInv'
  BY CStep
<1>2. ASSUME CInv, NEW e \in Evaluators, RecordReplica(e) \/ RetireReplica(e)
      PROVE  CooledDown([policy[cur[e]] EXCEPT !.cooldown = snap[e][cur[e]].cooldown])
  <2>1. Rested(policy[cur[e]].age, snap[e][cur[e]].cooldown)
    BY <1>2 DEF RecordReplica, RetireReplica, CInv, Decided
  <2>2. policy[cur[e]] \in PolicyRow
    BY <1>2 DEF RecordReplica, RetireReplica, CInv, TypeOK
  <2> QED
    BY <2>1, <2>2 DEF CooledDown, Rested, PolicyRow
<1>3. CInv /\ [Next]_vars
        => [\A e \in Evaluators :
              RecordReplica(e) \/ RetireReplica(e) =>
                CooledDown([policy[cur[e]]
                              EXCEPT !.cooldown = snap[e][cur[e]].cooldown])]_vars
  BY <1>2
<1> QED
  BY CInit, <1>1, <1>3, PTL DEF Spec, CooldownRespected
=============================================================================
