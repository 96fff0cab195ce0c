------------------------------ MODULE AutoScaler ------------------------------
(***************************************************************************)
(* The auto-scaler of the IntelliScaleSim backend:                         *)
(* services/autoscaler_service.py, the background loop of main.py and      *)
(* POST /autoscaling/evaluate-now that drive it, and the routes that write *)
(* the rows it reads while it runs (routes_containers.py start / stop /    *)
(* delete, routes_autoscaling.py create / update / toggle / delete).       *)
(*                                                                         *)
(* An evaluator is one activation of evaluate_all_policies: the background *)
(* loop, or a request to evaluate-now.  Evaluators are coroutines of one   *)
(* event loop: an evaluator gives the loop up only while it awaits `docker *)
(* stats` (pc "sampling").  The other routes are plain functions that run  *)
(* in threadpool threads, so they interleave between any two steps.        *)
(*                                                                         *)
(* Abstractions.  A row of `containers` that is a parent is a constant; a  *)
(* replica is identified by the `docker run` that created it, and since    *)
(* the row is inserted by the same activation the row id and the docker id *)
(* are one number, in creation order.  Every status but running counts as  *)
(* "stopped" (the code only ever compares with running).  A metrics sample *)
(* is reduced to which of the two threshold tests it passes.               *)
(* last_scaled_at is kept as its age, which stops growing at the longest   *)
(* cooldown.                                                               *)
(*                                                                         *)
(* CpuLimit decides whether a launch can succeed at all: the code hands    *)
(* the integer column to subprocess.run, which raises for every value the  *)
(* API stores (100 to 4000); only 0, which the code replaces by a text,    *)
(* does not.  Whatever it is, the theorems hold.  The runs that need a     *)
(* launch take 0; what then happens includes, with the fault "run", all    *)
(* that the other values allow.                                            *)
(***************************************************************************)
EXTENDS Integers, Sequences, FiniteSets

CONSTANTS
  Parents,          \* containers the users deployed
  Policies,         \* ids a row of scaling_policies can get; never reused
  PolicyOn,         \* the container each policy is for
  InitPolicies,     \* policies that exist at the start
  InitMin, InitMax, \* their min_replicas and max_replicas; no one sets a smaller min
  Seeded,           \* parents of the replicas running at the start, oldest first
  Evaluators,       \* activations of evaluate_all_policies that may coexist
  Background,       \* the one main.py runs for ever
  Simulated,        \* parents without a docker id: metrics come from a clock
  BasePort,         \* the port of each parent
  CpuLimit,         \* containers.cpu_limit of each parent, in millicores
  Samples,          \* threshold outcomes the load can produce
  Settings,         \* what users write into a policy
  MaxReplicasLimit, \* upper bound the schema puts on min_replicas, max_replicas
  Cooldown,         \* cooldown_period of the policies at the start, in ticks
  MaxCooldown,      \* bound: longest cooldown_period anyone sets
  Postgres,         \* TRUE: PostgreSQL; FALSE: the default SQLite file
  Ops,              \* which API calls the users make
  Faults,           \* which external calls may fail
  MaxLaunches,      \* bound: containers docker can still create, Seeded included
  MaxUserStarts,    \* bound: start calls per family
  MaxUserStops,     \* bound: stop and delete calls on running members per family
  None              \* SQL NULL / Python None

Replica   == 1..MaxLaunches
Container == Parents \cup Replica
Never     == MaxCooldown + 1    \* last_scaled_at IS NULL
AllOps    == {"start", "stop", "delete", "create", "update", "toggle", "drop"}
AllFaults == {"run", "stop", "stats", "commit", "crash"}

SampleType  == [up : BOOLEAN, down : BOOLEAN]
Setting     == [enabled : BOOLEAN, min : 1..MaxReplicasLimit,
                max : 1..MaxReplicasLimit, cooldown : 1..MaxCooldown]
PolicyRow   == [enabled : BOOLEAN, min : 1..MaxReplicasLimit,
                max : 1..MaxReplicasLimit, cooldown : 1..MaxCooldown, age : 0..Never]
Fields      == {"enabled", "min", "max", "cooldown"}
Blank       == [enabled |-> FALSE, min |-> 1, max |-> 1, cooldown |-> 1, age |-> Never]
FailedStats == [up |-> FALSE, down |-> TRUE]  \* zeros: below any threshold

\* Parents and replicas are distinct rows and NULL is none of them.
ASSUME IdAssumption ==
  /\ Parents \cap Nat = {}
  /\ None \notin Parents \cup Policies \cup Nat
  /\ IsFiniteSet(Parents)
  /\ PolicyOn \in [Policies -> Parents]
  /\ InitPolicies \subseteq Policies
  /\ Simulated \subseteq Parents

ASSUME BoundAssumption ==
  /\ MaxReplicasLimit \in Nat \ {0}
  /\ InitMin \in 1..MaxReplicasLimit /\ InitMax \in 1..MaxReplicasLimit
  /\ MaxCooldown \in Nat /\ Cooldown \in 1..MaxCooldown
  /\ MaxLaunches \in Nat /\ MaxUserStarts \in Nat /\ MaxUserStops \in Nat
  /\ BasePort \in [Parents -> Nat] /\ CpuLimit \in [Parents -> Nat]
  /\ Samples \subseteq SampleType /\ Settings \subseteq Setting
  /\ Background \in Evaluators
  /\ Postgres \in BOOLEAN /\ Ops \subseteq AllOps /\ Faults \subseteq AllFaults

\* The families already there when the model starts are within the limits.
Brood(c) == {c} \cup {i \in 1..Len(Seeded) : Seeded[i] = c}

ASSUME SeedAssumption ==
  /\ Seeded \in Seq(Parents) /\ Len(Seeded) <= MaxLaunches
  /\ \A c \in Parents : Cardinality(Brood(c)) \in InitMin..MaxReplicasLimit
  /\ \A s \in Settings : s.min >= InitMin

VARIABLES
  status,    \* containers.status: "absent" (no row), "running" or "stopped"
  family,    \* containers.parent_id of each replica docker has created
  index,     \* the replica count that went into its name and its port
  docker,    \* what docker has: "none", "down" (name held) or "up"
  pstate,    \* "unborn", "live" or "deleted" row of scaling_policies
  policy,    \* the row itself
  creating,  \* create requests between their existence check and their insert
  pc,        \* where each evaluator is
  queue,     \* policies its round has still to evaluate
  snap,      \* the policy objects in its session
  expired,   \* those a commit or rollback expired: reloaded at next access
  cur,       \* the policy being evaluated
  target,    \* the replica being recorded or retired
  starts,    \* user starts so far, per family
  stops      \* user stops and deletes of running members so far, per family

rowVars    == <<status, family, index>>
policyVars == <<pstate, policy, creating>>
evalVars   == <<pc, queue, snap, expired, cur, target>>
userVars   == <<starts, stops>>
vars       == <<rowVars, docker, policyVars, evalVars, userVars>>

TypeOK ==
  /\ status \in [Container -> {"absent", "running", "stopped"}]
  /\ family \in [Replica -> Parents \cup {None}]
  /\ index \in [Replica -> Nat]
  /\ docker \in [Replica -> {"none", "down", "up"}]
  /\ pstate \in [Policies -> {"unborn", "live", "deleted"}]
  /\ policy \in [Policies -> PolicyRow]
  /\ creating \subseteq Policies
  /\ pc \in [Evaluators -> {"idle", "next", "sampling", "decide",
                            "run", "record", "pick", "retire"}]
  /\ queue \in [Evaluators -> SUBSET Policies]
  /\ snap \in [Evaluators -> [Policies -> PolicyRow]]
  /\ expired \in [Evaluators -> SUBSET Policies]
  /\ cur \in [Evaluators -> Policies \cup {None}]
  /\ target \in [Evaluators -> Replica \cup {None}]
  /\ \A e \in Evaluators : pc[e] \notin {"idle", "next"} => cur[e] \in Policies
  /\ starts \in [Parents -> 0..MaxUserStarts]
  /\ stops \in [Parents -> 0..MaxUserStops]

-----------------------------------------------------------------------------
(* Queries *)

FamilyOf(x) == IF x \in Parents THEN x ELSE family[x]

Running(c)         == {x \in Container : status[x] = "running" /\ FamilyOf(x) = c}
RunningReplicas(c) == {i \in Replica : status[i] = "running" /\ family[i] = c}

\* get_current_replica_count
ReplicaCount(c) == Cardinality(Running(c))

Port(i)     == BasePort[family[i]] + index[i]

\* The name `intelliscale-{parent}-..-replica-{n}` is held by some container.
NameTaken(c, n) ==
  \E i \in Replica : docker[i] # "none" /\ family[i] = c /\ index[i] = n

\* Host port n is bound, by a parent's container or by a running replica.
PortTaken(n) ==
  \/ \E c \in Parents \ Simulated : BasePort[c] = n
  \/ \E i \in Replica : docker[i] = "up" /\ Port(i) = n

\* The event loop is free: no evaluator is between two awaits.
Busy(e)  == pc[e] \notin {"idle", "sampling"}
LoopFree == \A e \in Evaluators : ~Busy(e)

\* The elapsed time since last_scaled_at; on SQLite the column comes back
\* without a time zone and the subtraction raises unless it is NULL.
CooledDown(s) == IF Postgres THEN s.age >= s.cooldown ELSE s.age = Never

-----------------------------------------------------------------------------
Init ==
  /\ status = [x \in Container |->
                 IF x \in Parents \cup 1..Len(Seeded) THEN "running" ELSE "absent"]
  /\ family = [i \in Replica |-> IF i <= Len(Seeded) THEN Seeded[i] ELSE None]
  /\ index  = [i \in Replica |->
                 IF i <= Len(Seeded)
                 THEN Cardinality({j \in 1..i : Seeded[j] = Seeded[i]}) ELSE 0]
  /\ docker = [i \in Replica |-> IF i <= Len(Seeded) THEN "up" ELSE "none"]
  /\ pstate = [p \in Policies |-> IF p \in InitPolicies THEN "live" ELSE "unborn"]
  /\ policy = [p \in Policies |->
                 IF p \in InitPolicies
                 THEN [enabled |-> TRUE, min |-> InitMin, max |-> InitMax,
                       cooldown |-> Cooldown, age |-> Never]
                 ELSE Blank]
  /\ creating = {}
  /\ pc = [e \in Evaluators |-> "idle"]
  /\ queue = [e \in Evaluators |-> {}]
  /\ snap = [e \in Evaluators |-> [p \in Policies |-> Blank]]
  /\ expired = [e \in Evaluators |-> {}]
  /\ cur = [e \in Evaluators |-> None]
  /\ target = [e \in Evaluators |-> None]
  /\ starts = [c \in Parents |-> 0]
  /\ stops = [c \in Parents |-> 0]

-----------------------------------------------------------------------------
(* The evaluators *)

\* End of a round: the activation returns or evaluate_all_policies catches.
Idle(e) ==
  /\ pc' = [pc EXCEPT ![e] = "idle"]
  /\ queue' = [queue EXCEPT ![e] = {}]
  /\ snap' = [snap EXCEPT ![e] = [p \in Policies |-> Blank]]
  /\ expired' = [expired EXCEPT ![e] = {}]

\* The evaluation of cur[e] is over.  A commit or rollback (tx) has expired
\* every object of the session.
Leave(e, tx) ==
  /\ pc' = [pc EXCEPT ![e] = "next"]
  /\ queue' = [queue EXCEPT ![e] = @ \ {cur[e]}]
  /\ snap' = [snap EXCEPT ![e] = IF tx THEN [p \in Policies |-> Blank]
                                 ELSE [@ EXCEPT ![cur[e]] = Blank]]
  /\ expired' = [expired EXCEPT ![e] = IF tx THEN queue[e] \ {cur[e]} ELSE @]
  /\ cur' = [cur EXCEPT ![e] = None]
  /\ target' = [target EXCEPT ![e] = None]

\* evaluate_all_policies: load the enabled policies, once for the whole round.
StartRound(e) ==
  /\ pc[e] = "idle" /\ LoopFree
  /\ LET due == {p \in Policies : pstate[p] = "live" /\ policy[p].enabled}
     IN  /\ queue' = [queue EXCEPT ![e] = due]
         /\ snap' = [snap EXCEPT ![e] =
                       [p \in Policies |-> IF p \in due THEN policy[p] ELSE Blank]]
  /\ pc' = [pc EXCEPT ![e] = "next"]
  /\ UNCHANGED <<rowVars, docker, policyVars, userVars, expired, cur, target>>

\* main.py starts a round 10 s after the last one ended; a user starts one by
\* request.
autoscaler_background_task(e) == e = Background /\ StartRound(e)
evaluate_policies_now(e)      == e # Background /\ StartRound(e)

EndRound(e) ==
  /\ pc[e] = "next" /\ queue[e] = {}
  /\ Idle(e)
  /\ UNCHANGED <<rowVars, docker, policyVars, userVars, cur, target>>

\* Broken AbortRound: the loop catches the error and tries the policy again.
AbortInPlace(e, p) ==
  /\ pc[e] = "next" /\ p \in queue[e] \cap expired[e] /\ pstate[p] # "live"
  /\ UNCHANGED vars

\* The row behind an expired policy object is gone: ObjectDeletedError, raised
\* again by the handler's own use of policy.id, ends the whole round.
AbortRound(e, p) ==
  /\ pc[e] = "next" /\ p \in queue[e] \cap expired[e] /\ pstate[p] # "live"
  /\ Idle(e)
  /\ UNCHANGED <<rowVars, docker, policyVars, userVars, cur, target>>

\* First access to the policy object: reload it if it is expired.
Access(e, p) ==
  /\ pc[e] = "next" /\ p \in queue[e]
  /\ p \in expired[e] => pstate[p] = "live"
  /\ expired' = [expired EXCEPT ![e] = @ \ {p}]

Reloaded(e, p) == IF p \in expired[e] THEN policy[p] ELSE snap[e][p]

\* get_container_metrics: the container is gone, nothing to evaluate.
SkipPolicy(e, p) ==
  /\ Access(e, p)
  /\ status[PolicyOn[p]] = "absent"
  /\ queue' = [queue EXCEPT ![e] = @ \ {p}]
  /\ snap' = [snap EXCEPT ![e][p] = Blank]
  /\ UNCHANGED <<rowVars, docker, policyVars, userVars, pc, cur, target>>

\* get_container_metrics: a real container's docker stats are awaited; the
\* pattern of a simulated one is computed without giving up the loop.
SamplePolicy(e, p) ==
  /\ Access(e, p)
  /\ status[PolicyOn[p]] # "absent"
  /\ snap' = [snap EXCEPT ![e][p] = Reloaded(e, p)]
  /\ cur' = [cur EXCEPT ![e] = p]
  /\ pc' = [pc EXCEPT ![e] = IF PolicyOn[p] \in Simulated THEN "decide" ELSE "sampling"]
  /\ UNCHANGED <<rowVars, docker, policyVars, userVars, queue, target>>

\* What docker stats may report; its failures come back as zeros.
Metrics == Samples \cup (IF "stats" \in Faults THEN {FailedStats} ELSE {})

ScaleDownEager(s, m, n) ==    \* broken: no cooldown test
  s.enabled /\ n > s.min /\ m.down

ScaleDownTooFar(s, m, n) ==   \* broken: off by one at min_replicas
  s.enabled /\ n >= s.min /\ CooledDown(s) /\ m.down

ScaleUpTooFar(s, m, n) ==     \* broken: off by one past max_replicas
  s.enabled /\ n <= s.max /\ CooledDown(s) /\ m.up

should_scale_up(s, m, n) ==
  s.enabled /\ n < s.max /\ CooledDown(s) /\ m.up

should_scale_down(s, m, n) ==
  s.enabled /\ n > s.min /\ CooledDown(s) /\ m.down

\* evaluate_policy once it has the metrics: a fresh count against the policy
\* object loaded before the await.
Decide(e) ==
  /\ \/ pc[e] = "sampling" /\ LoopFree
     \/ pc[e] = "decide"
  /\ \E m \in Metrics :
       LET s == snap[e][cur[e]]
           n == ReplicaCount(PolicyOn[cur[e]])
       IN  \/ /\ should_scale_up(s, m, n)
              /\ pc' = [pc EXCEPT ![e] = "run"]
              /\ UNCHANGED <<queue, snap, expired, cur, target>>
           \/ /\ ~should_scale_up(s, m, n)
              /\ should_scale_down(s, m, n)
              /\ pc' = [pc EXCEPT ![e] = "pick"]
              /\ UNCHANGED <<queue, snap, expired, cur, target>>
           \/ /\ ~should_scale_up(s, m, n)
              /\ ~should_scale_down(s, m, n)
              /\ Leave(e, FALSE)
  /\ UNCHANGED <<rowVars, docker, policyVars, userVars>>

\* The `--cpus` argument: the int column goes to subprocess as it is, which
\* raises, unless it is 0 and the text "0.5" replaces it.
ArgumentsOk(c) == CpuLimit[c] = 0

\* scale_up up to run_container, when no container results: the parent is
\* gone, an argument is not text, the name is taken, or docker refuses.
RunFails(e) ==
  /\ pc[e] = "run"
  /\ LET c == PolicyOn[cur[e]]
     IN  \/ status[c] = "absent"
         \/ ~ArgumentsOk(c)
         \/ NameTaken(c, ReplicaCount(c))
         \/ "run" \in Faults
         \/ \A i \in Replica : family[i] # None   \* the host is full
  /\ Leave(e, FALSE)
  /\ UNCHANGED <<rowVars, docker, policyVars, userVars>>

\* Broken RunReplica: a container docker could not start is recorded.
RunUnchecked(e) ==
  /\ pc[e] = "run"
  /\ LET c == PolicyOn[cur[e]]
         n == ReplicaCount(c)
     IN  /\ status[c] # "absent" /\ ArgumentsOk(c) /\ ~NameTaken(c, n)
         /\ \E i \in Replica :
              /\ family[i] = None /\ \A j \in 1..(i - 1) : family[j] # None
              /\ family' = [family EXCEPT ![i] = c]
              /\ index' = [index EXCEPT ![i] = n]
              /\ \/ /\ PortTaken(BasePort[c] + n) \/ "run" \in Faults
                    /\ docker' = [docker EXCEPT ![i] = "down"]
                 \/ /\ ~PortTaken(BasePort[c] + n)
                    /\ docker' = [docker EXCEPT ![i] = "up"]
              /\ target' = [target EXCEPT ![e] = i]
  /\ pc' = [pc EXCEPT ![e] = "record"]
  /\ UNCHANGED <<status, policyVars, userVars, queue, snap, expired, cur>>

\* scale_up up to run_container, when docker creates a container.  If it cannot
\* start it, because the port is taken or for reasons of its own, it keeps the
\* container, under its name.
RunReplica(e) ==
  /\ pc[e] = "run"
  /\ LET c == PolicyOn[cur[e]]
         n == ReplicaCount(c)
     IN  /\ status[c] # "absent" /\ ArgumentsOk(c) /\ ~NameTaken(c, n)
         /\ \E i \in Replica :
              /\ family[i] = None /\ \A j \in 1..(i - 1) : family[j] # None
              /\ family' = [family EXCEPT ![i] = c]
              /\ index' = [index EXCEPT ![i] = n]
              /\ \/ /\ PortTaken(BasePort[c] + n) \/ "run" \in Faults
                    /\ docker' = [docker EXCEPT ![i] = "down"]
                    /\ Leave(e, FALSE)
                 \/ /\ ~PortTaken(BasePort[c] + n)
                    /\ docker' = [docker EXCEPT ![i] = "up"]
                    /\ pc' = [pc EXCEPT ![e] = "record"]
                    /\ target' = [target EXCEPT ![e] = i]
                    /\ UNCHANGED <<queue, snap, expired, cur>>
  /\ UNCHANGED <<status, policyVars, userVars>>

\* The UPDATE of the policy needs its row; the database may also refuse.
CommitFails(e) == pstate[cur[e]] # "live" \/ "commit" \in Faults

\* scale_up after run_container: replica row, event and last_scaled_at in one
\* transaction.
RecordReplica(e) ==
  /\ pc[e] = "record" /\ pstate[cur[e]] = "live"
  /\ status' = [status EXCEPT ![target[e]] = "running"]
  /\ policy' = [policy EXCEPT ![cur[e]].age = 0]
  /\ Leave(e, TRUE)
  /\ UNCHANGED <<family, index, docker, pstate, creating, userVars>>

\* The transaction fails: rollback, and the docker container stays.
RecordFails(e) ==
  /\ pc[e] = "record" /\ CommitFails(e)
  /\ Leave(e, TRUE)
  /\ UNCHANGED <<rowVars, docker, policyVars, userVars>>

\* order_by(created_at.desc()).first()
Newest(c) == {i \in RunningReplicas(c) : \A j \in RunningReplicas(c) : j <= i}

\* Broken PickReplica: a docker failure makes scale_down give up.
PickOrGiveUp(e) ==
  /\ pc[e] = "pick"
  /\ LET c == PolicyOn[cur[e]]
     IN  \/ /\ RunningReplicas(c) = {} \/ "stop" \in Faults
            /\ Leave(e, FALSE)
            /\ UNCHANGED docker
         \/ \E i \in Newest(c) :
            /\ docker' = [docker EXCEPT ![i] = "none"]
            /\ target' = [target EXCEPT ![e] = i]
            /\ pc' = [pc EXCEPT ![e] = "retire"]
            /\ UNCHANGED <<queue, snap, expired, cur>>
  /\ UNCHANGED <<rowVars, policyVars, userVars>>

\* scale_down: the newest running replica, stopped and removed in docker; a
\* failure of either command is only logged.
PickReplica(e) ==
  /\ pc[e] = "pick"
  /\ LET c == PolicyOn[cur[e]]
     IN  \/ /\ RunningReplicas(c) = {}
            /\ Leave(e, FALSE)
            /\ UNCHANGED docker
         \/ \E i \in Newest(c) :
            /\ \/ docker' = [docker EXCEPT ![i] = "none"]
               \/ "stop" \in Faults /\ UNCHANGED docker
               \/ /\ "stop" \in Faults /\ docker[i] = "up"
                  /\ docker' = [docker EXCEPT ![i] = "down"]
            /\ target' = [target EXCEPT ![e] = i]
            /\ pc' = [pc EXCEPT ![e] = "retire"]
            /\ UNCHANGED <<queue, snap, expired, cur>>
  /\ UNCHANGED <<rowVars, policyVars, userVars>>

\* scale_down after docker: status, event and last_scaled_at in one transaction.
RetireReplica(e) ==
  /\ pc[e] = "retire" /\ pstate[cur[e]] = "live" /\ status[target[e]] # "absent"
  /\ status' = [status EXCEPT ![target[e]] = "stopped"]
  /\ policy' = [policy EXCEPT ![cur[e]].age = 0]
  /\ Leave(e, TRUE)
  /\ UNCHANGED <<family, index, docker, pstate, creating, userVars>>

RetireFails(e) ==
  /\ pc[e] = "retire" /\ (CommitFails(e) \/ status[target[e]] = "absent")
  /\ Leave(e, TRUE)
  /\ UNCHANGED <<rowVars, docker, policyVars, userVars>>

-----------------------------------------------------------------------------
(* The other routes, each in a thread of its own *)

\* Broken start_container: a status the model class does not have.
StartMistyped(x) ==
  /\ "start" \in Ops /\ status[x] = "stopped" /\ starts[FamilyOf(x)] < MaxUserStarts
  /\ status' = [status EXCEPT ![x] = "started"]
  /\ starts' = [starts EXCEPT ![FamilyOf(x)] = @ + 1]
  /\ UNCHANGED <<family, index, docker, policyVars, evalVars, stops>>

\* POST /containers/{id}/start: the row only; any status but running.
start_container(x) ==
  /\ "start" \in Ops /\ status[x] = "stopped" /\ starts[FamilyOf(x)] < MaxUserStarts
  /\ status' = [status EXCEPT ![x] = "running"]
  /\ starts' = [starts EXCEPT ![FamilyOf(x)] = @ + 1]
  /\ UNCHANGED <<family, index, docker, policyVars, evalVars, stops>>

\* POST /containers/{id}/stop: the row only.
stop_container(x) ==
  /\ "stop" \in Ops /\ status[x] = "running" /\ stops[FamilyOf(x)] < MaxUserStops
  /\ status' = [status EXCEPT ![x] = "stopped"]
  /\ stops' = [stops EXCEPT ![FamilyOf(x)] = @ + 1]
  /\ UNCHANGED <<family, index, docker, policyVars, evalVars, starts>>

\* Broken delete_container: the replicas' rows go with their parent's.
DeleteCascades(x) ==
  /\ "delete" \in Ops /\ status[x] # "absent"
  /\ status' = [y \in Container |-> IF y = x \/ (y \in Replica /\ family[y] = x)
                                    THEN "absent" ELSE status[y]]
  /\ pstate' = [p \in Policies |-> IF PolicyOn[p] = x /\ pstate[p] = "live"
                                   THEN "deleted" ELSE pstate[p]]
  /\ policy' = [p \in Policies |-> IF PolicyOn[p] = x THEN Blank ELSE policy[p]]
  /\ IF status[x] = "running"
     THEN /\ stops[FamilyOf(x)] < MaxUserStops
          /\ stops' = [stops EXCEPT ![FamilyOf(x)] = @ + 1]
     ELSE UNCHANGED stops
  /\ UNCHANGED <<family, index, docker, creating, evalVars, starts>>

\* DELETE /containers/{id}: the row and its policies; docker is not told.
\* PostgreSQL refuses while replica rows refer to it.
delete_container(x) ==
  /\ "delete" \in Ops /\ status[x] # "absent"
  /\ Postgres => \A i \in Replica : family[i] = x => status[i] = "absent"
  /\ status' = [status EXCEPT ![x] = "absent"]
  /\ pstate' = [p \in Policies |-> IF PolicyOn[p] = x /\ pstate[p] = "live"
                                   THEN "deleted" ELSE pstate[p]]
  /\ policy' = [p \in Policies |-> IF PolicyOn[p] = x THEN Blank ELSE policy[p]]
  /\ IF status[x] = "running"
     THEN /\ stops[FamilyOf(x)] < MaxUserStops
          /\ stops' = [stops EXCEPT ![FamilyOf(x)] = @ + 1]
     ELSE UNCHANGED stops
  /\ UNCHANGED <<family, index, docker, creating, evalVars, starts>>

\* The row r with the given fields set to what the user wrote.
Overwritten(r, s, given) ==
  [enabled  |-> IF "enabled" \in given THEN s.enabled ELSE r.enabled,
   min      |-> IF "min" \in given THEN s.min ELSE r.min,
   max      |-> IF "max" \in given THEN s.max ELSE r.max,
   cooldown |-> IF "cooldown" \in given THEN s.cooldown ELSE r.cooldown,
   age      |-> r.age]

\* POST /autoscaling/policies: the container exists and has no policy yet ...
CheckNoPolicy(p) ==
  /\ "create" \in Ops /\ pstate[p] = "unborn" /\ p \notin creating
  /\ status[PolicyOn[p]] # "absent"
  /\ \A q \in Policies : PolicyOn[q] = PolicyOn[p] => pstate[q] # "live"
  /\ creating' = creating \cup {p}
  /\ UNCHANGED <<rowVars, docker, pstate, policy, evalVars, userVars>>

\* ... then the insert, with nothing in the schema to make the pair unique.
InsertPolicy(p) ==
  /\ p \in creating
  /\ creating' = creating \ {p}
  /\ IF Postgres /\ status[PolicyOn[p]] = "absent"
     THEN UNCHANGED <<pstate, policy>>
     ELSE /\ pstate' = [pstate EXCEPT ![p] = "live"]
          /\ \E s \in Settings :
               policy' = [policy EXCEPT ![p] = Overwritten(Blank, s, Fields)]
  /\ UNCHANGED <<rowVars, docker, evalVars, userVars>>

\* PUT /autoscaling/policies/{id}: the fields the request gives, whichever they
\* are, with no check of one against another.
update_scaling_policy(p) ==
  /\ "update" \in Ops /\ pstate[p] = "live"
  /\ \E r \in {Overwritten(policy[p], u[1], u[2]) : u \in Settings \X SUBSET Fields} :
       policy' = [policy EXCEPT ![p] = r]
  /\ UNCHANGED <<rowVars, docker, pstate, creating, evalVars, userVars>>

toggle_scaling_policy(p) ==
  /\ "toggle" \in Ops /\ pstate[p] = "live"
  /\ policy' = [policy EXCEPT ![p].enabled = ~@]
  /\ UNCHANGED <<rowVars, docker, pstate, creating, evalVars, userVars>>

delete_scaling_policy(p) ==
  /\ "drop" \in Ops /\ pstate[p] = "live"
  /\ pstate' = [pstate EXCEPT ![p] = "deleted"]
  /\ policy' = [policy EXCEPT ![p] = Blank]
  /\ UNCHANGED <<rowVars, docker, creating, evalVars, userVars>>

\* The backend process dies and starts again: sessions and requests are gone,
\* docker and the committed rows stay, and nothing at startup reconciles them.
Crash ==
  /\ "crash" \in Faults
  /\ creating' = {}
  /\ pc' = [e \in Evaluators |-> "idle"]
  /\ queue' = [e \in Evaluators |-> {}]
  /\ snap' = [e \in Evaluators |-> [p \in Policies |-> Blank]]
  /\ expired' = [e \in Evaluators |-> {}]
  /\ cur' = [e \in Evaluators |-> None]
  /\ target' = [e \in Evaluators |-> None]
  /\ UNCHANGED <<rowVars, docker, pstate, policy, userVars>>

\* Time passes, for the rows and for the objects loaded from them.
Older(a) == IF a < MaxCooldown THEN a + 1 ELSE a

Tick ==
  /\ policy' = [p \in Policies |-> [policy[p] EXCEPT !.age = Older(@)]]
  /\ snap' = [e \in Evaluators |->
                [p \in Policies |-> [snap[e][p] EXCEPT !.age = Older(@)]]]
  /\ UNCHANGED <<rowVars, docker, pstate, creating, userVars,
                 pc, queue, expired, cur, target>>

\* What the event loop runs for an evaluator that is not idle.
Step(e) ==
  \/ EndRound(e) \/ Decide(e)
  \/ \E p \in Policies : AbortRound(e, p) \/ SkipPolicy(e, p) \/ SamplePolicy(e, p)
  \/ RunFails(e) \/ RunReplica(e) \/ RecordReplica(e) \/ RecordFails(e)
  \/ PickReplica(e) \/ RetireReplica(e) \/ RetireFails(e)

UserStep ==
  \/ \E x \in Container : start_container(x) \/ stop_container(x) \/ delete_container(x)
  \/ \E p \in Policies : \/ CheckNoPolicy(p) \/ InsertPolicy(p)
                         \/ update_scaling_policy(p) \/ toggle_scaling_policy(p)
                         \/ delete_scaling_policy(p)

Next ==
  \/ \E e \in Evaluators : \/ autoscaler_background_task(e) \/ evaluate_policies_now(e)
                           \/ Step(e)
  \/ UserStep
  \/ Crash
  \/ Tick

Spec == Init /\ [][Next]_vars

\* The event loop serves its ready callbacks in turn, so an evaluator whose
\* stats have arrived resumes although others hold the loop in between; the
\* background loop starts round after round; time passes.  Users owe nothing.
Fairness ==
  /\ \A e \in Evaluators : WF_vars(Step(e)) /\ SF_vars(Decide(e))
  /\ SF_vars(autoscaler_background_task(Background))
  /\ WF_vars(Tick)

FairSpec == Spec /\ Fairness

-----------------------------------------------------------------------------
(* Properties *)

\* No interleaving of rounds, evaluate-now requests, faults and users pushes a
\* family past the largest max_replicas the schema accepts, except by the
\* members users start themselves: the count, the decision and the commit of
\* scale_up never straddle an await, so two activations cannot both take the
\* last slot.
FleetBound ==
  \A c \in Parents : ReplicaCount(c) <= MaxReplicasLimit + starts[c]

\* Whatever stale policy objects, evaluators and users do in between, scaling
\* down never takes a family below the smallest min_replicas anyone configured;
\* only users' own stops and deletes do.
FleetFloor ==
  \A c \in Parents : ReplicaCount(c) + stops[c] >= InitMin

\* The scaler, its faults and its users together implement Fleet: a family
\* changes by one running member at a time, scale_up adds one only below the
\* ceiling and scale_down removes one only above the floor, and every other
\* change is one start, stop or delete a user asked for.
F == INSTANCE Fleet WITH
       Families <- Parents, Floor <- InitMin, Ceiling <- MaxReplicasLimit,
       size <- [c \in Parents |-> ReplicaCount(c)], joined <- starts, left <- stops

ImplementsFleet == F!FleetSpec

\* When a scaling is committed, the last one committed before it is at least as
\* old as the cooldown period the evaluator loaded: its copy of last_scaled_at may
\* be stale, but never so that it scales too soon.  (A cooldown period raised
\* between that load and the commit counts from the next round on.)
CooldownRespected ==
  [][\A e \in Evaluators :
       RecordReplica(e) \/ RetireReplica(e) =>
         CooledDown([policy[cur[e]] EXCEPT !.cooldown = snap[e][cur[e]].cooldown])]_vars

\* A replica that no evaluator is working on is running in the database exactly
\* when its docker container is up: the two-step docker-then-commit protocol
\* leaves neither leaked containers nor phantom rows.
FleetMirrorsDocker ==
  \A i \in Replica :
    (\A e \in Evaluators : target[e] # i)
      => (docker[i] = "up" <=> status[i] = "running")

\* No evaluator has replica i in hand, and its row and docker disagree about it.
Estranged(i) ==
  /\ \A e \in Evaluators : target[e] # i
  /\ ~(docker[i] = "up" <=> status[i] = "running")

\* The only ways to lose a replica, so that its row and docker disagree for good:
\* the process dies, its user starts, stops or deletes the row, or the commit
\* after docker's command fails, or docker failed to stop what the commit retires.
\* Nothing that happens to its parent, its policy or another replica does it.
LostForCause ==
  [][\A i \in Replica : ~Estranged(i) /\ Estranged(i)' =>
       \/ Crash \/ start_container(i) \/ stop_container(i) \/ delete_container(i)
       \/ \E e \in Evaluators :
            /\ target[e] = i
            /\ RecordFails(e) \/ RetireFails(e) \/ (RetireReplica(e) /\ docker[i] = "up")]_vars

\* Every round that starts comes to an end, whatever users and faults do to the
\* rows it is working through.
RoundsEnd == \A e \in Evaluators : pc[e] # "idle" ~> pc[e] = "idle"

\* Under lasting low load every live, enabled policy ends up with no more
\* running members than its min_replicas.
ScalesDown ==
  <>[](\A p \in Policies : pstate[p] = "live" /\ policy[p].enabled
         => ReplicaCount(PolicyOn[p]) <= policy[p].min)

\* Under lasting high load every live, enabled policy ends up with its
\* max_replicas running, unless docker has given the name or the port that
\* scale_up computes for the next replica to another container.
ScalesUp ==
  <>[](\A p \in Policies : pstate[p] = "live" /\ policy[p].enabled =>
         LET c == PolicyOn[p]
             n == ReplicaCount(c)
         IN  n >= policy[p].max \/ NameTaken(c, n) \/ PortTaken(BasePort[c] + n))

-----------------------------------------------------------------------------
(* The inductive invariant behind FleetBound and FleetFloor *)

\* One evaluator at a time is between two awaits.
Exclusive == \A e, f \in Evaluators : Busy(e) /\ Busy(f) => e = f

\* Replicas docker has not created have no row.
Unlaunched == \A i \in Replica : family[i] = None => status[i] = "absent"

\* The replica in flight belongs to the family of the policy being evaluated.
TargetKnown ==
  \A e \in Evaluators :
    /\ pc[e] \in {"record", "retire"} =>
         target[e] \in Replica /\ family[target[e]] = PolicyOn[cur[e]]
    /\ pc[e] = "record" => status[target[e]] = "absent"

\* From the decision to scale up to its commit there is room for one more.
Room ==
  \A e \in Evaluators : pc[e] \in {"run", "record"} =>
    ReplicaCount(PolicyOn[cur[e]]) < MaxReplicasLimit + starts[PolicyOn[cur[e]]]

\* From the decision to scale down to its commit there is one to spare.
Spare ==
  \A e \in Evaluators : pc[e] \in {"pick", "retire"} =>
    ReplicaCount(PolicyOn[cur[e]]) + stops[PolicyOn[cur[e]]] > InitMin

\* No row, and no copy of a row an evaluator may act on, has a smaller minimum.
MinKept ==
  /\ \A p \in Policies : pstate[p] = "live" => policy[p].min >= InitMin
  /\ \A e \in Evaluators, p \in Policies :
       snap[e][p].enabled => snap[e][p].min >= InitMin

IInv ==
  /\ TypeOK /\ Exclusive /\ Unlaunched /\ TargetKnown /\ MinKept
  /\ Room /\ Spare /\ FleetBound /\ FleetFloor

-----------------------------------------------------------------------------
(* The inductive invariant behind FleetMirrorsDocker, and when it holds *)

\* Commits and docker's removals succeed, the process lives, and users only
\* create, update and toggle policies: what they do to a container is written
\* to its row and never told to docker.
RowsFollowDocker ==
  Faults \subseteq {"run", "stats"} /\ Ops \subseteq {"create", "update", "toggle"}

\* A target exists only between the docker command and the commit about it.
InFlight ==
  \A e \in Evaluators :
    /\ target[e] # None => pc[e] \in {"record", "retire"}
    /\ pc[e] = "record" => /\ target[e] \in Replica
                           /\ docker[target[e]] = "up" /\ status[target[e]] = "absent"
    /\ pc[e] = "retire" => /\ target[e] \in Replica
                           /\ docker[target[e]] = "none" /\ status[target[e]] = "running"

\* The policies of a round keep their rows, so that its commits find them.
RoundLive ==
  \A e \in Evaluators :
    /\ \A p \in queue[e] : pstate[p] = "live"
    /\ pc[e] \notin {"idle", "next"} => pstate[cur[e]] = "live"

MirrorInv ==
  /\ TypeOK /\ Exclusive /\ Unlaunched /\ InFlight /\ RoundLive /\ FleetMirrorsDocker
  /\ \A i \in Replica : family[i] = None => docker[i] = "none"

\* What stays of InFlight when anything may fail: with IInv, the invariant behind
\* LostForCause.
Held ==
  /\ \A e \in Evaluators :
       /\ target[e] # None => pc[e] \in {"record", "retire"}
       /\ pc[e] = "record" => docker[target[e]] = "up"
       /\ pc[e] = "retire" => target[e] \in Replica
  /\ \A i \in Replica : family[i] = None => docker[i] = "none"
=============================================================================
