------------------------------ MODULE Metering ------------------------------
(***************************************************************************)
(* Metering of containers in the IntelliScaleSim backend: the billing loop *)
(* (main.py with services/billing_service.py), the gauges Prometheus       *)
(* scrapes (services/prometheus_metrics_service.py,                        *)
(* api/routes_monitoring.py), the route that meters one container on       *)
(* demand (api/routes_billing.py), and the routes that start, stop and     *)
(* delete containers under their feet.                                     *)
(*                                                                         *)
(* The loop holds one session for a whole round.  Objects it loaded go     *)
(* stale until its next commit, which expires them all: the next look at   *)
(* one of them reads the database again, and raises if its row is gone.    *)
(* Coroutines interleave where they await; the routes that start, stop and *)
(* delete run in threads and interleave anywhere.  The database is         *)
(* PostgreSQL: no id is given twice, and it refuses a usage row without    *)
(* its container as well as the removal of a container with usage rows.    *)
(*                                                                         *)
(* Abstractions.  What docker stats says is left out: a failed sample of   *)
(* the billing loop is stored as zeros, so only the gauges depend on it.   *)
(* Of the usage rows the model keeps what the code's course depends on,    *)
(* the one that comes between the two steps of a delete, and counts those  *)
(* of the current round.  A deleted container's gauges, which the code     *)
(* keeps, are left out.  Docker always answers.  A container deployed      *)
(* during a round is to that round like one that is started; the name of a *)
(* deleted container whose id no one holds any more is given to a new one, *)
(* so that deployments and deletes go on for ever.  At a time there is one *)
(* overview under way, or one delete and one metering request of the same  *)
(* container: those of different ones have no row in common.               *)
(***************************************************************************)
EXTENDS Naturals, FiniteSets

CONSTANTS
  Containers,  \* bound on the containers that exist, or that someone still has
               \* in mind, at a time
  Simulated,   \* those without a container_id, which nothing samples: simulated
               \* ones, and those whose deployment failed
  Faults       \* what may fail, and how often it likes

AllFaults == {"commit", "stats", "crash"}

ASSUME MeteringAssumption ==
  /\ Simulated \subseteq Containers
  /\ Faults \subseteq AllFaults

VARIABLES
  row,       \* containers.status; "gone": deleted
  deleting,  \* the container whose resource_usage a delete request has emptied
  late,      \* that one, if a usage row was committed since
  pc,        \* where the billing loop is
  queue,     \* containers its round has yet to visit
  cur,       \* the container it is at: a set of at most one
  stale,     \* nothing has been committed since the round's query
  wedged,    \* a COMMIT of the round failed, and its session does no more SQL
  collect,   \* POST /billing/collect-metrics: the container being sampled
  overview,  \* GET /monitoring/overview: containers it has yet to sample
  gauge,     \* existing containers with Prometheus gauges, in memory
  steady,    \* containers that have been running since the round's query
  billed,    \* how many usage rows the round has given each container
  upset      \* a container was deleted during the round

session == <<pc, queue, cur, stale, wedged>>
history == <<steady, billed, upset>>
vars == <<row, deleting, late, session, collect, overview, gauge, history>>

TypeOK ==
  /\ row \in [Containers -> {"running", "stopped", "gone"}]
  /\ deleting \in SUBSET Containers /\ Cardinality(deleting) <= 1
  /\ late \subseteq deleting
  /\ pc \in {"sleep", "visit", "sample", "save", "reload", "gauge"}
  /\ queue \subseteq Containers
  /\ cur \in SUBSET (Containers \ Simulated) /\ Cardinality(cur) <= 1
  /\ cur = {} <=> pc \in {"sleep", "visit"}
  /\ overview = {} \/ (collect = {} /\ deleting = {})
  /\ stale \in BOOLEAN /\ wedged \in BOOLEAN
  /\ collect \in SUBSET (Containers \ Simulated) /\ Cardinality(collect) <= 1
  /\ overview \subseteq Containers \ Simulated
  /\ gauge \subseteq Containers \ Simulated
  /\ steady \subseteq Containers \ Simulated
  /\ billed \in [Containers -> 0..2]
  /\ upset \in BOOLEAN

-----------------------------------------------------------------------------
Exists(c) == row[c] # "gone"

\* The loop is not between two awaits; no request awaits docker.
LoopFree == pc # "reload"
NoRequest == collect = {} /\ overview = {}

Init ==
  /\ row \in [Containers -> {"running", "stopped", "gone"}]
  /\ deleting = {} /\ late = {}
  /\ pc = "sleep" /\ queue = {} /\ cur = {} /\ stale = FALSE /\ wedged = FALSE
  /\ collect = {} /\ overview = {} /\ gauge = {}
  /\ steady = {} /\ billed = [c \in Containers |-> 0] /\ upset = FALSE

-----------------------------------------------------------------------------
(* One round of the billing loop *)

\* After a minute's sleep: the running containers, in no particular order.
StartRound ==
  /\ pc = "sleep"
  /\ pc' = "visit" /\ stale' = TRUE
  /\ queue' = {c \in Containers : row[c] = "running"}
  /\ steady' = queue' \ Simulated
  /\ UNCHANGED <<row, deleting, late, cur, wedged, collect, overview, gauge, billed,
                 upset>>

\* The session is closed.
Close ==
  /\ pc' = "sleep" /\ queue' = {} /\ cur' = {} /\ stale' = FALSE /\ wedged' = FALSE
  /\ steady' = {} /\ billed' = [c \in Containers |-> 0] /\ upset' = FALSE

EndRound ==
  /\ pc = "visit" /\ queue = {}
  /\ Close
  /\ UNCHANGED <<row, deleting, late, collect, overview, gauge>>

\* Broken AbortRound: the place the loop was at outlives the round.
AbortInPlace ==
  /\ pc' = "sleep" /\ queue' = {} /\ stale' = FALSE /\ wedged' = FALSE
  /\ steady' = {} /\ billed' = [c \in Containers |-> 0] /\ upset' = FALSE
  /\ UNCHANGED cur

\* An exception reaches the handler around the round.  One raised for a single
\* container does so too when the handler around the container cannot read
\* container.id: its row is gone, or its statement was refused.
AbortRound == Close

\* Broken Visit: a container that was stopped in the meantime raises.
VisitStrict(c) ==
  /\ pc = "visit" /\ c \in queue
  /\ \/ /\ ~stale /\ (wedged \/ row[c] # "running")
        /\ AbortRound
     \/ /\ stale \/ (~wedged /\ row[c] = "running")
        /\ IF c \in Simulated THEN UNCHANGED <<pc, cur>> ELSE pc' = "sample" /\ cur' = {c}
        /\ queue' = queue \ {c}
        /\ UNCHANGED <<stale, wedged, history>>
  /\ UNCHANGED <<row, deleting, late, collect, overview, gauge>>

\* collect_container_metrics looks at the status it believes in: the one of the
\* query while nothing was committed, else the one in the database.
Visit(c) ==
  /\ pc = "visit" /\ c \in queue
  /\ \/ /\ ~stale /\ (wedged \/ ~Exists(c))
        /\ AbortRound
     \/ /\ stale \/ (~wedged /\ row[c] = "running")
        /\ c \notin Simulated
        /\ pc' = "sample" /\ cur' = {c} /\ queue' = queue \ {c}
        /\ UNCHANGED <<stale, wedged, history>>
     \/ /\ stale \/ (~wedged /\ Exists(c))
        /\ c \in Simulated \/ (~stale /\ row[c] = "stopped")
        /\ queue' = queue \ {c}
        /\ UNCHANGED <<pc, cur, stale, wedged, history>>
  /\ UNCHANGED <<row, deleting, late, collect, overview, gauge>>

\* Broken Sample: a sample that fails is no sample, and the container is left out.
SampleOrSkip ==
  /\ pc = "sample"
  /\ \/ pc' = "save" /\ UNCHANGED cur
     \/ "stats" \in Faults /\ pc' = "visit" /\ cur' = {}
  /\ UNCHANGED <<row, deleting, late, queue, stale, wedged, collect, overview, gauge,
                 history>>

\* The await of docker stats.
Sample ==
  /\ pc = "sample" /\ pc' = "save"
  /\ UNCHANGED <<row, deleting, late, queue, cur, stale, wedged, collect, overview,
                 gauge, history>>

\* A usage row of c is committed.
Insert(c) ==
  /\ Exists(c)
  /\ late' = late \cup ({c} \cap deleting)

\* save_resource_usage up to its commit, which expires every object.
Save(c) ==
  /\ pc = "save" /\ c \in cur /\ ~wedged
  /\ Insert(c)
  /\ billed' = [billed EXCEPT ![c] = @ + 1]
  /\ pc' = "reload" /\ stale' = FALSE
  /\ UNCHANGED <<row, deleting, queue, cur, wedged, collect, overview, gauge, steady,
                 upset>>

\* The database refuses the INSERT, because the container is gone or for a reason
\* of its own: the session is rolled back, its objects expire, and the handler
\* raises again.  Or the COMMIT itself fails: the session is left as it is, the
\* handler logs the error and the round goes on, but will commit nothing more.
SaveFails(c) ==
  /\ pc = "save" /\ c \in cur
  /\ \/ /\ ~wedged /\ (~Exists(c) \/ "commit" \in Faults)
        /\ AbortRound
     \/ /\ wedged \/ (Exists(c) /\ "commit" \in Faults)
        /\ wedged' = TRUE
        /\ pc' = "visit" /\ cur' = {}
        /\ UNCHANGED <<queue, stale, history>>
  /\ UNCHANGED <<row, deleting, late, collect, overview, gauge>>

\* db.refresh of the usage row, and the container read again for the gauges.
Reload(c) ==
  /\ pc = "reload" /\ c \in cur
  /\ \/ ~Exists(c) /\ AbortRound
     \/ Exists(c) /\ pc' = "gauge" /\ UNCHANGED <<queue, cur, stale, wedged, history>>
  /\ UNCHANGED <<row, deleting, late, collect, overview, gauge>>

\* update_container_metrics once its own sample is there, or is not.
SampleGauge(c) ==
  \/ gauge' = IF Exists(c) THEN gauge \cup {c} ELSE gauge
  \/ "stats" \in Faults /\ UNCHANGED gauge

\* Broken UpdateGauge: the gauges are left to the overview.
UpdateNoGauge(c) ==
  /\ pc = "gauge" /\ c \in cur
  /\ pc' = "visit" /\ cur' = {}
  /\ UNCHANGED <<row, deleting, late, queue, stale, wedged, collect, overview, gauge,
                 history>>

UpdateGauge(c) ==
  /\ pc = "gauge" /\ c \in cur
  /\ SampleGauge(c)
  /\ pc' = "visit" /\ cur' = {}
  /\ UNCHANGED <<row, deleting, late, queue, stale, wedged, collect, overview, history>>

billing_metrics_background_task ==
  \/ StartRound \/ EndRound \/ Sample
  \/ \E c \in Containers : Visit(c) \/ Save(c) \/ SaveFails(c) \/ Reload(c) \/ UpdateGauge(c)

-----------------------------------------------------------------------------
(* Other coroutines *)

collect_and_save_metrics(c) ==
  /\ LoopFree /\ NoRequest /\ deleting \subseteq {c}
  /\ c \notin Simulated /\ row[c] = "running"
  /\ collect' = {c}
  /\ UNCHANGED <<row, deleting, late, session, overview, gauge, history>>

\* Its commit, or the error it ends with.
CollectSave(c) ==
  /\ LoopFree /\ c \in collect
  /\ collect' = {}
  /\ \/ Insert(c)
     \/ (~Exists(c) \/ "commit" \in Faults) /\ UNCHANGED late
  /\ UNCHANGED <<row, deleting, session, overview, gauge, history>>

\* The overview never commits: it goes through what its query found.
get_monitoring_overview ==
  /\ LoopFree /\ NoRequest /\ deleting = {}
  /\ overview' = {c \in Containers \ Simulated : row[c] = "running"}
  /\ UNCHANGED <<row, deleting, late, session, collect, gauge, history>>

OverviewGauge(c) ==
  /\ LoopFree /\ c \in overview
  /\ overview' = overview \ {c}
  /\ SampleGauge(c)
  /\ UNCHANGED <<row, deleting, late, session, collect, history>>

-----------------------------------------------------------------------------
(* Routes that run in threads *)

\* A deployment is over: its container, or the row of one that failed, takes the
\* name of a deleted one that no one has in mind.
deploy_container(c) ==
  /\ row[c] = "gone" /\ c \notin queue \cup cur \cup deleting \cup collect \cup overview
  /\ \/ row' = [row EXCEPT ![c] = "running"]
     \/ c \in Simulated /\ row' = [row EXCEPT ![c] = "stopped"]
  /\ billed' = [billed EXCEPT ![c] = 0]
  /\ UNCHANGED <<deleting, late, session, collect, overview, gauge, steady, upset>>

start_container(c) ==
  /\ row[c] = "stopped"
  /\ row' = [row EXCEPT ![c] = "running"]
  /\ UNCHANGED <<deleting, late, session, collect, overview, gauge, history>>

stop_container(c) ==
  /\ row[c] = "running"
  /\ row' = [row EXCEPT ![c] = "stopped"]
  /\ steady' = steady \ {c}
  /\ UNCHANGED <<deleting, late, session, collect, overview, gauge, billed, upset>>

\* delete_container: the bulk delete of the usage rows, which no one else sees
\* before the commit.
EmptyUsage(c) ==
  /\ Exists(c) /\ deleting = {} /\ overview = {} /\ collect \subseteq {c}
  /\ deleting' = {c}
  /\ UNCHANGED <<row, late, session, collect, overview, gauge, history>>

\* Its commit: refused when a usage row came in between, or with the database.
delete_container(c) ==
  /\ c \in deleting
  /\ deleting' = {} /\ late' = {}
  /\ \/ /\ c \notin late
        /\ row' = [row EXCEPT ![c] = "gone"]
        /\ steady' = steady \ {c} /\ gauge' = gauge \ {c}
        /\ upset' = (pc # "sleep")
     \/ (c \in late \/ "commit" \in Faults) /\ UNCHANGED <<row, steady, gauge, upset>>
  /\ UNCHANGED <<session, collect, overview, billed>>

\* The backend process dies and is started again: its open transactions are
\* rolled back and its gauges are lost.
Crash ==
  /\ "crash" \in Faults
  /\ Close
  /\ deleting' = {} /\ late' = {} /\ collect' = {} /\ overview' = {} /\ gauge' = {}
  /\ UNCHANGED row

Next ==
  \/ billing_metrics_background_task
  \/ get_monitoring_overview
  \/ \E c \in Containers :
       \/ collect_and_save_metrics(c) \/ CollectSave(c) \/ OverviewGauge(c)
       \/ deploy_container(c) \/ start_container(c) \/ stop_container(c)
       \/ EmptyUsage(c) \/ delete_container(c)
  \/ Crash

\* The loop is a task of the event loop, and docker answers it: not every time
\* with stats of a container, but not for ever without.
Spec ==
  /\ Init /\ [][Next]_vars
  /\ WF_vars(billing_metrics_background_task)
  /\ \A c \in Containers \ Simulated : SF_vars(UpdateGauge(c) /\ c \in gauge')

-----------------------------------------------------------------------------
(* Properties *)

\* A round that runs to its end with a sound session has given every container
\* that was running all the while exactly one usage row, and no container two,
\* whatever was stopped, started, deployed or metered on demand meanwhile: a bill
\* is an average over rows.
RoundCovers ==
  /\ \A c \in Containers : billed[c] <= 1
  /\ pc = "visit" /\ queue = {} /\ ~wedged => \A c \in steady : billed[c] = 1

\* A round that began is given up only if a container was deleted while it went
\* on, if its COMMIT has failed, or at the save the database refuses, or with the
\* process; that containers stop and start does not disturb it.
AbortOnlyForCause ==
  [][queue # {} \/ cur # {} =>
       pc' # "sleep" \/ upset \/ wedged \/ (pc = "save" /\ "commit" \in Faults) \/ Crash]_vars

\* Rounds are left alone for good: no container is deleted while one goes on, and
\* no save and no process fails.
LeftAlone ==
  /\ <>[]~upset
  /\ <>[][~Crash /\ \A c \in Containers : ~SaveFails(c)]_vars

\* However many rounds were given up, wherever they were, rounds that are left
\* alone meter a container that stays running again and again.
MeteredAgain ==
  LeftAlone =>
    \A c \in Containers \ Simulated :
      <>[](row[c] = "running") => []<><<Save(c)>>_vars

\* They end up giving it gauges for Prometheus, also after a restart of the
\* backend and whether or not anyone asks for an overview.
Scraped ==
  LeftAlone =>
    \A c \in Containers \ Simulated :
      <>[](row[c] = "running") => <>[](c \in gauge)
=============================================================================
