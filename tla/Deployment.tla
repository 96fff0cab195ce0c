------------------------------ MODULE Deployment ------------------------------
(***************************************************************************)
(* POST /containers/deploy of the IntelliScaleSim backend                  *)
(* (routes_containers.py with services/git_service.py and                  *)
(* services/docker_service.py), and the routes that start, stop and delete *)
(* the row while its deployment is still going on.                         *)
(*                                                                         *)
(* A request runs in a thread of its own and has a session of its own; pc  *)
(* names the statement it is at.  A row is identified by the request that  *)
(* inserted it: the database is the PostgreSQL the README prescribes,      *)
(* which gives no id twice.  A row is in `row` once it is committed, which *)
(* a Docker Hub deployment does before it pulls, a GitHub deployment only  *)
(* at its end, and a simulated one in one go.                              *)
(*                                                                         *)
(* Abstractions.  Name stands for owner and name; a request without a port *)
(* wants None.  build_status, build logs, limits and the container's own   *)
(* port are left out.  Whether an image is local is nondeterministic, as   *)
(* are the outcomes of git and of docker, except that docker refuses a     *)
(* host port that is taken.  A commit that fails is refused at its flush.  *)
(* Replicas are not here (see AutoScaler).                                 *)
(***************************************************************************)
EXTENDS Naturals, FiniteSets

CONSTANTS
  Requests,    \* deploy requests; bound on the rows ever inserted
  Kind,        \* their deployment_type
  Name,        \* the container name each asks for, per owner
  Want,        \* the port each asks for, or None
  StartPort,   \* where find_available_port begins
  Ops,         \* which other calls the users make
  Faults,      \* what may fail
  None         \* no port given

AllOps    == {"start", "stop", "delete"}
\* "git": git ran and failed.  "exec": it could not be run at all, or what it
\* printed could not be decoded.
AllFaults == {"docker", "git", "exec", "commit", "crash"}
Real      == {r \in Requests : Kind[r] # "simulated"}

ASSUME RequestAssumption ==
  /\ IsFiniteSet(Requests)
  /\ Kind \in [Requests -> {"dockerhub", "github", "simulated"}]
  /\ DOMAIN Name = Requests
  /\ None \notin Nat
  /\ Want \in [Requests -> Nat \cup {None}]
  /\ StartPort \in Nat
  /\ Ops \subseteq AllOps /\ Faults \subseteq AllFaults

VARIABLES
  row,     \* containers.status of the row of each request; "absent": none yet
  port,    \* assigned_port
  docker,  \* what docker has of it: "none", "down" (created only) or "up"
  clone,   \* its temporary clone is on disk and the request knows where
  stray,   \* its temporary directory is on disk and no one knows where
  pc,      \* where the request is; "over": answered, "lost": it died, or
           \* could not even store how it ended
  started  \* rows that users put to running themselves

vars == <<row, port, docker, clone, stray, pc, started>>

Done == {"over", "lost"}

TypeOK ==
  /\ row \in [Requests -> {"absent", "pending", "running", "stopped", "error", "deleted"}]
  /\ port \in [Requests -> Nat \cup {None}]
  /\ docker \in [Requests -> {"none", "down", "up"}]
  /\ clone \subseteq Requests /\ stray \subseteq Requests
  /\ pc \in [Requests -> Done \cup {"idle", "port", "check", "insert", "refresh",
                                    "pull", "unpulled", "clone", "build", "run",
                                    "fail", "commit"}]
  /\ started \subseteq Requests
  /\ \A r \in Requests : port[r] = None => pc[r] \in Done \cup {"idle", "port"}

-----------------------------------------------------------------------------
(* Queries *)

Exists(r) == row[r] \notin {"absent", "deleted"}
Goto(r, l) == pc' = [pc EXCEPT ![r] = l]

\* Some committed row has the name, whatever its status.
NameInUse(r) == \E q \in Requests : Exists(q) /\ Name[q] = Name[r]

UsedPorts == {port[q] : q \in {q \in Requests : Exists(q)}}

\* The least port from StartPort on that no committed row has.
find_available_port ==
  CHOOSE n \in StartPort..(StartPort + Cardinality(UsedPorts)) :
    n \notin UsedPorts /\ StartPort..(n - 1) \subseteq UsedPorts

\* A running container publishes the host port n.
PortBound(n) == \E q \in Requests : docker[q] = "up" /\ port[q] = n

\* The statement that commits r's row can fail: an UPDATE of a row a user has
\* deleted, or the database.
CommitFails(r) == row[r] = "deleted" \/ "commit" \in Faults

-----------------------------------------------------------------------------
Init ==
  /\ row = [r \in Requests |-> "absent"]
  /\ port = [r \in Requests |-> None]
  /\ docker = [r \in Requests |-> "none"]
  /\ clone = {} /\ stray = {}
  /\ pc = [r \in Requests |-> "idle"]
  /\ started = {}

-----------------------------------------------------------------------------
(* deploy_container *)

\* The name is looked up; taken means 400 and nothing stored.
deploy_container(r) ==
  /\ pc[r] = "idle"
  /\ Goto(r, IF NameInUse(r) THEN "over" ELSE "port")
  /\ UNCHANGED <<row, port, docker, clone, stray, started>>

\* Broken AssignPort: no port is looked for.
AssignWanted(r) ==
  /\ pc[r] = "port"
  /\ port' = [port EXCEPT ![r] = Want[r]]
  /\ Goto(r, IF r \in Real THEN "check" ELSE "commit")
  /\ UNCHANGED <<row, docker, clone, stray, started>>

\* A free port is looked for; one that is asked for is not looked up.
AssignPort(r) ==
  /\ pc[r] = "port"
  /\ port' = [port EXCEPT ![r] = IF Want[r] = None THEN find_available_port ELSE Want[r]]
  /\ Goto(r, IF r \in Real THEN "check" ELSE "commit")
  /\ UNCHANGED <<row, docker, clone, stray, started>>

\* Docker is asked whether it is there before anything is stored; without it,
\* or with an incomplete payload, the request is refused.
\* GitHub goes on with a flush that no one else sees and a clone.
CheckDocker(r) ==
  /\ pc[r] = "check"
  /\ \/ "docker" \in Faults /\ Goto(r, "over")
     \/ Goto(r, IF Kind[r] = "dockerhub" THEN "insert" ELSE "clone")
  /\ UNCHANGED <<row, port, docker, clone, stray, started>>

\* Docker Hub: the pending row is committed ...
InsertPending(r) ==
  /\ pc[r] = "insert"
  /\ \/ row' = [row EXCEPT ![r] = "pending"] /\ Goto(r, "refresh")
     \/ "commit" \in Faults /\ Goto(r, "lost") /\ UNCHANGED row
  /\ UNCHANGED <<port, docker, clone, stray, started>>

\* ... and read back, which a concurrent delete makes fail, also in the handler.
\* An image that is not local is pulled.
Refresh(r) ==
  /\ pc[r] = "refresh"
  /\ IF Exists(r) THEN \E l \in {"pull", "run"} : Goto(r, l) ELSE Goto(r, "lost")
  /\ UNCHANGED <<row, port, docker, clone, stray, started>>

pull_image(r) ==
  /\ pc[r] = "pull"
  /\ Goto(r, "run") \/ ("docker" \in Faults /\ Goto(r, "unpulled"))
  /\ UNCHANGED <<row, port, docker, clone, stray, started>>

\* A clone that git refuses is removed by clone_repository itself.  Any other
\* exception leaves the directory it has made, and the caller without its path.
clone_repository(r) ==
  /\ pc[r] = "clone"
  /\ \/ clone' = clone \cup {r} /\ Goto(r, "build") /\ UNCHANGED stray
     \/ "git" \in Faults /\ Goto(r, "fail") /\ UNCHANGED <<clone, stray>>
     \/ "exec" \in Faults /\ stray' = stray \cup {r} /\ Goto(r, "fail") /\ UNCHANGED clone
  /\ UNCHANGED <<row, port, docker, started>>

\* find_dockerfile and build_image_from_path.
build_image_from_path(r) ==
  /\ pc[r] = "build"
  /\ Goto(r, "run") \/ ({"docker", "git"} \cap Faults # {} /\ Goto(r, "fail"))
  /\ UNCHANGED <<row, port, docker, clone, stray, started>>

\* Broken run_container: a refused port goes unnoticed.
RunUnchecked(r) ==
  /\ pc[r] = "run"
  /\ docker' = [docker EXCEPT ![r] = IF PortBound(port[r]) THEN "down" ELSE "up"]
  /\ Goto(r, "commit")
  /\ clone' = clone \ {r}
  /\ UNCHANGED <<row, port, stray, started>>

\* docker run.  On success the `finally` of GitHub removes the clone before the
\* commit.  Docker keeps, as created only, a container whose port is taken.
run_container(r) ==
  /\ pc[r] = "run"
  /\ \/ /\ ~PortBound(port[r])
        /\ docker' = [docker EXCEPT ![r] = "up"]
        /\ clone' = clone \ {r}
        /\ Goto(r, "commit")
     \/ /\ PortBound(port[r])
        /\ docker' = [docker EXCEPT ![r] = "down"]
        /\ Goto(r, "fail")
        /\ UNCHANGED clone
     \/ /\ "docker" \in Faults
        /\ Goto(r, "fail")
        /\ UNCHANGED <<docker, clone>>
  /\ UNCHANGED <<row, port, stray, started>>

\* Broken SaveError: the error is stored for GitHub only.
SaveErrorHalf(r) ==
  /\ pc[r] = "fail"
  /\ row' = IF Kind[r] = "github" THEN [row EXCEPT ![r] = "error"] ELSE row
  /\ clone' = clone \ {r}
  /\ Goto(r, "over")
  /\ UNCHANGED <<port, docker, stray, started>>

\* Broken SaveError: the clone is removed on success only.
SaveErrorUntidy(r) ==
  /\ pc[r] = "fail" /\ row[r] # "deleted"
  /\ row' = [row EXCEPT ![r] = "error"]
  /\ Goto(r, "over")
  /\ UNCHANGED <<port, docker, clone, stray, started>>

\* Broken SaveError: the clone is removed behind the commit, not in `finally`.
SaveErrorInLine(r) ==
  /\ pc[r] = "fail"
  /\ \/ /\ row[r] # "deleted"
        /\ row' = [row EXCEPT ![r] = "error"]
        /\ clone' = clone \ {r}
        /\ Goto(r, "over")
     \/ CommitFails(r) /\ Goto(r, "lost") /\ UNCHANGED <<row, clone>>
  /\ UNCHANGED <<port, docker, stray, started>>

\* The row is stored, or updated, as an error.
StoreError(r) ==
  /\ \/ /\ row[r] # "deleted"
        /\ row' = [row EXCEPT ![r] = "error"]
        /\ Goto(r, "over")
     \/ CommitFails(r) /\ Goto(r, "lost") /\ UNCHANGED row
  /\ UNCHANGED <<port, docker, stray, started>>

\* The handler of a failed pull.
SavePullError(r) == pc[r] = "unpulled" /\ StoreError(r) /\ UNCHANGED clone

\* The handlers of the GitHub branch, whose `finally` removes the clone it has
\* the path of, and of the whole route.
SaveError(r) == pc[r] = "fail" /\ StoreError(r) /\ clone' = clone \ {r}

\* Broken SaveRunning: the commit is left to the end of the session.
SaveNothing(r) ==
  /\ pc[r] = "commit"
  /\ Goto(r, "over")
  /\ UNCHANGED <<row, port, docker, clone, stray, started>>

\* The last commit, status running: an INSERT, or for Docker Hub an UPDATE,
\* whatever status users gave the pending row meanwhile.
SaveRunning(r) ==
  /\ pc[r] = "commit"
  /\ \/ /\ row[r] # "deleted"
        /\ row' = [row EXCEPT ![r] = "running"]
        /\ Goto(r, "over")
     \/ CommitFails(r) /\ Goto(r, "lost") /\ UNCHANGED row
  /\ UNCHANGED <<port, docker, clone, stray, started>>

-----------------------------------------------------------------------------
(* The other routes: the row only, docker is not told *)

start_container(r) ==
  /\ "start" \in Ops /\ Exists(r) /\ row[r] # "running"
  /\ row' = [row EXCEPT ![r] = "running"]
  /\ started' = started \cup {r}
  /\ UNCHANGED <<port, docker, clone, stray, pc>>

stop_container(r) ==
  /\ "stop" \in Ops /\ Exists(r) /\ row[r] # "stopped"
  /\ row' = [row EXCEPT ![r] = "stopped"]
  /\ UNCHANGED <<port, docker, clone, stray, pc, started>>

delete_container(r) ==
  /\ "delete" \in Ops /\ Exists(r)
  /\ row' = [row EXCEPT ![r] = "deleted"]
  /\ UNCHANGED <<port, docker, clone, stray, pc, started>>

\* The backend process dies: its requests do too.  Nothing at startup picks
\* them up, and docker goes on.
Crash ==
  /\ "crash" \in Faults
  /\ pc' = [r \in Requests |-> IF pc[r] \in {"idle", "over"} THEN pc[r] ELSE "lost"]
  /\ UNCHANGED <<row, port, docker, clone, stray, started>>

Next ==
  \/ \E r \in Requests :
       \/ deploy_container(r) \/ AssignPort(r) \/ CheckDocker(r)
       \/ InsertPending(r) \/ Refresh(r) \/ pull_image(r)
       \/ clone_repository(r) \/ build_image_from_path(r)
       \/ run_container(r) \/ SavePullError(r) \/ SaveError(r) \/ SaveRunning(r)
       \/ start_container(r) \/ stop_container(r) \/ delete_container(r)
  \/ Crash

Spec == Init /\ [][Next]_vars

-----------------------------------------------------------------------------
(* Properties *)

\* Two rows that read running never point users at the same host port, although
\* both requests may have been given it: docker arbitrates, and the loser's row
\* must say so.  Simulated rows and rows users started themselves have no
\* container behind them.
PortsDistinct ==
  \A q, r \in Real \ started :
    q # r /\ row[q] = "running" /\ row[r] = "running" => port[q] # port[r]

\* Once a request is answered, its container is up exactly when its row was at
\* last stored as running; users may have stopped, started or deleted it since.
\* No interleaving leaks a container behind an answer.
AnswerTrue ==
  \A r \in Real : pc[r] = "over" =>
    /\ docker[r] = "up" => row[r] \notin {"absent", "pending", "error"}
    /\ row[r] = "running" => docker[r] = "up" \/ r \in started

\* A request that was answered has left no row at pending, which nothing later
\* would take out of it.
NoneLeftPending == \A r \in Requests : pc[r] = "over" => row[r] # "pending"

\* "Always cleanup cloned repository" (routes_containers.py:277): an answered
\* request has left nothing that clone_repository made on disk.
ClonesRemoved == \A r \in clone \cup stray : pc[r] # "over"

\* An answered request has removed the clone it had the path of, whatever of the
\* build, the run or a user's delete of the row went wrong after it.
KnownClonesRemoved == \A r \in clone : pc[r] # "over"

\* A row that says nothing of how the request ended, a directory on disk, or a
\* container up behind no row that says so.
LeftBehind(r) ==
  \/ row[r] = "pending" \/ r \in clone \cup stray
  \/ docker[r] = "up" /\ row[r] \in {"absent", "error", "deleted"}

\* A request that is never answered leaves something behind only if the process
\* dies, or its very last commit fails; then a clone it had the path of is gone
\* all the same.  Nothing else that goes wrong, and no call of a user's but a
\* delete, does.
AbandonedForCause ==
  [][\A r \in Requests : pc[r] # "lost" /\ pc'[r] = "lost" /\ LeftBehind(r)' =>
       \/ Crash
       \/ pc[r] \in {"unpulled", "fail", "commit"} /\ CommitFails(r) /\ r \notin clone']_vars
=============================================================================
