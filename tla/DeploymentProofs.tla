--------------------------- MODULE DeploymentProofs ---------------------------
(***************************************************************************)
(* The port search of deploy_container is right, and Deployment is type    *)
(* correct and keeps its four invariants, for any requests, kinds, names,  *)
(* wanted ports, user calls and faults.                                    *)
(***************************************************************************)
EXTENDS Deployment, FiniteSetTheorems, WellFoundedInduction, TLAPS

-----------------------------------------------------------------------------
(* find_available_port *)

\* Of the ports that are in use there are finitely many.
LEMMA UsedFinite == IsFiniteSet(UsedPorts) /\ Cardinality(UsedPorts) \in Nat
<1> DEFINE S == {q \in Requests : Exists(q)}
           f == [q \in S |-> port[q]]
<1>1. IsFiniteSet(S)
  BY FS_Subset, RequestAssumption
<1>2. f \in Surjection(S, UsedPorts)
  BY DEF UsedPorts, Surjection
<1>3. IsFiniteSet(UsedPorts)
  <2> HIDE DEF S, f
  <2> QED
    BY <1>1, <1>2, FS_Surjection
<1> QED
  BY <1>3, FS_CardinalityType

\* Among one more candidates than ports in use one is free.
LEMMA SomePortFree ==
  StartPort..(StartPort + Cardinality(UsedPorts)) \ UsedPorts # {}
<1> DEFINE k == Cardinality(UsedPorts)
           C == StartPort..(StartPort + k)
<1>1. k \in Nat /\ IsFiniteSet(UsedPorts) /\ StartPort \in Nat
  BY UsedFinite, RequestAssumption
<1>2. Cardinality(C) = k + 1
  BY <1>1, FS_Interval
<1>3. CASE C \subseteq UsedPorts
  <2>1. Cardinality(C) <= k
    BY <1>1, <1>3, FS_Subset
  <2> QED
    BY <1>1, <1>2, <2>1
<1> QED
  BY <1>3

\* find_available_port (routes_containers.py:23) returns the least port from
\* StartPort on that no committed row has, and the search always ends.
THEOREM LeastFreePort ==
  /\ find_available_port \in Nat \ UsedPorts
  /\ find_available_port >= StartPort
  /\ \A n \in StartPort..(find_available_port - 1) : n \in UsedPorts
<1> DEFINE C == StartPort..(StartPort + Cardinality(UsedPorts))
           T == C \ UsedPorts
<1>1. Cardinality(UsedPorts) \in Nat /\ StartPort \in Nat
  BY UsedFinite, RequestAssumption
<1>2. T \subseteq Nat /\ T # {}
  BY <1>1, SomePortFree
<1>3. \E n \in T : \A m \in T : ~(<<m, n>> \in OpToRel(<, Nat))
  <2> HIDE DEF T
  <2> QED
    BY <1>2, WFMin, NatLessThanWellFounded
<1>4. PICK n \in T : \A m \in T : ~(m < n)
  <2> HIDE DEF T
  <2> QED
    BY <1>2, <1>3 DEF OpToRel
<1>5. StartPort..(n - 1) \subseteq UsedPorts
  <2> SUFFICES ASSUME NEW m \in StartPort..(n - 1)
               PROVE  m \in UsedPorts
    OBVIOUS
  <2>1. n \in C /\ n \in Int /\ m \in Int /\ m < n
    BY <1>1
  <2>2. m \in C
    BY <1>1, <2>1
  <2>3. m \notin T
    BY <1>4, <2>1
  <2> QED
    BY <2>2, <2>3
<1>6. \E p \in C : p \notin UsedPorts /\ StartPort..(p - 1) \subseteq UsedPorts
  BY <1>4, <1>5
<1>7. /\ find_available_port \in C
      /\ find_available_port \notin UsedPorts
      /\ StartPort..(find_available_port - 1) \subseteq UsedPorts
  BY <1>6 DEF find_available_port
<1> QED
  BY <1>1, <1>7

-----------------------------------------------------------------------------
(* Type correctness *)

\* Every step keeps the types.
LEMMA TypeStep ==
  ASSUME TypeOK, [Next]_vars
  PROVE  TypeOK'
<1> USE RequestAssumption DEF TypeOK, Done, Goto
<1>1. ASSUME NEW r \in Requests, deploy_container(r)
      PROVE  TypeOK'
  BY <1>1 DEF deploy_container
<1>2. ASSUME NEW r \in Requests, AssignPort(r)
      PROVE  TypeOK'
  <2> DEFINE p == IF Want[r] = None THEN find_available_port ELSE Want[r]
  <2>1. p \in Nat /\ p # None
    BY LeastFreePort
  <2>2. port' = [port EXCEPT ![r] = p] /\ pc[r] = "port"
    BY <1>2 DEF AssignPort
  <2>3. port' \in [Requests -> Nat \cup {None}]
    <3> HIDE DEF p
    <3> QED
      BY <2>1, <2>2
  <2>4. \A q \in Requests : port'[q] = None => pc'[q] \in Done \cup {"idle", "port"}
    <3> HIDE DEF p
    <3> QED
      BY <1>2, <2>1, <2>2 DEF AssignPort
  <2> QED
    BY <1>2, <2>3, <2>4 DEF AssignPort
<1>3. ASSUME NEW r \in Requests, CheckDocker(r)
      PROVE  TypeOK'
  BY <1>3 DEF CheckDocker
<1>4. ASSUME NEW r \in Requests, InsertPending(r)
      PROVE  TypeOK'
  BY <1>4 DEF InsertPending
<1>5. ASSUME NEW r \in Requests, Refresh(r) \/ pull_image(r)
      PROVE  TypeOK'
  BY <1>5 DEF Refresh, pull_image
<1>6. ASSUME NEW r \in Requests, clone_repository(r) \/ build_image_from_path(r)
      PROVE  TypeOK'
  BY <1>6 DEF clone_repository, build_image_from_path
<1>7. ASSUME NEW r \in Requests, run_container(r)
      PROVE  TypeOK'
  BY <1>7 DEF run_container
<1>8. ASSUME NEW r \in Requests, SavePullError(r) \/ SaveError(r) \/ SaveRunning(r)
      PROVE  TypeOK'
  BY <1>8 DEF SavePullError, SaveError, StoreError, SaveRunning
<1>9. ASSUME NEW r \in Requests, start_container(r) \/ stop_container(r) \/ delete_container(r)
      PROVE  TypeOK'
  BY <1>9 DEF start_container, stop_container, delete_container
<1>10. CASE Crash
  BY <1>10 DEF Crash
<1>11. CASE UNCHANGED vars
  BY <1>11 DEF vars
<1> QED
  BY <1>1, <1>2, <1>3, <1>4, <1>5, <1>6, <1>7, <1>8, <1>9, <1>10, <1>11 DEF Next

\* Every reachable state is well typed, and a request past its port search has
\* a port.
THEOREM TypeCorrect == Spec => []TypeOK
<1>1. Init => TypeOK
  BY DEF Init, TypeOK, Done
<1> QED
  BY <1>1, TypeStep, PTL DEF Spec

-----------------------------------------------------------------------------
(* The inductive invariant *)

\* A container is up only behind a request that has launched it, and a real
\* request about to store "running" has its container up.
UpIsLaunched ==
  /\ \A r \in Requests : docker[r] = "up" => pc[r] \in {"commit"} \cup Done
  /\ \A r \in Real : pc[r] = "commit" => docker[r] = "up"

\* Docker gives a host port once.
UpPortsApart ==
  \A q, r \in Requests :
    q # r /\ docker[q] = "up" /\ docker[r] = "up" => port[q] # port[r]

\* A row that reads running was put there by its launch or by a user.
RunningIsEarned ==
  \A r \in Real : row[r] = "running" => docker[r] = "up" \/ r \in started

\* There is no row before the first commit, and an answered request has stored
\* how it ended.
RowsFollow ==
  \A r \in Requests :
    /\ pc[r] \in {"idle", "port", "check", "insert", "clone"} => row[r] = "absent"
    /\ pc[r] = "over" => row[r] # "pending"
    /\ pc[r] = "over" /\ docker[r] = "up" => row[r] \notin {"absent", "error"}

\* Where a request with a clone, or with a directory no one knows of, can be.
ClonePlaces ==
  /\ \A r \in clone : pc[r] \in {"build", "run", "fail", "lost"}
  /\ \A r \in stray : pc[r] \in {"fail"} \cup Done

DInv ==
  /\ TypeOK /\ UpIsLaunched /\ UpPortsApart /\ RunningIsEarned
  /\ RowsFollow /\ ClonePlaces

\* The initial states satisfy the invariant.
LEMMA InitHolds == Init => DInv
BY DEF Init, DInv, TypeOK, UpIsLaunched, UpPortsApart, RunningIsEarned, RowsFollow,
       ClonePlaces, Done, Real

\* Every action keeps the invariant.
LEMMA InvStep ==
  ASSUME DInv, [Next]_vars
  PROVE  DInv'
<1> USE DEF DInv, TypeOK, UpIsLaunched, UpPortsApart, RunningIsEarned, RowsFollow,
            ClonePlaces, Done, Goto, Real
<1>1. TypeOK'
  BY TypeStep
<1>2. ASSUME NEW r \in Requests, deploy_container(r)
      PROVE  DInv'
  BY <1>1, <1>2 DEF deploy_container
<1>3. ASSUME NEW r \in Requests, AssignPort(r)
      PROVE  DInv'
  BY <1>1, <1>3 DEF AssignPort
<1>4. ASSUME NEW r \in Requests, CheckDocker(r)
      PROVE  DInv'
  BY <1>1, <1>4 DEF CheckDocker
<1>5. ASSUME NEW r \in Requests, InsertPending(r)
      PROVE  DInv'
  BY <1>1, <1>5 DEF InsertPending
<1>6. ASSUME NEW r \in Requests, Refresh(r)
      PROVE  DInv'
  BY <1>1, <1>6 DEF Refresh
<1>7. ASSUME NEW r \in Requests, pull_image(r)
      PROVE  DInv'
  BY <1>1, <1>7 DEF pull_image
<1>8. ASSUME NEW r \in Requests, clone_repository(r)
      PROVE  DInv'
  BY <1>1, <1>8 DEF clone_repository
<1>9. ASSUME NEW r \in Requests, build_image_from_path(r)
      PROVE  DInv'
  BY <1>1, <1>9 DEF build_image_from_path
<1>10. ASSUME NEW r \in Requests, run_container(r)
      PROVE  DInv'
  <2>1. docker[r] # "up" /\ pc[r] = "run" /\ UNCHANGED <<row, port, stray, started>>
    BY <1>10 DEF run_container
  <2>2. CASE UNCHANGED docker
    BY <1>1, <1>10, <2>1, <2>2 DEF run_container
  <2>3. CASE docker' = [docker EXCEPT ![r] = "down"] /\ Goto(r, "fail") /\ UNCHANGED clone
    BY <1>1, <2>1, <2>3
  <2>4. CASE /\ ~PortBound(port[r])
             /\ docker' = [docker EXCEPT ![r] = "up"]
             /\ clone' = clone \ {r} /\ Goto(r, "commit")
    <3>1. UpPortsApart'
      BY <2>1, <2>4 DEF PortBound
    <3>2. UpIsLaunched' /\ RunningIsEarned'
      BY <2>1, <2>4
    <3>3. RowsFollow' /\ ClonePlaces'
      BY <2>1, <2>4
    <3> QED
      BY <1>1, <3>1, <3>2, <3>3
  <2> QED
    BY <1>10, <2>2, <2>3, <2>4 DEF run_container
<1>11. ASSUME NEW r \in Requests, SavePullError(r) \/ SaveError(r)
      PROVE  DInv'
  BY <1>1, <1>11 DEF SavePullError, SaveError, StoreError
<1>12. ASSUME NEW r \in Requests, SaveRunning(r)
      PROVE  DInv'
  BY <1>1, <1>12 DEF SaveRunning
<1>13. ASSUME NEW r \in Requests, start_container(r)
      PROVE  DInv'
  BY <1>1, <1>13 DEF start_container, Exists
<1>14. ASSUME NEW r \in Requests, stop_container(r)
      PROVE  DInv'
  BY <1>1, <1>14 DEF stop_container, Exists
<1>15. ASSUME NEW r \in Requests, delete_container(r)
      PROVE  DInv'
  BY <1>1, <1>15 DEF delete_container, Exists
<1>16. CASE Crash
  BY <1>1, <1>16 DEF Crash
<1>17. CASE UNCHANGED vars
  BY <1>1, <1>17 DEF vars
<1> QED
  BY <1>2, <1>3, <1>4, <1>5, <1>6, <1>7, <1>8, <1>9, <1>10, <1>11, <1>12, <1>13,
     <1>14, <1>15, <1>16, <1>17 DEF Next

\* The six parts hold in every reachable state.
THEOREM DeploymentInvariant == Spec => []DInv
BY InitHolds, InvStep, PTL DEF Spec

\* Two rows that read running never share a host port (routes_containers.py:25,
\* :152): docker arbitrates and the loser's row says so.
THEOREM RunningPortsDiffer == Spec => []PortsDistinct
<1>1. DInv => PortsDistinct
  BY DEF DInv, UpPortsApart, RunningIsEarned, PortsDistinct, Real
<1> QED
  BY <1>1, DeploymentInvariant, PTL

\* An answered request has told the truth about its container, however it was
\* interleaved with others and with its users' calls (routes_containers.py:162).
THEOREM AnswersAreTrue == Spec => []AnswerTrue
<1>1. DInv => AnswerTrue
  BY DEF DInv, RunningIsEarned, RowsFollow, AnswerTrue, Real
<1> QED
  BY <1>1, DeploymentInvariant, PTL

\* An answered request left no row at pending (routes_containers.py:266-308).
THEOREM NothingPending == Spec => []NoneLeftPending
<1>1. DInv => NoneLeftPending
  BY DEF DInv, RowsFollow, NoneLeftPending
<1> QED
  BY <1>1, DeploymentInvariant, PTL

\* An answered request has removed the clone it had the path of, whatever failed
\* after the clone was made (routes_containers.py:278).  That it leaves nothing
\* else of clone_repository on disk is refuted by a run.
THEOREM NoKnownCloneLeft == Spec => []KnownClonesRemoved
<1>1. DInv => KnownClonesRemoved
  BY DEF DInv, ClonePlaces, KnownClonesRemoved
<1> QED
  BY <1>1, DeploymentInvariant, PTL

\* What is left behind without an answer was left by a crash or by a last commit
\* that failed (routes_containers.py:266-308).
THEOREM AbandonedOnlyForCause == Spec => AbandonedForCause
<1> DEFINE Fate(r) == pc[r] # "lost" /\ pc'[r] = "lost" /\ LeftBehind(r)' =>
                        \/ Crash
                        \/ pc[r] \in {"unpulled", "fail", "commit"} /\ CommitFails(r) /\ r \notin clone'
<1>1. DInv /\ [Next]_vars => [\A r \in Requests : Fate(r)]_vars
  <2> SUFFICES ASSUME DInv, Next, ~Crash, NEW r \in Requests,
                      pc[r] # "lost", pc'[r] = "lost"
               PROVE  \/ ~LeftBehind(r)'
                      \/ pc[r] \in {"unpulled", "fail", "commit"} /\ CommitFails(r) /\ r \notin clone'
    BY DEF vars
  <2>1. \/ InsertPending(r) \/ Refresh(r) \/ SavePullError(r) \/ SaveError(r)
        \/ SaveRunning(r)
    BY DEF Next, DInv, TypeOK, Goto, deploy_container, AssignPort, CheckDocker, InsertPending,
       Refresh, pull_image, clone_repository, build_image_from_path, run_container,
       SavePullError, SaveError, StoreError, SaveRunning, start_container, stop_container, delete_container
  <2>2. CASE InsertPending(r)
    <3>1. row'[r] = "absent" /\ docker'[r] # "up" /\ r \notin (clone \cup stray)'
      BY <2>2 DEF InsertPending, DInv, TypeOK, Goto, RowsFollow, UpIsLaunched, ClonePlaces, Done
    <3> QED
      BY <3>1 DEF LeftBehind
  <2>3. CASE Refresh(r)
    <3>1. row'[r] \in {"absent", "deleted"} /\ docker'[r] # "up" /\ r \notin (clone \cup stray)'
      BY <2>3 DEF Refresh, DInv, TypeOK, Goto, UpIsLaunched, ClonePlaces, Done, Exists
    <3> QED
      BY <3>1 DEF LeftBehind
  <2>4. CASE SavePullError(r) \/ SaveError(r)
    BY <2>4 DEF SavePullError, SaveError, StoreError, DInv, TypeOK, Goto, ClonePlaces
  <2>5. CASE SaveRunning(r)
    BY <2>5 DEF SaveRunning, DInv, TypeOK, Goto, ClonePlaces
  <2> QED
    BY <2>1, <2>2, <2>3, <2>4, <2>5
<1> QED
  BY <1>1, DeploymentInvariant, PTL DEF Spec, AbandonedForCause
=============================================================================
