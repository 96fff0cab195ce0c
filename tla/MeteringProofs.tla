---------------------------- MODULE MeteringProofs ----------------------------
(***************************************************************************)
(* A round of the billing loop bills as it should, and is given up only    *)
(* for a reason, for any containers and any number of faults.              *)
(***************************************************************************)
EXTENDS Metering, FiniteSetTheorems, TLAPS

-----------------------------------------------------------------------------
(* The invariant *)

\* Containers the round has yet to give a usage row.
Awaiting == IF pc \in {"sample", "save"} THEN queue \cup cur ELSE queue

\* While the loop sleeps there is no round.
AtRest == pc = "sleep" => queue = {} /\ steady = {} /\ \A c \in Containers : billed[c] = 0

\* There is one container in hand, and it is not also in the queue.
Apart == cur \cap queue = {} /\ \A c, d \in cur : c = d

\* Usage rows are given once, to containers the round is done with, and to all
\* of those that have been running, unless a COMMIT has failed.
OnceEach ==
  \A c \in Containers :
    /\ billed[c] \in {0, 1}
    /\ c \in Awaiting => billed[c] = 0
    /\ c \in steady \ Awaiting => billed[c] = 1 \/ wedged

\* What has been running all the while is running now.
SteadyRuns == \A c \in steady : row[c] = "running"

\* A container the round has in mind is gone only if it was deleted meanwhile.
GoneIsUpset == \A c \in queue \cup cur : row[c] = "gone" => upset

MInv == TypeOK /\ AtRest /\ Apart /\ OnceEach /\ SteadyRuns /\ GoneIsUpset

-----------------------------------------------------------------------------
(* Steps *)

\* Sets with one member.
LEMMA One == Cardinality({}) <= 1 /\ \A c : Cardinality({c}) <= 1
<1>1. Cardinality({}) = 0 /\ 0 <= 1 /\ 1 <= 1
  BY FS_EmptySet
<1>2. ASSUME NEW c
      PROVE  Cardinality({c}) <= 1
  BY <1>1, FS_Singleton
<1> QED
  <2>1. Cardinality({}) <= 1
    BY <1>1
  <2> QED
    BY <1>2, <2>1

\* The end of a round, however it comes about, and a restart.
LEMMA CloseStep ==
  ASSUME MInv, Close, UNCHANGED row,
         deleting' \in {deleting, {}}, late' \in {late, {}}, collect' \in {collect, {}},
         late' \subseteq deleting',
         overview' \in {overview, {}}, gauge' \in {gauge, {}}
  PROVE  MInv'
<1>1. deleting' \in SUBSET Containers /\ Cardinality(deleting') <= 1
  BY One DEF MInv, TypeOK
<1>2. cur' \in SUBSET (Containers \ Simulated) /\ Cardinality(cur') <= 1
  BY One DEF Close
<1>3. collect' \in SUBSET (Containers \ Simulated) /\ Cardinality(collect') <= 1
  BY One DEF MInv, TypeOK
<1>4. billed' \in [Containers -> 0..2] /\ upset' \in BOOLEAN
      /\ stale' \in BOOLEAN /\ wedged' \in BOOLEAN
  <2>1. billed' = [c \in Containers |-> 0] /\ upset' = FALSE /\ stale' = FALSE /\ wedged' = FALSE
    BY DEF Close
  <2>2. 0 \in 0..2
    OBVIOUS
  <2> QED
    BY <2>1, <2>2
<1>5. TypeOK'
  BY <1>1, <1>2, <1>3, <1>4 DEF MInv, TypeOK, Close
<1> QED
  BY <1>5 DEF MInv, TypeOK, Close, AtRest, Apart, OnceEach, SteadyRuns, GoneIsUpset, Awaiting

\* What leaves the loop alone.
LEMMA OthersStep ==
  ASSUME MInv, TypeOK', UNCHANGED <<session, steady, billed, upset, row>>
  PROVE  MInv'
BY DEF MInv, session, AtRest, Apart, OnceEach, SteadyRuns, GoneIsUpset, Awaiting

\* Every step keeps the invariant.
LEMMA InvStep ==
  ASSUME MInv, [Next]_vars
  PROVE  MInv'
<1> USE DEF session, history
<1>1. CASE StartRound
  <2>1. TypeOK'
    BY <1>1, One DEF MInv, TypeOK, StartRound
  <2> QED
    BY <1>1, <2>1 DEF MInv, StartRound, TypeOK, AtRest, Apart, OnceEach, SteadyRuns,
                      GoneIsUpset, Awaiting
<1>2. CASE EndRound
  BY <1>2, CloseStep DEF EndRound, MInv, TypeOK
<1>3. ASSUME NEW c \in Containers, Visit(c)
      PROVE  MInv'
  <2>1. CASE AbortRound
    BY <1>3, <2>1, CloseStep DEF Visit, MInv, TypeOK, AbortRound
  <2>2. CASE /\ c \notin Simulated /\ pc' = "sample" /\ cur' = {c} /\ queue' = queue \ {c}
             /\ UNCHANGED <<stale, wedged, history>>
    <3>1. TypeOK'
      BY <1>3, <2>2, One DEF Visit, MInv, TypeOK
    <3>2. Awaiting' = Awaiting
      BY <1>3, <2>2 DEF Visit, Awaiting
    <3> QED
      BY <1>3, <2>2, <3>1, <3>2 DEF Visit, MInv, TypeOK, AtRest, Apart, OnceEach,
                                    SteadyRuns, GoneIsUpset
  <2>3. CASE /\ c \in Simulated \/ (~stale /\ row[c] = "stopped")
             /\ queue' = queue \ {c} /\ UNCHANGED <<pc, cur, stale, wedged, history>>
    <3>1. TypeOK'
      BY <1>3, <2>3 DEF Visit, MInv, TypeOK
    <3>2. c \notin steady /\ pc = "visit" /\ pc' = "visit"
      BY <1>3, <2>3 DEF Visit, MInv, TypeOK, SteadyRuns
    <3> QED
      BY <1>3, <2>3, <3>1, <3>2 DEF Visit, MInv, TypeOK, AtRest, Apart, OnceEach,
                                    SteadyRuns, GoneIsUpset, Awaiting
  <2> QED
    BY <1>3, <2>1, <2>2, <2>3 DEF Visit
<1>4. CASE Sample
  <2>1. TypeOK'
    BY <1>4 DEF Sample, MInv, TypeOK
  <2> QED
    BY <1>4, <2>1 DEF Sample, MInv, AtRest, Apart, OnceEach, SteadyRuns, GoneIsUpset,
                      Awaiting
<1>5. ASSUME NEW c \in Containers, Save(c)
      PROVE  MInv'
  <2>1. billed[c] = 0 /\ c \notin queue /\ cur = {c}
    BY <1>5 DEF Save, MInv, TypeOK, OnceEach, Apart, Awaiting
  <2>2. billed' = [billed EXCEPT ![c] = 1]
    BY <1>5, <2>1 DEF Save, MInv, TypeOK
  <2>3. TypeOK'
    <3>1. billed' \in [Containers -> 0..2]
      BY <2>2 DEF MInv, TypeOK
    <3>2. late' \subseteq deleting'
      BY <1>5 DEF Save, Insert, MInv, TypeOK
    <3>3. cur' # {} /\ pc' = "reload" /\ stale' \in BOOLEAN
      BY <1>5 DEF Save
    <3> QED
      BY <1>5, <3>1, <3>2, <3>3 DEF Save, MInv, TypeOK
  <2>4. Awaiting' = Awaiting \ {c}
    BY <1>5, <2>1 DEF Save, Awaiting
  <2> QED
    BY <1>5, <2>1, <2>2, <2>3, <2>4 DEF Save, MInv, TypeOK, AtRest, Apart, OnceEach,
                                        SteadyRuns, GoneIsUpset
<1>6. ASSUME NEW c \in Containers, SaveFails(c)
      PROVE  MInv'
  <2>1. CASE AbortRound
    BY <1>6, <2>1, CloseStep DEF SaveFails, AbortRound, MInv, TypeOK
  <2>2. CASE /\ wedged' = TRUE /\ pc' = "visit" /\ cur' = {}
             /\ UNCHANGED <<queue, stale, history>>
    <3>1. TypeOK'
      BY <1>6, <2>2, One DEF SaveFails, MInv, TypeOK
    <3> QED
      BY <1>6, <2>2, <3>1 DEF SaveFails, MInv, TypeOK, AtRest, Apart, OnceEach, SteadyRuns,
                              GoneIsUpset, Awaiting
  <2> QED
    BY <1>6, <2>1, <2>2 DEF SaveFails
<1>7. ASSUME NEW c \in Containers, Reload(c)
      PROVE  MInv'
  <2>1. CASE AbortRound
    BY <1>7, <2>1, CloseStep DEF Reload, AbortRound, MInv, TypeOK
  <2>2. CASE pc' = "gauge" /\ UNCHANGED <<queue, cur, stale, wedged, history>>
    <3>1. TypeOK'
      BY <1>7, <2>2 DEF Reload, MInv, TypeOK
    <3> QED
      BY <1>7, <2>2, <3>1 DEF Reload, MInv, AtRest, Apart, OnceEach, SteadyRuns,
                              GoneIsUpset, Awaiting
  <2> QED
    BY <1>7, <2>1, <2>2 DEF Reload
<1>8. ASSUME NEW c \in Containers, UpdateGauge(c)
      PROVE  MInv'
  <2>1. gauge' \subseteq Containers \ Simulated
    BY <1>8 DEF UpdateGauge, SampleGauge, MInv, TypeOK
  <2>2. TypeOK'
    BY <1>8, <2>1, One DEF UpdateGauge, MInv, TypeOK
  <2> QED
    BY <1>8, <2>2 DEF UpdateGauge, MInv, AtRest, Apart, OnceEach, SteadyRuns, GoneIsUpset,
                      Awaiting
<1>9. ASSUME NEW c \in Containers, collect_and_save_metrics(c) \/ CollectSave(c)
      PROVE  MInv'
  <2>1. TypeOK'
    BY <1>9, One DEF collect_and_save_metrics, CollectSave, Insert, NoRequest, MInv, TypeOK
  <2> QED
    BY <1>9, <2>1, OthersStep DEF collect_and_save_metrics, CollectSave
<1>10. CASE get_monitoring_overview
  <2>1. TypeOK'
    BY <1>10 DEF get_monitoring_overview, NoRequest, MInv, TypeOK
  <2> QED
    BY <1>10, <2>1, OthersStep DEF get_monitoring_overview
<1>11. ASSUME NEW c \in Containers, OverviewGauge(c)
       PROVE  MInv'
  <2>1. gauge' \subseteq Containers \ Simulated
    BY <1>11 DEF OverviewGauge, SampleGauge, MInv, TypeOK
  <2>2. TypeOK'
    BY <1>11, <2>1 DEF OverviewGauge, MInv, TypeOK
  <2> QED
    BY <1>11, <2>2, OthersStep DEF OverviewGauge
<1>12. ASSUME NEW c \in Containers, start_container(c) \/ stop_container(c)
       PROVE  MInv'
  <2>1. TypeOK'
    BY <1>12 DEF start_container, stop_container, MInv, TypeOK
  <2> QED
    BY <1>12, <2>1 DEF start_container, stop_container, MInv, TypeOK, AtRest, Apart,
                       OnceEach, SteadyRuns, GoneIsUpset, Awaiting
<1>13. ASSUME NEW c \in Containers, EmptyUsage(c)
       PROVE  MInv'
  <2>1. TypeOK'
    BY <1>13, One DEF EmptyUsage, MInv, TypeOK
  <2> QED
    BY <1>13, <2>1, OthersStep DEF EmptyUsage
<1>14. ASSUME NEW c \in Containers, delete_container(c)
       PROVE  MInv'
  <2>1. TypeOK'
    BY <1>14, One DEF delete_container, MInv, TypeOK
  <2>2. pc = "sleep" => queue \cup cur = {}
    BY DEF MInv, TypeOK, AtRest
  <2> QED
    BY <1>14, <2>1, <2>2 DEF delete_container, MInv, TypeOK, AtRest, Apart, OnceEach,
                             SteadyRuns, GoneIsUpset, Awaiting
<1>15. CASE Crash
  BY <1>15, CloseStep DEF Crash, MInv, TypeOK
<1>17. ASSUME NEW c \in Containers, deploy_container(c)
       PROVE  MInv'
  <2>1. billed' \in [Containers -> 0..2]
    BY <1>17 DEF deploy_container, MInv, TypeOK
  <2>2. TypeOK'
    BY <1>17, <2>1 DEF deploy_container, MInv, TypeOK
  <2>3. c \notin steady /\ c \notin Awaiting
    BY <1>17 DEF deploy_container, MInv, SteadyRuns, Awaiting
  <2> QED
    BY <1>17, <2>2, <2>3 DEF deploy_container, MInv, TypeOK, AtRest, Apart, OnceEach,
                             SteadyRuns, GoneIsUpset, Awaiting
<1>16. CASE UNCHANGED vars
  <2>1. TypeOK'
    BY <1>16 DEF vars, MInv, TypeOK
  <2> QED
    BY <1>16, <2>1, OthersStep DEF vars
<1> QED
  BY <1>1, <1>2, <1>3, <1>4, <1>5, <1>6, <1>7, <1>8, <1>9, <1>10, <1>11, <1>12, <1>13,
     <1>14, <1>15, <1>16, <1>17 DEF Next, billing_metrics_background_task

-----------------------------------------------------------------------------
(* Theorems *)

\* At the start the loop sleeps.
LEMMA InvInit == Init => MInv
<1> SUFFICES ASSUME Init PROVE MInv
  OBVIOUS
<1>1. billed = [c \in Containers |-> 0] /\ 0 \in 0..2
  BY DEF Init
<1>2. TypeOK
  BY <1>1, One DEF Init, TypeOK
<1> QED
  BY <1>1, <1>2 DEF Init, MInv, AtRest, Apart, OnceEach, SteadyRuns, GoneIsUpset, Awaiting

\* The invariant holds in every reachable state.
THEOREM MeteringInvariant == Spec => []MInv
BY InvInit, InvStep, PTL DEF Spec

\* Every reachable state of Metering is well typed: in particular billed stays
\* within bounds although a usage row adds to it.
THEOREM TypeCorrect == Spec => []TypeOK
<1>1. MInv => TypeOK
  BY DEF MInv
<1> QED
  BY MeteringInvariant, <1>1, PTL

\* A round of billing_metrics_background_task that comes to its end with a sound
\* session has given every container that was running all the while one usage
\* row, and none two.
THEOREM RoundsCover == Spec => []RoundCovers
<1>1. MInv => RoundCovers
  BY DEF MInv, TypeOK, OnceEach, RoundCovers, Awaiting
<1> QED
  BY MeteringInvariant, <1>1, PTL

\* A round is given up only when a container was deleted while it went on, when
\* its COMMIT has failed, at a save that is refused, or with the process.
THEOREM RoundsGoOn == Spec => AbortOnlyForCause
<1> DEFINE Step == queue # {} \/ cur # {} =>
                     pc' # "sleep" \/ upset \/ wedged
                       \/ (pc = "save" /\ "commit" \in Faults) \/ Crash
<1>1. ASSUME MInv, [Next]_vars
      PROVE  [Step]_vars
  <2> SUFFICES ASSUME queue # {} \/ cur # {}, pc' = "sleep", ~upset, ~wedged, Next, ~Crash
               PROVE  pc = "save" /\ "commit" \in Faults
    BY <1>1
  <2> USE <1>1 DEF session, history
  <2>2. pc # "sleep"
    BY DEF MInv, TypeOK, AtRest
  <2>3. \A c \in queue \cup cur : Exists(c)
    BY DEF MInv, GoneIsUpset, Exists
  <2>4. ~EndRound
    BY DEF EndRound, MInv, TypeOK
  <2>5. ASSUME NEW c \in Containers, SaveFails(c)
        PROVE  pc = "save" /\ "commit" \in Faults
    BY <2>3, <2>5 DEF SaveFails
  <2>6. ASSUME NEW c \in Containers, Visit(c) \/ Reload(c)
        PROVE  FALSE
    BY <2>2, <2>3, <2>6 DEF Visit, Reload
  <2> QED
    BY <2>2, <2>4, <2>5, <2>6
       DEF Next, billing_metrics_background_task, StartRound, Sample, Save, UpdateGauge,
           collect_and_save_metrics, CollectSave, get_monitoring_overview, OverviewGauge,
           deploy_container, start_container, stop_container, EmptyUsage, delete_container
<1> QED
  BY <1>1, MeteringInvariant, PTL DEF Spec, AbortOnlyForCause
=============================================================================
