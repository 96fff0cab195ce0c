------------------------------ MODULE TestReport ------------------------------
(***************************************************************************)
(* What a reader of load_tests is promised, whatever tasks and sessions    *)
(* are behind the rows: a test is reported once, as pending, running and   *)
(* then completed or failed; its counters only grow and always add up; a   *)
(* report that is final does not change; and reports go only all together, *)
(* with the container they are about.                                      *)
(***************************************************************************)
EXTENDS Integers

CONSTANTS
  Tests,
  Ids,      \* ids a report can get
  Total     \* requests of each test

VARIABLES
  report,   \* per id: the test it is of, its status and its counters
  given     \* ids given so far

reportVars == <<report, given>>

Nothing == [status |-> "absent", sent |-> 0, completed |-> 0, failed |-> 0, of |-> "nobody"]

ReportInit == report = [i \in Ids |-> Nothing] /\ given = {}

\* A test is accepted, under an id that no other ever had.
Accept(i) ==
  /\ i \notin given /\ given' = given \cup {i}
  /\ \E x \in Tests :
       report' = [report EXCEPT ![i] = [Nothing EXCEPT !.status = "pending", !.of = x]]

Begin(i) ==
  /\ report[i].status = "pending"
  /\ report' = [report EXCEPT ![i].status = "running"]
  /\ UNCHANGED given

\* A report that may follow old: of the same test, with counters that are no
\* smaller, and add up.
Onward(old, new) ==
  /\ new \in [status : {"running", "completed", "failed"}, of : {old.of},
              sent : 0..Total, completed : 0..Total, failed : 0..Total]
  /\ new.sent >= old.sent /\ new.completed >= old.completed /\ new.failed >= old.failed
  /\ new.completed + new.failed <= new.sent

\* A running test reports progress, or its end.
Update(i) ==
  /\ report[i].status = "running"
  /\ Onward(report[i], report'[i])
  /\ report' = [report EXCEPT ![i] = report'[i]]
  /\ UNCHANGED given

\* All reports go.
Discard == report' = [i \in Ids |-> Nothing] /\ UNCHANGED given

ReportNext ==
  \/ \E i \in Ids : Update(i) \/ Begin(i) \/ Accept(i)
  \/ Discard

ReportSpec == ReportInit /\ [][ReportNext]_reportVars
=============================================================================
