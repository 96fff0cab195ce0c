------------------------------- MODULE LoadTest -------------------------------
(***************************************************************************)
(* The load tester of the IntelliScaleSim backend:                         *)
(* services/loadtest_service.py, the routes that start, stream and cancel  *)
(* a test (routes_loadtest.py) and the container route that deletes the    *)
(* rows under a test while it runs.                                        *)
(*                                                                         *)
(* A test is one activation of execute_load_test, with a database session  *)
(* of its own that its request tasks and its metrics task share.  All of   *)
(* them are coroutines of one event loop: pc and metrics name the awaits,  *)
(* and a coroutine between two awaits holds the loop (Busy).  Deleting a   *)
(* container runs in a thread, between any two statements.                 *)
(*                                                                         *)
(* Abstractions.  All tests target one container.  Being stopped only      *)
(* makes a container refuse new tests, so it is running or absent.         *)
(* Requests are counted, never named; why one fails is left out.  The      *)
(* duration, the interval and the 2 s of patience are nondeterministic.    *)
(* start_load_test's check and insert are one step.  Of a session only the *)
(* loaded test row matters: not loaded, loaded, loaded and changed, or the *)
(* session needs a rollback nobody issues, because its row was gone        *)
(* ("broken") or the database would not write it ("refused"), or is        *)
(* closed.  A commit that fails is one whose flush fails.                  *)
(***************************************************************************)
EXTENDS Integers, FiniteSets

CONSTANTS
  Tests,           \* activations; bound on the tests ever started
  TotalRequests,   \* total_requests of each test
  Concurrency,     \* its concurrency
  Simulated,       \* the container is simulated: its metrics need no await
  Postgres,        \* TRUE: PostgreSQL; FALSE: the default SQLite file
  Ops,             \* which calls the users make
  Faults           \* what may fail: "commit", "crash"

Row == 1..Cardinality(Tests)   \* ids of load_tests
AllOps == {"delete", "deploy", "cancel", "stream"}

ASSUME ParameterAssumption ==
  /\ IsFiniteSet(Tests)
  /\ TotalRequests \in Nat \ {0} /\ Concurrency \in Nat \ {0}
  /\ Simulated \in BOOLEAN /\ Postgres \in BOOLEAN
  /\ Ops \subseteq AllOps /\ Faults \subseteq {"commit", "crash"}

VARIABLES
  container,    \* "running" or "absent"
  row,          \* load_tests: status, counters and the activation it is of
  samples,      \* load_test_metrics: the activations that wrote some, per id
  rowOf,        \* the id each activation works on, 0 before it is started
  pc,           \* where execute_load_test and _run_test are
  metrics,      \* where _collect_metrics is
  created,      \* request tasks created
  results,      \* the results dict of _run_test
  lost,         \* requests that raised after counting themselves active
  sess,         \* the test object in the activation's session
  sent,         \* requests_sent of that object, when loaded
  elapsed,      \* duration_seconds have passed
  cancelled,    \* tests whose cancel request was answered "cancelled"
  stream        \* metrics stream of each test: "none", "open" or "ended"

dbVars   == <<container, row, samples, rowOf>>
runVars  == <<pc, metrics, created, results, lost, sess, sent, elapsed>>
vars     == <<dbVars, runVars, cancelled, stream>>

Terminal == {"completed", "failed", "cancelled"}
NoTest   == "nobody"
Absent   == [status |-> "absent", sent |-> 0, completed |-> 0, failed |-> 0, of |-> NoTest]
Count    == 0..TotalRequests

TypeOK ==
  /\ container \in {"running", "absent"}
  /\ row \in [Row -> [status : {"absent", "pending", "running"} \cup Terminal,
                      sent : Count, completed : Count, failed : Count,
                      of : Tests \cup {NoTest}]]
  /\ samples \in [Row -> SUBSET Tests]
  /\ rowOf \in [Tests -> Row \cup {0}]
  /\ pc \in [Tests -> {"none", "queued", "loop", "pause", "drain", "linger",
                       "join", "abort", "save", "complete", "fail", "done"}]
  /\ metrics \in [Tests -> {"off", "new", "stats", "snapshot", "progress",
                            "sleep", "dead"}]
  /\ created \in [Tests -> Count]
  /\ results \in [Tests -> [active : Count, completed : Count, failed : Count]]
  /\ lost \in [Tests -> Count]
  /\ sess \in [Tests -> {"expired", "loaded", "dirty", "broken", "refused", "closed"}]
  /\ sent \in [Tests -> Count]
  /\ elapsed \in [Tests -> BOOLEAN]
  /\ cancelled \subseteq Tests
  /\ stream \in [Tests -> {"none", "open", "ended"}]
  /\ \A x \in Tests : rowOf[x] = 0 <=> pc[x] = "none"

-----------------------------------------------------------------------------
(* Queries *)

StatusOf(x) == IF rowOf[x] = 0 THEN "absent" ELSE row[rowOf[x]].status
Exists(x)   == StatusOf(x) # "absent"
InFlight(x) == results[x].active - lost[x]
Waiting(x)  == created[x] - results[x].active - results[x].completed - results[x].failed

\* Some coroutine is between two awaits.
Busy(x)  == \/ pc[x] \in {"loop", "drain", "save", "complete", "fail"}
            \/ metrics[x] \in {"snapshot", "progress"}
LoopFree == \A x \in Tests : ~Busy(x)

\* Reading an attribute of the test object reloads an expired row.
Readable(x) == sess[x] \in {"loaded", "dirty"} \/ (sess[x] = "expired" /\ Exists(x))
SentRead(x) == IF sess[x] = "expired" THEN row[rowOf[x]].sent ELSE sent[x]

Read(x) ==
  /\ sess' = [sess EXCEPT ![x] = IF @ = "expired" THEN "loaded" ELSE @]
  /\ sent' = [sent EXCEPT ![x] = SentRead(x)]

\* The row once the session's pending requests_sent is flushed.
Flushed(x) == [row[rowOf[x]] EXCEPT !.sent = IF sess[x] = "dirty" THEN sent[x] ELSE @]

\* The session needs a rollback.
Poisoned(x) == sess[x] \in {"broken", "refused"}

CommitUpsert(x, r) ==    \* broken: a row that is gone is written again
  /\ ~Poisoned(x)
  /\ row' = [row EXCEPT ![rowOf[x]] = r]

\* A commit writes row r and expires the object.  One whose UPDATE finds no
\* row, or that the database refuses, leaves the session in need of a rollback.
Commit(x, r) ==
  /\ ~Poisoned(x) /\ Exists(x)
  /\ row' = [row EXCEPT ![rowOf[x]] = r]
CommitFails(x) == Poisoned(x) \/ ~Exists(x) \/ "commit" \in Faults
Become(x, s)   == sess' = [sess EXCEPT ![x] = s]
Poison(x)      == Become(x, IF Poisoned(x) THEN sess[x]
                            ELSE IF Exists(x) THEN "refused" ELSE "broken")

Goto(x, l)        == pc' = [pc EXCEPT ![x] = l]
MetricsTo(x, l)   == metrics' = [metrics EXCEPT ![x] = l]

-----------------------------------------------------------------------------
Init ==
  /\ container = "running"
  /\ row = [r \in Row |-> Absent]
  /\ samples = [r \in Row |-> {}]
  /\ rowOf = [x \in Tests |-> 0]
  /\ pc = [x \in Tests |-> "none"]
  /\ metrics = [x \in Tests |-> "off"]
  /\ created = [x \in Tests |-> 0]
  /\ results = [x \in Tests |-> [active |-> 0, completed |-> 0, failed |-> 0]]
  /\ lost = [x \in Tests |-> 0]
  /\ sess = [x \in Tests |-> "expired"]
  /\ sent = [x \in Tests |-> 0]
  /\ elapsed = [x \in Tests |-> FALSE]
  /\ cancelled = {}
  /\ stream = [x \in Tests |-> "none"]

-----------------------------------------------------------------------------
(* Starting and deleting *)

LargestPlusOne(ids) ==
  CHOOSE n \in Row : n - 1 \in ids \cup {0} /\ \A i \in ids : i < n

\* The id the database gives a new row, ids being those in the table: a
\* sequence on PostgreSQL; SQLite takes the largest one in the table plus one.
NextId(ids) ==
  IF Postgres THEN Cardinality({x \in Tests : rowOf[x] # 0}) + 1 ELSE LargestPlusOne(ids)

\* POST /loadtest/start: insert the row, queue execute_load_test.
start_load_test(x) ==
  /\ pc[x] = "none" /\ LoopFree /\ container = "running"
  /\ LET n == NextId({r \in Row : row[r].status # "absent"})
     IN  /\ row' = [row EXCEPT ![n] = [Absent EXCEPT !.status = "pending", !.of = x]]
         /\ rowOf' = [rowOf EXCEPT ![x] = n]
  /\ Goto(x, "queued")
  /\ UNCHANGED <<container, samples, metrics, created, results,
                 lost, sess, sent, elapsed, cancelled, stream>>

\* DELETE /containers/{id}: the tests are bulk-deleted, which does not cascade
\* to their metrics; PostgreSQL then refuses the whole transaction.
delete_container ==
  /\ "delete" \in Ops /\ container = "running"
  /\ Postgres => \A r \in Row : row[r].status # "absent" => samples[r] = {}
  /\ container' = "absent"
  /\ row' = [r \in Row |-> Absent]
  /\ UNCHANGED <<samples, rowOf, runVars, cancelled, stream>>

\* The user deploys another container.
deploy_container ==
  /\ "deploy" \in Ops /\ container = "absent"
  /\ container' = "running"
  /\ UNCHANGED <<row, samples, rowOf, runVars, cancelled, stream>>

-----------------------------------------------------------------------------
(* execute_load_test and _run_test *)

\* Mark the test running and create its metrics task; no row, or no commit,
\* ends the activation before that.
execute_load_test(x) ==
  /\ pc[x] = "queued" /\ LoopFree
  /\ \/ /\ Commit(x, [row[rowOf[x]] EXCEPT !.status = "running"])
        /\ Become(x, "expired") /\ MetricsTo(x, "new") /\ Goto(x, "loop")
     \/ /\ CommitFails(x)
        /\ Become(x, "closed") /\ Goto(x, "done")
        /\ UNCHANGED <<row, metrics>>
  /\ UNCHANGED <<container, samples, rowOf, created, results,
                 lost, sent, elapsed, cancelled, stream>>

\* metrics_task.cancel(): a task that has not run or sleeps ends.  In the
\* middle of docker stats the bare except swallows the CancelledError.
StopMetrics(x) ==
  MetricsTo(x, IF metrics[x] \in {"new", "sleep"} THEN "off" ELSE metrics[x])

\* One turn of the launch loop, up to its sleep or its exit.
Launch(x) ==
  /\ pc[x] = "loop" \/ (pc[x] = "pause" /\ LoopFree)
  /\ \/ /\ ~Readable(x)
        /\ StopMetrics(x) /\ Goto(x, "abort")
        /\ UNCHANGED <<created, sess, sent>>
     \/ /\ Readable(x) /\ (created[x] = TotalRequests \/ elapsed[x])
        /\ Read(x) /\ Goto(x, "drain")
        /\ UNCHANGED <<created, metrics>>
     \/ /\ Readable(x) /\ created[x] < TotalRequests /\ ~elapsed[x]
        /\ Read(x)
        /\ created' = [created EXCEPT ![x] = @ + 1]
        /\ Goto(x, IF created[x] + 1 < TotalRequests THEN "pause" ELSE "loop")
        /\ UNCHANGED metrics
  /\ UNCHANGED <<dbVars, results, lost, elapsed, cancelled, stream>>

DurationElapses(x) ==
  /\ pc[x] = "pause" /\ ~elapsed[x]
  /\ elapsed' = [elapsed EXCEPT ![x] = TRUE]
  /\ UNCHANGED <<dbVars, pc, metrics, created, results, lost, sess, sent,
                 cancelled, stream>>

\* Requests are active: look again in 0.1 s.
Linger(x) ==
  /\ pc[x] = "drain" /\ results[x].active > 0
  /\ Goto(x, "linger")
  /\ UNCHANGED <<dbVars, metrics, created, results, lost, sess, sent, elapsed,
                 cancelled, stream>>

DrainKeepsMetrics(x) ==   \* broken: the metrics task is not cancelled
  /\ \/ pc[x] = "drain" /\ results[x].active = 0
     \/ pc[x] = "linger" /\ LoopFree
  /\ Goto(x, "join")
  /\ UNCHANGED <<dbVars, metrics, created, results, lost, sess, sent, elapsed,
                 cancelled, stream>>

\* None is active any more, or the 2 s are over: cancel the metrics task.
Drained(x) ==
  /\ \/ pc[x] = "drain" /\ results[x].active = 0
     \/ pc[x] = "linger" /\ LoopFree
  /\ StopMetrics(x) /\ Goto(x, "join")
  /\ UNCHANGED <<dbVars, created, results, lost, sess, sent, elapsed,
                 cancelled, stream>>

\* await metrics_task: it must end first, and its own exception is raised here.
Join(x) ==
  /\ pc[x] \in {"join", "abort"} /\ metrics[x] \in {"off", "dead"} /\ LoopFree
  /\ Goto(x, IF pc[x] = "join" /\ metrics[x] = "off" THEN "save" ELSE "fail")
  /\ UNCHANGED <<dbVars, metrics, created, results, lost, sess, sent, elapsed,
                 cancelled, stream>>

SaveActive(x) ==         \* broken: active and completed are swapped
  /\ pc[x] = "save"
  /\ \/ /\ Commit(x, [Flushed(x) EXCEPT !.completed = results[x].active,
                                        !.failed = results[x].failed])
        /\ Become(x, "expired") /\ Goto(x, "complete")
     \/ /\ CommitFails(x)
        /\ Poison(x) /\ Goto(x, "fail")
        /\ UNCHANGED row
  /\ UNCHANGED <<container, samples, rowOf, metrics, created,
                 results, lost, sent, elapsed, cancelled, stream>>

save_final_stats(x) ==
  /\ pc[x] = "save"
  /\ \/ /\ Commit(x, [Flushed(x) EXCEPT !.completed = results[x].completed,
                                        !.failed = results[x].failed])
        /\ Become(x, "expired") /\ Goto(x, "complete")
     \/ /\ CommitFails(x)
        /\ Poison(x) /\ Goto(x, "fail")
        /\ UNCHANGED row
  /\ UNCHANGED <<container, samples, rowOf, metrics, created,
                 results, lost, sent, elapsed, cancelled, stream>>

CompleteUnsaved(x) ==    \* broken: the commit is left to the end of the session
  /\ pc[x] = "complete"
  /\ Become(x, "closed") /\ Goto(x, "done")
  /\ UNCHANGED <<dbVars, metrics, created, results, lost, sent, elapsed, cancelled, stream>>

Complete(x) ==
  /\ pc[x] = "complete"
  /\ \/ /\ Commit(x, [row[rowOf[x]] EXCEPT !.status = "completed"])
        /\ Become(x, "closed") /\ Goto(x, "done")
     \/ /\ CommitFails(x)
        /\ Poison(x) /\ Goto(x, "fail")
        /\ UNCHANGED row
  /\ UNCHANGED <<container, samples, rowOf, metrics, created,
                 results, lost, sent, elapsed, cancelled, stream>>

\* The except branch commits through the same session, without a rollback.
Fail(x) ==
  /\ pc[x] = "fail"
  /\ \/ Commit(x, [Flushed(x) EXCEPT !.status = "failed"])
     \/ CommitFails(x) /\ UNCHANGED row
  /\ Become(x, "closed") /\ Goto(x, "done")
  /\ UNCHANGED <<container, samples, rowOf, metrics, created,
                 results, lost, sent, elapsed, cancelled, stream>>

-----------------------------------------------------------------------------
(* The request tasks *)

StartUncounted(x) ==    \* broken: requests_sent is not incremented
  /\ Waiting(x) > 0 /\ InFlight(x) < Concurrency /\ LoopFree
  /\ results' = [results EXCEPT ![x].active = @ + 1]
  /\ UNCHANGED <<dbVars, pc, metrics, created, lost, sess, sent, elapsed,
                 cancelled, stream>>

\* send_request enters the semaphore and counts itself; if the session cannot
\* produce requests_sent it raises, after `active` has grown.
StartRequest(x) ==
  /\ Waiting(x) > 0 /\ InFlight(x) < Concurrency /\ LoopFree
  /\ results' = [results EXCEPT ![x].active = @ + 1]
  /\ IF Readable(x)
     THEN /\ sent' = [sent EXCEPT ![x] = SentRead(x) + 1]
          /\ sess' = [sess EXCEPT ![x] = "dirty"]
          /\ UNCHANGED lost
     ELSE /\ lost' = [lost EXCEPT ![x] = @ + 1]
          /\ UNCHANGED <<sent, sess>>
  /\ UNCHANGED <<dbVars, pc, metrics, created, elapsed, cancelled, stream>>

FinishTwice(x) ==       \* broken: an error path and the finally both leave `active`
  /\ InFlight(x) > 0 /\ LoopFree
  /\ results' = [results EXCEPT ![x].active = @ - 2, ![x].failed = @ + 1]
  /\ UNCHANGED <<dbVars, pc, metrics, created, lost, sess, sent, elapsed,
                 cancelled, stream>>

\* The answer, an error or the 5 s timeout.
FinishRequest(x) ==
  /\ InFlight(x) > 0 /\ LoopFree
  /\ \E o \in {"completed", "failed"} :
       results' = [results EXCEPT ![x].active = @ - 1, ![x][o] = @ + 1]
  /\ UNCHANGED <<dbVars, pc, metrics, created, lost, sess, sent, elapsed,
                 cancelled, stream>>

-----------------------------------------------------------------------------
(* _collect_metrics *)

\* Find the container.  A real one's docker stats are awaited.
FindContainer(x) ==
  /\ metrics[x] \in {"new", "sleep"} /\ LoopFree
  /\ IF Readable(x)
     THEN /\ Read(x)
          /\ MetricsTo(x, IF ~Simulated /\ container = "running" THEN "stats"
                          ELSE "snapshot")
     ELSE MetricsTo(x, "dead") /\ UNCHANGED <<sess, sent>>
  /\ UNCHANGED <<dbVars, pc, created, results, lost, elapsed, cancelled, stream>>

\* Insert the sample; SQLite does not mind a sample without its test.
Snapshot(x) ==
  /\ metrics[x] = "snapshot" \/ (metrics[x] = "stats" /\ LoopFree)
  /\ \/ /\ Readable(x) /\ (Exists(x) \/ (~Postgres /\ sess[x] # "dirty"))
        /\ row' = [row EXCEPT ![rowOf[x]] = Flushed(x)]
        /\ samples' = [samples EXCEPT ![rowOf[x]] = @ \cup {x}]
        /\ Become(x, "expired") /\ MetricsTo(x, "progress")
     \/ /\ CommitFails(x)
        /\ IF Readable(x) THEN Poison(x) ELSE UNCHANGED sess
        /\ MetricsTo(x, "dead")
        /\ UNCHANGED <<row, samples>>
  /\ UNCHANGED <<container, rowOf, pc, created, results, lost,
                 sent, elapsed, cancelled, stream>>

\* Then the progress of the test, in a transaction of its own.
Progress(x) ==
  /\ metrics[x] = "progress"
  /\ \/ /\ Commit(x, [row[rowOf[x]] EXCEPT !.completed = results[x].completed,
                                           !.failed = results[x].failed])
        /\ Become(x, "expired") /\ MetricsTo(x, "sleep")
     \/ /\ CommitFails(x)
        /\ Poison(x) /\ MetricsTo(x, "dead")
        /\ UNCHANGED row
  /\ UNCHANGED <<container, samples, rowOf, pc, created, results,
                 lost, sent, elapsed, cancelled, stream>>

-----------------------------------------------------------------------------
(* Cancelling and watching *)

CancelRowOnly(x) ==      \* broken: the row is marked, the task goes on
  /\ "cancel" \in Ops /\ LoopFree /\ StatusOf(x) = "running"
  /\ row' = [row EXCEPT ![rowOf[x]].status = "cancelled"]
  /\ cancelled' = cancelled \cup {x}
  /\ UNCHANGED <<container, samples, rowOf, runVars, stream>>

\* DELETE /loadtest/{id}: each request has a service of its own, whose
\* active_tests is empty, so there is no task to cancel.
cancel_load_test(x) ==
  /\ "cancel" \in Ops /\ LoopFree /\ StatusOf(x) = "running"
  /\ cancelled' = cancelled \cup {x}
  /\ UNCHANGED <<dbVars, runVars, stream>>

stream_load_test_metrics(x) ==
  /\ "stream" \in Ops /\ LoopFree /\ Exists(x) /\ stream[x] = "none"
  /\ stream' = [stream EXCEPT ![x] = "open"]
  /\ UNCHANGED <<dbVars, runVars, cancelled>>

StreamForever(x) ==      \* broken: no break on a terminal status
  /\ stream[x] = "open" /\ LoopFree /\ ~Exists(x)
  /\ stream' = [stream EXCEPT ![x] = "ended"]
  /\ UNCHANGED <<dbVars, runVars, cancelled>>

\* event_generator: a terminal status ends the stream; so does a row that is
\* gone, by an exception.
PollStream(x) ==
  /\ stream[x] = "open" /\ LoopFree
  /\ StatusOf(x) \in Terminal \cup {"absent"}
  /\ stream' = [stream EXCEPT ![x] = "ended"]
  /\ UNCHANGED <<dbVars, runVars, cancelled>>

\* The backend dies and starts again: rows stay, activations and streams do not.
Crash ==
  /\ "crash" \in Faults
  /\ pc' = [x \in Tests |-> IF pc[x] = "none" THEN "none" ELSE "done"]
  /\ metrics' = [x \in Tests |-> "off"]
  /\ created' = [x \in Tests |-> 0]
  /\ results' = [x \in Tests |-> [active |-> 0, completed |-> 0, failed |-> 0]]
  /\ lost' = [x \in Tests |-> 0]
  /\ sess' = [x \in Tests |-> IF pc[x] = "none" THEN "expired" ELSE "closed"]
  /\ stream' = [x \in Tests |-> IF stream[x] = "open" THEN "ended" ELSE stream[x]]
  /\ UNCHANGED <<dbVars, sent, elapsed, cancelled>>

Activation(x) ==
  \/ execute_load_test(x) \/ Launch(x) \/ Linger(x) \/ Drained(x) \/ Join(x)
  \/ save_final_stats(x) \/ Complete(x) \/ Fail(x)
Sampler(x) == FindContainer(x) \/ Snapshot(x) \/ Progress(x)

Next ==
  \/ \E x \in Tests :
       \/ Activation(x) \/ Sampler(x) \/ DurationElapses(x)
       \/ StartRequest(x) \/ FinishRequest(x)
       \/ start_load_test(x) \/ cancel_load_test(x)
       \/ stream_load_test_metrics(x) \/ PollStream(x)
  \/ delete_container \/ deploy_container
  \/ Crash

Spec == Init /\ [][Next]_vars

\* The event loop serves its ready callbacks in turn, so a coroutine that is
\* ready runs although others hold the loop in between.
Fairness == \A x \in Tests :
  /\ SF_vars(Activation(x)) /\ SF_vars(Sampler(x))
  /\ SF_vars(StartRequest(x)) /\ SF_vars(FinishRequest(x)) /\ SF_vars(PollStream(x))

FairSpec == Spec /\ Fairness

-----------------------------------------------------------------------------
(* Properties *)

\* What a reader of the row sees always adds up, whichever of the three
\* coroutine kinds committed last and whatever failed: no more answers than
\* requests sent, no more sent than asked for.
RowsAddUp ==
  \A r \in Row : /\ row[r].completed + row[r].failed <= row[r].sent
                 /\ row[r].sent <= TotalRequests

\* Once a test has a terminal status its row never changes again, however late
\* its requests and its metrics task come in; it can only be deleted.
TerminalIsFinal ==
  [][\A r \in Row : row[r].status \in Terminal
       => row'[r] \in {row[r], Absent}]_vars

\* An activation that ends leaves its row at a terminal status, or gone, unless
\* the process dies, the database refuses its first commit, or it is in its error
\* handler with a session in which the database refused a commit before.  No delete,
\* no request and no turn of the sampler gets it there with its row still unfinished.
EndedForCause ==
  [][\A x \in Tests :
       pc[x] # "done" /\ pc'[x] = "done" /\ StatusOf(x)' \in {"pending", "running"}
         => \/ Crash
            \/ pc[x] = "queued" /\ "commit" \in Faults
            \/ pc[x] = "fail" /\ sess[x] = "refused"]_vars

\* The three kinds of coroutines, their shared sessions and the users together
\* implement TestReport: no reader ever sees a counter shrink, a status go back, a
\* test begin twice, or one test's progress under the id of another.
Given == {rowOf[x] : x \in {y \in Tests : rowOf[y] # 0}}

T == INSTANCE TestReport WITH Ids <- Row, Total <- TotalRequests,
                              report <- row, given <- Given

ImplementsReport == T!ReportSpec

\* Every test started reaches a terminal status, unless its container is
\* deleted: "strict duration enforcement" (loadtest_service.py:75).
TestsFinish ==
  \A x \in Tests :
    pc[x] = "queued" ~> StatusOf(x) \in Terminal \cup {"absent"}

\* Every metrics stream ends without the client having to leave.
StreamsEnd == \A x \in Tests : stream[x] = "open" ~> stream[x] = "ended"
=============================================================================
