---------------------------- MODULE LoadTestProofs ----------------------------
(***************************************************************************)
(* For any tests, requests, concurrency, user calls and faults: LoadTest   *)
(* is type correct, the counters in every row of load_tests add up, and a  *)
(* row with a terminal status is final, on PostgreSQL, and on SQLite as    *)
(* long as nothing is deployed where something was deleted.  (If it is,    *)
(* SQLite gives an id again, and a late activation writes the counters of  *)
(* the test that got its id.)                                              *)
(***************************************************************************)
EXTENDS LoadTest, FiniteSetTheorems, TLAPS

-----------------------------------------------------------------------------
(* The inductive invariant *)

\* Requests that have counted themselves in requests_sent.
Counting(x) == InFlight(x) + results[x].completed + results[x].failed

\* The session's requests_sent, wherever it is kept at the moment, is the number
\* of requests that counted themselves, and no row is ahead of its session.
Counted(x) ==
  /\ lost[x] <= results[x].active
  /\ Waiting(x) >= 0
  /\ pc[x] \in {"none", "queued"} =>
       created[x] = 0 /\ metrics[x] = "off" /\ sess[x] = "expired"
  /\ sess[x] \in {"loaded", "dirty"} => sent[x] = Counting(x)
  /\ Exists(x) =>
       /\ sess[x] = "expired" => row[rowOf[x]].sent = Counting(x)
       /\ sess[x] = "loaded" => row[rowOf[x]].sent = sent[x]
       /\ sess[x] = "dirty" => row[rowOf[x]].sent <= sent[x]

\* Nobody works for a test that is over, and only then is its status terminal.
Placed(x) ==
  /\ pc[x] = "done" <=> sess[x] = "closed"
  /\ pc[x] \in {"save", "complete", "fail", "done"} => metrics[x] \in {"off", "dead"}
  /\ metrics[x] = "progress" \/ pc[x] = "complete" => sess[x] # "dirty"
  /\ StatusOf(x) \in Terminal => pc[x] = "done"

\* Ids are given in order, each once.
Begun == {x \in Tests : rowOf[x] # 0}
IdsGiven ==
  /\ \A x \in Tests : rowOf[x] <= Cardinality(Begun)
  /\ \A x, y \in Tests : x # y /\ rowOf[x] # 0 => rowOf[x] # rowOf[y]
  /\ \A r \in Row : r > Cardinality(Begun) => row[r] = Absent

AddsUp(r) ==
  /\ row[r].completed + row[r].failed <= row[r].sent
  /\ row[r].sent <= TotalRequests

\* No id is given twice: SQLite's largest id plus one is a new one unless tests
\* were deleted and their user went on.
NoReuse == Postgres \/ ~({"delete", "deploy"} \subseteq Ops)

\* What that comes to: as long as tests can be started, those started are there.
IdsKept ==
  \/ Postgres
  \/ /\ "delete" \notin Ops => container = "running"
     /\ container = "running" =>
          \A q \in Row : q <= Cardinality(Begun) => row[q].status # "absent"

LInv ==
  /\ TypeOK /\ IdsGiven
  /\ \A x \in Tests : Counted(x) /\ Placed(x)
  /\ \A r \in Row : AddsUp(r)

\* A step of x's coroutines, which touch x's own state and row only.
OnlyOf(x) ==
  /\ rowOf' = rowOf
  /\ \A r \in Row : r # rowOf[x] => row'[r] = row[r]
  /\ \A y \in Tests \ {x} :
       /\ pc'[y] = pc[y] /\ metrics'[y] = metrics[y] /\ created'[y] = created[y]
       /\ results'[y] = results[y] /\ lost'[y] = lost[y]
       /\ sess'[y] = sess[y] /\ sent'[y] = sent[y]

-----------------------------------------------------------------------------
(* Ids *)

\* Tests that have begun can be counted.
LEMMA BegunFinite ==
  /\ IsFiniteSet(Begun) /\ Cardinality(Begun) \in Nat
  /\ Cardinality(Begun) <= Cardinality(Tests) /\ Cardinality(Tests) \in Nat
BY FS_Subset, FS_CardinalityType, ParameterAssumption DEF Begun

\* There is an id left for a test that has none.
LEMMA IdLeft ==
  ASSUME NEW x \in Tests, rowOf[x] = 0
  PROVE  Cardinality(Begun) + 1 \in Row
<1>1. /\ IsFiniteSet(Begun \cup {x})
      /\ Cardinality(Begun \cup {x}) = Cardinality(Begun) + 1
  BY BegunFinite, FS_AddElement DEF Begun
<1>2. Begun \cup {x} \subseteq Tests /\ IsFiniteSet(Tests)
  BY ParameterAssumption DEF Begun
<1>3. Cardinality(Begun \cup {x}) <= Cardinality(Tests)
  BY <1>2, FS_Subset
<1> QED
  BY <1>1, <1>3, BegunFinite DEF Row

\* What a test's own coroutines do disturbs no other test.
LEMMA OwnStep ==
  ASSUME LInv, NEW x \in Tests, OnlyOf(x), TypeOK', Counted(x)', Placed(x)',
         rowOf[x] # 0 => AddsUp(rowOf[x])'
  PROVE  LInv'
<1>1. IdsGiven'
  <2>1. Begun' = Begun
    BY DEF OnlyOf, Begun
  <2>2. \A r \in Row : r > Cardinality(Begun) => r # rowOf[x]
    BY BegunFinite DEF LInv, IdsGiven, Row, TypeOK
  <2> QED
    BY <2>1, <2>2 DEF LInv, IdsGiven, OnlyOf
<1>2. ASSUME NEW y \in Tests \ {x}
      PROVE  Counted(y)' /\ Placed(y)'
  <2>1. rowOf[y] # 0 => rowOf[y] \in Row /\ row'[rowOf[y]] = row[rowOf[y]]
    BY DEF LInv, TypeOK, IdsGiven, OnlyOf
  <2>2. StatusOf(y)' = StatusOf(y) /\ (Exists(y)' <=> Exists(y))
    BY <2>1 DEF StatusOf, Exists, OnlyOf
  <2>3. Exists(y) => rowOf[y] # 0
    BY DEF Exists, StatusOf
  <2>4. Counting(y)' = Counting(y) /\ Waiting(y)' = Waiting(y)
    BY DEF Counting, Waiting, InFlight, OnlyOf
  <2> QED
    BY <2>1, <2>2, <2>3, <2>4 DEF LInv, Counted, Placed, OnlyOf
<1>3. ASSUME NEW r \in Row
      PROVE  AddsUp(r)'
  <2>1. CASE r = rowOf[x]
    BY <2>1 DEF OnlyOf, Row
  <2>2. CASE r # rowOf[x]
    BY <2>2 DEF LInv, AddsUp, OnlyOf
  <2> QED
    BY <2>1, <2>2
<1> QED
  BY <1>1, <1>2, <1>3 DEF LInv

\* The numbers of a test.
LEMMA Numbers ==
  ASSUME LInv, NEW x \in Tests
  PROVE  /\ results[x].active \in Nat /\ results[x].completed \in Nat
         /\ results[x].failed \in Nat /\ created[x] \in Nat /\ lost[x] \in Nat
         /\ sent[x] \in Nat /\ sent[x] <= TotalRequests
         /\ lost[x] <= results[x].active
         /\ results[x].active + results[x].completed + results[x].failed <= created[x]
         /\ created[x] <= TotalRequests /\ TotalRequests \in Nat
         /\ Counting(x) \in Nat /\ results[x].completed + results[x].failed <= Counting(x)
         /\ Counting(x) <= TotalRequests
<1>1. /\ results[x].active \in Nat /\ results[x].completed \in Nat
      /\ results[x].failed \in Nat /\ created[x] \in Nat /\ lost[x] \in Nat
      /\ sent[x] \in Nat /\ sent[x] <= TotalRequests
      /\ created[x] <= TotalRequests /\ TotalRequests \in Nat
  BY ParameterAssumption DEF LInv, TypeOK, Count
<1>2. /\ lost[x] <= results[x].active
      /\ created[x] - results[x].active - results[x].completed - results[x].failed >= 0
  BY DEF LInv, Counted, Waiting
<1> QED
  BY <1>1, <1>2 DEF Counting, InFlight

RowType == [status : {"absent", "pending", "running"} \cup Terminal,
            sent : Count, completed : Count, failed : Count, of : Tests \cup {NoTest}]

\* The row of a test that was started.
LEMMA RowOf ==
  ASSUME LInv, NEW x \in Tests, pc[x] # "none"
  PROVE  /\ rowOf[x] \in Row /\ rowOf[x] # 0
         /\ row[rowOf[x]] \in RowType
         /\ row[rowOf[x]].sent \in Nat /\ row[rowOf[x]].sent <= TotalRequests
         /\ row[rowOf[x]].completed \in Nat /\ row[rowOf[x]].failed \in Nat
         /\ row[rowOf[x]].completed + row[rowOf[x]].failed <= row[rowOf[x]].sent
         /\ StatusOf(x) = row[rowOf[x]].status
         /\ Exists(x) <=> row[rowOf[x]].status # "absent"
<1>1. rowOf[x] \in Row /\ rowOf[x] # 0
  BY DEF LInv, TypeOK
<1>2. row[rowOf[x]] \in RowType /\ AddsUp(rowOf[x])
  BY <1>1 DEF LInv, TypeOK, RowType
<1> QED
  BY <1>1, <1>2, ParameterAssumption DEF RowType, Count, AddsUp, StatusOf, Exists

\* What a flush writes.
LEMMA FlushedRow ==
  ASSUME LInv, NEW x \in Tests, pc[x] # "none", Exists(x),
         sess[x] \in {"expired", "loaded", "dirty"}
  PROVE  /\ Flushed(x) \in RowType
         /\ Flushed(x).sent = Counting(x)
         /\ Flushed(x).status = row[rowOf[x]].status
         /\ Flushed(x).completed + Flushed(x).failed <= Flushed(x).sent
         /\ results[x].completed + results[x].failed <= Counting(x)
<1>1. row[rowOf[x]].sent <= Counting(x)
  BY RowOf, Numbers DEF LInv, Counted
<1>2. CASE sess[x] = "dirty"
  <2>1. Flushed(x) = [row[rowOf[x]] EXCEPT !.sent = sent[x]]
    BY <1>2, RowOf DEF Flushed, RowType
  <2>2. sent[x] \in Count /\ sent[x] = Counting(x)
    BY <1>2 DEF LInv, TypeOK, Counted
  <2> QED
    BY <2>1, <2>2, <1>1, Numbers, RowOf DEF RowType, Count
<1>3. CASE sess[x] # "dirty"
  <2>1. Flushed(x) = row[rowOf[x]]
    BY <1>3, RowOf DEF Flushed, RowType
  <2>2. row[rowOf[x]].sent = Counting(x)
    BY <1>3, RowOf DEF LInv, Counted
  <2> QED
    BY <2>1, <2>2, Numbers, RowOf
<1> QED
  BY <1>2, <1>3

\* The row after x has written it.
LEMMA Written ==
  ASSUME LInv, NEW x \in Tests, pc[x] # "none", NEW v \in RowType,
         row' = [row EXCEPT ![rowOf[x]] = v], rowOf' = rowOf
  PROVE  /\ row' \in [Row -> RowType] /\ row'[rowOf[x]] = v
         /\ StatusOf(x)' = v.status
         /\ \A r \in Row : r # rowOf[x] => row'[r] = row[r]
<1>1. row \in [Row -> RowType]
  BY DEF LInv, TypeOK, RowType
<1> QED
  BY <1>1, RowOf DEF StatusOf

\* A turn of the launch loop may create a request, which still waits.
LEMMA LaunchKeeps ==
  ASSUME LInv, NEW x \in Tests, Launch(x)
  PROVE  LInv'
<1>1. OnlyOf(x)
  BY DEF OnlyOf, LInv, TypeOK, Launch, Goto, MetricsTo, Read, SentRead,
     Readable, StopMetrics, dbVars
<1>2. TypeOK'
  <2>1. Readable(x) => SentRead(x) \in Count
    BY RowOf DEF Launch, Readable, SentRead, LInv, TypeOK, Count
  <2>2. created[x] < TotalRequests => created[x] + 1 \in Count
    BY ParameterAssumption DEF LInv, TypeOK, Count
  <2>3. created' \in [Tests -> Count]
    BY <2>2 DEF LInv, TypeOK, Launch
  <2>4. sent' \in [Tests -> Count]
    BY <2>1 DEF LInv, TypeOK, Launch, Read
  <2>5. sess' \in [Tests -> {"expired", "loaded", "dirty", "broken", "refused", "closed"}]
    BY DEF LInv, TypeOK, Launch, Read
  <2>6. /\ pc' \in [Tests -> {"none", "queued", "loop", "pause", "drain", "linger",
                                "join", "abort", "save", "complete", "fail", "done"}]
        /\ \A y \in Tests : pc'[y] = "none" <=> pc[y] = "none"
    <3>1. PICK l \in {"abort", "drain", "pause", "loop"} : pc' = [pc EXCEPT ![x] = l]
      BY DEF Launch, Goto
    <3>2. pc[x] # "none"
      BY DEF Launch
    <3> QED
      BY <3>1, <3>2 DEF LInv, TypeOK
  <2>7. metrics' \in [Tests -> {"off", "new", "stats", "snapshot", "progress",
                                "sleep", "dead"}]
    <3>1. metrics' \in {metrics, [metrics EXCEPT ![x] = "off"]}
      BY DEF LInv, TypeOK, Launch, MetricsTo, StopMetrics
    <3> QED
      BY <3>1 DEF LInv, TypeOK
  <2> QED
    BY <2>3, <2>4, <2>5, <2>6, <2>7 DEF LInv, TypeOK, Launch, dbVars
<1>3. Counted(x)'
  BY DEF LInv, TypeOK, Counted, Placed, Counting, Waiting, InFlight, Count,
     Exists, StatusOf, Launch, Goto, MetricsTo, Read, SentRead, Readable,
     StopMetrics, dbVars
<1>4. Placed(x)'
  BY DEF LInv, TypeOK, Placed, Exists, StatusOf, Terminal, Launch, Goto,
     MetricsTo, Read, SentRead, Readable, StopMetrics, dbVars
<1>5. rowOf[x] # 0 => AddsUp(rowOf[x])'
  BY DEF LInv, TypeOK, AddsUp, Launch, Goto, MetricsTo, Read, SentRead,
     Readable, StopMetrics, dbVars
<1> QED
  BY <1>1, <1>2, <1>3, <1>4, <1>5, OwnStep

\* Time limits only the launch loop.
LEMMA DurationElapsesKeeps ==
  ASSUME LInv, NEW x \in Tests, DurationElapses(x)
  PROVE  LInv'
<1>1. OnlyOf(x)
  BY DEF OnlyOf, LInv, TypeOK, DurationElapses, dbVars
<1>2. TypeOK'
  BY DEF LInv, TypeOK, DurationElapses, dbVars
<1>3. Counted(x)'
  BY DEF LInv, TypeOK, Counted, Placed, Counting, Waiting, InFlight, Count,
     Exists, StatusOf, DurationElapses, dbVars
<1>4. Placed(x)'
  BY DEF LInv, TypeOK, Placed, Exists, StatusOf, Terminal, DurationElapses,
     dbVars
<1>5. rowOf[x] # 0 => AddsUp(rowOf[x])'
  BY DEF LInv, TypeOK, AddsUp, DurationElapses, dbVars
<1> QED
  BY <1>1, <1>2, <1>3, <1>4, <1>5, OwnStep

\* Waiting for the active requests changes no count.
LEMMA LingerKeeps ==
  ASSUME LInv, NEW x \in Tests, Linger(x)
  PROVE  LInv'
<1>1. OnlyOf(x)
  BY DEF OnlyOf, LInv, TypeOK, Linger, Goto, dbVars
<1>2. TypeOK'
  BY DEF LInv, TypeOK, Linger, Goto, dbVars
<1>3. Counted(x)'
  BY DEF LInv, TypeOK, Counted, Placed, Counting, Waiting, InFlight, Count,
     Exists, StatusOf, Linger, Goto, dbVars
<1>4. Placed(x)'
  BY DEF LInv, TypeOK, Placed, Exists, StatusOf, Terminal, Linger, Goto,
     dbVars
<1>5. rowOf[x] # 0 => AddsUp(rowOf[x])'
  BY DEF LInv, TypeOK, AddsUp, Linger, Goto, dbVars
<1> QED
  BY <1>1, <1>2, <1>3, <1>4, <1>5, OwnStep

\* Stopping the sampler changes no count.
LEMMA DrainedKeeps ==
  ASSUME LInv, NEW x \in Tests, Drained(x)
  PROVE  LInv'
<1>1. OnlyOf(x)
  BY DEF OnlyOf, LInv, TypeOK, Drained, Goto, MetricsTo, StopMetrics, dbVars
<1>2. TypeOK'
  BY DEF LInv, TypeOK, Drained, Goto, MetricsTo, StopMetrics, dbVars
<1>3. Counted(x)'
  BY DEF LInv, TypeOK, Counted, Placed, Counting, Waiting, InFlight, Count,
     Exists, StatusOf, Drained, Goto, MetricsTo, StopMetrics, dbVars
<1>4. Placed(x)'
  BY DEF LInv, TypeOK, Placed, Exists, StatusOf, Terminal, Drained, Goto,
     MetricsTo, StopMetrics, dbVars
<1>5. rowOf[x] # 0 => AddsUp(rowOf[x])'
  BY DEF LInv, TypeOK, AddsUp, Drained, Goto, MetricsTo, StopMetrics, dbVars
<1> QED
  BY <1>1, <1>2, <1>3, <1>4, <1>5, OwnStep

\* From here on no sampler works for the test.
LEMMA JoinKeeps ==
  ASSUME LInv, NEW x \in Tests, Join(x)
  PROVE  LInv'
<1>1. OnlyOf(x)
  BY DEF OnlyOf, LInv, TypeOK, Join, Goto, dbVars
<1>2. TypeOK'
  BY DEF LInv, TypeOK, Join, Goto, dbVars
<1>3. Counted(x)'
  BY DEF LInv, TypeOK, Counted, Placed, Counting, Waiting, InFlight, Count,
     Exists, StatusOf, Join, Goto, dbVars
<1>4. Placed(x)'
  BY DEF LInv, TypeOK, Placed, Exists, StatusOf, Terminal, Join, Goto, dbVars
<1>5. rowOf[x] # 0 => AddsUp(rowOf[x])'
  BY DEF LInv, TypeOK, AddsUp, Join, Goto, dbVars
<1> QED
  BY <1>1, <1>2, <1>3, <1>4, <1>5, OwnStep

\* A request that cannot count itself in requests_sent is not counted anywhere.
LEMMA StartRequestKeeps ==
  ASSUME LInv, NEW x \in Tests, StartRequest(x)
  PROVE  LInv'
<1> DEFINE a == results[x].active + 1
<1>1. /\ UNCHANGED <<row, rowOf, pc, metrics, created>>
      /\ results' = [results EXCEPT ![x].active = a]
      /\ created[x] - results[x].active - results[x].completed - results[x].failed > 0
  BY DEF StartRequest, dbVars, Waiting
<1>2. /\ results'[x].active = a /\ results'[x].completed = results[x].completed
      /\ results'[x].failed = results[x].failed
  BY <1>1 DEF LInv, TypeOK
<1>3. a \in Count /\ Counting(x) + 1 \in Count /\ results[x].active - lost[x] \in Nat
  BY <1>1, Numbers DEF Counting, InFlight, Count
<1>4. pc[x] \notin {"none", "queued"} /\ pc[x] # "complete" /\ metrics[x] # "progress"
  BY <1>1, Numbers DEF LInv, Counted, TypeOK, StartRequest, LoopFree, Busy
<1>5. /\ results[x].active \in Nat /\ results[x].completed \in Nat
      /\ results[x].failed \in Nat /\ lost[x] \in Nat
  BY Numbers
<1>6. results' \in [Tests -> [active : Count, completed : Count, failed : Count]]
  BY <1>1, <1>3 DEF LInv, TypeOK
<1>7. OnlyOf(x)
  BY <1>1 DEF OnlyOf, LInv, TypeOK, StartRequest
<1>8. /\ rowOf[x] # 0 => AddsUp(rowOf[x])'
      /\ StatusOf(x)' = StatusOf(x) /\ (Exists(x)' <=> Exists(x))
  BY <1>1, RowOf, <1>4 DEF LInv, AddsUp, Exists, StatusOf
<1>9. CASE Readable(x)
  <2>1. SentRead(x) = Counting(x)
    BY <1>9 DEF Readable, SentRead, LInv, Counted
  <2>2. /\ sent' = [sent EXCEPT ![x] = Counting(x) + 1] /\ UNCHANGED lost
        /\ sess' = [sess EXCEPT ![x] = "dirty"]
    BY <1>9, <2>1 DEF StartRequest
  <2>3. TypeOK'
    BY <1>1, <1>3, <1>6, <2>2 DEF LInv, TypeOK, StartRequest, dbVars
  <2>4. Counting(x)' = Counting(x) + 1
    BY <1>5, <1>2, <2>2 DEF Counting, InFlight
  <2>5. sess'[x] = "dirty" /\ sent'[x] = Counting(x) + 1
    BY <2>2 DEF LInv, TypeOK
  <2>6. Exists(x) => row[rowOf[x]].sent <= Counting(x)
    BY <1>4, <1>9, RowOf, Numbers DEF LInv, Counted, Readable
  <2>7. lost[x] <= a /\ created[x] - a - results[x].completed - results[x].failed >= 0
    BY <1>1, Numbers
  <2>8. Counted(x)'
    <3>1. Exists(x) => row[rowOf[x]].sent <= Counting(x) + 1
      BY <1>4, <2>6, RowOf, Numbers
    <3> QED
      BY <1>1, <1>2, <1>4, <1>8, <2>2, <2>4, <2>5, <2>7, <3>1 DEF Counted, Waiting
  <2>9. Placed(x)'
    BY <1>1, <1>4, <1>8, <1>9, <2>5 DEF LInv, Placed, Readable
  <2> QED
    BY <1>7, <1>8, <2>3, <2>8, <2>9, OwnStep
<1>10. CASE ~Readable(x)
  <2>1. lost' = [lost EXCEPT ![x] = @ + 1] /\ UNCHANGED <<sent, sess>>
    BY <1>10 DEF StartRequest
  <2>2. lost[x] + 1 \in Count /\ lost[x] + 1 <= a
    BY <1>1, Numbers DEF Count
  <2>3. TypeOK'
    BY <1>1, <1>3, <1>6, <2>1, <2>2 DEF LInv, TypeOK, StartRequest, dbVars
  <2>4. lost'[x] = lost[x] + 1
    BY <2>1 DEF LInv, TypeOK
  <2>5. Counting(x)' = Counting(x)
    BY <1>5, <1>2, <2>4 DEF Counting, InFlight
  <2>6. created[x] - a - results[x].completed - results[x].failed >= 0
    BY <1>1, Numbers
  <2>7. Counted(x)'
    <3>1. sess[x] \notin {"loaded", "dirty"} /\ (Exists(x) => sess[x] # "expired")
      BY <1>10 DEF Readable
    <3> QED
      BY <1>1, <1>2, <1>4, <1>8, <2>1, <2>2, <2>4, <2>6, <3>1 DEF Counted, Waiting
  <2>8. Placed(x)'
    BY <1>1, <1>8, <2>1 DEF LInv, Placed
  <2> QED
    BY <1>7, <1>8, <2>3, <2>7, <2>8, OwnStep
<1> QED
  BY <1>9, <1>10

\* An answer moves a request from the active ones to one of the other two.
LEMMA FinishRequestKeeps ==
  ASSUME LInv, NEW x \in Tests, FinishRequest(x)
  PROVE  LInv'
<1>1. /\ UNCHANGED <<row, rowOf, pc, metrics, created, lost, sess, sent>>
      /\ results[x].active - lost[x] > 0
      /\ \/ results' = [results EXCEPT ![x].active = @ - 1, ![x].completed = @ + 1]
         \/ results' = [results EXCEPT ![x].active = @ - 1, ![x].failed = @ + 1]
  BY DEF FinishRequest, dbVars, InFlight
<1>2. /\ results[x].active - 1 \in Count
      /\ results[x].completed + 1 \in Count /\ results[x].failed + 1 \in Count
  BY <1>1, Numbers DEF Count
<1>3. results' \in [Tests -> [active : Count, completed : Count, failed : Count]]
  <2> DEFINE R == [active : Count, completed : Count, failed : Count]
  <2>1. results \in [Tests -> R]
    BY DEF LInv, TypeOK
  <2>2. PICK v \in R : results' = [results EXCEPT ![x] = v]
    <3>1. results[x] \in R
      BY <2>1
    <3>2. /\ [results[x] EXCEPT !.active = @ - 1, !.completed = @ + 1] \in R
          /\ [results[x] EXCEPT !.active = @ - 1, !.failed = @ + 1] \in R
      BY <1>2, <3>1
    <3>3. \/ results' = [results EXCEPT
                          ![x] = [results[x] EXCEPT !.active = @ - 1, !.completed = @ + 1]]
          \/ results' = [results EXCEPT
                          ![x] = [results[x] EXCEPT !.active = @ - 1, !.failed = @ + 1]]
      <4> HIDE DEF R
      <4> QED
        BY <1>1, <2>1
    <3> QED
      <4> HIDE DEF R
      <4> QED
        BY <3>2, <3>3
  <2> QED
    BY <2>1, <2>2
<1>4. /\ results'[x].active = results[x].active - 1
      /\ results'[x].completed + results'[x].failed
           = results[x].completed + results[x].failed + 1
      /\ results'[x].completed \in Nat /\ results'[x].failed \in Nat
  BY <1>1, Numbers DEF LInv, TypeOK
<1>5. OnlyOf(x)
  BY <1>1 DEF OnlyOf, LInv, TypeOK
<1>6. TypeOK'
  BY <1>1, <1>3 DEF LInv, TypeOK, FinishRequest, dbVars
<1>7. Counting(x)' = Counting(x) /\ Waiting(x)' = Waiting(x)
  <2>1. lost'[x] = lost[x] /\ created'[x] = created[x]
    BY <1>1
  <2>2. /\ results[x].active \in Int /\ results[x].completed \in Int
        /\ results[x].failed \in Int /\ created[x] \in Int /\ lost[x] \in Int
    BY Numbers
  <2>3. Counting(x)' = Counting(x)
    BY <1>4, <2>1, <2>2 DEF Counting, InFlight
  <2>4. Waiting(x)' = Waiting(x)
    BY <1>4, <2>1, <2>2 DEF Waiting
  <2> QED
    BY <2>3, <2>4
<1>8. lost[x] <= results[x].active - 1
  BY <1>1, Numbers
<1>9. Counted(x)'
  BY <1>1, <1>4, <1>7, <1>8 DEF LInv, Counted, Exists, StatusOf
<1>10. Placed(x)'
  BY <1>1 DEF LInv, Placed, StatusOf
<1>11. rowOf[x] # 0 => AddsUp(rowOf[x])'
  BY <1>1 DEF LInv, TypeOK, AddsUp
<1> QED
  BY <1>5, <1>6, <1>9, <1>10, <1>11, OwnStep

\* Looking the container up may load the test.
LEMMA FindContainerKeeps ==
  ASSUME LInv, NEW x \in Tests, FindContainer(x)
  PROVE  LInv'
<1>1. pc[x] # "none" /\ pc[x] # "queued"
  BY DEF FindContainer, LInv, Counted, TypeOK
<1>2. OnlyOf(x)
  BY DEF OnlyOf, LInv, TypeOK, FindContainer, MetricsTo, Read, dbVars
<1>3. TypeOK'
  <2>1. Readable(x) => SentRead(x) \in Count
    BY <1>1, RowOf DEF Readable, SentRead, LInv, TypeOK, Count
  <2>2. sent' \in [Tests -> Count]
    BY <2>1 DEF LInv, TypeOK, FindContainer, Read
  <2>3. sess' \in [Tests -> {"expired", "loaded", "dirty", "broken", "refused", "closed"}]
    BY DEF LInv, TypeOK, FindContainer, Read
  <2>4. metrics' \in [Tests -> {"off", "new", "stats", "snapshot", "progress",
                                "sleep", "dead"}]
    BY DEF LInv, TypeOK, FindContainer, MetricsTo
  <2> QED
    BY <2>2, <2>3, <2>4 DEF LInv, TypeOK, FindContainer, dbVars
<1>4. Counted(x)'
  BY <1>1 DEF LInv, TypeOK, Counted, Counting, Waiting, InFlight, Exists, StatusOf,
     FindContainer, MetricsTo, Read, SentRead, Readable, dbVars
<1>5. Placed(x)'
  BY DEF LInv, TypeOK, Placed, Exists, StatusOf, FindContainer, MetricsTo, Read,
     Readable, dbVars
<1>6. rowOf[x] # 0 => AddsUp(rowOf[x])'
  BY DEF LInv, TypeOK, AddsUp, FindContainer, dbVars
<1> QED
  BY <1>2, <1>3, <1>4, <1>5, <1>6, OwnStep

\* A session that needs a rollback is in one of two states.
LEMMA PoisonType ==
  ASSUME TypeOK, NEW x \in Tests, Poison(x)
  PROVE  /\ sess'[x] \in {"broken", "refused"}
         /\ sess' \in [Tests -> {"expired", "loaded", "dirty", "broken", "refused", "closed"}]
         /\ \A y \in Tests \ {x} : sess'[y] = sess[y]
BY DEF TypeOK, Poison, Poisoned, Become

\* What every commit has in common, and every commit that fails: the counts and
\* the loaded value stay, and the session has nothing pending afterwards.
LEMMA CommitStep ==
  ASSUME LInv, NEW x \in Tests, pc[x] # "none", OnlyOf(x), TypeOK',
         created'[x] = created[x], results'[x] = results[x], lost'[x] = lost[x],
         sess'[x] \in {"expired", "closed", "broken", "refused"},
         pc'[x] \notin {"none", "queued"},
         pc'[x] = "done" <=> sess'[x] = "closed",
         pc'[x] \in {"save", "complete", "fail", "done"} => metrics'[x] \in {"off", "dead"},
         \/ /\ row'[rowOf[x]] = row[rowOf[x]] /\ pc[x] # "done"
            /\ sess'[x] = "expired" => ~Exists(x)
         \/ /\ row'[rowOf[x]].sent = Counting(x)
            /\ row'[rowOf[x]].completed + row'[rowOf[x]].failed <= Counting(x)
            /\ row'[rowOf[x]].status \in Terminal => pc'[x] = "done"
  PROVE  LInv'
<1>1. rowOf'[x] = rowOf[x] /\ rowOf[x] # 0 /\ rowOf[x] \in Row
  BY RowOf DEF OnlyOf
<1>2. Counting(x)' = Counting(x) /\ Waiting(x)' = Waiting(x)
  BY DEF Counting, Waiting, InFlight
<1>3. StatusOf(x)' = row'[rowOf[x]].status /\ StatusOf(x) = row[rowOf[x]].status
  BY <1>1 DEF StatusOf
<1>4. Counted(x)'
  BY <1>1, <1>2, <1>3 DEF LInv, Counted, Exists
<1>5. Placed(x)'
  BY <1>3 DEF LInv, Placed
<1>6. AddsUp(rowOf[x])'
  BY <1>1, RowOf, Numbers DEF AddsUp
<1> QED
  BY <1>4, <1>5, <1>6, OwnStep

\* The new row of a commit that only changes the status or the answers.
LEMMA NewRow ==
  ASSUME LInv, NEW x \in Tests, pc[x] # "none", Exists(x),
         sess[x] \in {"expired", "loaded", "dirty"},
         NEW s \in {"running", "completed", "failed"}
  PROVE  /\ [Flushed(x) EXCEPT !.status = s] \in RowType
         /\ [Flushed(x) EXCEPT !.completed = results[x].completed,
                               !.failed = results[x].failed] \in RowType
<1>1. Flushed(x) \in RowType
  BY FlushedRow
<1>2. results[x].completed \in Count /\ results[x].failed \in Count
  BY DEF LInv, TypeOK
<1> QED
  BY <1>1, <1>2 DEF RowType, Terminal

\* A session with nothing pending writes the row as it stands.
LEMMA NothingPending ==
  ASSUME LInv, NEW x \in Tests, pc[x] # "none", sess[x] # "dirty"
  PROVE  Flushed(x) = row[rowOf[x]]
BY RowOf DEF Flushed, RowType

\* Marking the test running, or giving up.
LEMMA execute_load_testKeeps ==
  ASSUME LInv, NEW x \in Tests, execute_load_test(x)
  PROVE  LInv'
<1>1. /\ pc[x] = "queued" /\ sess[x] = "expired" /\ metrics[x] = "off"
      /\ UNCHANGED <<rowOf, created, results, lost, sent>>
  BY DEF execute_load_test, LInv, Counted
<1>2. pc[x] # "none" /\ pc[x] # "done" /\ OnlyOf(x)
  BY <1>1 DEF OnlyOf, LInv, TypeOK, Counted, Placed, Commit, execute_load_test, Become, Goto, MetricsTo
<1>3. CASE /\ Commit(x, [row[rowOf[x]] EXCEPT !.status = "running"])
            /\ Become(x, "expired") /\ MetricsTo(x, "new") /\ Goto(x, "loop")
  <2> DEFINE v == [Flushed(x) EXCEPT !.status = "running"]
  <2>1. Exists(x) /\ sess[x] \in {"expired", "loaded", "dirty"}
    BY <1>1, <1>2, <1>3 DEF Commit, Poisoned, LInv, TypeOK, Placed, Counted
  <2>2. row' = [row EXCEPT ![rowOf[x]] = v] /\ v \in RowType
    BY <1>1, <1>2, <1>3, <2>1, NewRow, NothingPending DEF Commit, LInv, Placed, Counted
  <2>3. v.sent = Counting(x) /\ v.completed + v.failed <= Counting(x) /\ v.status = "running"
    BY <1>2, <2>1, FlushedRow, RowOf DEF RowType, LInv, Placed
  <2>4. row' \in [Row -> RowType] /\ row'[rowOf[x]] = v
    BY <1>1, <1>2, <2>2, Written
  <2>5. TypeOK'
    BY <1>1, <1>2, <1>3, <2>4 DEF LInv, TypeOK, RowType, execute_load_test, Become, Goto, MetricsTo
  <2> HIDE DEF v
  <2>6. /\ sess'[x] = "expired" /\ pc'[x] = "loop"
    BY <1>1, <1>3 DEF LInv, TypeOK, Placed, Become, Goto, MetricsTo
  <2> QED
    BY <1>1, <1>2, <2>3, <2>4, <2>5, <2>6, CommitStep DEF Terminal
<1>4. CASE Become(x, "closed") /\ Goto(x, "done") /\ UNCHANGED <<row, metrics>>
  <2>1. TypeOK'
    BY <1>1, <1>2, <1>4 DEF LInv, TypeOK, execute_load_test, Become, Goto, MetricsTo
  <2>2. sess'[x] = "closed" /\ pc'[x] = "done" /\ metrics'[x] = "off" /\ UNCHANGED row
    BY <1>1, <1>2, <1>4 DEF LInv, TypeOK, Become, Goto, MetricsTo
  <2> QED
    BY <1>1, <1>2, <2>1, <2>2, CommitStep
<1> QED
  BY <1>3, <1>4 DEF execute_load_test

\* The final answers.
LEMMA save_final_statsKeeps ==
  ASSUME LInv, NEW x \in Tests, save_final_stats(x)
  PROVE  LInv'
<1>1. /\ pc[x] = "save" /\ metrics[x] \in {"off", "dead"} /\ UNCHANGED metrics
      /\ UNCHANGED <<rowOf, created, results, lost, sent>>
  BY DEF save_final_stats, LInv, Placed
<1>2. pc[x] # "none" /\ pc[x] # "done" /\ OnlyOf(x)
  BY <1>1 DEF OnlyOf, LInv, TypeOK, Counted, Placed, Commit, save_final_stats, Become, Poison, Goto
<1>3. CASE /\ Commit(x, [Flushed(x) EXCEPT !.completed = results[x].completed,
                                             !.failed = results[x].failed])
            /\ Become(x, "expired") /\ Goto(x, "complete")
  <2> DEFINE v == [Flushed(x) EXCEPT !.completed = results[x].completed,
                                   !.failed = results[x].failed]
  <2>1. Exists(x) /\ sess[x] \in {"expired", "loaded", "dirty"}
    BY <1>1, <1>2, <1>3 DEF Commit, Poisoned, LInv, TypeOK, Placed, Counted
  <2>2. row' = [row EXCEPT ![rowOf[x]] = v] /\ v \in RowType
    BY <1>1, <1>2, <1>3, <2>1, NewRow, NothingPending DEF Commit, LInv, Placed, Counted
  <2>3. v.sent = Counting(x) /\ v.completed + v.failed <= Counting(x)
        /\ v.status \notin Terminal
    BY <1>2, <2>1, FlushedRow, RowOf DEF RowType, LInv, Placed
  <2>4. row' \in [Row -> RowType] /\ row'[rowOf[x]] = v
    BY <1>1, <1>2, <2>2, Written
  <2>5. TypeOK'
    BY <1>1, <1>2, <1>3, <2>4 DEF LInv, TypeOK, RowType, save_final_stats, Become, Goto
  <2> HIDE DEF v
  <2>6. /\ sess'[x] = "expired" /\ pc'[x] = "complete"
    BY <1>1, <1>3 DEF LInv, TypeOK, Placed, Become, Goto
  <2> QED
    BY <1>1, <1>2, <2>3, <2>4, <2>5, <2>6, CommitStep DEF Terminal
<1>4. CASE Poison(x) /\ Goto(x, "fail") /\ UNCHANGED row
  <2>1. TypeOK'
    BY <1>1, <1>2, <1>4, PoisonType DEF LInv, TypeOK, save_final_stats, Goto
  <2>2. sess'[x] \in {"broken", "refused"} /\ pc'[x] = "fail" /\ UNCHANGED row
    BY <1>1, <1>2, <1>4, PoisonType DEF LInv, TypeOK, Goto
  <2> QED
    BY <1>1, <1>2, <2>1, <2>2, CommitStep
<1> QED
  BY <1>3, <1>4 DEF save_final_stats

\* The test is done.
LEMMA CompleteKeeps ==
  ASSUME LInv, NEW x \in Tests, Complete(x)
  PROVE  LInv'
<1>1. /\ pc[x] = "complete" /\ sess[x] # "dirty" /\ metrics[x] \in {"off", "dead"} /\ UNCHANGED metrics
      /\ UNCHANGED <<rowOf, created, results, lost, sent>>
  BY DEF Complete, LInv, Placed
<1>2. pc[x] # "none" /\ pc[x] # "done" /\ OnlyOf(x)
  BY <1>1 DEF OnlyOf, LInv, TypeOK, Counted, Placed, Commit, Complete, Become, Poison, Goto
<1>3. CASE /\ Commit(x, [row[rowOf[x]] EXCEPT !.status = "completed"])
            /\ Become(x, "closed") /\ Goto(x, "done")
  <2> DEFINE v == [Flushed(x) EXCEPT !.status = "completed"]
  <2>1. Exists(x) /\ sess[x] \in {"expired", "loaded", "dirty"}
    BY <1>1, <1>2, <1>3 DEF Commit, Poisoned, LInv, TypeOK, Placed, Counted
  <2>2. row' = [row EXCEPT ![rowOf[x]] = v] /\ v \in RowType
    BY <1>1, <1>2, <1>3, <2>1, NewRow, NothingPending DEF Commit, LInv, Placed, Counted
  <2>3. v.sent = Counting(x) /\ v.completed + v.failed <= Counting(x)
    BY <1>2, <2>1, FlushedRow, RowOf DEF RowType, LInv, Placed
  <2>4. row' \in [Row -> RowType] /\ row'[rowOf[x]] = v
    BY <1>1, <1>2, <2>2, Written
  <2>5. TypeOK'
    BY <1>1, <1>2, <1>3, <2>4 DEF LInv, TypeOK, RowType, Complete, Become, Goto
  <2> HIDE DEF v
  <2>6. /\ sess'[x] = "closed" /\ pc'[x] = "done"
    BY <1>1, <1>3 DEF LInv, TypeOK, Placed, Become, Goto
  <2> QED
    BY <1>1, <1>2, <2>3, <2>4, <2>5, <2>6, CommitStep DEF Terminal
<1>4. CASE Poison(x) /\ Goto(x, "fail") /\ UNCHANGED row
  <2>1. TypeOK'
    BY <1>1, <1>2, <1>4, PoisonType DEF LInv, TypeOK, Complete, Goto
  <2>2. sess'[x] \in {"broken", "refused"} /\ pc'[x] = "fail" /\ UNCHANGED row
    BY <1>1, <1>2, <1>4, PoisonType DEF LInv, TypeOK, Goto
  <2> QED
    BY <1>1, <1>2, <2>1, <2>2, CommitStep
<1> QED
  BY <1>3, <1>4 DEF Complete

\* The test has failed.
LEMMA FailKeeps ==
  ASSUME LInv, NEW x \in Tests, Fail(x)
  PROVE  LInv'
<1>1. /\ pc[x] = "fail" /\ metrics[x] \in {"off", "dead"} /\ UNCHANGED metrics
      /\ UNCHANGED <<rowOf, created, results, lost, sent>>
  BY DEF Fail, LInv, Placed
<1>2. pc[x] # "none" /\ pc[x] # "done" /\ OnlyOf(x)
  BY <1>1 DEF OnlyOf, LInv, TypeOK, Counted, Placed, Commit, Fail, Become, Goto
<1>3. CASE /\ Commit(x, [Flushed(x) EXCEPT !.status = "failed"])
            /\ Become(x, "closed") /\ Goto(x, "done")
  <2> DEFINE v == [Flushed(x) EXCEPT !.status = "failed"]
  <2>1. Exists(x) /\ sess[x] \in {"expired", "loaded", "dirty"}
    BY <1>1, <1>2, <1>3 DEF Commit, Poisoned, LInv, TypeOK, Placed, Counted
  <2>2. row' = [row EXCEPT ![rowOf[x]] = v] /\ v \in RowType
    BY <1>1, <1>2, <1>3, <2>1, NewRow, NothingPending DEF Commit, LInv, Placed, Counted
  <2>3. v.sent = Counting(x) /\ v.completed + v.failed <= Counting(x)
    BY <1>2, <2>1, FlushedRow, RowOf DEF RowType, LInv, Placed
  <2>4. row' \in [Row -> RowType] /\ row'[rowOf[x]] = v
    BY <1>1, <1>2, <2>2, Written
  <2>5. TypeOK'
    BY <1>1, <1>2, <1>3, <2>4 DEF LInv, TypeOK, RowType, Fail, Become, Goto
  <2> HIDE DEF v
  <2>6. /\ sess'[x] = "closed" /\ pc'[x] = "done"
    BY <1>1, <1>3 DEF LInv, TypeOK, Placed, Become, Goto
  <2> QED
    BY <1>1, <1>2, <2>3, <2>4, <2>5, <2>6, CommitStep DEF Terminal
<1>4. CASE Become(x, "closed") /\ Goto(x, "done") /\ UNCHANGED row
  <2>1. TypeOK'
    BY <1>1, <1>2, <1>4 DEF LInv, TypeOK, Fail, Become, Goto
  <2>2. sess'[x] = "closed" /\ pc'[x] = "done" /\ UNCHANGED row
    BY <1>1, <1>2, <1>4 DEF LInv, TypeOK, Become, Goto
  <2> QED
    BY <1>1, <1>2, <2>1, <2>2, CommitStep
<1> QED
  BY <1>3, <1>4 DEF Fail

\* A sample flushes what is pending.
LEMMA SnapshotKeeps ==
  ASSUME LInv, NEW x \in Tests, Snapshot(x)
  PROVE  LInv'
<1>1. /\ metrics[x] \in {"snapshot", "stats"}
      /\ UNCHANGED <<rowOf, pc, created, results, lost, sent>>
  BY DEF Snapshot
<1>2. /\ pc[x] \notin {"none", "queued", "save", "complete", "fail", "done"}
      /\ sess[x] # "closed" /\ StatusOf(x) \notin Terminal
  BY <1>1 DEF LInv, Counted, Placed
<1>3. OnlyOf(x)
  BY <1>1 DEF OnlyOf, LInv, TypeOK, Snapshot, Become, Poison, MetricsTo
<1>4. CASE /\ Readable(x) /\ Exists(x)
           /\ row' = [row EXCEPT ![rowOf[x]] = Flushed(x)]
           /\ samples' = [samples EXCEPT ![rowOf[x]] = @ \cup {x}]
           /\ Become(x, "expired") /\ MetricsTo(x, "progress")
  <2>1. sess[x] \in {"expired", "loaded", "dirty"}
    BY <1>4 DEF Readable
  <2>2. row' \in [Row -> RowType] /\ row'[rowOf[x]] = Flushed(x)
    BY <1>1, <1>2, <1>4, <2>1, FlushedRow, Written
  <2>3. TypeOK'
    BY <1>1, <1>2, <1>4, <2>2, RowOf DEF LInv, TypeOK, RowType, Snapshot, Become, MetricsTo
  <2>4. sess'[x] = "expired"
    BY <1>4 DEF LInv, TypeOK, Become
  <2>5. /\ Flushed(x).sent = Counting(x)
        /\ Flushed(x).completed + Flushed(x).failed <= Counting(x)
        /\ Flushed(x).status \notin Terminal
    BY <1>2, <1>4, <2>1, FlushedRow, RowOf
  <2> QED
    BY <1>1, <1>2, <1>3, <2>2, <2>3, <2>4, <2>5, CommitStep
<1>5. CASE /\ IF Readable(x) THEN Poison(x) ELSE UNCHANGED sess
           /\ MetricsTo(x, "dead") /\ UNCHANGED <<row, samples>>
  <2>1. /\ sess'[x] \in {"broken", "refused", "expired"}
        /\ sess'[x] = "expired" => ~Exists(x)
    BY <1>2, <1>5, PoisonType DEF LInv, TypeOK, Readable
  <2>2. TypeOK'
    BY <1>1, <1>5, PoisonType DEF LInv, TypeOK, Snapshot, MetricsTo
  <2> QED
    BY <1>1, <1>2, <1>3, <1>5, <2>1, <2>2, CommitStep
<1>6. CASE /\ Readable(x) /\ ~Exists(x) /\ sess[x] # "dirty"
           /\ row' = [row EXCEPT ![rowOf[x]] = Flushed(x)]
           /\ samples' = [samples EXCEPT ![rowOf[x]] = @ \cup {x}]
           /\ Become(x, "expired") /\ MetricsTo(x, "progress")
  <2>1. row' = row
    BY <1>2, <1>6, RowOf, NothingPending DEF LInv, TypeOK
  <2>2. TypeOK'
    BY <1>1, <1>2, <1>6, <2>1, RowOf DEF LInv, TypeOK, Snapshot, Become, MetricsTo
  <2>3. sess'[x] = "expired"
    BY <1>6 DEF LInv, TypeOK, Become
  <2> QED
    BY <1>1, <1>2, <1>3, <1>6, <2>1, <2>2, <2>3, CommitStep
<1> QED
  BY <1>4, <1>5, <1>6 DEF Snapshot

\* Its second commit stores the answers so far.
LEMMA ProgressKeeps ==
  ASSUME LInv, NEW x \in Tests, Progress(x)
  PROVE  LInv'
<1> DEFINE v == [Flushed(x) EXCEPT !.completed = results[x].completed,
                                   !.failed = results[x].failed]
<1>1. /\ metrics[x] = "progress" /\ sess[x] # "dirty"
      /\ UNCHANGED <<rowOf, pc, created, results, lost, sent>>
  BY DEF Progress, LInv, Placed
<1>2. /\ pc[x] \notin {"none", "queued", "save", "complete", "fail", "done"}
      /\ sess[x] # "closed" /\ StatusOf(x) \notin Terminal
  BY <1>1 DEF LInv, Counted, Placed
<1>3. OnlyOf(x)
  BY <1>1 DEF OnlyOf, LInv, TypeOK, Progress, Commit, Become, Poison, MetricsTo
<1>4. CASE /\ Commit(x, [row[rowOf[x]] EXCEPT !.completed = results[x].completed,
                                              !.failed = results[x].failed])
           /\ Become(x, "expired") /\ MetricsTo(x, "sleep")
  <2>1. Exists(x) /\ sess[x] \in {"expired", "loaded", "dirty"}
    BY <1>1, <1>2, <1>4 DEF Commit, Poisoned, LInv, TypeOK
  <2>2. row' = [row EXCEPT ![rowOf[x]] = v] /\ v \in RowType
    BY <1>1, <1>2, <1>4, <2>1, NewRow, NothingPending DEF Commit
  <2>3. /\ v.sent = Counting(x) /\ v.completed + v.failed <= Counting(x)
        /\ v.status \notin Terminal
    BY <1>2, <2>1, FlushedRow, RowOf DEF RowType
  <2>4. row' \in [Row -> RowType] /\ row'[rowOf[x]] = v
    BY <1>1, <1>2, <2>2, Written
  <2>5. TypeOK'
    BY <1>1, <1>2, <1>4, <2>4 DEF LInv, TypeOK, RowType, Progress, Become, MetricsTo
  <2> HIDE DEF v
  <2>6. sess'[x] = "expired"
    BY <1>4 DEF LInv, TypeOK, Become
  <2> QED
    BY <1>1, <1>2, <1>3, <2>3, <2>4, <2>5, <2>6, CommitStep
<1>5. CASE Poison(x) /\ MetricsTo(x, "dead") /\ UNCHANGED row
  <2>1. TypeOK'
    BY <1>1, <1>5, PoisonType DEF LInv, TypeOK, Progress, MetricsTo
  <2>2. sess'[x] \in {"broken", "refused"}
    BY <1>5, PoisonType DEF LInv
  <2> QED
    BY <1>1, <1>2, <1>3, <1>5, <2>1, <2>2, CommitStep
<1> QED
  BY <1>4, <1>5 DEF Progress

-----------------------------------------------------------------------------
(* The users and the database *)

\* The id a new test gets.
LEMMA NextIdIsNew ==
  ASSUME LInv, IdsKept, NEW x \in Tests, start_load_test(x)
  PROVE  NextId({q \in Row : row[q].status # "absent"}) = Cardinality(Begun) + 1
<1> DEFINE k == Cardinality(Begun)
           ids == {q \in Row : row[q].status # "absent"}
<1>1. CASE Postgres
  BY <1>1 DEF NextId, Begun
<1>2. CASE ~Postgres
  <2>1. container = "running" /\ rowOf[x] = 0
    BY DEF start_load_test, LInv, TypeOK
  <2>2. k \in Nat /\ k + 1 \in Row /\ Row \subseteq Nat
    BY <2>1, IdLeft, BegunFinite DEF Row
  <2>3. \A q \in Row : q \in ids <=> q <= k
    <3>1. \A q \in Row : q > k => row[q] = Absent
      BY DEF LInv, IdsGiven
    <3>2. \A q \in Row : q <= k => row[q].status # "absent"
      BY <1>2, <2>1 DEF IdsKept
    <3> QED
      BY <2>2, <3>1, <3>2 DEF Absent
  <2> DEFINE Next1(n) == n - 1 \in ids \cup {0} /\ \A i \in ids : i < n
  <2>4. Next1(k + 1)
    BY <2>2, <2>3, BegunFinite DEF Row
  <2>5. \A n \in Row : Next1(n) => n = k + 1
    BY <2>2, <2>3, BegunFinite DEF Row
  <2>6. NextId(ids) = CHOOSE n \in Row : Next1(n)
    BY <1>2 DEF NextId, LargestPlusOne
  <2> HIDE DEF Next1
  <2> QED
    BY <2>2, <2>4, <2>5, <2>6
<1> QED
  BY <1>1, <1>2

\* A new test gets an id of its own and a row that says nothing yet.
LEMMA StartKeeps ==
  ASSUME LInv, IdsKept, NEW x \in Tests, start_load_test(x)
  PROVE  LInv'
<1> DEFINE n == Cardinality(Begun) + 1
           v == [Absent EXCEPT !.status = "pending", !.of = x]
<1>1. /\ pc[x] = "none" /\ rowOf[x] = 0
      /\ row' = [row EXCEPT ![n] = v] /\ rowOf' = [rowOf EXCEPT ![x] = n]
      /\ pc' = [pc EXCEPT ![x] = "queued"]
      /\ UNCHANGED <<container, samples, metrics, created, results,
                     lost, sess, sent, elapsed, cancelled, stream>>
  BY NextIdIsNew DEF start_load_test, Goto, LInv, TypeOK
<1>2. n \in Row /\ n # 0 /\ n \in Nat /\ n > Cardinality(Begun)
  BY <1>1, IdLeft, BegunFinite
<1>3. v.status = "pending" /\ v.sent = 0 /\ v.completed = 0 /\ v.failed = 0
  BY DEF Absent
<1>4. v \in RowType
  <2>1. Absent \in RowType
    BY ParameterAssumption DEF Absent, RowType, Count
  <2> QED
    BY <2>1 DEF RowType
<1> HIDE DEF v
<1>5. row' \in [Row -> RowType] /\ row'[n] = v /\ \A r \in Row : r # n => row'[r] = row[r]
  BY <1>1, <1>2, <1>4 DEF LInv, TypeOK, RowType
<1>6. TypeOK'
  BY <1>1, <1>2, <1>5 DEF LInv, TypeOK, RowType
<1>7. Begun' = Begun \cup {x}
  BY <1>1, <1>2 DEF Begun, LInv, TypeOK
<1>8. Cardinality(Begun') = n
  BY <1>1, <1>7, BegunFinite, FS_AddElement DEF Begun
<1>9. IdsGiven'
  <2>1. \A y \in Tests : rowOf'[y] <= n
    BY <1>1, <1>2, BegunFinite DEF LInv, IdsGiven, TypeOK, Row
  <2>2. \A y, z \in Tests : y # z /\ rowOf'[y] # 0 => rowOf'[y] # rowOf'[z]
    BY <1>1, <1>2, BegunFinite DEF LInv, IdsGiven, TypeOK, Row
  <2>3. \A r \in Row : r > n => row'[r] = Absent
    BY <1>2, <1>5, BegunFinite DEF LInv, IdsGiven, Row
  <2> QED
    BY <1>8, <2>1, <2>2, <2>3 DEF IdsGiven
<1>10. Counted(x)' /\ Placed(x)'
  <2>1. rowOf'[x] = n /\ pc'[x] = "queued"
    BY <1>1 DEF LInv, TypeOK
  <2>2. StatusOf(x)' = "pending" /\ row'[rowOf'[x]].sent = 0
    BY <1>2, <1>3, <1>5, <2>1 DEF StatusOf
  <2>3. Counting(x) = 0
    BY <1>1, Numbers DEF LInv, Counted, Counting, InFlight
  <2>4. Counting(x)' = Counting(x) /\ Waiting(x)' = Waiting(x)
    BY <1>1 DEF Counting, Waiting, InFlight
  <2> QED
    BY <1>1, <2>1, <2>2, <2>3, <2>4 DEF LInv, Counted, Placed, Terminal
<1>11. ASSUME NEW y \in Tests \ {x}
       PROVE  Counted(y)' /\ Placed(y)'
  <2>1. rowOf'[y] = rowOf[y] /\ pc'[y] = pc[y]
    BY <1>1 DEF LInv, TypeOK
  <2>2. rowOf[y] # 0 => rowOf[y] \in Row /\ row'[rowOf[y]] = row[rowOf[y]]
    BY <1>2, <1>5, BegunFinite DEF LInv, TypeOK, IdsGiven, Row
  <2>3. StatusOf(y)' = StatusOf(y) /\ (Exists(y)' <=> Exists(y))
    BY <2>1, <2>2 DEF StatusOf, Exists
  <2>4. Exists(y) => rowOf[y] # 0
    BY DEF Exists, StatusOf
  <2>5. Counting(y)' = Counting(y) /\ Waiting(y)' = Waiting(y)
    BY <1>1 DEF Counting, Waiting, InFlight
  <2> QED
    BY <1>1, <2>1, <2>2, <2>3, <2>4, <2>5 DEF LInv, Counted, Placed
<1>12. \A r \in Row : AddsUp(r)'
  BY <1>3, <1>5, ParameterAssumption DEF LInv, AddsUp
<1> QED
  BY <1>6, <1>9, <1>10, <1>11, <1>12 DEF LInv

\* Deleting leaves no row to be wrong.
LEMMA DeleteKeeps ==
  ASSUME LInv, delete_container
  PROVE  LInv'
<1>1. /\ row' = [r \in Row |-> Absent] /\ container' = "absent"
      /\ UNCHANGED <<samples, rowOf, pc, metrics, created, results, lost, sess, sent,
                     elapsed, cancelled, stream>>
  BY DEF delete_container, runVars
<1>2. Absent \in RowType /\ Absent.sent = 0 /\ Absent.completed = 0 /\ Absent.failed = 0
      /\ Absent.status = "absent"
  BY ParameterAssumption DEF Absent, RowType, Count
<1>3. TypeOK'
  BY <1>1, <1>2 DEF LInv, TypeOK, RowType
<1>4. IdsGiven'
  BY <1>1 DEF LInv, IdsGiven, Begun
<1>5. ASSUME NEW x \in Tests
      PROVE  Counted(x)' /\ Placed(x)'
  <2>1. StatusOf(x)' = "absent"
    BY <1>1, <1>2 DEF StatusOf, LInv, TypeOK
  <2>2. Counting(x)' = Counting(x) /\ Waiting(x)' = Waiting(x)
    BY <1>1 DEF Counting, Waiting, InFlight
  <2> QED
    BY <1>1, <2>1, <2>2 DEF LInv, Counted, Placed, Exists, Terminal
<1>6. \A r \in Row : AddsUp(r)'
  BY <1>1, <1>2, ParameterAssumption DEF AddsUp
<1> QED
  BY <1>3, <1>4, <1>5, <1>6 DEF LInv

\* These change nothing the counters or the statuses depend on.
LEMMA RestKeeps ==
  ASSUME LInv, TypeOK',
         UNCHANGED <<row, rowOf, pc, metrics, created, results, lost, sess, sent>>
  PROVE  LInv'
<1>1. IdsGiven' /\ \A r \in Row : AddsUp(r)'
  BY DEF LInv, IdsGiven, Begun, AddsUp
<1>2. ASSUME NEW x \in Tests
      PROVE  Counted(x)' /\ Placed(x)'
  BY DEF LInv, Counted, Placed, Counting, Waiting, InFlight, Exists, StatusOf
<1> QED
  BY <1>1, <1>2 DEF LInv

\* Calls that leave rows, counters and tasks alone keep the invariant.
LEMMA UsersKeep ==
  ASSUME LInv, NEW x \in Tests,
         deploy_container \/ cancel_load_test(x) \/ stream_load_test_metrics(x) \/ PollStream(x)
  PROVE  LInv'
<1>1. UNCHANGED <<row, rowOf, pc, metrics, created, results, lost, sess, sent>>
  BY DEF deploy_container, cancel_load_test, stream_load_test_metrics, PollStream,
         dbVars, runVars
<1>2. TypeOK'
  BY <1>1 DEF LInv, TypeOK, deploy_container, cancel_load_test, stream_load_test_metrics,
              PollStream, dbVars, runVars
<1> QED
  BY <1>1, <1>2, RestKeeps

\* After a crash every activation is over.
LEMMA CrashKeeps ==
  ASSUME LInv, Crash
  PROVE  LInv'
<1>1. UNCHANGED <<row, rowOf>>
  BY DEF Crash, dbVars
<1>2. TypeOK'
  BY <1>1, ParameterAssumption DEF LInv, TypeOK, Crash, dbVars, Count
<1>3. IdsGiven' /\ \A r \in Row : AddsUp(r)'
  BY <1>1 DEF LInv, IdsGiven, Begun, AddsUp
<1>4. ASSUME NEW x \in Tests
      PROVE  Counted(x)' /\ Placed(x)'
  <2>1. /\ pc'[x] = (IF pc[x] = "none" THEN "none" ELSE "done") /\ metrics'[x] = "off"
        /\ created'[x] = 0 /\ lost'[x] = 0
        /\ results'[x].active = 0 /\ results'[x].completed = 0 /\ results'[x].failed = 0
        /\ sess'[x] = (IF pc[x] = "none" THEN "expired" ELSE "closed")
    BY DEF Crash
  <2>2. StatusOf(x)' = StatusOf(x) /\ (Exists(x)' <=> Exists(x))
    BY <1>1 DEF StatusOf, Exists
  <2>3. pc[x] = "none" => ~Exists(x)
    BY DEF LInv, TypeOK, Exists, StatusOf
  <2>4. Waiting(x)' = 0
    BY <2>1 DEF Waiting
  <2> QED
    BY <2>1, <2>2, <2>3, <2>4 DEF LInv, Counted, Placed
<1> QED
  BY <1>2, <1>3, <1>4 DEF LInv

-----------------------------------------------------------------------------
(* The theorems *)

\* The initial states satisfy the invariant.
LEMMA InitHolds == Init => LInv
<1> SUFFICES ASSUME Init
             PROVE  LInv
  OBVIOUS
<1>1. Absent \in RowType /\ Absent.sent = 0 /\ Absent.completed = 0 /\ Absent.failed = 0
  BY ParameterAssumption DEF Absent, RowType, Count
<1>2. TypeOK
  BY <1>1, ParameterAssumption DEF Init, TypeOK, RowType, Count
<1>3. IdsGiven
  <2>1. Begun = {} /\ \A x \in Tests : rowOf[x] = 0
    BY DEF Init, Begun
  <2>2. Cardinality(Begun) = 0
    BY <2>1, FS_EmptySet
  <2> QED
    BY <2>1, <2>2 DEF Init, IdsGiven
<1>4. ASSUME NEW x \in Tests
      PROVE  Counted(x) /\ Placed(x)
  BY DEF Init, Counted, Placed, Counting, Waiting, InFlight, Exists, StatusOf, Terminal
<1>5. \A r \in Row : AddsUp(r)
  BY <1>1, ParameterAssumption DEF Init, AddsUp
<1> QED
  BY <1>2, <1>3, <1>4, <1>5 DEF LInv

\* Every step keeps the invariant.
LEMMA InvStep ==
  ASSUME LInv, IdsKept, [Next]_vars
  PROVE  LInv'
<1>1. ASSUME NEW x \in Tests, Activation(x)
      PROVE  LInv'
  BY <1>1, execute_load_testKeeps, LaunchKeeps, LingerKeeps, DrainedKeeps, JoinKeeps,
     save_final_statsKeeps, CompleteKeeps, FailKeeps DEF Activation
<1>2. ASSUME NEW x \in Tests, Sampler(x)
      PROVE  LInv'
  BY <1>2, FindContainerKeeps, SnapshotKeeps, ProgressKeeps DEF Sampler
<1>3. ASSUME NEW x \in Tests,
             DurationElapses(x) \/ StartRequest(x) \/ FinishRequest(x) \/ start_load_test(x)
      PROVE  LInv'
  BY <1>3, DurationElapsesKeeps, StartRequestKeeps, FinishRequestKeeps, StartKeeps
<1>4. ASSUME NEW x \in Tests,
             cancel_load_test(x) \/ stream_load_test_metrics(x) \/ PollStream(x)
      PROVE  LInv'
  BY <1>4, UsersKeep
<1>5. CASE deploy_container
  <2>1. UNCHANGED <<row, rowOf, pc, metrics, created, results, lost, sess, sent>> /\ TypeOK'
    BY <1>5 DEF deploy_container, runVars, LInv, TypeOK
  <2> QED
    BY <2>1, RestKeeps
<1>6. CASE UNCHANGED vars
  <2>1. UNCHANGED <<row, rowOf, pc, metrics, created, results, lost, sess, sent>> /\ TypeOK'
    BY <1>6 DEF vars, dbVars, runVars, LInv, TypeOK
  <2> QED
    BY <2>1, RestKeeps
<1> QED
  BY <1>1, <1>2, <1>3, <1>4, <1>5, <1>6, DeleteKeeps, CrashKeeps DEF Next

\* A step neither removes a row that a test may be started beside nor gives an
\* id out of order.
LEMMA IdsKeptStep ==
  ASSUME NoReuse, LInv, IdsKept, [Next]_vars
  PROVE  IdsKept'
<1> SUFFICES ASSUME ~Postgres
             PROVE  IdsKept'
  BY DEF IdsKept
<1> DEFINE Left == \A q \in Row : row[q].status # "absent" => row'[q].status # "absent"
<1>1. row \in [Row -> RowType]
  BY DEF LInv, TypeOK, RowType
<1>2. ASSUME Left, rowOf' = rowOf, container' = container
      PROVE  IdsKept'
  BY <1>2 DEF IdsKept, Begun
<1>3. ASSUME NEW x \in Tests, Activation(x) \/ Sampler(x)
      PROVE  IdsKept'
  <2>1. rowOf' = rowOf /\ container' = container
    BY <1>3 DEF Activation, execute_load_test, Launch, Linger, Drained, Join, save_final_stats,
       Complete, Fail, Sampler, FindContainer, Snapshot, Progress, dbVars
  <2>2. \/ UNCHANGED row
        \/ /\ Exists(x)
           /\ \E s \in {"running", "completed", "failed"} :
                \/ row' = [row EXCEPT ![rowOf[x]] = [row[rowOf[x]] EXCEPT !.status = s]]
                \/ row' = [row EXCEPT ![rowOf[x]] = [Flushed(x) EXCEPT !.status = s]]
        \/ /\ Exists(x)
           /\ \/ row' = [row EXCEPT ![rowOf[x]] =
                           [row[rowOf[x]] EXCEPT !.completed = results[x].completed,
                                                 !.failed = results[x].failed]]
              \/ row' = [row EXCEPT ![rowOf[x]] =
                           [Flushed(x) EXCEPT !.completed = results[x].completed,
                                              !.failed = results[x].failed]]
        \/ row' = [row EXCEPT ![rowOf[x]] = Flushed(x)]
    BY <1>3 DEF Activation, execute_load_test, Launch, Linger, Drained, Join, save_final_stats,
       Complete, Fail, Sampler, FindContainer, Snapshot, Progress, Commit, dbVars
  <2>3. Flushed(x).status = row[rowOf[x]].status \/ rowOf[x] \notin Row
    BY <1>1 DEF Flushed, RowType
  <2>4. CASE row' = row
    BY <1>2, <2>1, <2>4
  <2>5. ASSUME NEW v, row' = [row EXCEPT ![rowOf[x]] = v],
               rowOf[x] \in Row => v.status # "absent" \/ row[rowOf[x]].status = "absent"
        PROVE  IdsKept'
    <3>1. Left
      BY <1>1, <2>5
    <3> QED
      BY <1>2, <2>1, <3>1
  <2>6. ASSUME rowOf[x] \in Row
        PROVE  /\ \A s \in {"running", "completed", "failed"} :
                    /\ [row[rowOf[x]] EXCEPT !.status = s].status = s
                    /\ [Flushed(x) EXCEPT !.status = s].status = s
               /\ \A c, f :
                    /\ [row[rowOf[x]] EXCEPT !.completed = c, !.failed = f].status
                         = row[rowOf[x]].status
                    /\ [Flushed(x) EXCEPT !.completed = c, !.failed = f].status
                         = row[rowOf[x]].status
    BY <1>1, <2>6 DEF Flushed, RowType
  <2> QED
    BY <2>2, <2>3, <2>4, <2>5, <2>6
<1>4. ASSUME NEW x \in Tests,
             \/ DurationElapses(x) \/ StartRequest(x) \/ FinishRequest(x)
             \/ cancel_load_test(x) \/ stream_load_test_metrics(x) \/ PollStream(x)
      PROVE  IdsKept'
  BY <1>2, <1>4 DEF DurationElapses, StartRequest, FinishRequest, cancel_load_test,
          stream_load_test_metrics, PollStream, dbVars
<1>5. ASSUME NEW x \in Tests, start_load_test(x)
      PROVE  IdsKept'
  <2> DEFINE n == Cardinality(Begun) + 1
             v == [Absent EXCEPT !.status = "pending", !.of = x]
  <2>1. /\ row' = [row EXCEPT ![n] = v] /\ rowOf' = [rowOf EXCEPT ![x] = n]
        /\ rowOf[x] = 0 /\ container = "running" /\ container' = container
    BY <1>5, NextIdIsNew DEF start_load_test, LInv, TypeOK
  <2>2. n \in Row /\ n # 0 /\ Row \subseteq Nat /\ Cardinality(Begun) \in Nat
    BY <2>1, IdLeft, BegunFinite DEF Row
  <2>3. Begun' = Begun \cup {x}
    BY <2>1, <2>2 DEF Begun, LInv, TypeOK
  <2>4. Cardinality(Begun') = n
    BY <2>1, <2>3, BegunFinite, FS_AddElement DEF Begun
  <2>5. v.status = "pending"
    BY DEF Absent
  <2> HIDE DEF v
  <2>6. \A q \in Row : q <= n => row'[q].status # "absent"
    BY <1>1, <2>1, <2>2, <2>5 DEF IdsKept
  <2> QED
    BY <2>1, <2>4, <2>6 DEF IdsKept
<1>6. CASE delete_container
  BY <1>6 DEF delete_container, IdsKept
<1>7. CASE deploy_container
  BY <1>7 DEF deploy_container, IdsKept, NoReuse
<1>8. CASE Crash \/ UNCHANGED vars
  BY <1>2, <1>8 DEF Crash, vars, dbVars
<1> QED
  BY <1>3, <1>4, <1>5, <1>6, <1>7, <1>8 DEF Next

\* The inductive invariant holds in every reachable state.
THEOREM LoadTestInvariant ==
  ASSUME NoReuse
  PROVE  Spec => [](LInv /\ IdsKept)
<1>1. LInv /\ IdsKept /\ [Next]_vars => LInv' /\ IdsKept'
  BY InvStep, IdsKeptStep
<1>2. Init => IdsKept
  <2>1. Init => Begun = {}
    BY DEF Init, Begun
  <2>2. Init => Cardinality(Begun) = 0
    BY <2>1, FS_EmptySet
  <2> QED
    BY <2>2 DEF Init, IdsKept, Row
<1> QED
  BY InitHolds, <1>1, <1>2, PTL DEF Spec

\* Every reachable state is well typed: no counter leaves 0..TotalRequests.
THEOREM TypeCorrect ==
  ASSUME NoReuse
  PROVE  Spec => []TypeOK
<1>1. LInv => TypeOK
  BY DEF LInv
<1> QED
  BY <1>1, LoadTestInvariant, PTL

\* What a reader of load_tests sees adds up, whichever coroutine committed last
\* (loadtest_service.py:106, :212, :234) and whatever failed.
THEOREM CountersAddUp ==
  ASSUME NoReuse
  PROVE  Spec => []RowsAddUp
<1>1. LInv => RowsAddUp
  BY DEF LInv, AddsUp, RowsAddUp
<1> QED
  BY <1>1, LoadTestInvariant, PTL

\* A step that ends nothing: every terminal row is the row of a test nobody works
\* for any more, so it is left alone or deleted.
LEMMA FinalStep ==
  ASSUME LInv, IdsKept, [Next]_vars, NEW r \in Row, row[r].status \in Terminal
  PROVE  row'[r] \in {row[r], Absent}
<1> DEFINE Kept == row'[r] = row[r]
<1>1. ASSUME NEW x \in Tests, pc[x] # "none", pc[x] # "done"
      PROVE  r # rowOf[x]
  BY <1>1, RowOf DEF LInv, Placed
<1>2. row \in [Row -> RowType]
  BY DEF LInv, TypeOK, RowType
<1>3. ASSUME NEW x \in Tests, Activation(x)
      PROVE  Kept
  <2>1. pc[x] # "none" /\ pc[x] # "done"
    BY <1>3 DEF Activation, execute_load_test, Launch, Linger, Drained, Join,
            save_final_stats, Complete, Fail
  <2>2. \/ UNCHANGED row
        \/ \E v : row' = [row EXCEPT ![rowOf[x]] = v]
    BY <1>3 DEF Activation, execute_load_test, Launch, Linger, Drained, Join,
            save_final_stats, Complete, Fail, Commit, dbVars
  <2> QED
    BY <1>1, <1>2, <2>1, <2>2
<1>4. ASSUME NEW x \in Tests, Sampler(x)
      PROVE  Kept
  <2>1. pc[x] # "none" /\ pc[x] # "done"
    BY <1>4 DEF Sampler, FindContainer, Snapshot, Progress, LInv, TypeOK, Counted, Placed
  <2>2. \/ UNCHANGED row
        \/ \E v : row' = [row EXCEPT ![rowOf[x]] = v]
    BY <1>4 DEF Sampler, FindContainer, Snapshot, Progress, Commit, dbVars
  <2> QED
    BY <1>1, <1>2, <2>1, <2>2
<1>5. ASSUME NEW x \in Tests,
             \/ DurationElapses(x) \/ StartRequest(x) \/ FinishRequest(x)
             \/ cancel_load_test(x) \/ stream_load_test_metrics(x) \/ PollStream(x)
      PROVE  Kept
  BY <1>5 DEF DurationElapses, StartRequest, FinishRequest, cancel_load_test,
          stream_load_test_metrics, PollStream, dbVars
<1>6. ASSUME NEW x \in Tests, start_load_test(x)
      PROVE  Kept
  <2>1. row[r] # Absent
    BY DEF Absent, Terminal
  <2>2. r # Cardinality(Begun) + 1
    BY <2>1, BegunFinite DEF LInv, IdsGiven, Row
  <2>3. \E v : row' = [row EXCEPT ![Cardinality(Begun) + 1] = v]
    BY <1>6, NextIdIsNew DEF start_load_test
  <2> QED
    BY <1>2, <2>2, <2>3
<1>7. CASE delete_container
  BY <1>7 DEF delete_container
<1>8. CASE deploy_container \/ Crash \/ UNCHANGED vars
  BY <1>8 DEF deploy_container, Crash, vars, dbVars
<1> QED
  BY <1>3, <1>4, <1>5, <1>6, <1>7, <1>8 DEF Next

\* A terminal status is final: no late request, sample, cancellation or crash
\* changes the row again (loadtest_service.py:51-71, routes_loadtest.py:283).
THEOREM FinalIsFinal ==
  ASSUME NoReuse
  PROVE  Spec => TerminalIsFinal
<1>1. LInv /\ IdsKept /\ [Next]_vars
        => [\A r \in Row : row[r].status \in Terminal => row'[r] \in {row[r], Absent}]_vars
  BY FinalStep
<1> QED
  BY <1>1, LoadTestInvariant, PTL DEF Spec, TerminalIsFinal

-----------------------------------------------------------------------------
(* How activations end *)

\* A session is broken only once its row has gone, and whoever gets to an error
\* handler with its row there has a session in which the database refused a commit.
Excused(x) ==
  /\ sess[x] = "broken" => ~Exists(x)
  /\ Exists(x) /\ (pc[x] \in {"abort", "fail"} \/ (metrics[x] = "dead" /\ pc[x] # "done"))
       => sess[x] = "refused"

AllExcused == \A x \in Tests : Excused(x)

\* A step of x's coroutines keeps to x.
LEMMA KeepsToItself ==
  ASSUME LInv, NEW x \in Tests,
         Activation(x) \/ Sampler(x) \/ DurationElapses(x) \/ StartRequest(x) \/ FinishRequest(x)
  PROVE  OnlyOf(x)
<1>1. CASE execute_load_test(x) \/ save_final_stats(x) \/ Complete(x) \/ Fail(x)
  BY <1>1 DEF OnlyOf, LInv, TypeOK, execute_load_test, save_final_stats, Complete, Fail,
     Commit, Become, Poison, Goto, MetricsTo
<1>2. CASE Launch(x) \/ Linger(x) \/ Drained(x) \/ Join(x) \/ DurationElapses(x)
  BY <1>2 DEF OnlyOf, LInv, TypeOK, Launch, Linger, Drained, Join, DurationElapses,
     Goto, MetricsTo, StopMetrics, Read, dbVars
<1>3. CASE FindContainer(x) \/ Snapshot(x) \/ Progress(x)
  BY <1>3 DEF OnlyOf, LInv, TypeOK, FindContainer, Snapshot, Progress, Commit, Become,
     Poison, MetricsTo, Read, dbVars
<1>4. CASE StartRequest(x) \/ FinishRequest(x)
  BY <1>4 DEF OnlyOf, LInv, TypeOK, StartRequest, FinishRequest, dbVars
<1> QED
  BY <1>1, <1>2, <1>3, <1>4 DEF Activation, Sampler

\* x's coroutines keep that, and never bring its row back.
LEMMA ExcusedOwn ==
  ASSUME LInv, NEW x \in Tests, Excused(x),
         Activation(x) \/ Sampler(x) \/ DurationElapses(x) \/ StartRequest(x) \/ FinishRequest(x)
  PROVE  Excused(x)'
<1>1. rowOf' = rowOf /\ (Exists(x)' => Exists(x))
  <2>1. OnlyOf(x)
    BY KeepsToItself
  <2>2. CASE row' = row
    BY <2>1, <2>2 DEF OnlyOf, Exists, StatusOf
  <2>3. CASE Exists(x)
    BY <2>1, <2>3 DEF OnlyOf
  <2>4. CASE row' # row /\ ~Exists(x)
    <3>1. Snapshot(x) /\ Readable(x) /\ row' = [row EXCEPT ![rowOf[x]] = Flushed(x)]
      BY <2>4 DEF Activation, Sampler, execute_load_test, save_final_stats, Complete, Fail,
         Commit, Launch, Linger, Drained, Join, FindContainer, Snapshot, Progress,
         DurationElapses, StartRequest, FinishRequest, dbVars
    <3>2. rowOf[x] \in Row /\ row[rowOf[x]] \in RowType /\ pc[x] # "none"
      BY <3>1, RowOf DEF Snapshot, LInv, Counted, TypeOK, RowType
    <3>3. Flushed(x).status = row[rowOf[x]].status
      BY <3>2 DEF Flushed, RowType
    <3> QED
      BY <2>1, <3>1, <3>2, <3>3 DEF OnlyOf, Exists, StatusOf, LInv, TypeOK
  <2> QED
    BY <2>2, <2>3, <2>4
<1>2. CASE execute_load_test(x)
  BY <1>1, <1>2 DEF execute_load_test, Become, Goto, MetricsTo, Excused, LInv, TypeOK, Counted
<1>3. CASE Launch(x)
  BY <1>1, <1>3 DEF Launch, Read, Readable, StopMetrics, MetricsTo, Goto, Excused, LInv,
     TypeOK, Placed
<1>4. CASE Linger(x) \/ Drained(x) \/ DurationElapses(x) \/ FinishRequest(x)
  BY <1>1, <1>4 DEF Linger, Drained, DurationElapses, FinishRequest, StopMetrics, MetricsTo,
     Goto, Excused, LInv, TypeOK
<1>5. CASE Join(x)
  BY <1>1, <1>5 DEF Join, Goto, Excused, LInv, TypeOK
<1>6. CASE save_final_stats(x) \/ Complete(x)
  BY <1>1, <1>6 DEF save_final_stats, Complete, Commit, CommitFails, Poisoned, Poison,
     Become, Goto, Excused, LInv, TypeOK
<1>7. CASE Fail(x)
  BY <1>1, <1>7 DEF Fail, Become, Goto, Excused, LInv, TypeOK
<1>8. CASE FindContainer(x)
  BY <1>1, <1>8 DEF FindContainer, Read, Readable, MetricsTo, Excused, LInv, TypeOK,
     Placed, Counted
<1>9. CASE Snapshot(x)
  BY <1>1, <1>9 DEF Snapshot, Readable, CommitFails, Poisoned, Poison, Become, MetricsTo,
     Excused, LInv, TypeOK, Placed
<1>10. CASE Progress(x)
  BY <1>1, <1>10 DEF Progress, Commit, CommitFails, Poisoned, Poison, Become, MetricsTo,
     Excused, LInv, TypeOK
<1>11. CASE StartRequest(x)
  BY <1>1, <1>11 DEF StartRequest, Readable, Excused, LInv, TypeOK
<1> QED
  BY <1>2, <1>3, <1>4, <1>5, <1>6, <1>7, <1>8, <1>9, <1>10, <1>11 DEF Activation, Sampler

\* Every action keeps that.
LEMMA ExcusedStep ==
  ASSUME LInv, IdsKept, AllExcused, [Next]_vars
  PROVE  AllExcused'
<1> SUFFICES ASSUME NEW y \in Tests
             PROVE  Excused(y)'
  BY DEF AllExcused
<1>1. ASSUME sess'[y] = sess[y], pc'[y] = pc[y], metrics'[y] = metrics[y],
             rowOf'[y] = rowOf[y], rowOf[y] \in Row => row'[rowOf[y]] = row[rowOf[y]]
      PROVE  Excused(y)'
  BY <1>1 DEF AllExcused, Excused, Exists, StatusOf, LInv, TypeOK
<1>2. ASSUME NEW x \in Tests,
             Activation(x) \/ Sampler(x) \/ DurationElapses(x) \/ StartRequest(x)
               \/ FinishRequest(x)
      PROVE  Excused(y)'
  <2>1. CASE x = y
    BY <1>2, <2>1, ExcusedOwn DEF AllExcused
  <2>2. CASE x # y
    <3>1. OnlyOf(x)
      BY <1>2, KeepsToItself
    <3>2. rowOf[y] \in Row => row'[rowOf[y]] = row[rowOf[y]]
      BY <2>2, <3>1 DEF OnlyOf, LInv, IdsGiven, Row
    <3> QED
      BY <1>1, <2>2, <3>1, <3>2 DEF OnlyOf
  <2> QED
    BY <2>1, <2>2
<1>3. ASSUME NEW x \in Tests, start_load_test(x)
      PROVE  Excused(y)'
  <2> DEFINE n == Cardinality(Begun) + 1
  <2>1. /\ rowOf' = [rowOf EXCEPT ![x] = n] /\ UNCHANGED <<sess, metrics>>
        /\ row' = [row EXCEPT ![n] = [Absent EXCEPT !.status = "pending", !.of = x]]
        /\ pc' = [pc EXCEPT ![x] = "queued"] /\ pc[x] = "none"
    BY <1>3, NextIdIsNew DEF start_load_test, Goto
  <2>2. CASE x = y
    BY <2>1, <2>2 DEF Excused, LInv, TypeOK, Counted
  <2>3. CASE x # y
    <3>1. rowOf'[y] = rowOf[y] /\ rowOf[y] # n
      BY <2>1, <2>3, BegunFinite DEF LInv, TypeOK, IdsGiven, Row
    <3>2. rowOf[y] \in Row => row'[rowOf[y]] = row[rowOf[y]]
      BY <2>1, <3>1 DEF LInv, TypeOK
    <3> QED
      BY <1>1, <2>1, <2>3, <3>1, <3>2 DEF LInv, TypeOK
  <2> QED
    BY <2>2, <2>3
<1>4. CASE delete_container
  <2>1. ~Exists(y)'
    BY <1>4 DEF delete_container, Exists, StatusOf, Absent, LInv, TypeOK
  <2> QED
    BY <2>1 DEF Excused
<1>5. CASE Crash
  BY <1>5 DEF Crash, Excused, LInv, TypeOK
<1>6. ASSUME NEW x \in Tests,
             cancel_load_test(x) \/ stream_load_test_metrics(x) \/ PollStream(x)
      PROVE  Excused(y)'
  BY <1>1, <1>6 DEF cancel_load_test, stream_load_test_metrics, PollStream, dbVars, runVars
<1>7. CASE deploy_container \/ UNCHANGED vars
  BY <1>1, <1>7 DEF deploy_container, vars, dbVars, runVars
<1> QED
  BY <1>2, <1>3, <1>4, <1>5, <1>6, <1>7 DEF Next

\* Without a crash, an activation that ends with its row unfinished was refused its
\* first commit, or one before its error handler.
LEMMA EndStep ==
  ASSUME LInv, AllExcused, Next, ~Crash, NEW x \in Tests,
         pc[x] # "done", pc'[x] = "done", StatusOf(x)' \in {"pending", "running"}
  PROVE  \/ pc[x] = "queued" /\ "commit" \in Faults
         \/ pc[x] = "fail" /\ sess[x] = "refused"
<1>1. execute_load_test(x) \/ Complete(x) \/ Fail(x)
  <2>1. PICK y \in Tests :
          \/ Activation(y) \/ Sampler(y) \/ DurationElapses(y) \/ StartRequest(y)
          \/ FinishRequest(y) \/ start_load_test(y)
    BY DEF Next, cancel_load_test, stream_load_test_metrics, PollStream, delete_container,
       deploy_container, runVars
  <2>2. ~start_load_test(y)
    BY DEF start_load_test, Goto, LInv, TypeOK
  <2>3. y = x
    BY <2>1, <2>2, KeepsToItself DEF OnlyOf
  <2>4. Activation(x)
    BY <2>1, <2>2, <2>3 DEF Sampler, FindContainer, Snapshot, Progress, DurationElapses,
       StartRequest, FinishRequest
  <2> QED
    BY <2>4 DEF Activation, Launch, Linger, Drained, Join, save_final_stats, Goto, LInv, TypeOK
<1>2. /\ pc[x] # "none" /\ rowOf' = rowOf /\ rowOf[x] \in Row /\ rowOf[x] # 0
      /\ row[rowOf[x]] \in RowType /\ row \in [Row -> RowType]
  BY <1>1, RowOf DEF execute_load_test, Complete, Fail, LInv, TypeOK, RowType
<1>3. ASSUME row' = row
      PROVE  Exists(x)
  BY <1>2, <1>3 DEF Exists, StatusOf
<1>4. CASE execute_load_test(x)
  <2>1. CommitFails(x) /\ row' = row /\ pc[x] = "queued"
    BY <1>4 DEF execute_load_test, Goto, LInv, TypeOK
  <2>2. sess[x] = "expired"
    BY <2>1 DEF LInv, Counted
  <2> QED
    BY <1>3, <2>1, <2>2 DEF CommitFails, Poisoned
<1>5. CASE Complete(x)
  <2>1. row' = [row EXCEPT ![rowOf[x]] = [row[rowOf[x]] EXCEPT !.status = "completed"]]
    BY <1>5 DEF Complete, Commit, Goto, LInv, TypeOK
  <2> QED
    BY <1>2, <2>1 DEF StatusOf, RowType
<1>6. CASE Fail(x)
  <2>1. CASE CommitFails(x) /\ row' = row
    <3>1. pc[x] = "fail" /\ Exists(x)
      BY <1>3, <1>6, <2>1 DEF Fail
    <3> QED
      BY <3>1 DEF AllExcused, Excused
  <2>2. CASE Commit(x, [Flushed(x) EXCEPT !.status = "failed"])
    <3>1. [Flushed(x) EXCEPT !.status = "failed"].status = "failed"
      BY <1>2 DEF Flushed, RowType
    <3> QED
      BY <1>2, <2>2, <3>1 DEF Commit, StatusOf
  <2> QED
    BY <1>6, <2>1, <2>2 DEF Fail
<1> QED
  BY <1>1, <1>4, <1>5, <1>6

\* For all constants: activations end so, whatever their coroutines and the users
\* do meanwhile (loadtest_service.py:38-71, routes_loadtest.py:103).
THEOREM EndedOnlyForCause ==
  ASSUME NoReuse
  PROVE  Spec => EndedForCause
<1>1. Init => AllExcused
  BY DEF Init, AllExcused, Excused
<1>2. LInv /\ IdsKept /\ AllExcused /\ [Next]_vars => AllExcused'
  BY ExcusedStep
<1>3. LInv /\ AllExcused /\ [Next]_vars
        => [\A x \in Tests :
              pc[x] # "done" /\ pc'[x] = "done" /\ StatusOf(x)' \in {"pending", "running"}
                => \/ Crash
                   \/ pc[x] = "queued" /\ "commit" \in Faults
                   \/ pc[x] = "fail" /\ sess[x] = "refused"]_vars
  BY EndStep
<1> QED
  BY <1>1, <1>2, <1>3, LoadTestInvariant, PTL DEF Spec, EndedForCause

-----------------------------------------------------------------------------
(* LoadTest implements TestReport *)

\* What the row says of a test nobody has finished: nothing yet while it is
\* queued, and no answers that its results do not have while it runs.
Told(x) == Exists(x) =>
  /\ pc[x] = "queued" =>
       /\ row[rowOf[x]].status = "pending" /\ row[rowOf[x]].sent = 0
       /\ row[rowOf[x]].completed = 0 /\ row[rowOf[x]].failed = 0
  /\ pc[x] \notin {"none", "queued", "done"} =>
       /\ row[rowOf[x]].status = "running"
       /\ row[rowOf[x]].completed <= results[x].completed
       /\ row[rowOf[x]].failed <= results[x].failed

\* A step that leaves the rows and the ids alone is not seen.
LEMMA ReportUnseen ==
  ASSUME UNCHANGED <<row, rowOf>>
  PROVE  UNCHANGED T!reportVars
<1>1. Given' = Given
  BY DEF Given
<1> QED
  BY <1>1 DEF T!reportVars

\* A commit of a running test is an update of its report.
LEMMA CommitSeen ==
  ASSUME LInv, NEW x \in Tests, pc[x] # "none", row[rowOf[x]].status = "running",
         NEW v \in RowType, row' = [row EXCEPT ![rowOf[x]] = v], rowOf' = rowOf,
         v.status \in {"running", "completed", "failed"}, v.of = row[rowOf[x]].of,
         v.sent >= row[rowOf[x]].sent, v.completed >= row[rowOf[x]].completed,
         v.failed >= row[rowOf[x]].failed, v.completed + v.failed <= v.sent
  PROVE  T!ReportNext
<1> DEFINE i == rowOf[x]
<1>1. i \in Row /\ row \in [Row -> RowType]
  BY RowOf DEF LInv, TypeOK, RowType
<1>2. v \in [status : {"running", "completed", "failed"}, of : {row[i].of},
             sent : Count, completed : Count, failed : Count]
  BY DEF RowType
<1>3. T!Onward(row[i], v)
  BY <1>2 DEF T!Onward, Count
<1>4. row' = [row EXCEPT ![i] = row'[i]] /\ row'[i] = v
  BY <1>1
<1>5. Given' = Given
  BY DEF Given
<1>6. T!Update(i)
  BY <1>3, <1>4, <1>5 DEF T!Update
<1> QED
  BY <1>1, <1>6 DEF T!ReportNext

\* A step of x's coroutines disturbs what no other row tells.
LEMMA ToldFrame ==
  ASSUME LInv, \A y \in Tests : Told(y), NEW x \in Tests, OnlyOf(x), Told(x)'
  PROVE  \A y \in Tests : Told(y)'
<1> SUFFICES ASSUME NEW y \in Tests \ {x}
             PROVE  Told(y)'
  OBVIOUS
<1>1. rowOf[y] # 0 => rowOf[y] \in Row /\ row'[rowOf[y]] = row[rowOf[y]]
  BY DEF LInv, TypeOK, IdsGiven, OnlyOf
<1>2. Exists(y)' => Exists(y) /\ rowOf[y] # 0
  BY <1>1 DEF StatusOf, Exists, OnlyOf
<1> QED
  BY <1>1, <1>2 DEF Told, OnlyOf

\* x's row still tells the truth when x only went on.
LEMMA ToldOn ==
  ASSUME LInv, NEW x \in Tests, Told(x), UNCHANGED <<row, rowOf>>,
         \/ pc'[x] \in {pc[x], "done"}
         \/ pc[x] \notin {"none", "queued", "done"} /\ pc'[x] \notin {"none", "queued"},
         results'[x].completed \in Nat /\ results'[x].completed >= results[x].completed,
         results'[x].failed \in Nat /\ results'[x].failed >= results[x].failed
  PROVE  Told(x)'
<1>1. Exists(x)' => Exists(x)
  BY DEF Exists, StatusOf
<1>2. Exists(x) => pc[x] # "none"
  BY DEF Exists, StatusOf, LInv, TypeOK
<1> QED
  BY <1>1, <1>2, RowOf, Numbers DEF Told

\* The steps of x that write nothing: its coroutines went on, or a commit failed.
LEMMA QuietReport ==
  ASSUME LInv, \A y \in Tests : Told(y), NEW x \in Tests, UNCHANGED row,
         Activation(x) \/ Sampler(x) \/ DurationElapses(x) \/ StartRequest(x) \/ FinishRequest(x)
  PROVE  (\A y \in Tests : Told(y)') /\ UNCHANGED T!reportVars
<1>1. OnlyOf(x) /\ rowOf' = rowOf
  BY KeepsToItself DEF OnlyOf
<1>2. \/ pc'[x] \in {pc[x], "done"}
      \/ pc[x] \notin {"none", "queued", "done"} /\ pc'[x] \notin {"none", "queued"}
  <2>1. CASE execute_load_test(x)
    <3>1. ASSUME Commit(x, [row[rowOf[x]] EXCEPT !.status = "running"])
          PROVE  FALSE
      <4>1. pc[x] = "queued" /\ Exists(x) /\ rowOf[x] \in Row /\ row[rowOf[x]] \in RowType
        BY <2>1, <3>1, RowOf DEF execute_load_test, Commit
      <4>2. row[rowOf[x]].status = "pending"
        BY <4>1 DEF Told
      <4>3. row'[rowOf[x]].status = "running"
        BY <3>1, <4>1 DEF Commit, RowType, LInv, TypeOK
      <4> QED
        BY <4>2, <4>3
    <3> QED
      BY <2>1, <3>1 DEF execute_load_test, Goto, LInv, TypeOK
  <2>2. CASE Activation(x) /\ ~execute_load_test(x)
    BY <2>2 DEF Activation, Launch, Linger, Drained, Join, save_final_stats, Complete, Fail,
       Goto, LInv, TypeOK
  <2>3. CASE Sampler(x) \/ DurationElapses(x) \/ StartRequest(x) \/ FinishRequest(x)
    BY <2>3 DEF Sampler, FindContainer, Snapshot, Progress, DurationElapses, StartRequest,
       FinishRequest
  <2> QED
    BY <2>1, <2>2, <2>3
<1>3. /\ results'[x].completed \in Nat /\ results'[x].completed >= results[x].completed
      /\ results'[x].failed \in Nat /\ results'[x].failed >= results[x].failed
  <2>1. /\ results[x] \in [active : Count, completed : Count, failed : Count]
        /\ results[x].completed \in Nat /\ results[x].failed \in Nat
    BY Numbers DEF LInv, TypeOK
  <2>2. CASE results' = results
    BY <2>1, <2>2
  <2>3. CASE StartRequest(x)
    <3>1. results'[x].completed = results[x].completed /\ results'[x].failed = results[x].failed
      BY <2>3 DEF StartRequest, LInv, TypeOK
    <3> QED
      BY <2>1, <3>1
  <2>4. CASE FinishRequest(x)
    <3>1. PICK o \in {"completed", "failed"} :
            results' = [results EXCEPT ![x].active = @ - 1, ![x][o] = @ + 1]
      BY <2>4 DEF FinishRequest
    <3>2. /\ results'[x].completed \in {results[x].completed, results[x].completed + 1}
          /\ results'[x].failed \in {results[x].failed, results[x].failed + 1}
      BY <3>1 DEF LInv, TypeOK
    <3> QED
      BY <2>1, <3>2
  <2> QED
    BY <2>2, <2>3, <2>4 DEF Activation, execute_load_test, Launch, Linger, Drained, Join,
       save_final_stats, Complete, Fail, Sampler, FindContainer, Snapshot, Progress,
       DurationElapses
<1>4. Told(x)'
  BY <1>1, <1>2, <1>3, ToldOn
<1> QED
  BY <1>1, <1>4, ToldFrame, ReportUnseen

\* A commit of x while it runs: the counters go up to what its session and its
\* results have, and the status only changes with the end of x.
LEMMA WriteReports ==
  ASSUME LInv, \A y \in Tests : Told(y), NEW x \in Tests, OnlyOf(x),
         pc[x] \notin {"none", "queued", "done"}, Exists(x), results' = results,
         sess[x] \in {"expired", "loaded", "dirty"},
         NEW v \in RowType, row' = [row EXCEPT ![rowOf[x]] = v],
         v.sent = Counting(x), v.of = row[rowOf[x]].of,
         \/ v.completed = row[rowOf[x]].completed /\ v.failed = row[rowOf[x]].failed
         \/ v.completed = results[x].completed /\ v.failed = results[x].failed,
         \/ v.status = "running" /\ pc'[x] \notin {"none", "queued"}
         \/ v.status \in {"completed", "failed"} /\ pc'[x] = "done"
  PROVE  (\A y \in Tests : Told(y)') /\ T!ReportNext
<1>1. rowOf' = rowOf
  BY DEF OnlyOf
<1>2. /\ row[rowOf[x]].status = "running"
      /\ row[rowOf[x]].completed <= results[x].completed
      /\ row[rowOf[x]].failed <= results[x].failed
  BY DEF Told
<1>3. row[rowOf[x]].sent <= Counting(x)
  BY RowOf, Numbers DEF LInv, Counted
<1>4. /\ v.sent >= row[rowOf[x]].sent /\ v.completed >= row[rowOf[x]].completed
      /\ v.failed >= row[rowOf[x]].failed /\ v.completed + v.failed <= v.sent
  <2>1. /\ row[rowOf[x]].sent \in Nat /\ row[rowOf[x]].completed \in Nat
        /\ row[rowOf[x]].failed \in Nat
        /\ row[rowOf[x]].completed + row[rowOf[x]].failed <= row[rowOf[x]].sent
    BY RowOf
  <2>2. /\ results[x].completed \in Nat /\ results[x].failed \in Nat /\ Counting(x) \in Nat
        /\ results[x].completed + results[x].failed <= Counting(x)
    BY Numbers
  <2> QED
    BY <1>2, <1>3, <2>1, <2>2
<1>5. T!ReportNext
  BY <1>1, <1>2, <1>4, CommitSeen
<1>6. Told(x)'
  <2>1. row'[rowOf[x]] = v
    BY <1>1, Written
  <2>2. v.completed <= results[x].completed /\ v.failed <= results[x].failed
    BY <1>2, Numbers
  <2> QED
    BY <1>1, <2>1, <2>2 DEF Told
<1> QED
  BY <1>5, <1>6, ToldFrame

\* Marking the test running begins its report.
LEMMA BeginReports ==
  ASSUME LInv, \A y \in Tests : Told(y), NEW x \in Tests, execute_load_test(x), row' # row
  PROVE  (\A y \in Tests : Told(y)') /\ T!ReportNext
<1> DEFINE i == rowOf[x]
<1>1. /\ pc[x] = "queued" /\ Exists(x) /\ rowOf' = rowOf /\ results' = results
      /\ row' = [row EXCEPT ![i] = [row[i] EXCEPT !.status = "running"]]
  BY DEF execute_load_test, Commit
<1>2. /\ i \in Row /\ row[i] \in RowType /\ row \in [Row -> RowType]
      /\ row[i].status = "pending" /\ row[i].sent = 0
      /\ row[i].completed = 0 /\ row[i].failed = 0
  BY <1>1, RowOf DEF Told, LInv, TypeOK, RowType
<1>3. /\ row'[i].status = "running" /\ row'[i].completed = 0 /\ row'[i].failed = 0
  BY <1>1, <1>2 DEF RowType
<1>4. Told(x)'
  BY <1>1, <1>3, Numbers DEF Told, execute_load_test, Goto, LInv, TypeOK
<1>5. OnlyOf(x)
  BY KeepsToItself DEF Activation
<1>6. row[i].status = "pending"
  BY <1>2
<1>7. row' = [row EXCEPT ![i].status = "running"]
  BY <1>1
<1>8. T!Begin(i)
  BY <1>1, <1>6, <1>7 DEF T!Begin, Given
<1> QED
  BY <1>2, <1>4, <1>5, <1>8, ToldFrame DEF T!ReportNext

\* Every commit of a running test, whoever makes it, is such a commit.
LEMMA CommitReports ==
  ASSUME LInv, \A y \in Tests : Told(y), NEW x \in Tests, row' # row,
         save_final_stats(x) \/ Complete(x) \/ Fail(x) \/ Snapshot(x) \/ Progress(x)
  PROVE  (\A y \in Tests : Told(y)') /\ T!ReportNext
<1> DEFINE Answers == [Flushed(x) EXCEPT !.completed = results[x].completed,
                                         !.failed = results[x].failed]
           Ended(s) == [Flushed(x) EXCEPT !.status = s]
           i == rowOf[x]
<1>1. /\ pc[x] \notin {"none", "queued", "done"} /\ sess[x] # "closed"
      /\ results' = results /\ OnlyOf(x)
  <2>1. pc[x] \notin {"none", "queued", "done"}
    BY DEF save_final_stats, Complete, Fail, Snapshot, Progress, LInv, TypeOK, Counted, Placed
  <2>2. OnlyOf(x)
    BY KeepsToItself DEF Activation, Sampler
  <2>3. results' = results
    BY DEF save_final_stats, Complete, Fail, Snapshot, Progress
  <2> QED
    BY <2>1, <2>2, <2>3 DEF LInv, Placed
<1>2. /\ i \in Row /\ row[i] \in RowType /\ row \in [Row -> RowType]
      /\ sess[x] \in {"expired", "loaded", "dirty", "broken", "refused"}
  BY <1>1, RowOf DEF LInv, TypeOK, RowType
<1>3. /\ Exists(x) /\ sess[x] \in {"expired", "loaded", "dirty"}
      /\ \/ row' = [row EXCEPT ![i] = Flushed(x)] /\ pc' = pc
         \/ row' = [row EXCEPT ![i] = Answers] /\ pc'[x] \in {pc[x], "complete"}
         \/ row' = [row EXCEPT ![i] = Ended("completed")] /\ pc'[x] = "done"
         \/ row' = [row EXCEPT ![i] = Ended("failed")] /\ pc'[x] = "done"
  <2>1. CASE save_final_stats(x)
    BY <1>2, <2>1 DEF save_final_stats, Commit, Poisoned, Goto, LInv, TypeOK
  <2>2. CASE Complete(x)
    <3>1. Flushed(x) = row[i]
      BY <1>1, <2>2, NothingPending DEF Complete, LInv, Placed
    <3> QED
      BY <1>2, <2>2, <3>1 DEF Complete, Commit, Poisoned, Goto, LInv, TypeOK
  <2>3. CASE Fail(x)
    BY <1>2, <2>3 DEF Fail, Commit, Poisoned, Goto, LInv, TypeOK
  <2>4. CASE Snapshot(x)
    <3>1. Readable(x) /\ row' = [row EXCEPT ![i] = Flushed(x)] /\ pc' = pc
      BY <2>4 DEF Snapshot
    <3>2. sess[x] \in {"expired", "loaded", "dirty"}
      BY <3>1 DEF Readable
    <3>3. Exists(x)
      <4>1. ASSUME ~Exists(x)
            PROVE  Flushed(x) = row[i]
        BY <1>1, <2>4, <4>1, NothingPending DEF Snapshot
      <4> QED
        BY <1>2, <3>1, <4>1
    <3> QED
      BY <3>1, <3>2, <3>3
  <2>5. CASE Progress(x)
    <3>1. Flushed(x) = row[i]
      BY <1>1, <2>5, NothingPending DEF Progress, LInv, Placed
    <3> QED
      BY <1>2, <2>5, <3>1 DEF Progress, Commit, Poisoned
  <2> QED
    BY <2>1, <2>2, <2>3, <2>4, <2>5
<1>4. row[i].status = "running"
  BY <1>1, <1>3 DEF Told
<1>5. /\ Flushed(x) \in RowType /\ Flushed(x).sent = Counting(x)
      /\ Flushed(x).status = "running"
      /\ Flushed(x).completed = row[i].completed /\ Flushed(x).failed = row[i].failed
      /\ Flushed(x).of = row[i].of
  <2>1. /\ Flushed(x).completed = row[i].completed /\ Flushed(x).failed = row[i].failed
        /\ Flushed(x).of = row[i].of
    BY <1>2 DEF Flushed, RowType
  <2> QED
    BY <1>1, <1>2, <1>3, <1>4, <2>1, FlushedRow
<1>6. /\ Answers \in RowType /\ Answers.sent = Counting(x) /\ Answers.status = "running"
      /\ Answers.completed = results[x].completed /\ Answers.failed = results[x].failed
      /\ Answers.of = row[i].of
  <2>1. Answers \in RowType
    BY <1>1, <1>2, <1>3, NewRow
  <2> QED
    BY <1>5, <2>1 DEF RowType
<1>7. ASSUME NEW s \in {"completed", "failed"}
      PROVE  /\ Ended(s) \in RowType /\ Ended(s).sent = Counting(x) /\ Ended(s).status = s
             /\ Ended(s).completed = row[i].completed /\ Ended(s).failed = row[i].failed
             /\ Ended(s).of = row[i].of
  <2>1. Ended(s) \in RowType
    BY <1>1, <1>2, <1>3, NewRow
  <2> QED
    BY <1>5, <2>1 DEF RowType
<1> HIDE DEF Answers, Ended
<1>8. PICK v \in {Flushed(x), Answers, Ended("completed"), Ended("failed")} :
        /\ row' = [row EXCEPT ![i] = v]
        /\ v \in {Flushed(x), Answers} => pc'[x] \in {pc[x], "complete"}
        /\ v \notin {Flushed(x), Answers} => pc'[x] = "done"
  BY <1>3, <1>5, <1>6, <1>7
<1>9. /\ v \in RowType /\ v.sent = Counting(x) /\ v.of = row[i].of
      /\ \/ v.completed = row[i].completed /\ v.failed = row[i].failed
         \/ v.completed = results[x].completed /\ v.failed = results[x].failed
      /\ \/ v.status = "running" /\ pc'[x] \notin {"none", "queued"}
         \/ v.status \in {"completed", "failed"} /\ pc'[x] = "done"
  BY <1>1, <1>5, <1>6, <1>7, <1>8
<1> QED
  BY <1>1, <1>2, <1>3, <1>8, <1>9, WriteReports

\* A new test is accepted under an id that nobody had.
LEMMA StartReports ==
  ASSUME LInv, IdsKept, \A y \in Tests : Told(y), NEW x \in Tests, start_load_test(x)
  PROVE  (\A y \in Tests : Told(y)') /\ T!ReportNext
<1> DEFINE n == Cardinality(Begun) + 1
           v == [Absent EXCEPT !.status = "pending", !.of = x]
<1>1. /\ row' = [row EXCEPT ![n] = v] /\ rowOf' = [rowOf EXCEPT ![x] = n]
      /\ pc' = [pc EXCEPT ![x] = "queued"] /\ results' = results /\ rowOf[x] = 0
  BY NextIdIsNew DEF start_load_test, Goto, LInv, TypeOK
<1>2. n \in Row /\ n # 0 /\ Cardinality(Begun) \in Nat
  BY <1>1, IdLeft, BegunFinite DEF Row
<1>3. \A y \in Tests : rowOf[y] # n
  BY <1>2 DEF LInv, TypeOK, IdsGiven, Row
<1>4. /\ v.status = "pending" /\ v.sent = 0 /\ v.completed = 0 /\ v.failed = 0
  BY DEF Absent
<1> HIDE DEF v, n
<1>5. /\ row \in [Row -> RowType] /\ rowOf \in [Tests -> Row \cup {0}]
      /\ pc \in [Tests -> {"none", "queued", "loop", "pause", "drain", "linger",
                            "join", "abort", "save", "complete", "fail", "done"}]
  BY DEF LInv, TypeOK, RowType
<1>6. ASSUME NEW y \in Tests
      PROVE  Told(y)'
  <2>1. CASE y = x
    BY <1>1, <1>2, <1>4, <1>5, <2>1 DEF Told
  <2>2. CASE y # x
    <3>1. /\ rowOf'[y] = rowOf[y] /\ pc'[y] = pc[y] /\ results'[y] = results[y]
      BY <1>1, <1>5, <2>2
    <3>2. rowOf[y] # 0 => row'[rowOf[y]] = row[rowOf[y]]
      BY <1>1, <1>3, <1>5
    <3>3. Exists(y)' => Exists(y) /\ rowOf[y] # 0
      BY <3>1, <3>2 DEF Exists, StatusOf
    <3> QED
      BY <3>1, <3>2, <3>3 DEF Told
  <2> QED
    BY <2>1, <2>2
<1>7. T!Accept(n)
  <2>1. n \notin Given
    BY <1>3 DEF Given
  <2>2. Given' = Given \cup {n}
    BY <1>1, <1>2, <1>5 DEF Given
  <2>3. row' = [row EXCEPT ![n] = [T!Nothing EXCEPT !.status = "pending", !.of = x]]
    BY <1>1 DEF v, Absent, NoTest, T!Nothing
  <2> QED
    BY <2>1, <2>2, <2>3 DEF T!Accept
<1> QED
  BY <1>2, <1>6, <1>7 DEF T!ReportNext

\* Every step is one of TestReport or none, and leaves the rows telling the truth.
LEMMA ReportStep ==
  ASSUME LInv, IdsKept, \A y \in Tests : Told(y), [Next]_vars
  PROVE  (\A y \in Tests : Told(y)') /\ [T!ReportNext]_T!reportVars
<1>1. ASSUME NEW x \in Tests, Activation(x) \/ Sampler(x)
      PROVE  (\A y \in Tests : Told(y)') /\ [T!ReportNext]_T!reportVars
  <2>1. CASE row' = row
    BY <1>1, <2>1, QuietReport
  <2>2. CASE row' # row
    <3>1. \/ execute_load_test(x) \/ save_final_stats(x) \/ Complete(x) \/ Fail(x)
          \/ Snapshot(x) \/ Progress(x)
      BY <1>1, <2>2 DEF Activation, Sampler, Launch, Linger, Drained, Join, FindContainer, dbVars
    <3> QED
      BY <2>2, <3>1, BeginReports, CommitReports
  <2> QED
    BY <2>1, <2>2
<1>2. ASSUME NEW x \in Tests, DurationElapses(x) \/ StartRequest(x) \/ FinishRequest(x)
      PROVE  (\A y \in Tests : Told(y)') /\ [T!ReportNext]_T!reportVars
  <2>1. row' = row
    BY <1>2 DEF DurationElapses, StartRequest, FinishRequest, dbVars
  <2> QED
    BY <1>2, <2>1, QuietReport
<1>3. ASSUME NEW x \in Tests, start_load_test(x)
      PROVE  (\A y \in Tests : Told(y)') /\ [T!ReportNext]_T!reportVars
  BY <1>3, StartReports
<1>4. CASE delete_container
  <2>1. row' = [r \in Row |-> Absent] /\ rowOf' = rowOf
    BY <1>4 DEF delete_container
  <2>2. \A y \in Tests : ~Exists(y)'
    BY <2>1 DEF Exists, StatusOf, Absent, LInv, TypeOK
  <2>3. row' = [r \in Row |-> T!Nothing] /\ Given' = Given
    BY <2>1 DEF Given, T!Nothing, Absent, NoTest
  <2> QED
    BY <2>2, <2>3 DEF Told, T!Discard, T!ReportNext
<1>5. ASSUME UNCHANGED <<row, rowOf>>,
             \/ UNCHANGED <<pc, results>>
             \/ \A y \in Tests : pc'[y] \in {"none", "done"}
      PROVE  (\A y \in Tests : Told(y)') /\ [T!ReportNext]_T!reportVars
  <2>1. \A y \in Tests : Told(y)'
    BY <1>5 DEF Told, Exists, StatusOf
  <2> QED
    BY <1>5, <2>1, ReportUnseen
<1>6. ASSUME NEW x \in Tests,
             cancel_load_test(x) \/ stream_load_test_metrics(x) \/ PollStream(x)
      PROVE  (\A y \in Tests : Told(y)') /\ [T!ReportNext]_T!reportVars
  BY <1>5, <1>6 DEF cancel_load_test, stream_load_test_metrics, PollStream, dbVars, runVars
<1>7. CASE deploy_container \/ UNCHANGED vars
  BY <1>5, <1>7 DEF deploy_container, vars, dbVars, runVars
<1>8. CASE Crash
  BY <1>5, <1>8 DEF Crash, dbVars
<1> QED
  BY <1>1, <1>2, <1>3, <1>4, <1>6, <1>7, <1>8 DEF Next

\* For all constants: the coroutines of a test, their session, the users and the
\* faults implement TestReport (loadtest_service.py:38-71, :102-118, :206-247).
THEOREM ReportRefinement ==
  ASSUME NoReuse
  PROVE  Spec => ImplementsReport
<1>1. Init => T!ReportInit /\ \A y \in Tests : Told(y)
  <2> SUFFICES ASSUME Init PROVE T!ReportInit /\ \A y \in Tests : Told(y)
    OBVIOUS
  <2>1. /\ row = [r \in Row |-> Absent] /\ rowOf = [y \in Tests |-> 0]
    BY DEF Init
  <2>2. row = [r \in Row |-> T!Nothing] /\ Given = {}
    BY <2>1 DEF Given, T!Nothing, Absent, NoTest
  <2>3. \A y \in Tests : ~Exists(y)
    BY <2>1 DEF Exists, StatusOf
  <2> QED
    BY <2>2, <2>3 DEF Told, T!ReportInit
<1>2. LInv /\ IdsKept /\ (\A y \in Tests : Told(y)) /\ [Next]_vars
        => (\A y \in Tests : Told(y))' /\ [T!ReportNext]_T!reportVars
  BY ReportStep
<1> QED
  BY <1>1, <1>2, LoadTestInvariant, PTL DEF Spec, ImplementsReport, T!ReportSpec
=============================================================================
