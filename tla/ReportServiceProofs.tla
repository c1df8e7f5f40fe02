-------------------------- MODULE ReportServiceProofs --------------------------
(***************************************************************************)
(* The two halves of a report agree: ReportsAgree, for every value of the  *)
(* constants.                                                              *)
(*                                                                         *)
(* A report needs three things to agree that are read at different times.  *)
(* The row of the decision is written once; the policy and the baseline it *)
(* was taken with stay where they were, because no table loses a row; and  *)
(* the case results in memory are those the decision was taken on, because *)
(* the run was answered before its gate call and a run id is never given   *)
(* out twice.                                                              *)
(***************************************************************************)
EXTENDS ReportService, GateServiceProofs

\* A table that has only had rows added.
Extends(new, old) ==
  /\ Len(old) <= Len(new)
  /\ \A i \in 1 .. Len(old) : new[i] = old[i]

\* The decision follows from the results of its run, its policy and the baseline it names.
FollowsFrom(decision, run, policies, table) ==
  /\ decision.policy \in 1 .. Len(policies)
  /\ \E b \in 0 .. Len(table) :
       /\ b # 0 => table[b].dataset = run.dataset
       /\ VersionAt(table, b) = decision.baseline_version
       /\ decision.verdict =
            decide(run.results, policies[decision.policy].policy, SnapshotAt(table, b))

RunOf(i) == gate_decisions[i].run

GroundsKept ==
  /\ grounded \subseteq 1 .. Len(gate_decisions)
  /\ \A i \in grounded :
       /\ RunOf(i) \in returned
       /\ FollowsFrom(gate_decisions[i], evaluated[RunOf(i)], release_policies, baselines)

Reader == [stage : {"idle", "results", "built"}, decision : Nat,
           results : Outcomes \cup {NoResults}]

ReaderOK ==
  /\ reader \in Reader
  /\ reader.stage # "idle" =>
       reader.decision \in 1 .. Len(gate_decisions) /\ run_repository[RunOf(reader.decision)] # None
  /\ reader.stage = "built" /\ reader.decision \in grounded =>
       reader.results = evaluated[RunOf(reader.decision)].results

ReportInv == GroundsKept /\ ReaderOK

-----------------------------------------------------------------------------
\* Adding a row extends a table, and so does leaving it alone.
LEMMA AppendExtends ==
  ASSUME NEW S, NEW old \in Seq(S), NEW row \in S, NEW new, new = Append(old, row)
  PROVE  /\ Extends(new, old) /\ Len(new) = Len(old) + 1 /\ Len(old) \in Nat
         /\ new[Len(new)] = row
BY AppendProperties, LenProperties DEF Extends

LEMMA SameExtends ==
  ASSUME NEW S, NEW old \in Seq(S)
  PROVE  Extends(old, old)
BY LenProperties DEF Extends

\* Only a gate call adds a decision.
LEMMA OnlyGateCallsDecide ==
  ASSUME [Next]_vars
  PROVE  UNCHANGED gate_decisions \/ \E t \in Requests : GateAdd(t)
<1>1. CASE Start \/ Crash \/ UNCHANGED vars
  BY <1>1 DEF Start, Crash, vars, tables
<1>2. ASSUME NEW t \in Requests, Evaluate(t) \/ ApproveBaseline(t) \/ CreatePolicy(t)
      PROVE  UNCHANGED gate_decisions
  BY <1>2 DEF Evaluate, AddRun, SaveResults, ApproveBaseline, ApproveRun, FindRun,
     ApproveResults, ReadResults, ApproveVersion, ApproveAdd, CreatePolicy, BuildPolicy,
     AddPolicy, tables
<1>3. ASSUME NEW t \in Requests, RunGate(t), ~GateAdd(t)
      PROVE  UNCHANGED gate_decisions
  BY <1>3 DEF RunGate, GateRun, FindRun, GateResults, ReadResults, GatePolicy,
     GateBaseline, tables
<1> QED BY <1>1, <1>2, <1>3 DEF Next

\* Only a start of the process or a request for a policy adds one.
LEMMA PoliciesExtend ==
  ASSUME IInv, [Next]_vars
  PROVE  Extends(release_policies', release_policies)
<1>1. release_policies \in Seq(PolicyRow) /\ release_policies' \in Seq(PolicyRow)
  BY NextIInv DEF IInv, TypeOK
<1>2. ASSUME NEW row, release_policies' = Append(release_policies, row)
      PROVE  Extends(release_policies', release_policies)
  BY <1>1, <1>2, AppendProperties, LenProperties DEF Extends
<1>3. CASE UNCHANGED release_policies
  BY <1>1, <1>3, SameExtends
<1>4. CASE Start
  BY <1>2, <1>3, <1>4 DEF Start
<1>5. CASE Crash \/ UNCHANGED vars
  BY <1>3, <1>5 DEF Crash, vars, tables
<1>6. ASSUME NEW t \in Requests, Evaluate(t) \/ RunGate(t) \/ ApproveBaseline(t)
      PROVE  UNCHANGED release_policies
  BY <1>6 DEF Evaluate, AddRun, SaveResults, RunGate, GateRun, FindRun, GateResults,
     ReadResults, GatePolicy, GateBaseline, GateAdd, ApproveBaseline, ApproveRun,
     ApproveResults, ApproveVersion, ApproveAdd, tables
<1>7. ASSUME NEW t \in Requests, CreatePolicy(t)
      PROVE  UNCHANGED release_policies \/ \E row : release_policies' = Append(release_policies, row)
  BY <1>7 DEF CreatePolicy, BuildPolicy, AddPolicy, tables
<1> QED BY <1>2, <1>3, <1>4, <1>5, <1>6, <1>7 DEF Next

LEMMA TablesExtend ==
  ASSUME IInv, [Next]_vars
  PROVE  /\ Extends(release_policies', release_policies)
         /\ Extends(baselines', baselines)
         /\ Extends(gate_decisions', gate_decisions)
<1>1. baselines \in Seq(BaselineRow) /\ gate_decisions \in Seq(DecisionRow)
  BY DEF IInv, TypeOK
<1>2. Extends(baselines', baselines)
  BY <1>1, OnlyApprovalsAddBaselines, AppendExtends, SameExtends
<1>3. Extends(gate_decisions', gate_decisions)
  <2>1. ASSUME NEW t \in Requests, GateAdd(t)
        PROVE  Extends(gate_decisions', gate_decisions)
    <3>1. gate_decisions' = Append(gate_decisions, Decision(req[t]))
      BY <2>1 DEF GateAdd
    <3>2. Decision(req[t]) \in DecisionRow
      BY <2>1, DecisionIsRow DEF GateAdd, Finish, Continue
    <3> QED BY <1>1, <3>1, <3>2, AppendExtends
  <2> QED BY <1>1, <2>1, OnlyGateCallsDecide, SameExtends
<1> QED BY <1>2, <1>3, PoliciesExtend

\* What a run id stands for, and that it was answered, is never forgotten; that the
\* run is in memory only by a crash.
LEMMA RunsKept ==
  ASSUME IInv, RunsInv, [Next]_vars, NEW r \in Runs
  PROVE  /\ r \in returned => r \in returned'
         /\ evaluated[r] # None => evaluated'[r] = evaluated[r]
         /\ up' /\ run_repository[r] # None => run_repository'[r] = run_repository[r]
<1>1. CASE Start \/ UNCHANGED vars
  BY <1>1 DEF Start, vars, memory, history
<1>2. CASE Crash
  BY <1>2 DEF Crash, history
<1>3. ASSUME NEW t \in Requests, Evaluate(t)
      PROVE  /\ r \in returned => r \in returned'
             /\ evaluated[r] # None => evaluated'[r] = evaluated[r]
             /\ run_repository[r] # None => run_repository'[r] = run_repository[r]
  <2>1. CASE SaveResults(t)
    BY <2>1 DEF SaveResults
  <2>2. ASSUME NEW s \in Runs, NEW d \in Datasets, NEW results \in Outcomes,
               AddRun(t, s, d, results)
        PROVE  /\ r \in returned => r \in returned'
               /\ evaluated[r] # None => evaluated'[r] = evaluated[r]
               /\ run_repository[r] # None => run_repository'[r] = run_repository[r]
    <3>1. r = s => evaluated[r] = None /\ run_repository[r] = None
      BY <2>2 DEF AddRun, RunsInv, StoresOK
    <3> QED BY <2>2, <3>1 DEF AddRun, IInv, TypeOK
  <2> QED BY <1>3, <2>1, <2>2 DEF Evaluate
<1>4. ASSUME NEW t \in Requests, RunGate(t) \/ ApproveBaseline(t) \/ CreatePolicy(t)
      PROVE  UNCHANGED <<returned, evaluated, run_repository>>
  BY <1>4 DEF RunGate, GateRun, FindRun, GateResults, ReadResults, GatePolicy, GateBaseline,
     GateAdd, ApproveBaseline, ApproveRun, ApproveResults, ApproveVersion, ApproveAdd,
     CreatePolicy, BuildPolicy, AddPolicy, memory, history
<1> QED BY <1>1, <1>2, <1>3, <1>4 DEF Next

\* A decision goes on following from what it followed from.
LEMMA FollowsStill ==
  ASSUME NEW decision, NEW run,
         NEW policies \in Seq(PolicyRow), NEW policies2 \in Seq(PolicyRow),
         NEW table \in Seq(BaselineRow), NEW table2 \in Seq(BaselineRow),
         Extends(policies2, policies), Extends(table2, table),
         FollowsFrom(decision, run, policies, table)
  PROVE  FollowsFrom(decision, run, policies2, table2)
<1>1. /\ Len(policies) \in Nat /\ Len(policies2) \in Nat
      /\ Len(table) \in Nat /\ Len(table2) \in Nat
  BY LenProperties
<1>2. PICK b \in 0 .. Len(table) :
        /\ b # 0 => table[b].dataset = run.dataset
        /\ VersionAt(table, b) = decision.baseline_version
        /\ decision.verdict =
             decide(run.results, policies[decision.policy].policy, SnapshotAt(table, b))
  BY DEF FollowsFrom
<1>3. /\ decision.policy \in 1 .. Len(policies2)
      /\ policies2[decision.policy] = policies[decision.policy]
  BY <1>1 DEF FollowsFrom, Extends
<1>4. /\ b \in 0 .. Len(table2) /\ (b # 0 => table2[b] = table[b])
  BY <1>1 DEF Extends
<1>5. VersionAt(table2, b) = VersionAt(table, b) /\ SnapshotAt(table2, b) = SnapshotAt(table, b)
  BY <1>4 DEF VersionAt, SnapshotAt
<1> QED BY <1>2, <1>3, <1>4, <1>5, Zenon DEF FollowsFrom

\* The decision a gate call writes down of a run that it saw answered is grounded.
LEMMA AddedIsGrounded ==
  ASSUME IInv, RunsInv, [Next]_vars, NEW i \in Added
  PROVE  /\ i \in 1 .. Len(gate_decisions')
         /\ gate_decisions'[i].run \in returned
         /\ FollowsFrom(gate_decisions'[i], evaluated[gate_decisions'[i].run],
                        release_policies, baselines)
<1>1. i \in DOMAIN gate_decisions' \ DOMAIN gate_decisions
  BY DEF Added
<1>2. PICK u \in Requests : req[u].pc = "gate_add" /\ req'[u].pc = "idle" /\ req[u].settled
  BY DEF Added
<1>3. PICK t \in Requests : GateAdd(t)
  BY <1>1, OnlyGateCallsDecide
<1>4. /\ req' = [req EXCEPT ![t] = Idle] /\ req[t].pc = "gate_add"
      /\ gate_decisions' = Append(gate_decisions, Decision(req[t]))
  BY <1>3 DEF GateAdd, Finish, Continue
<1>5. u = t
  BY <1>2, <1>4 DEF IInv, TypeOK
<1> DEFINE q == req[t]
<1>6. Decision(q) \in DecisionRow /\ gate_decisions \in Seq(DecisionRow)
  BY <1>4, DecisionIsRow DEF IInv, TypeOK
<1>7. /\ DOMAIN gate_decisions = 1 .. Len(gate_decisions) /\ Len(gate_decisions) \in Nat
      /\ DOMAIN gate_decisions' = 1 .. Len(gate_decisions) + 1
      /\ Len(gate_decisions') = Len(gate_decisions) + 1
      /\ gate_decisions'[Len(gate_decisions) + 1] = Decision(q)
  BY <1>4, <1>6, AppendProperties, LenProperties
<1>8. i \in 1 .. Len(gate_decisions') /\ gate_decisions'[i] = Decision(q)
  BY <1>1, <1>7
<1>9. q \in Request /\ RequestOK(q, release_policies, baselines) /\ ResultsOK(q)
  BY RequestFacts DEF RunsInv
<1>10. /\ q.run \in returned /\ q.dataset = evaluated[q.run].dataset
       /\ q.results = evaluated[q.run].results
  BY <1>2, <1>4, <1>5, <1>9 DEF ResultsOK, AfterResults, GateSteps
<1>11. /\ q.policy \in 1 .. Len(release_policies) /\ q.baseline \in 0 .. Len(baselines)
       /\ q.baseline # 0 => baselines[q.baseline].dataset = q.dataset
  BY <1>4, <1>9 DEF RequestOK, PolicyResolved, ReferenceRead
<1> HIDE DEF q
<1>12. /\ Decision(q).run = q.run /\ Decision(q).policy = q.policy
       /\ Decision(q).baseline_version = VersionAt(baselines, q.baseline)
       /\ Decision(q).verdict = decide(q.results, release_policies[q.policy].policy,
                                       SnapshotAt(baselines, q.baseline))
  BY DEF Decision
<1>13. FollowsFrom(Decision(q), evaluated[q.run], release_policies, baselines)
  BY <1>10, <1>11, <1>12, Zenon DEF FollowsFrom
<1> QED BY <1>8, <1>10, <1>12, <1>13

-----------------------------------------------------------------------------
LEMMA NoReportIsReader == NoReport \in Reader
BY DEF NoReport, Reader

LEMMA InitReport == ReportInit => IInv /\ RunsInv /\ ReportInv
<1> SUFFICES ASSUME ReportInit PROVE IInv /\ RunsInv /\ ReportInv
  OBVIOUS
<1>1. IInv /\ RunsInv
  BY InitIInv, InitRuns DEF ReportInit
<1>2. ReportInv
  <2>1. NoReport.stage = "idle"
    BY DEF NoReport
  <2> QED BY <2>1, NoReportIsReader DEF ReportInit, ReportInv, GroundsKept, ReaderOK
<1> QED BY <1>1, <1>2

LEMMA ServiceStepReport ==
  ASSUME IInv, RunsInv, ReportInv, ServiceStep
  PROVE  ReportInv'
<1>1. /\ [Next]_vars /\ grounded' = grounded \cup Added
      /\ reader' = IF up' THEN reader ELSE NoReport
  BY DEF ServiceStep
<1>2. IInv' /\ RunsInv'
  BY <1>1, NextIInv, NextRuns
<1>3. /\ Extends(release_policies', release_policies) /\ Extends(baselines', baselines)
      /\ Extends(gate_decisions', gate_decisions)
  BY <1>1, TablesExtend
<1>4. /\ release_policies \in Seq(PolicyRow) /\ release_policies' \in Seq(PolicyRow)
      /\ baselines \in Seq(BaselineRow) /\ baselines' \in Seq(BaselineRow)
      /\ gate_decisions \in Seq(DecisionRow) /\ gate_decisions' \in Seq(DecisionRow)
      /\ Len(gate_decisions) \in Nat /\ Len(gate_decisions') \in Nat
  BY <1>2, LenProperties DEF IInv, TypeOK
<1>5. \A i \in 1 .. Len(gate_decisions) :
        /\ i \in 1 .. Len(gate_decisions') /\ gate_decisions'[i] = gate_decisions[i]
        /\ gate_decisions[i].run \in Runs
  <2>1. \A i \in 1 .. Len(gate_decisions) : gate_decisions[i] \in DecisionRow
    BY <1>4, ElementOfSeq
  <2>2. \A i \in 1 .. Len(gate_decisions) : gate_decisions[i].run \in Runs
    BY <2>1 DEF DecisionRow
  <2> QED BY <1>3, <1>4, <2>2 DEF Extends
<1>6. ASSUME NEW i \in 1 .. Len(gate_decisions'), gate_decisions'[i].run \in returned,
             FollowsFrom(gate_decisions'[i], evaluated[gate_decisions'[i].run],
                         release_policies, baselines)
      PROVE  /\ gate_decisions'[i].run \in returned'
             /\ FollowsFrom(gate_decisions'[i], evaluated'[gate_decisions'[i].run],
                            release_policies', baselines')
  <2>1. gate_decisions'[i].run \in Runs
    <3>1. gate_decisions'[i] \in DecisionRow
      BY <1>4, <1>6, ElementOfSeq
    <3> QED BY <3>1 DEF DecisionRow
  <2>2. evaluated[gate_decisions'[i].run] # None
    BY <1>6, <2>1 DEF RunsInv, StoresOK
  <2>3. /\ gate_decisions'[i].run \in returned'
        /\ evaluated'[gate_decisions'[i].run] = evaluated[gate_decisions'[i].run]
    BY <1>1, <1>6, <2>1, <2>2, RunsKept
  <2> QED BY <1>3, <1>4, <1>6, <2>1, <2>3, FollowsStill
<1>7. GroundsKept'
  <2>1. ASSUME NEW i \in grounded'
        PROVE  /\ i \in 1 .. Len(gate_decisions')
               /\ gate_decisions'[i].run \in returned
               /\ FollowsFrom(gate_decisions'[i], evaluated[gate_decisions'[i].run],
                              release_policies, baselines)
    <3>1. CASE i \in grounded
      BY <1>5, <3>1 DEF ReportInv, GroundsKept, RunOf
    <3>2. CASE i \in Added
      BY <1>1, <3>2, AddedIsGrounded
    <3> QED BY <1>1, <3>1, <3>2
  <2> QED BY <1>6, <2>1 DEF GroundsKept, RunOf
<1>8. ReaderOK'
  <2>1. CASE ~up'
    <3>1. reader' = NoReport /\ NoReport.stage = "idle"
      BY <1>1, <2>1 DEF NoReport
    <3> QED BY <3>1, NoReportIsReader DEF ReaderOK
  <2>2. CASE up'
    <3>1. reader' = reader
      BY <1>1, <2>2
    <3>2. CASE reader.stage = "idle"
      BY <3>1, <3>2 DEF ReportInv, ReaderOK
    <3>3. CASE reader.stage # "idle"
      <4> DEFINE i == reader.decision
                 r == gate_decisions[i].run
      <4>1. i \in 1 .. Len(gate_decisions) /\ r \in Runs /\ run_repository[r] # None
        BY <1>5, <3>3 DEF ReportInv, ReaderOK, RunOf
      <4>2. i \in 1 .. Len(gate_decisions') /\ gate_decisions'[i].run = r
        BY <1>5, <4>1
      <4>3. run_repository'[r] # None /\ evaluated'[r] = evaluated[r]
        BY <1>1, <2>2, <4>1, RunsKept DEF RunsInv, StoresOK
      <4>4. i \in grounded' => i \in grounded
        <5>1. i \notin Added
          <6>1. DOMAIN gate_decisions = 1 .. Len(gate_decisions)
            BY <1>4, LenProperties
          <6> QED BY <4>1, <6>1 DEF Added
        <5> QED BY <1>1, <5>1
      <4> QED BY <3>1, <4>1, <4>2, <4>3, <4>4 DEF ReportInv, ReaderOK, RunOf
    <3> QED BY <3>2, <3>3
  <2> QED BY <2>1, <2>2
<1> QED BY <1>7, <1>8 DEF ReportInv

\* A step of the report, or none: the services stay as they are.
LEMMA ReaderStepReport ==
  ASSUME IInv, RunsInv, ReportInv, UNCHANGED <<vars, grounded>>, ReaderOK'
  PROVE  IInv' /\ RunsInv' /\ ReportInv'
<1>1. UNCHANGED <<release_policies, baselines, gate_decisions, returned, evaluated>>
  BY DEF vars, tables, history
<1>2. GroundsKept'
  BY <1>1 DEF ReportInv, GroundsKept, RunOf
<1> QED BY <1>2, NextIInv, NextRuns DEF ReportInv

LEMMA NextReport ==
  IInv /\ RunsInv /\ ReportInv /\ [ReportNext]_report_vars => IInv' /\ RunsInv' /\ ReportInv'
<1> SUFFICES ASSUME IInv, RunsInv, ReportInv, [ReportNext]_report_vars
             PROVE  IInv' /\ RunsInv' /\ ReportInv'
  OBVIOUS
<1>1. CASE ServiceStep
  BY <1>1, ServiceStepReport, NextIInv, NextRuns DEF ServiceStep
<1>2. ASSUME UNCHANGED <<vars, grounded>>
      PROVE  UNCHANGED <<gate_decisions, run_repository, evaluated, grounded>>
  BY <1>2 DEF vars, tables, memory, history
<1>3. DOMAIN gate_decisions = 1 .. Len(gate_decisions)
  BY LenProperties DEF IInv, TypeOK
<1>4. ASSUME NEW i \in DOMAIN gate_decisions, FindDecision(i)
      PROVE  IInv' /\ RunsInv' /\ ReportInv'
  <2> DEFINE next == [NoReport EXCEPT !.stage = "results", !.decision = i]
  <2>1. /\ UNCHANGED <<vars, grounded>> /\ run_repository[gate_decisions[i].run] # None
        /\ reader' = next
    BY <1>4 DEF FindDecision, ReaderStep
  <2>2. i \in 1 .. Len(gate_decisions) /\ i \in Nat
    BY <1>3
  <2>3. next \in Reader /\ next.stage = "results" /\ next.decision = i
    BY <2>2 DEF NoReport, Reader
  <2> HIDE DEF next
  <2>4. ReaderOK'
    BY <1>2, <2>1, <2>2, <2>3 DEF ReaderOK, RunOf
  <2> QED BY <2>1, <2>4, ReaderStepReport
<1>5. CASE BuildReport
  <2> DEFINE i == reader.decision
             r == gate_decisions[i].run
             next == [reader EXCEPT !.stage = "built", !.results = StoredResults(r)]
  <2>1. UNCHANGED <<vars, grounded>> /\ reader.stage = "results" /\ reader' = next
    BY <1>5 DEF BuildReport, ReaderStep
  <2>2. /\ reader \in Reader /\ i \in 1 .. Len(gate_decisions)
        /\ run_repository[r] # None
    BY <2>1 DEF ReportInv, ReaderOK, RunOf
  <2>3. r \in Runs
    <3>1. gate_decisions[i] \in DecisionRow
      BY <2>2, ElementOfSeq DEF IInv, TypeOK
    <3> QED BY <3>1 DEF DecisionRow
  <2>4. StoredResults(r) \in Outcomes \cup {NoResults}
    BY <2>3 DEF StoredResults, IInv, TypeOK
  <2>5. i \in grounded => StoredResults(r) = evaluated[r].results
    BY <2>2, <2>3 DEF ReportInv, GroundsKept, RunOf, RunsInv, StoresOK, StoredResults
  <2>6. /\ next \in Reader /\ next.stage = "built" /\ next.decision = i
        /\ next.results = StoredResults(r)
    <3> HIDE DEF r
    <3> QED BY <2>2, <2>4 DEF Reader
  <2> HIDE DEF next
  <2>7. ReaderOK'
    BY <1>2, <2>1, <2>2, <2>5, <2>6 DEF ReaderOK, RunOf
  <2> QED BY <2>1, <2>7, ReaderStepReport
<1>6. CASE SendReport
  <2>1. UNCHANGED <<vars, grounded>> /\ reader' = NoReport /\ NoReport.stage = "idle"
    BY <1>6 DEF SendReport, ReaderStep, NoReport
  <2>2. ReaderOK'
    BY <2>1, NoReportIsReader DEF ReaderOK
  <2> QED BY <2>1, <2>2, ReaderStepReport
<1>7. CASE UNCHANGED report_vars
  <2>1. UNCHANGED <<vars, grounded, reader>>
    BY <1>7 DEF report_vars
  <2>2. ReaderOK'
    BY <1>2, <2>1 DEF ReportInv, ReaderOK, RunOf
  <2> QED BY <2>1, <2>2, ReaderStepReport
<1> QED BY <1>1, <1>4, <1>5, <1>6, <1>7 DEF ReportNext

-----------------------------------------------------------------------------
\* What the page shows of a report, against the case results it was built from.
PageMatches(report, results) ==
  LET page == render_html(report)
      rows == page.case_results
  IN  /\ page.critical_failures = {c \in DOMAIN rows : rows[c].class = "case-critical"}
      /\ page.cases_cell
           = <<Cardinality({c \in DOMAIN rows : rows[c].label = "PASS"}),
               Cardinality(DOMAIN rows)>>
      /\ page.aggregate_metrics = aggregate_metrics_for_run(results)
      /\ page.framework_errors = framework_errors_for_run(results)
      /\ page.badge # "pass" <=> page.reasons # {}

LEMMA PageShowsTheRows ==
  ASSUME NEW decision, NEW results, NEW policy, NEW base,
         decision.verdict = decide(results, policy, base)
  PROVE  PageMatches(build_report(decision, results), results)
<1> DEFINE rows == render_case_results(results)
<1>1. /\ DOMAIN rows = DOMAIN results
      /\ \A c \in DOMAIN rows : /\ rows[c].class = row_class(results[c])
                               /\ rows[c].label = IF results[c].passed THEN "PASS" ELSE "FAIL"
  BY DEF render_case_results
<1>2. \A c : row_class(results[c]) = "case-critical" <=> results[c].critical_failure
  BY DEF row_class
<1> HIDE DEF rows
<1>3. /\ {c \in DOMAIN rows : rows[c].class = "case-critical"} = critical_failures(results)
      /\ {c \in DOMAIN rows : rows[c].label = "PASS"} = {c \in DOMAIN results : results[c].passed}
  BY <1>1, <1>2 DEF critical_failures
<1> DEFINE rs == reasons(results, policy, base)
<1>4. Status(rs) # "pass" <=> rs # {}
  BY DEF Status
<1>5. /\ decision.verdict.status = Status(rs) /\ decision.verdict.reasons = rs
      /\ decision.verdict.aggregate_metrics = aggregate_metrics_for_run(results)
      /\ decision.verdict.critical_failures = critical_failures(results)
      /\ decision.verdict.framework_errors = framework_errors_for_run(results)
  BY DEF decide
<1> HIDE DEF rs
<1> QED BY <1>1, <1>3, <1>4, <1>5
        DEF PageMatches, render_html, build_report, passed_cases, rows

(***************************************************************************)
(* Of a decision on a run that had been answered, the page shows rows that *)
(* are the grounds of the decision, and the decision can be taken again    *)
(* from them, whatever other requests did and however the process was      *)
(* restarted in between (ReportService.get_report, which puts the decision *)
(* and the case results of its run together when it is asked).             *)
(***************************************************************************)
THEOREM ReportsAreGrounded == ReportSpec => []ReportsAgree
<1>1. IInv /\ RunsInv /\ ReportInv => ReportsAgree
  <2> SUFFICES ASSUME IInv, RunsInv, ReportInv, reader.stage = "built",
                      reader.decision \in grounded
               PROVE  ReportsAgree
    BY DEF ReportsAgree
  <2> DEFINE decision == gate_decisions[reader.decision]
             run == evaluated[decision.run]
             policy == release_policies[decision.policy].policy
  <2>1. /\ reader.results = run.results
        /\ FollowsFrom(decision, run, release_policies, baselines)
    BY DEF ReportInv, ReaderOK, GroundsKept, RunOf
  <2>2. run_repository[decision.run] = run.dataset
    <3>1. /\ reader.decision \in 1 .. Len(gate_decisions)
          /\ run_repository[decision.run] # None
      BY DEF ReportInv, ReaderOK, RunOf
    <3>2. decision \in DecisionRow
      BY <3>1, ElementOfSeq DEF IInv, TypeOK
    <3> QED BY <3>1, <3>2 DEF RunsInv, StoresOK, DecisionRow
  <2> HIDE DEF run
  <2>3. PICK b \in 0 .. Len(baselines) :
          /\ b # 0 => baselines[b].dataset = run.dataset
          /\ VersionAt(baselines, b) = decision.baseline_version
          /\ decision.verdict = decide(run.results, policy, SnapshotAt(baselines, b))
    BY <2>1 DEF FollowsFrom
  <2> DEFINE report == build_report(decision, reader.results)
  <2>4. /\ report.run = decision.run /\ report.policy = decision.policy
        /\ report.baseline_version = decision.baseline_version
        /\ report.case_results = reader.results
    BY DEF build_report
  <2> HIDE DEF decision, policy
  <2>5. PageMatches(report, reader.results)
    BY <2>1, <2>3, PageShowsTheRows
  <2> HIDE DEF report
  <2>6. /\ b # 0 => baselines[b].dataset = run_repository[report.run]
        /\ VersionAt(baselines, b) = report.baseline_version
        /\ decision.verdict =
             decide(report.case_results, release_policies[report.policy].policy,
                    SnapshotAt(baselines, b))
    BY <2>1, <2>2, <2>3, <2>4 DEF policy
  <2> QED BY <2>4, <2>5, <2>6, Zenon DEF ReportsAgree, PageMatches, decision, report
<1> QED BY <1>1, InitReport, NextReport, PTL DEF ReportSpec

(***************************************************************************)
(* A reader of reports changes nothing of the services, so all that is     *)
(* proved of them, and their refinement of the ledger, holds beside it.    *)
(***************************************************************************)
THEOREM ReportsOnlyRead == ReportSpec => Spec
<1>1. ReportInit => Init
  BY DEF ReportInit
<1>2. [ReportNext]_report_vars => [Next]_vars
  BY DEF ReportNext, ServiceStep, FindDecision, BuildReport, SendReport, ReaderStep, report_vars
<1> QED BY <1>1, <1>2, PTL DEF ReportSpec, Spec
=============================================================================
