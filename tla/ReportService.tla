---------------------------- MODULE ReportService ----------------------------
(***************************************************************************)
(* ReportService (src/backend/app/services/report_service.py) and the      *)
(* report of a gate decision (src/backend/app/reports): one more request   *)
(* beside those of GateService, which only reads.                          *)
(*                                                                         *)
(* A report is put together from two sources that do not live equally      *)
(* long: the row of the decision, and the run with its case results as     *)
(* they are in memory when the report is asked for.                        *)
(***************************************************************************)
EXTENDS GateService

VARIABLES
  reader,   \* the request for a report
  grounded  \* history: the decisions on runs whose POST /runs had been answered

report_vars == <<vars, reader, grounded>>

-----------------------------------------------------------------------------
(***************************************************************************)
(* build_report: what is decided comes from the decision, what is counted  *)
(* from the case results.  Sums stand for the means of a run's cases.      *)
(***************************************************************************)
passed_cases(results) == Cardinality({c \in DOMAIN results : results[c].passed})

total_estimated_cost(results) ==
  Total([c \in DOMAIN results |-> results[c].estimated_cost])

total_latency_ms(results) ==
  Total([c \in DOMAIN results |-> results[c].latency_ms])

build_report(decision, results) ==
  [status               |-> decision.verdict.status,
   reasons              |-> decision.verdict.reasons,
   policy               |-> decision.policy,
   run                  |-> decision.run,
   aggregate_metrics    |-> decision.verdict.aggregate_metrics,
   critical_failures    |-> decision.verdict.critical_failures,
   framework_errors     |-> decision.verdict.framework_errors,
   regression_summary   |-> decision.verdict.regression_summary,
   baseline_version     |-> decision.baseline_version,
   total_cases          |-> Cardinality(DOMAIN results),
   passed_cases         |-> passed_cases(results),
   total_estimated_cost |-> total_estimated_cost(results),
   total_latency_ms     |-> total_latency_ms(results),
   case_results         |-> results]

(***************************************************************************)
(* render_html: the sections of the page that are left out when they have  *)
(* nothing to say, and a row for each case.  Escaping and layout are left  *)
(* out.                                                                    *)
(***************************************************************************)
row_class(case) ==
  IF case.critical_failure THEN "case-critical"
  ELSE IF ~case.passed THEN "case-fail"
  ELSE ""

Cell(metric) == [name |-> metric.metric_name, score |-> metric.score, mark |-> metric.passed]

render_case_results(results) ==
  [c \in DOMAIN results |->
     [class   |-> row_class(results[c]),
      label   |-> IF results[c].passed THEN "PASS" ELSE "FAIL",
      latency |-> results[c].latency_ms,
      cost    |-> results[c].estimated_cost,
      metrics |-> {Cell(results[c].metric_results[e]) : e \in DOMAIN results[c].metric_results}]]

render_html(report) ==
  [badge               |-> report.status,
   reasons             |-> report.reasons,
   cases_cell          |-> <<report.passed_cases, report.total_cases>>,
   aggregate_metrics   |-> report.aggregate_metrics,
   critical_failures   |-> report.critical_failures,
   regression_summary  |-> report.regression_summary # None,
   framework_errors    |-> report.framework_errors,
   case_results        |-> render_case_results(report.case_results)]

-----------------------------------------------------------------------------
NoReport == [stage |-> "idle", decision |-> 0, results |-> NoResults]

ReportInit == Init /\ reader = NoReport /\ grounded = {}

\* A decision is grounded if its request found a run that had been answered.
Added ==
  {i \in DOMAIN gate_decisions' \ DOMAIN gate_decisions :
     \E t \in Requests :
       req[t].pc = "gate_add" /\ req'[t].pc = "idle" /\ req[t].settled}

ServiceStep ==
  /\ Next
  /\ grounded' = grounded \cup Added
  /\ reader' = IF up' THEN reader ELSE NoReport

ReaderStep(stage, next) ==
  /\ up /\ reader.stage = stage
  /\ reader' = next
  /\ UNCHANGED <<vars, grounded>>

\* get_report: the row of the decision, which never changes, and then the run.  A run
\* that is not in memory any more ends the request in 404.
FindDecision(i) ==
  /\ run_repository[gate_decisions[i].run] # None
  /\ ReaderStep("idle", [NoReport EXCEPT !.stage = "results", !.decision = i])

BuildReport ==
  ReaderStep("results",
    [reader EXCEPT !.stage = "built",
       !.results = StoredResults(gate_decisions[reader.decision].run)])

SendReport == ReaderStep("built", NoReport)

ReportNext ==
  \/ ServiceStep
  \/ \E i \in DOMAIN gate_decisions : FindDecision(i)
  \/ BuildReport
  \/ SendReport

ReportSpec == ReportInit /\ [][ReportNext]_report_vars

-----------------------------------------------------------------------------
(***************************************************************************)
(* The two halves of a report agree: of a decision on a run that had been  *)
(* answered, the page shows rows that are the grounds of the decision.     *)
(* Its critical failures are the rows marked critical, its aggregates and  *)
(* framework errors those of the rows, and the decision can be taken again *)
(* from the rows, the policy and a baseline of the run's dataset that has  *)
(* the version it names (or none, if it names none), whatever other        *)
(* requests did and however the process was restarted in between.          *)
(***************************************************************************)
ReportsAgree ==
  reader.stage = "built" /\ reader.decision \in grounded =>
    LET decision == gate_decisions[reader.decision]
        report   == build_report(decision, reader.results)
        page     == render_html(report)
        rows     == page.case_results
    IN  /\ page.critical_failures = {c \in DOMAIN rows : rows[c].class = "case-critical"}
        /\ page.cases_cell
             = <<Cardinality({c \in DOMAIN rows : rows[c].label = "PASS"}),
                 Cardinality(DOMAIN rows)>>
        /\ page.aggregate_metrics = aggregate_metrics_for_run(report.case_results)
        /\ page.framework_errors = framework_errors_for_run(report.case_results)
        /\ page.badge # "pass" <=> page.reasons # {}
        /\ \E b \in 0 .. Len(baselines) :
             /\ b # 0 => baselines[b].dataset = run_repository[report.run]
             /\ VersionAt(baselines, b) = report.baseline_version
             /\ decision.verdict =
                  decide(report.case_results, release_policies[report.policy].policy,
                         SnapshotAt(baselines, b))
=============================================================================
