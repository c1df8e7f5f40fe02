----------------------------- MODULE GateService -----------------------------
(***************************************************************************)
(* EvaluationService and PolicyService (src/backend/app/services) over     *)
(* their repositories, called by concurrent HTTP requests and cut short by *)
(* crashes of the process.                                                 *)
(*                                                                         *)
(* FastAPI runs every synchronous handler in a thread of its pool.  A      *)
(* request is one thread: it takes one step per call it makes on a         *)
(* repository, and the steps of different requests interleave.  Runs and   *)
(* case results live in dictionaries of the process and are lost with it;  *)
(* policies, baselines and gate decisions are SQLite tables, committed by  *)
(* every add.  No handler deletes or replaces a row, so a table is a       *)
(* sequence, and a row is known by its position (its id, in the code).     *)
(*                                                                         *)
(* A request that ends in 404 or only reads has no effect and is left out, *)
(* except where the lookup that fails is the middle of a handler.          *)
(***************************************************************************)
EXTENDS PolicyEngine

CONSTANTS
  Requests,       \* the threads that serve requests
  Runs,           \* run ids (uuid4: no id is given out twice)
  Datasets,       \* dataset names
  Outcomes,       \* the lists of case results a run can end with
  Policies,       \* the contents of release policies
  DefaultPolicy,  \* default_policy(), registered when the table is empty
  MaxPolicies, MaxBaselines, MaxDecisions, MaxCrashes   \* bounds for TLC

ASSUME GateAssumption ==
  /\ NoResults \notin Outcomes
  /\ DefaultPolicy \in Policies
  /\ Policies \subseteq ReleasePolicy
  /\ None \notin Runs /\ None \notin Datasets /\ None \notin Outcomes /\ None \notin Nat
  /\ None \notin [dataset : Datasets, results : Outcomes]
  /\ None \notin [kind : {"gate", "approve"}, run : Runs, wanted : Nat \cup {None},
                  settled : BOOLEAN, floor : Nat]
  /\ None \notin {Snapshot(results) : results \in Outcomes \cup {NoResults}}
  /\ {MaxPolicies, MaxBaselines, MaxDecisions, MaxCrashes} \subseteq Nat

VARIABLES
  up,                 \* is the process running?
  run_repository,     \* InMemoryRepository[EvaluationRun]: a run's dataset, or None
  case_result_store,  \* InMemoryCaseResultStore: a run's case results, or None
  release_policies,   \* the table of policies
  baselines,          \* the table of baselines
  gate_decisions,     \* the table of decisions
  clock,              \* the wall clock that stamps created_at: no two stamps are equal
  req,                \* what each request is doing, with its local variables
  crashes,            \* how often the process died
  evaluated,          \* history: what each run id ever given out stands for
  returned            \* history: the runs whose POST /runs was answered

memory == <<run_repository, case_result_store>>
tables == <<release_policies, baselines, gate_decisions>>
history == <<evaluated, returned>>
vars == <<up, memory, tables, clock, req, crashes, history>>

-----------------------------------------------------------------------------
(***************************************************************************)
(* Rows, and the queries on the tables.                                    *)
(***************************************************************************)
PolicyRow == [policy : Policies, created_at : Nat]

Snapshots == {Snapshot(results) : results \in Outcomes \cup {NoResults}}

BaselineRow ==
  [dataset : Datasets, run : Runs, version : Nat \ {0}, snapshot : Snapshots]

Verdicts ==
  {decide(results, policy, base) :
     results \in Outcomes \cup {NoResults}, policy \in Policies,
     base \in Snapshots \cup {None}}

DecisionRow ==
  [run : Runs, policy : Nat, baseline_version : Nat, verdict : Verdicts]

\* get_active: the first of the policies with the greatest created_at; 0 if none.
Active(table) ==
  LET newest == {i \in DOMAIN table :
                   \A j \in DOMAIN table : table[j].created_at <= table[i].created_at}
  IN  IF newest = {} THEN 0 ELSE CHOOSE i \in newest : \A j \in newest : i <= j

\* list_for_dataset
RowsOf(table, d) == {i \in DOMAIN table : table[i].dataset = d}

VersionsOf(table, d) == {table[i].version : i \in RowsOf(table, d)}

\* Variants: versions count from 0; the greatest version of any dataset.
TopVersionZeroBased(table, d) ==
  LET versions == {-1} \cup VersionsOf(table, d)
  IN  CHOOSE v \in versions : \A w \in versions : w <= v

TopVersionOfAll(table, d) ==
  LET versions == {0} \cup {table[i].version : i \in DOMAIN table}
  IN  CHOOSE v \in versions : \A w \in versions : w <= v

\* max(..., default=0): the greatest version of the dataset
TopVersion(table, d) ==
  IF VersionsOf(table, d) = {} THEN 0
  ELSE CHOOSE v \in VersionsOf(table, d) : \A w \in VersionsOf(table, d) : w <= v

\* Variants: the first row of the dataset; the one that was added last.
LatestIsFirst(table, d) ==
  IF RowsOf(table, d) = {} THEN 0
  ELSE CHOOSE i \in RowsOf(table, d) : \A j \in RowsOf(table, d) : i <= j

LatestIsLastAdded(table, d) ==
  IF RowsOf(table, d) = {} THEN 0
  ELSE CHOOSE i \in RowsOf(table, d) : \A j \in RowsOf(table, d) : j <= i

\* get_latest_for_dataset: the first row with the greatest version; 0 if none.
Latest(table, d) ==
  LET top == {i \in RowsOf(table, d) : table[i].version = TopVersion(table, d)}
  IN  IF top = {} THEN 0 ELSE CHOOSE i \in top : \A j \in top : i <= j

SnapshotAt(table, i) == IF i = 0 THEN None ELSE table[i].snapshot

VersionAt(table, i) == IF i = 0 THEN 0 ELSE table[i].version

-----------------------------------------------------------------------------
(***************************************************************************)
(* A request: where it is in its handler (pc), its local variables, and    *)
(* two that are history: the newest baseline version of the dataset when   *)
(* the request came (floor), and whether the run had been answered by then *)
(* (settled).                                                              *)
(***************************************************************************)
GateSteps == {"gate_results", "gate_policy", "gate_baseline", "gate_add"}
ApproveSteps == {"approve_results", "approve_version", "approve_add"}
Step == {"idle", "eval_save", "policy_add"} \cup GateSteps \cup ApproveSteps

Request ==
  [pc : Step, run : Runs \cup {None}, dataset : Datasets \cup {None},
   results : Outcomes \cup {NoResults}, wanted : Nat \cup {None}, policy : Nat,
   baseline : Nat, version : Nat, draft : Policies \cup {None}, stamp : Nat,
   floor : Nat, settled : BOOLEAN]

Idle == [pc |-> "idle", run |-> None, dataset |-> None, results |-> NoResults,
         wanted |-> None, policy |-> 0, baseline |-> 0, version |-> 0, draft |-> None,
         stamp |-> 0, floor |-> 0, settled |-> FALSE]

InFlight(steps) == Cardinality({t \in Requests : req[t].pc \in steps})

TypeOK ==
  /\ up \in BOOLEAN
  /\ run_repository \in [Runs -> Datasets \cup {None}]
  /\ case_result_store \in [Runs -> Outcomes \cup {None}]
  /\ release_policies \in Seq(PolicyRow)
  /\ baselines \in Seq(BaselineRow)
  /\ gate_decisions \in Seq(DecisionRow)
  /\ clock \in Nat
  /\ req \in [Requests -> Request]
  /\ crashes \in Nat
  /\ evaluated \in [Runs -> [dataset : Datasets, results : Outcomes] \cup {None}]
  /\ returned \in SUBSET Runs

Init ==
  /\ up = FALSE
  /\ run_repository = [r \in Runs |-> None]
  /\ case_result_store = [r \in Runs |-> None]
  /\ release_policies = <<>> /\ baselines = <<>> /\ gate_decisions = <<>>
  /\ clock = 0
  /\ req = [t \in Requests |-> Idle]
  /\ crashes = 0
  /\ evaluated = [r \in Runs |-> None]
  /\ returned = {}

-----------------------------------------------------------------------------
Begin(t, request) == up /\ req[t].pc = "idle" /\ req' = [req EXCEPT ![t] = request]

Continue(t, from, request) ==
  up /\ req[t].pc = from /\ req' = [req EXCEPT ![t] = request]

Finish(t, from) == Continue(t, from, Idle)

(***************************************************************************)
(* create_app: an empty policy table gets the default policy.              *)
(***************************************************************************)
Start ==
  /\ ~up
  /\ up' = TRUE
  /\ IF Active(release_policies) = 0
       THEN /\ release_policies' =
                 Append(release_policies, [policy |-> DefaultPolicy, created_at |-> clock])
            /\ clock' = clock + 1
       ELSE UNCHANGED <<release_policies, clock>>
  /\ UNCHANGED <<memory, baselines, gate_decisions, req, crashes, history>>

\* Variant: the runs survive, as in a file, but not their case results.
CrashKeepingRuns ==
  /\ up /\ crashes < MaxCrashes
  /\ up' = FALSE
  /\ crashes' = crashes + 1
  /\ case_result_store' = [r \in Runs |-> None]
  /\ req' = [t \in Requests |-> Idle]
  /\ UNCHANGED <<run_repository, tables, clock, history>>

(***************************************************************************)
(* The process dies: its memory and the requests in flight are gone, the   *)
(* committed rows stay.                                                    *)
(***************************************************************************)
Crash ==
  /\ up /\ crashes < MaxCrashes
  /\ up' = FALSE
  /\ crashes' = crashes + 1
  /\ run_repository' = [r \in Runs |-> None]
  /\ case_result_store' = [r \in Runs |-> None]
  /\ req' = [t \in Requests |-> Idle]
  /\ UNCHANGED <<tables, clock, history>>

(***************************************************************************)
(* POST /evaluations/runs: EvaluationService.run adds the finished run and *)
(* then saves its case results; then the request is answered.              *)
(***************************************************************************)
AddRun(t, r, d, results) ==
  /\ evaluated[r] = None
  /\ Begin(t, [Idle EXCEPT !.pc = "eval_save", !.run = r, !.results = results])
  /\ run_repository' = [run_repository EXCEPT ![r] = d]
  /\ evaluated' = [evaluated EXCEPT ![r] = [dataset |-> d, results |-> results]]
  /\ UNCHANGED <<up, case_result_store, tables, clock, crashes, returned>>

SaveResults(t) ==
  /\ Finish(t, "eval_save")
  /\ case_result_store' = [case_result_store EXCEPT ![req[t].run] = req[t].results]
  /\ returned' = returned \cup {req[t].run}
  /\ UNCHANGED <<up, run_repository, tables, clock, crashes, evaluated>>

(***************************************************************************)
(* _get_run_and_results, in two reads: a run id that is not found ends the *)
(* request, missing case results are read as an empty list.                *)
(***************************************************************************)
FindRun(t, r, wanted, first) ==
  /\ run_repository[r] # None
  /\ Begin(t, [Idle EXCEPT !.pc = first, !.run = r, !.dataset = run_repository[r],
                           !.wanted = wanted, !.settled = r \in returned,
                           !.floor = TopVersion(baselines, run_repository[r])])
  /\ UNCHANGED <<up, memory, tables, clock, crashes, history>>

StoredResults(r) ==
  IF case_result_store[r] = None THEN NoResults ELSE case_result_store[r]

ReadResults(t, from, to) ==
  /\ Continue(t, from, [req[t] EXCEPT !.pc = to, !.results = StoredResults(req[t].run)])
  /\ UNCHANGED <<up, memory, tables, clock, crashes, history>>

(***************************************************************************)
(* POST /gate/decisions: PolicyService.decide.  wanted is the policy_id of *)
(* the request: None for the active policy, 0 for an id nobody has.        *)
(***************************************************************************)
GateRun(t, r, wanted) ==
  /\ Len(gate_decisions) + InFlight(GateSteps) < MaxDecisions
  /\ FindRun(t, r, wanted, "gate_results")

GateResults(t) == ReadResults(t, "gate_results", "gate_policy")

ResolvedPolicy(wanted) == IF wanted = None THEN Active(release_policies) ELSE wanted

GatePolicy(t) ==
  LET policy == ResolvedPolicy(req[t].wanted)
  IN  /\ Continue(t, "gate_policy",
                  IF policy = 0 THEN Idle
                  ELSE [req[t] EXCEPT !.pc = "gate_baseline", !.policy = policy])
      /\ UNCHANGED <<up, memory, tables, clock, crashes, history>>

GateBaseline(t) ==
  /\ Continue(t, "gate_baseline",
              [req[t] EXCEPT !.pc = "gate_add",
                             !.baseline = Latest(baselines, req[t].dataset)])
  /\ UNCHANGED <<up, memory, tables, clock, crashes, history>>

\* Variant: the baseline's version is read again when the decision is written.
DecisionReadsAgain(q) ==
  [run              |-> q.run,
   policy           |-> q.policy,
   baseline_version |-> TopVersion(baselines, q.dataset),
   verdict          |-> decide(q.results, release_policies[q.policy].policy,
                               SnapshotAt(baselines, q.baseline))]

Decision(q) ==
  [run              |-> q.run,
   policy           |-> q.policy,
   baseline_version |-> VersionAt(baselines, q.baseline),
   verdict          |-> decide(q.results, release_policies[q.policy].policy,
                               SnapshotAt(baselines, q.baseline))]

GateAdd(t) ==
  /\ Finish(t, "gate_add")
  /\ gate_decisions' = Append(gate_decisions, Decision(req[t]))
  /\ UNCHANGED <<up, memory, release_policies, baselines, clock, crashes, history>>

(***************************************************************************)
(* POST /gate/baselines: PolicyService.approve_baseline and                *)
(* BaselineRepository.approve, which lists the dataset's baselines, takes  *)
(* the next version and then adds the row, in two separate critical        *)
(* sections of the repository's lock.                                      *)
(***************************************************************************)
ApproveRun(t, r) ==
  /\ Len(baselines) + InFlight(ApproveSteps) < MaxBaselines
  /\ FindRun(t, r, None, "approve_results")

ApproveResults(t) == ReadResults(t, "approve_results", "approve_version")

ApproveVersion(t) ==
  /\ Continue(t, "approve_version",
              [req[t] EXCEPT !.pc = "approve_add",
                 !.version = TopVersion(baselines, req[t].dataset) + 1])
  /\ UNCHANGED <<up, memory, tables, clock, crashes, history>>

ApproveAdd(t) ==
  /\ Finish(t, "approve_add")
  /\ baselines' = Append(baselines,
                    [dataset  |-> req[t].dataset,
                     run      |-> req[t].run,
                     version  |-> req[t].version,
                     snapshot |-> Snapshot(req[t].results)])
  /\ UNCHANGED <<up, memory, release_policies, gate_decisions, clock, crashes, history>>

(***************************************************************************)
(* POST /gate/policies: the handler builds the policy, which stamps its    *)
(* created_at, and then adds it.                                           *)
(***************************************************************************)
BuildPolicy(t, p) ==
  /\ Len(release_policies) + InFlight({"policy_add"}) < MaxPolicies
  /\ Begin(t, [Idle EXCEPT !.pc = "policy_add", !.draft = p, !.stamp = clock])
  /\ clock' = clock + 1
  /\ UNCHANGED <<up, memory, tables, crashes, history>>

AddPolicy(t) ==
  /\ Finish(t, "policy_add")
  /\ release_policies' =
       Append(release_policies, [policy |-> req[t].draft, created_at |-> req[t].stamp])
  /\ UNCHANGED <<up, memory, baselines, gate_decisions, clock, crashes, history>>

Evaluate(t) ==
  \/ \E r \in Runs, d \in Datasets, results \in Outcomes : AddRun(t, r, d, results)
  \/ SaveResults(t)

RunGate(t) ==
  \/ \E r \in Runs, wanted \in {None} \cup (0 .. Len(release_policies)) : GateRun(t, r, wanted)
  \/ GateResults(t) \/ GatePolicy(t) \/ GateBaseline(t) \/ GateAdd(t)

ApproveBaseline(t) ==
  \/ \E r \in Runs : ApproveRun(t, r)
  \/ ApproveResults(t) \/ ApproveVersion(t) \/ ApproveAdd(t)

CreatePolicy(t) == (\E p \in Policies : BuildPolicy(t, p)) \/ AddPolicy(t)

Next ==
  \/ Start \/ Crash
  \/ \E t \in Requests : Evaluate(t) \/ RunGate(t) \/ ApproveBaseline(t) \/ CreatePolicy(t)

Spec == Init /\ [][Next]_vars

-----------------------------------------------------------------------------
(***************************************************************************)
(* Baseline history has no holes: the versions of a dataset are 1, 2, ...  *)
(* up to the newest, although a version is chosen in one critical section  *)
(* and the row added in another, with other approvals and a crash between  *)
(* (BaselineRepository.approve).  They need not be distinct.               *)
(***************************************************************************)
VersionsContiguous ==
  \A d \in Datasets : VersionsOf(baselines, d) = 1 .. TopVersion(baselines, d)

(***************************************************************************)
(* The reference of a dataset only advances: once a baseline is the one    *)
(* future runs are compared with, only one of a higher version replaces    *)
(* it, however late a slower approval lands (get_latest_for_dataset).      *)
(***************************************************************************)
LatestOnlyAdvances ==
  [][\A d \in Datasets :
       LET before == Latest(baselines, d)
           after  == Latest(baselines', d)
       IN  after # before =>
             VersionAt(baselines', after) > VersionAt(baselines, before)]_vars

(***************************************************************************)
(* A gate call compares with a baseline of its own dataset that is at      *)
(* least as new as the newest one approved before the call came: an        *)
(* approval that was answered is never overlooked, across restarts and     *)
(* concurrent approvals (PolicyService.decide).                            *)
(***************************************************************************)
GateSeesApprovedBaselines ==
  \A t \in Requests : req[t].pc = "gate_add" =>
    /\ VersionAt(baselines, req[t].baseline) >= req[t].floor
    /\ req[t].baseline # 0 => baselines[req[t].baseline].dataset = req[t].dataset

(***************************************************************************)
(* A gate call or an approval of a run whose POST /runs had been answered  *)
(* works on that run's full case results, not on the empty list that       *)
(* stands for results not yet stored (_get_run_and_results against         *)
(* EvaluationService.run's two stores).                                    *)
(***************************************************************************)
SettledRunsAreComplete ==
  \A t \in Requests :
    /\ req[t].pc \in {"gate_policy", "gate_baseline", "gate_add",
                      "approve_version", "approve_add"}
    /\ req[t].settled
    => req[t].results = evaluated[req[t].run].results

(***************************************************************************)
(* The services implement the ledger.  A gate call or an approval is       *)
(* asked for when its run is found and takes effect when its row is added. *)
(***************************************************************************)
Pending(q) ==
  IF q.pc \in GateSteps \cup ApproveSteps
    THEN [kind |-> IF q.pc \in GateSteps THEN "gate" ELSE "approve", run |-> q.run,
          wanted |-> q.wanted, settled |-> q.settled, floor |-> q.floor]
    ELSE None

Ledger == INSTANCE ReleaseLedger WITH
  answered  <- returned,
  policies  <- [i \in DOMAIN release_policies |-> release_policies[i].policy],
  approved  <- baselines,
  decisions <- gate_decisions,
  pending   <- [t \in Requests |-> Pending(req[t])]

ImplementsLedger == Ledger!LedgerSpec

-----------------------------------------------------------------------------
(***************************************************************************)
(* BaselineRepository.approve: "Version assignment is the repository's     *)
(* job, not the caller's, so baseline history for a dataset is always      *)
(* unambiguous."  Two approvals at once can take the same version.         *)
(***************************************************************************)
VersionsUnambiguous ==
  \A i, j \in DOMAIN baselines :
    /\ baselines[i].dataset = baselines[j].dataset
    /\ baselines[i].version = baselines[j].version
    => i = j

(***************************************************************************)
(* run_gate: it "evaluates an already-completed evaluation run (POST       *)
(* /evaluations/runs first)".  Every decision about a run is the one that  *)
(* its case results give, under the policy and some baseline it names.     *)
(***************************************************************************)
DecisionsEvaluateTheRun ==
  \A i \in DOMAIN gate_decisions :
    LET decision == gate_decisions[i]
    IN  decision.verdict \in
          {decide(evaluated[decision.run].results,
                  release_policies[decision.policy].policy, base) :
             base \in {None} \cup {baselines[b].snapshot : b \in DOMAIN baselines}}
=============================================================================
