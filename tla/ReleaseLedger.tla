----------------------------- MODULE ReleaseLedger -----------------------------
(***************************************************************************)
(* What the release gate promises to its clients, without its repositories *)
(* and the order in which a handler calls them.                            *)
(*                                                                         *)
(* The ledger keeps runs, policies, baselines and decisions, and forgets   *)
(* none of them.  A gate call or an approval is asked for, and some time   *)
(* later takes effect in one step, or is lost.  What it is based on is at  *)
(* least as recent as what a client could know when it asked: the full     *)
(* results of a run whose evaluation had been answered by then (`settled`) *)
(* and a baseline that is no older than the newest one of that moment      *)
(* (`floor`).  How results are judged is the engine's business, and a      *)
(* parameter here.                                                         *)
(***************************************************************************)
EXTENDS Integers, Sequences

CONSTANTS
  Requests, Runs, Datasets, Outcomes, Policies,
  None,               \* no run, no baseline, nothing asked for
  NoResults,          \* the empty list of case results
  decide(_, _, _),    \* the verdict on results under a policy and a baseline
  Snapshot(_)         \* what an approval keeps of the results

VARIABLES
  evaluated,   \* the dataset and the case results of every run, or None
  answered,    \* the runs whose evaluation was answered
  policies,    \* the registered policies, oldest first
  approved,    \* the approved baselines, oldest first
  decisions,   \* the gate decisions, oldest first
  pending      \* what each request has asked for, or None

ledger == <<evaluated, answered, policies, approved, decisions, pending>>

VersionOf(b) == IF b = 0 THEN 0 ELSE approved[b].version

SnapshotOf(b) == IF b = 0 THEN None ELSE approved[b].snapshot

NewestVersion(d) ==
  LET versions == {0} \cup {approved[b].version : b \in {x \in DOMAIN approved :
                                                          approved[x].dataset = d}}
  IN  CHOOSE v \in versions : \A w \in versions : w <= v

\* The case results that the request may be based on, and the baselines.
ResultsFor(q) ==
  {evaluated[q.run].results} \cup (IF q.settled THEN {} ELSE {NoResults})

BaselinesFor(q) ==
  {b \in {0} \cup DOMAIN approved :
     /\ b # 0 => approved[b].dataset = evaluated[q.run].dataset
     /\ VersionOf(b) >= q.floor}

LedgerInit ==
  /\ evaluated = [r \in Runs |-> None]
  /\ answered = {}
  /\ policies = <<>> /\ approved = <<>> /\ decisions = <<>>
  /\ pending = [t \in Requests |-> None]

EvaluateRun(r) ==
  /\ evaluated[r] = None
  /\ \E d \in Datasets, results \in Outcomes :
       evaluated' = [evaluated EXCEPT ![r] = [dataset |-> d, results |-> results]]
  /\ UNCHANGED <<answered, policies, approved, decisions, pending>>

AnswerRun(r) ==
  /\ evaluated[r] # None
  /\ answered' = answered \cup {r}
  /\ UNCHANGED <<evaluated, policies, approved, decisions, pending>>

RegisterPolicy ==
  /\ \E p \in Policies : policies' = Append(policies, p)
  /\ UNCHANGED <<evaluated, answered, approved, decisions, pending>>

Ask(t) ==
  /\ pending[t] = None
  /\ \E r \in Runs, kind \in {"gate", "approve"}, wanted \in {None} \cup (0 .. Len(policies)) :
       /\ evaluated[r] # None
       /\ pending' = [pending EXCEPT ![t] =
            [kind |-> kind, run |-> r, wanted |-> wanted, settled |-> r \in answered,
             floor |-> NewestVersion(evaluated[r].dataset)]]
  /\ UNCHANGED <<evaluated, answered, policies, approved, decisions>>

(***************************************************************************)
(* The decision uses the policy that was asked for, or a registered one if *)
(* none was.                                                               *)
(***************************************************************************)
Decide(t) ==
  /\ pending[t] # None /\ pending[t].kind = "gate"
  /\ \E results \in ResultsFor(pending[t]), p \in DOMAIN policies,
        b \in BaselinesFor(pending[t]) :
       /\ pending[t].wanted \in {None, p}
       /\ decisions' = Append(decisions,
            [run |-> pending[t].run, policy |-> p, baseline_version |-> VersionOf(b),
             verdict |-> decide(results, policies[p], SnapshotOf(b))])
  /\ pending' = [pending EXCEPT ![t] = None]
  /\ UNCHANGED <<evaluated, answered, policies, approved>>

(***************************************************************************)
(* An approved baseline is newer than every one known when it was asked    *)
(* for, and skips no version.                                              *)
(***************************************************************************)
ApproveRun(t) ==
  /\ pending[t] # None /\ pending[t].kind = "approve"
  /\ LET q == pending[t]
         d == evaluated[q.run].dataset
     IN  \E results \in ResultsFor(q), v \in q.floor + 1 .. NewestVersion(d) + 1 :
           approved' = Append(approved,
             [dataset |-> d, run |-> q.run, version |-> v, snapshot |-> Snapshot(results)])
  /\ pending' = [pending EXCEPT ![t] = None]
  /\ UNCHANGED <<evaluated, answered, policies, decisions>>

\* A request for a policy nobody has is refused; a crash loses what is asked for.
Refuse(t) ==
  /\ pending[t] # None /\ pending[t].kind = "gate" /\ pending[t].wanted = 0
  /\ pending' = [pending EXCEPT ![t] = None]
  /\ UNCHANGED <<evaluated, answered, policies, approved, decisions>>

LoseAll ==
  /\ pending' = [t \in Requests |-> None]
  /\ UNCHANGED <<evaluated, answered, policies, approved, decisions>>

LedgerNext ==
  \/ \E r \in Runs : EvaluateRun(r) \/ AnswerRun(r)
  \/ RegisterPolicy \/ LoseAll
  \/ \E t \in Requests : Ask(t) \/ Decide(t) \/ ApproveRun(t) \/ Refuse(t)

LedgerSpec == LedgerInit /\ [][LedgerNext]_ledger
=============================================================================
