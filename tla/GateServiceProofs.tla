--------------------------- MODULE GateServiceProofs ---------------------------
(***************************************************************************)
(* Theorems about GateService, for any number of requests, runs, datasets, *)
(* outcomes and policies and for any bounds.                               *)
(*                                                                         *)
(* IInv is inductive.  Besides the types it says of every request which of *)
(* its local variables its program counter makes meaningful, and relates   *)
(* them to the tables: what a request has read stays true of the tables    *)
(* because rows are only ever appended.  RunsInv adds the stores of the    *)
(* process to it.                                                          *)
(*                                                                         *)
(* The last part takes the steps of the services one by one: each is a     *)
(* step of the ledger, or one it does not see.                             *)
(***************************************************************************)
EXTENDS GateService, FiniteSetTheorems, SequenceTheorems, TLAPS

-----------------------------------------------------------------------------
(***************************************************************************)
(* Lemmas about the operators of the tables.                               *)
(***************************************************************************)
\* Every nonempty set of naturals has a least element.
LEMMA LeastNatural ==
  ASSUME NEW S \in SUBSET Nat, S # {}
  PROVE  \E x \in S : \A y \in S : x <= y
<1> DEFINE Smaller == StrictSubsetOrdering(Nat)
           Segments == {0 .. x : x \in S}
<1>1. IsWellFoundedOn(Smaller, FiniteSubsetsOf(Nat))
  BY FS_StrictSubsetOrderingWellFounded
<1>2. Segments \subseteq FiniteSubsetsOf(Nat) /\ Segments # {}
  <2>1. ASSUME NEW x \in S
        PROVE  0 .. x \in FiniteSubsetsOf(Nat)
    <3>1. IsFiniteSet(0 .. x)
      BY FS_Interval
    <3> QED BY <3>1 DEF FiniteSubsetsOf
  <2> QED BY <2>1
<1>3. \E B \in Segments : \A C \in Segments : <<C, B>> \notin Smaller
  <2> HIDE DEF Smaller, Segments
  <2> QED BY <1>1, <1>2, WFMin
<1>4. PICK x \in S : \A y \in S : <<0 .. y, 0 .. x>> \notin Smaller
  BY <1>3
<1>5. ASSUME NEW y \in S, y < x
      PROVE  FALSE
  <2>1. 0 .. y \subseteq 0 .. x /\ x \in 0 .. x /\ x \notin 0 .. y
    BY <1>5
  <2>2. <<0 .. y, 0 .. x>> \in Smaller
    BY <2>1 DEF StrictSubsetOrdering
  <2> QED BY <1>4, <2>2
<1> QED BY <1>5

\* The active policy is a row of the table, if there is one.
LEMMA ActiveIsRow ==
  ASSUME NEW table \in Seq(PolicyRow)
  PROVE  Active(table) \in 0 .. Len(table)
<1> DEFINE newest == {i \in DOMAIN table :
                        \A j \in DOMAIN table : table[j].created_at <= table[i].created_at}
<1>1. CASE newest = {}
  BY <1>1 DEF Active
<1>2. CASE newest # {}
  <2>1. newest \in SUBSET (1 .. Len(table))
    OBVIOUS
  <2>2. \E i \in newest : \A j \in newest : i <= j
    <3> HIDE DEF newest
    <3> QED BY <1>2, <2>1, LeastNatural
  <2>3. Active(table) = CHOOSE i \in newest : \A j \in newest : i <= j
    BY <1>2 DEF Active
  <2>4. Active(table) \in newest
    <3> HIDE DEF newest
    <3> QED BY <2>2, <2>3
  <2> QED BY <2>1, <2>4
<1> QED BY <1>1, <1>2

\* The greatest of the versions 1 .. n is n.
LEMMA TopVersionIs ==
  ASSUME NEW table, NEW d, NEW n \in Nat, VersionsOf(table, d) = 1 .. n
  PROVE  TopVersion(table, d) = n
<1>1. CASE n = 0
  BY <1>1 DEF TopVersion
<1>2. CASE n # 0
  <2>1. n \in 1 .. n /\ \A w \in 1 .. n : w <= n
    BY <1>2
  <2>2. \A v \in 1 .. n : (\A w \in 1 .. n : w <= v) => v = n
    BY <2>1
  <2>3. TopVersion(table, d) = CHOOSE v \in 1 .. n : \A w \in 1 .. n : w <= v
    BY <2>1 DEF TopVersion
  <2> QED BY <2>1, <2>2, <2>3
<1> QED BY <1>1, <1>2

\* The latest baseline of a dataset is the first row of it with the greatest version.
LEMMA LatestIs ==
  ASSUME NEW table \in Seq(BaselineRow), NEW d, NEW n \in Nat,
         VersionsOf(table, d) = 1 .. n
  PROVE  /\ Latest(table, d) \in 0 .. Len(table)
         /\ VersionAt(table, Latest(table, d)) = n
         /\ (Latest(table, d) # 0 => table[Latest(table, d)].dataset = d)
         /\ (n # 0 => Latest(table, d) \in RowsOf(table, d))
         /\ (\A i \in RowsOf(table, d) : table[i].version = n => Latest(table, d) <= i)
<1> DEFINE top == {i \in RowsOf(table, d) : table[i].version = TopVersion(table, d)}
<1>1. TopVersion(table, d) = n
  BY TopVersionIs
<1>2. top \in SUBSET (1 .. Len(table))
  BY DEF RowsOf
<1>3. CASE n = 0
  <2>1. VersionsOf(table, d) = {}
    BY <1>3
  <2>2. RowsOf(table, d) = {}
    BY <2>1 DEF VersionsOf
  <2>3. Latest(table, d) = 0
    BY <2>2 DEF Latest
  <2> QED BY <1>3, <2>2, <2>3 DEF VersionAt
<1>4. CASE n # 0
  <2>1. n \in VersionsOf(table, d)
    BY <1>4
  <2>2. top # {}
    BY <1>1, <2>1 DEF VersionsOf
  <2>3. \E i \in top : \A j \in top : i <= j
    <3> HIDE DEF top
    <3> QED BY <1>2, <2>2, LeastNatural
  <2>4. Latest(table, d) = CHOOSE i \in top : \A j \in top : i <= j
    BY <2>2 DEF Latest
  <2>5. Latest(table, d) \in top /\ \A j \in top : Latest(table, d) <= j
    <3> HIDE DEF top
    <3> QED BY <2>3, <2>4
  <2>6. VersionAt(table, Latest(table, d)) = n
    BY <1>1, <1>2, <2>5 DEF VersionAt
  <2> QED BY <1>1, <1>2, <1>4, <2>5, <2>6 DEF RowsOf
<1> QED BY <1>3, <1>4

\* What a table is after a row has been added.
LEMMA Appended ==
  ASSUME NEW table \in Seq(BaselineRow), NEW row \in BaselineRow,
         NEW new, new = Append(table, row)
  PROVE  /\ DOMAIN new = 1 .. Len(table) + 1
         /\ DOMAIN table = 1 .. Len(table)
         /\ Len(table) \in Nat
         /\ \A i \in 1 .. Len(table) : new[i] = table[i]
         /\ new[Len(table) + 1] = row
BY AppendProperties, LenProperties

\* What adding a baseline does to the rows of each dataset.
LEMMA RowsAfterAppend ==
  ASSUME NEW table \in Seq(BaselineRow), NEW row \in BaselineRow, NEW d
  PROVE  RowsOf(Append(table, row), d) =
           RowsOf(table, d) \cup (IF row.dataset = d THEN {Len(table) + 1} ELSE {})
<1> DEFINE new == Append(table, row)
<1>1. /\ DOMAIN new = 1 .. Len(table) + 1
      /\ DOMAIN table = 1 .. Len(table)
      /\ Len(table) \in Nat
      /\ \A i \in 1 .. Len(table) : new[i] = table[i]
      /\ new[Len(table) + 1] = row
  BY Appended
<1> HIDE DEF new
<1>2. RowsOf(new, d) =
        RowsOf(table, d) \cup (IF row.dataset = d THEN {Len(table) + 1} ELSE {})
  BY <1>1 DEF RowsOf
<1> QED BY <1>2 DEF new

\* The rows that were there stay as they were.
LEMMA RowsKept ==
  ASSUME NEW table \in Seq(BaselineRow), NEW row \in BaselineRow, NEW d
  PROVE  \A i \in RowsOf(table, d) : Append(table, row)[i] = table[i]
<1>1. \A i \in 1 .. Len(table) : Append(table, row)[i] = table[i]
  BY Appended
<1> QED BY <1>1 DEF RowsOf

\* What adding a baseline does to the versions of each dataset.
LEMMA VersionsAfterAppend ==
  ASSUME NEW table \in Seq(BaselineRow), NEW row \in BaselineRow, NEW d
  PROVE  VersionsOf(Append(table, row), d) =
           VersionsOf(table, d) \cup (IF row.dataset = d THEN {row.version} ELSE {})
<1> DEFINE new == Append(table, row)
<1>1. RowsOf(new, d) =
        RowsOf(table, d) \cup (IF row.dataset = d THEN {Len(table) + 1} ELSE {})
  BY RowsAfterAppend
<1>2. \A i \in RowsOf(table, d) : new[i] = table[i]
  BY RowsKept
<1>3. new[Len(table) + 1] = row
  BY Appended
<1> HIDE DEF new
<1>4. VersionsOf(new, d) =
        VersionsOf(table, d) \cup (IF row.dataset = d THEN {row.version} ELSE {})
  BY <1>1, <1>2, <1>3 DEF VersionsOf
<1> QED BY <1>4 DEF new

-----------------------------------------------------------------------------
(***************************************************************************)
(* The inductive invariant.                                                *)
(***************************************************************************)
\* What the program counter of request q makes of its local variables.
LocalsOK(q) ==
  /\ q.pc = "eval_save" => q.run \in Runs /\ q.results \in Outcomes
  /\ q.pc = "policy_add" => q.draft \in Policies
  /\ q.pc \in GateSteps \cup ApproveSteps => q.run \in Runs /\ q.dataset \in Datasets

\* The policy a gate call has resolved is registered, and the one it was asked to use if any.
PolicyResolved(q, policies) ==
  /\ q.wanted \in {None} \cup 0 .. Len(policies)
  /\ q.pc \in {"gate_baseline", "gate_add"} =>
       q.policy \in 1 .. Len(policies) /\ q.wanted \in {None, q.policy}

\* The newest version a request found is not above the newest one there is.
FloorKept(q, table) ==
  q.pc \in GateSteps \cup ApproveSteps => q.floor <= TopVersion(table, q.dataset)

\* The version an approval has taken leaves no hole, and is newer than all that it found.
VersionTaken(q, table) ==
  q.pc = "approve_add" =>
    q.version \in 1 .. TopVersion(table, q.dataset) + 1 /\ q.version > q.floor

\* The baseline a gate call has read is one it must not overlook.
ReferenceRead(q, table) ==
  q.pc = "gate_add" =>
    /\ q.baseline \in 0 .. Len(table)
    /\ VersionAt(table, q.baseline) >= q.floor
    /\ (q.baseline # 0 => table[q.baseline].dataset = q.dataset)

RequestOK(q, policies, table) ==
  /\ LocalsOK(q) /\ PolicyResolved(q, policies)
  /\ FloorKept(q, table) /\ VersionTaken(q, table) /\ ReferenceRead(q, table)

\* The versions of every dataset are 1 .. n for some n.
Contiguous(table) == \A d \in Datasets : \E n \in Nat : VersionsOf(table, d) = 1 .. n

IInv ==
  /\ TypeOK
  /\ Contiguous(baselines)
  /\ \A t \in Requests : RequestOK(req[t], release_policies, baselines)

LEMMA IdleOK ==
  ASSUME NEW policies, NEW table
  PROVE  Idle \in Request /\ RequestOK(Idle, policies, table)
<1>1. Idle \in Request
  BY DEF Idle, Request, Step
<1>2. RequestOK(Idle, policies, table)
  BY DEF RequestOK, LocalsOK, PolicyResolved, FloorKept, VersionTaken, ReferenceRead,
         Idle, GateSteps, ApproveSteps
<1> QED BY <1>1, <1>2

\* One request goes on, the tables being those named.
LEMMA OneRequest ==
  ASSUME NEW t \in Requests, NEW q \in Request, TypeOK, req' = [req EXCEPT ![t] = q],
         \A u \in Requests : RequestOK(req[u], release_policies', baselines'),
         RequestOK(q, release_policies', baselines')
  PROVE  /\ req' \in [Requests -> Request]
         /\ \A u \in Requests : RequestOK(req'[u], release_policies', baselines')
BY DEF TypeOK

\* Registering a policy invalidates nothing a request has read.
LEMMA PolicyAppended ==
  ASSUME NEW q, NEW policies \in Seq(PolicyRow), NEW row \in PolicyRow, NEW table,
         RequestOK(q, policies, table)
  PROVE  RequestOK(q, Append(policies, row), table)
<1>1. Len(Append(policies, row)) = Len(policies) + 1 /\ Len(policies) \in Nat
  BY AppendProperties, LenProperties
<1> QED BY <1>1 DEF RequestOK, PolicyResolved

\* Nor does approving a baseline whose version is at most the next one.
LEMMA BaselineAppended ==
  ASSUME NEW table \in Seq(BaselineRow), NEW row \in BaselineRow, Contiguous(table),
         row.version <= TopVersion(table, row.dataset) + 1
  PROVE  /\ Contiguous(Append(table, row))
         /\ \A d \in Datasets : /\ TopVersion(table, d) \in Nat
                                 /\ TopVersion(Append(table, row), d) \in Nat
                                 /\ TopVersion(table, d) <= TopVersion(Append(table, row), d)
         /\ \A policies : \A q \in Request :
              RequestOK(q, policies, table) => RequestOK(q, policies, Append(table, row))
<1> DEFINE new == Append(table, row)
<1>1. ASSUME NEW d \in Datasets
      PROVE  \E n, m \in Nat : /\ VersionsOf(table, d) = 1 .. n
                               /\ VersionsOf(new, d) = 1 .. m
                               /\ n <= m
  <2>1. PICK n \in Nat : VersionsOf(table, d) = 1 .. n
    BY DEF Contiguous
  <2>2. TopVersion(table, d) = n
    BY <2>1, TopVersionIs
  <2>3. VersionsOf(new, d) =
          VersionsOf(table, d) \cup (IF row.dataset = d THEN {row.version} ELSE {})
    BY VersionsAfterAppend
  <2> HIDE DEF new
  <2>4. row.version \in Nat \ {0}
    BY DEF BaselineRow
  <2>5. CASE row.dataset = d /\ row.version = n + 1
    <3>1. VersionsOf(new, d) = 1 .. n + 1
      BY <2>1, <2>3, <2>5
    <3>2. n + 1 \in Nat /\ n <= n + 1
      OBVIOUS
    <3> QED BY <2>1, <3>1, <3>2
  <2>6. CASE row.dataset # d \/ row.version <= n
    <3>1. VersionsOf(new, d) = 1 .. n
      BY <2>1, <2>3, <2>4, <2>6
    <3>2. n <= n
      OBVIOUS
    <3> QED BY <2>1, <3>1, <3>2
  <2> QED BY <2>2, <2>4, <2>5, <2>6
<1> HIDE DEF new
<1>2. Contiguous(new)
  BY <1>1 DEF Contiguous
<1>3. ASSUME NEW d \in Datasets
      PROVE  /\ TopVersion(table, d) \in Nat
             /\ TopVersion(new, d) \in Nat
             /\ TopVersion(table, d) <= TopVersion(new, d)
  <2>1. PICK n, m \in Nat : /\ VersionsOf(table, d) = 1 .. n
                            /\ VersionsOf(new, d) = 1 .. m
                            /\ n <= m
    BY <1>1
  <2>2. TopVersion(table, d) = n /\ TopVersion(new, d) = m
    BY <2>1, TopVersionIs
  <2> QED BY <2>1, <2>2
<1>4. ASSUME NEW q \in Request, NEW policies, RequestOK(q, policies, table)
      PROVE  RequestOK(q, policies, new)
  <2>1. /\ Len(table) \in Nat /\ Len(new) = Len(table) + 1
        /\ \A i \in 1 .. Len(table) : new[i] = table[i]
    BY AppendProperties, LenProperties DEF new
  <2>2. q.floor \in Nat /\ q.version \in Nat
    BY DEF Request
  <2>3. q.pc \in GateSteps \cup ApproveSteps => q.dataset \in Datasets
    BY <1>4 DEF RequestOK, LocalsOK
  <2>4. FloorKept(q, new)
    BY <1>3, <1>4, <2>2, <2>3 DEF RequestOK, FloorKept
  <2>5. VersionTaken(q, new)
    BY <1>3, <1>4, <2>2, <2>3 DEF RequestOK, VersionTaken, ApproveSteps
  <2>6. ReferenceRead(q, new)
    BY <1>4, <2>1 DEF RequestOK, ReferenceRead, VersionAt
  <2> QED BY <1>4, <2>4, <2>5, <2>6 DEF RequestOK
<1> QED BY <1>2, <1>3, <1>4 DEF new

THEOREM InitIInv == Init => IInv
<1> SUFFICES ASSUME Init PROVE IInv
  OBVIOUS
<1> USE DEF Init
<1>1. TypeOK
  <2>1. <<>> \in Seq(PolicyRow) /\ <<>> \in Seq(BaselineRow) /\ <<>> \in Seq(DecisionRow)
    OBVIOUS
  <2>2. req \in [Requests -> Request]
    BY IdleOK
  <2> QED BY <2>1, <2>2 DEF TypeOK
<1>2. Contiguous(baselines)
  <2>1. \A d \in Datasets : VersionsOf(baselines, d) = 1 .. 0
    BY DEF VersionsOf, RowsOf
  <2> QED BY <2>1 DEF Contiguous
<1>3. \A t \in Requests : RequestOK(req[t], release_policies, baselines)
  BY IdleOK
<1> QED BY <1>1, <1>2, <1>3 DEF IInv

-----------------------------------------------------------------------------
(***************************************************************************)
(* Every step preserves IInv: one lemma for each group of actions that     *)
(* disturb the same part of it.                                            *)
(***************************************************************************)
\* A step of one request that leaves the three tables alone.
LEMMA LocalStep ==
  ASSUME NEW t \in Requests, NEW q \in Request, IInv, req' = [req EXCEPT ![t] = q],
         UNCHANGED tables, RequestOK(q, release_policies, baselines)
  PROVE  /\ req' \in [Requests -> Request]
         /\ release_policies' \in Seq(PolicyRow)
         /\ baselines' \in Seq(BaselineRow)
         /\ gate_decisions' \in Seq(DecisionRow)
         /\ Contiguous(baselines')
         /\ \A u \in Requests : RequestOK(req'[u], release_policies', baselines')
BY OneRequest DEF IInv, TypeOK, tables

\* What IInv says of a request, with the types of its fields.
LEMMA RequestFacts ==
  ASSUME IInv, NEW t \in Requests
  PROVE  req[t] \in Request /\ RequestOK(req[t], release_policies, baselines)
BY DEF IInv, TypeOK

\* Under IInv the newest version of a dataset is a natural number.
LEMMA TopVersionNat ==
  ASSUME IInv, NEW d \in Datasets
  PROVE  TopVersion(baselines, d) \in Nat
<1>1. PICK n \in Nat : VersionsOf(baselines, d) = 1 .. n
  BY DEF IInv, Contiguous
<1> QED BY <1>1, TopVersionIs

LEMMA StartIInv == IInv /\ Start => IInv'
<1> SUFFICES ASSUME IInv, Start PROVE IInv'
  OBVIOUS
<1>1. CASE Active(release_policies) = 0
  <2> DEFINE row == [policy |-> DefaultPolicy, created_at |-> clock]
  <2>1. release_policies' = Append(release_policies, row) /\ clock' = clock + 1
    BY <1>1 DEF Start
  <2>2. row \in PolicyRow
    BY GateAssumption DEF IInv, TypeOK, PolicyRow
  <2>3. TypeOK'
    <3>1. release_policies' \in Seq(PolicyRow)
      BY <2>1, <2>2, AppendProperties DEF IInv, TypeOK
    <3> QED BY <2>1, <3>1 DEF IInv, TypeOK, Start, memory, history
  <2>4. \A t \in Requests : RequestOK(req[t], release_policies', baselines)
    <3> HIDE DEF row
    <3> QED BY <2>1, <2>2, PolicyAppended DEF IInv, TypeOK
  <2> QED BY <2>3, <2>4 DEF IInv, Start
<1>2. CASE Active(release_policies) # 0
  BY <1>2 DEF IInv, TypeOK, Start, memory, history
<1> QED BY <1>1, <1>2

LEMMA CrashIInv == IInv /\ Crash => IInv'
<1> SUFFICES ASSUME IInv, Crash PROVE IInv'
  OBVIOUS
<1>1. TypeOK'
  <2>1. Idle \in Request
    BY IdleOK
  <2>2. req' \in [Requests -> Request]
    BY <2>1 DEF Crash
  <2>3. /\ run_repository' \in [Runs -> Datasets \cup {None}]
        /\ case_result_store' \in [Runs -> Outcomes \cup {None}]
    BY DEF Crash
  <2>4. up' \in BOOLEAN
    BY DEF Crash
  <2>5. crashes' \in Nat
    BY DEF IInv, TypeOK, Crash
  <2>6. /\ UNCHANGED <<release_policies, baselines, gate_decisions>>
        /\ UNCHANGED <<clock, evaluated, returned>>
    BY DEF Crash, tables, history
  <2> QED BY <2>2, <2>3, <2>4, <2>5, <2>6 DEF IInv, TypeOK
<1>2. \A t \in Requests : RequestOK(req'[t], release_policies', baselines')
  BY IdleOK DEF Crash
<1> QED BY <1>1, <1>2 DEF IInv, Crash, tables

LEMMA EvaluateIInv == ASSUME NEW t \in Requests, IInv, Evaluate(t) PROVE IInv'
<1>1. ASSUME NEW r \in Runs, NEW d \in Datasets, NEW results \in Outcomes,
             AddRun(t, r, d, results)
      PROVE  IInv'
  <2> DEFINE q == [Idle EXCEPT !.pc = "eval_save", !.run = r, !.results = results]
  <2>1. q \in Request /\ RequestOK(q, release_policies, baselines)
    BY DEF Idle, Request, Step, GateSteps, ApproveSteps, RequestOK, LocalsOK,
           PolicyResolved, FloorKept, VersionTaken, ReferenceRead
  <2>2. req' = [req EXCEPT ![t] = q]
    BY <1>1 DEF AddRun, Begin
  <2>3. UNCHANGED tables
    BY <1>1 DEF AddRun
  <2> HIDE DEF q
  <2>4. TypeOK'
    BY <1>1, <2>1, <2>2, <2>3, LocalStep DEF IInv, TypeOK, AddRun, Begin
  <2> QED BY <2>1, <2>2, <2>3, <2>4, LocalStep DEF IInv
<1>2. CASE SaveResults(t)
  <2>1. Idle \in Request /\ RequestOK(Idle, release_policies, baselines)
    BY IdleOK
  <2>2. req' = [req EXCEPT ![t] = Idle]
    BY <1>2 DEF SaveResults, Finish, Continue
  <2>3. UNCHANGED tables
    BY <1>2 DEF SaveResults
  <2>4. req[t].run \in Runs /\ req[t].results \in Outcomes
    BY <1>2, RequestFacts DEF SaveResults, Finish, Continue, RequestOK, LocalsOK
  <2>5. TypeOK'
    BY <1>2, <2>1, <2>2, <2>3, <2>4, LocalStep
       DEF IInv, TypeOK, SaveResults, Finish, Continue
  <2> QED BY <2>1, <2>2, <2>3, <2>5, LocalStep DEF IInv
<1> QED BY <1>1, <1>2 DEF Evaluate

\* A request that only reads: it moves on to q.
LEMMA ReadStep ==
  ASSUME NEW t \in Requests, NEW q \in Request, IInv, req' = [req EXCEPT ![t] = q],
         UNCHANGED <<up, memory, tables, clock, crashes, history>>,
         RequestOK(q, release_policies, baselines)
  PROVE  IInv'
<1>1. UNCHANGED tables
  OBVIOUS
<1>2. TypeOK'
  BY <1>1, LocalStep DEF IInv, TypeOK, memory, history
<1> QED BY <1>1, <1>2, LocalStep DEF IInv

\* A request q whose run, of dataset d, has just been found.
LEMMA FoundOK ==
  ASSUME NEW first \in {"gate_results", "approve_results"}, NEW r \in Runs,
         NEW d \in Datasets, NEW wanted \in {None} \cup 0 .. Len(release_policies),
         NEW floor, floor = TopVersion(baselines, d), NEW settled, settled \in BOOLEAN,
         NEW q, q = [Idle EXCEPT !.pc = first, !.run = r, !.dataset = d,
                                 !.wanted = wanted, !.settled = settled, !.floor = floor],
         IInv
  PROVE  q \in Request /\ RequestOK(q, release_policies, baselines)
<1>1. Len(release_policies) \in Nat
  BY LenProperties DEF IInv, TypeOK
<1>2. wanted \in Nat \cup {None} /\ first \in Step
  BY <1>1 DEF Step, GateSteps, ApproveSteps
<1>3. floor \in Nat
  BY TopVersionNat
<1>4. q = [pc |-> first, run |-> r, dataset |-> d, results |-> NoResults,
           wanted |-> wanted, policy |-> 0, baseline |-> 0, version |-> 0,
           draft |-> None, stamp |-> 0, floor |-> floor, settled |-> settled]
  BY DEF Idle
<1>5. q \in Request
  BY <1>2, <1>3, <1>4 DEF Request
<1>6. RequestOK(q, release_policies, baselines)
  BY <1>1, <1>3, <1>4 DEF GateSteps, ApproveSteps, RequestOK, LocalsOK,
     PolicyResolved, FloorKept, VersionTaken, ReferenceRead
<1> QED BY <1>5, <1>6

\* _get_run_and_results preserves IInv, for a gate call and for an approval.
LEMMA FindRunIInv ==
  ASSUME NEW t \in Requests, NEW r \in Runs,
         NEW wanted \in {None} \cup 0 .. Len(release_policies),
         NEW first \in {"gate_results", "approve_results"},
         IInv, FindRun(t, r, wanted, first)
  PROVE  IInv'
<1>1. PICK q : /\ req' = [req EXCEPT ![t] = q]
               /\ q = [Idle EXCEPT !.pc = first, !.run = r, !.dataset = run_repository[r],
                                   !.wanted = wanted, !.settled = r \in returned,
                                   !.floor = TopVersion(baselines, run_repository[r])]
  BY Zenon DEF FindRun, Begin
<1>2. UNCHANGED <<up, memory, tables, clock, crashes, history>>
  BY DEF FindRun
<1>3. run_repository[r] \in Datasets
  BY DEF FindRun, IInv, TypeOK
<1>4. (r \in returned) \in BOOLEAN
  OBVIOUS
<1>5. q \in Request /\ RequestOK(q, release_policies, baselines)
  BY <1>1, <1>3, <1>4, FoundOK, Zenon
<1> QED BY <1>1, <1>2, <1>5, ReadStep

\* The second read of _get_run_and_results likewise.
LEMMA ReadResultsIInv ==
  ASSUME NEW t \in Requests, NEW from, NEW to, IInv, ReadResults(t, from, to),
         \/ from = "gate_results" /\ to = "gate_policy"
         \/ from = "approve_results" /\ to = "approve_version"
  PROVE  IInv'
<1> DEFINE q == [req[t] EXCEPT !.pc = to, !.results = StoredResults(req[t].run)]
<1>1. req[t] \in Request /\ RequestOK(req[t], release_policies, baselines)
  BY RequestFacts
<1>2. req[t].pc = from
  BY DEF ReadResults, Continue
<1>3. req[t].run \in Runs
  BY <1>1, <1>2 DEF RequestOK, LocalsOK, GateSteps, ApproveSteps
<1>4. StoredResults(req[t].run) \in Outcomes \cup {NoResults}
  BY <1>3 DEF StoredResults, IInv, TypeOK
<1>5. req' = [req EXCEPT ![t] = q] /\ UNCHANGED <<up, memory, tables, clock, crashes, history>>
  BY DEF ReadResults, Continue
<1>6. q \in Request
  BY <1>1, <1>4 DEF Request, Step, GateSteps, ApproveSteps
<1>7. RequestOK(q, release_policies, baselines)
  BY <1>1, <1>2 DEF Request, GateSteps, ApproveSteps, RequestOK, LocalsOK,
     PolicyResolved, FloorKept, VersionTaken, ReferenceRead
<1> HIDE DEF q
<1> QED BY <1>5, <1>6, <1>7, ReadStep

LEMMA GatePolicyIInv == ASSUME NEW t \in Requests, IInv, GatePolicy(t) PROVE IInv'
<1> DEFINE policy == ResolvedPolicy(req[t].wanted)
           q == [req[t] EXCEPT !.pc = "gate_baseline", !.policy = policy]
<1>1. req[t] \in Request /\ RequestOK(req[t], release_policies, baselines)
  BY RequestFacts
<1>2. req[t].pc = "gate_policy" /\ UNCHANGED <<up, memory, tables, clock, crashes, history>>
  BY DEF GatePolicy, Continue
<1>3. req' = [req EXCEPT ![t] = IF policy = 0 THEN Idle ELSE q]
  BY DEF GatePolicy, Continue
<1>4. release_policies \in Seq(PolicyRow) /\ Len(release_policies) \in Nat
  BY LenProperties DEF IInv, TypeOK
<1>5. policy \in 0 .. Len(release_policies) /\ req[t].wanted \in {None, policy}
  BY <1>1, <1>4, ActiveIsRow DEF ResolvedPolicy, RequestOK, PolicyResolved
<1> HIDE DEF policy
<1>6. CASE policy = 0
  BY <1>2, <1>3, <1>6, IdleOK, ReadStep
<1>7. CASE policy # 0
  <2>1. q \in Request
    <3>1. policy \in Nat /\ "gate_baseline" \in Step
      BY <1>4, <1>5 DEF Step, GateSteps
    <3> QED BY <1>1, <3>1 DEF Request
  <2>2. RequestOK(q, release_policies, baselines)
    BY <1>1, <1>2, <1>4, <1>5, <1>7 DEF Request, GateSteps, ApproveSteps, RequestOK,
       LocalsOK, PolicyResolved, FloorKept, VersionTaken, ReferenceRead
  <2> HIDE DEF q
  <2> QED BY <1>2, <1>3, <1>7, <2>1, <2>2, ReadStep
<1> QED BY <1>6, <1>7

LEMMA GateBaselineIInv == ASSUME NEW t \in Requests, IInv, GateBaseline(t) PROVE IInv'
<1> DEFINE d == req[t].dataset
           latest == Latest(baselines, d)
           q == [req[t] EXCEPT !.pc = "gate_add", !.baseline = latest]
<1>1. req[t] \in Request /\ RequestOK(req[t], release_policies, baselines)
  BY RequestFacts
<1>2. req[t].pc = "gate_baseline" /\ UNCHANGED <<up, memory, tables, clock, crashes, history>>
  BY DEF GateBaseline, Continue
<1>3. req' = [req EXCEPT ![t] = q]
  BY DEF GateBaseline, Continue
<1>4. d \in Datasets /\ baselines \in Seq(BaselineRow) /\ Len(baselines) \in Nat
  BY <1>1, <1>2, LenProperties DEF RequestOK, LocalsOK, GateSteps, IInv, TypeOK
<1>5. PICK n \in Nat : VersionsOf(baselines, d) = 1 .. n
  BY <1>4 DEF IInv, Contiguous
<1>6. /\ latest \in 0 .. Len(baselines)
      /\ VersionAt(baselines, latest) = n
      /\ latest # 0 => baselines[latest].dataset = d
  BY <1>4, <1>5, LatestIs
<1>7. req[t].floor <= n
  BY <1>1, <1>2, <1>5, TopVersionIs DEF RequestOK, FloorKept, GateSteps
<1> HIDE DEF latest
<1>8. q \in Request
  <2>1. latest \in Nat /\ "gate_add" \in Step
    BY <1>4, <1>6 DEF Step, GateSteps
  <2> QED BY <1>1, <2>1 DEF Request
<1>9. RequestOK(q, release_policies, baselines)
  <2>1. /\ q.pc = "gate_add" /\ q.run = req[t].run /\ q.dataset = d
        /\ q.wanted = req[t].wanted /\ q.policy = req[t].policy
        /\ q.floor = req[t].floor /\ q.baseline = latest
    BY <1>1 DEF Request
  <2>2. req[t].floor \in Nat
    BY <1>1 DEF Request
  <2> HIDE DEF q
  <2>3. LocalsOK(q) /\ PolicyResolved(q, release_policies)
    BY <1>1, <1>2, <2>1 DEF RequestOK, LocalsOK, PolicyResolved, GateSteps
  <2>4. FloorKept(q, baselines) /\ VersionTaken(q, baselines)
    BY <1>1, <1>2, <2>1 DEF RequestOK, FloorKept, VersionTaken, GateSteps
  <2>5. ReferenceRead(q, baselines)
    BY <1>6, <1>7, <2>1, <2>2 DEF ReferenceRead
  <2> QED BY <2>3, <2>4, <2>5 DEF RequestOK
<1> HIDE DEF q
<1> QED BY <1>2, <1>3, <1>8, <1>9, ReadStep

\* The decision a gate call writes down is a row of the table of decisions.
LEMMA DecisionIsRow ==
  ASSUME IInv, NEW t \in Requests, req[t].pc = "gate_add"
  PROVE  Decision(req[t]) \in DecisionRow
<1> DEFINE q == req[t]
           base == SnapshotAt(baselines, q.baseline)
           policy == release_policies[q.policy].policy
<1>1. q \in Request /\ RequestOK(q, release_policies, baselines)
  BY RequestFacts
<1>2. /\ release_policies \in Seq(PolicyRow) /\ Len(release_policies) \in Nat
      /\ baselines \in Seq(BaselineRow) /\ Len(baselines) \in Nat
  BY LenProperties DEF IInv, TypeOK
<1>3. q.run \in Runs /\ q.policy \in Nat /\ q.results \in Outcomes \cup {NoResults}
  BY <1>1 DEF Request, RequestOK, LocalsOK, GateSteps
<1>4. policy \in Policies
  <2>1. release_policies[q.policy] \in PolicyRow
    BY <1>1, <1>2, ElementOfSeq DEF RequestOK, PolicyResolved
  <2> QED BY <2>1 DEF PolicyRow
<1>5. VersionAt(baselines, q.baseline) \in Nat /\ base \in Snapshots \cup {None}
  <2>1. q.baseline \in 0 .. Len(baselines)
    BY <1>1 DEF RequestOK, ReferenceRead
  <2>2. q.baseline # 0 => baselines[q.baseline] \in BaselineRow
    BY <1>2, <2>1, ElementOfSeq
  <2> QED BY <2>2 DEF VersionAt, SnapshotAt, BaselineRow
<1>6. decide(q.results, policy, base) \in Verdicts
  <2> HIDE DEF policy, base
  <2> QED BY <1>3, <1>4, <1>5 DEF Verdicts
<1> QED BY <1>3, <1>5, <1>6 DEF Decision, DecisionRow

LEMMA GateAddIInv == ASSUME NEW t \in Requests, IInv, GateAdd(t) PROVE IInv'
<1>1. /\ req' = [req EXCEPT ![t] = Idle] /\ req[t].pc = "gate_add"
      /\ gate_decisions' = Append(gate_decisions, Decision(req[t]))
      /\ UNCHANGED <<release_policies, baselines, up, clock, crashes>>
      /\ UNCHANGED <<run_repository, case_result_store, evaluated, returned>>
  BY DEF GateAdd, Finish, Continue, memory, history
<1>2. /\ req' \in [Requests -> Request]
      /\ \A u \in Requests : RequestOK(req'[u], release_policies', baselines')
  BY <1>1, IdleOK, OneRequest DEF IInv
<1>3. gate_decisions' \in Seq(DecisionRow)
  BY <1>1, DecisionIsRow, AppendProperties DEF IInv, TypeOK
<1>4. TypeOK'
  BY <1>1, <1>2, <1>3 DEF IInv, TypeOK
<1> QED BY <1>1, <1>2, <1>4 DEF IInv

LEMMA ApproveVersionIInv == ASSUME NEW t \in Requests, IInv, ApproveVersion(t) PROVE IInv'
<1> DEFINE d == req[t].dataset
           next == TopVersion(baselines, d) + 1
           q == [req[t] EXCEPT !.pc = "approve_add", !.version = next]
<1>1. req[t] \in Request /\ RequestOK(req[t], release_policies, baselines)
  BY RequestFacts
<1>2. /\ req[t].pc = "approve_version"
      /\ UNCHANGED <<up, memory, tables, clock, crashes, history>>
  BY DEF ApproveVersion, Continue
<1>3. req' = [req EXCEPT ![t] = q]
  BY DEF ApproveVersion, Continue
<1>4. d \in Datasets
  BY <1>1, <1>2 DEF RequestOK, LocalsOK, ApproveSteps
<1>5. TopVersion(baselines, d) \in Nat
  BY <1>4, TopVersionNat
<1>6. q \in Request
  <2>1. next \in Nat /\ "approve_add" \in Step
    BY <1>5 DEF Step, ApproveSteps
  <2> HIDE DEF next
  <2> QED BY <1>1, <2>1 DEF Request
<1>7. RequestOK(q, release_policies, baselines)
  <2>1. next \in 1 .. TopVersion(baselines, d) + 1
    BY <1>5
  <2> HIDE DEF next
  <2>2. /\ q.pc = "approve_add" /\ q.run = req[t].run /\ q.dataset = d
        /\ q.wanted = req[t].wanted /\ q.policy = req[t].policy
        /\ q.floor = req[t].floor /\ q.version = next
    BY <1>1 DEF Request
  <2> HIDE DEF q
  <2>3. LocalsOK(q) /\ PolicyResolved(q, release_policies)
    BY <1>1, <1>2, <2>2 DEF RequestOK, LocalsOK, PolicyResolved, ApproveSteps
  <2>4. FloorKept(q, baselines)
    BY <1>1, <1>2, <2>2 DEF RequestOK, FloorKept, ApproveSteps
  <2>5. next > req[t].floor
    <3>1. req[t].floor <= TopVersion(baselines, d) /\ req[t].floor \in Nat
      BY <1>1, <1>2 DEF RequestOK, FloorKept, ApproveSteps, Request
    <3> QED BY <1>5, <3>1 DEF next
  <2>6. VersionTaken(q, baselines) /\ ReferenceRead(q, baselines)
    BY <2>1, <2>2, <2>5 DEF VersionTaken, ReferenceRead
  <2> QED BY <2>3, <2>4, <2>6 DEF RequestOK
<1> HIDE DEF q
<1> QED BY <1>2, <1>3, <1>6, <1>7, ReadStep

\* The baseline an approval adds leaves no hole in the dataset's history.
LEMMA ApprovedRow ==
  ASSUME NEW t \in Requests, IInv, ApproveAdd(t)
  PROVE  \E row \in BaselineRow :
           /\ row.version <= TopVersion(baselines, row.dataset) + 1
           /\ baselines' = Append(baselines, row)
<1> DEFINE q == req[t]
           row == [dataset |-> q.dataset, run |-> q.run, version |-> q.version,
                   snapshot |-> Snapshot(q.results)]
<1>1. q.pc = "approve_add" /\ baselines' = Append(baselines, row)
  BY DEF ApproveAdd, Finish, Continue
<1>2. q \in Request /\ RequestOK(q, release_policies, baselines)
  BY RequestFacts
<1>3. q.dataset \in Datasets /\ q.run \in Runs
  BY <1>1, <1>2 DEF RequestOK, LocalsOK, ApproveSteps
<1>4. TopVersion(baselines, q.dataset) \in Nat
  BY <1>3, TopVersionNat
<1>5. q.version \in Nat \ {0} /\ q.version <= TopVersion(baselines, q.dataset) + 1
  BY <1>1, <1>2, <1>4 DEF RequestOK, VersionTaken
<1>6. Snapshot(q.results) \in Snapshots
  BY <1>2 DEF Request, Snapshots
<1>7. row \in BaselineRow
  BY <1>3, <1>5, <1>6 DEF BaselineRow
<1>8. row.dataset = q.dataset /\ row.version = q.version
  OBVIOUS
<1> HIDE DEF row
<1> QED BY <1>1, <1>5, <1>7, <1>8

LEMMA ApproveAddIInv == ASSUME NEW t \in Requests, IInv, ApproveAdd(t) PROVE IInv'
<1>1. /\ req' = [req EXCEPT ![t] = Idle]
      /\ UNCHANGED <<release_policies, gate_decisions, up, clock, crashes>>
      /\ UNCHANGED <<run_repository, case_result_store, evaluated, returned>>
  BY DEF ApproveAdd, Finish, Continue, memory, history
<1>2. PICK row \in BaselineRow : /\ row.version <= TopVersion(baselines, row.dataset) + 1
                                 /\ baselines' = Append(baselines, row)
  BY ApprovedRow
<1>3. /\ Contiguous(baselines')
      /\ \A u \in Requests : RequestOK(req[u], release_policies, baselines')
  BY <1>2, BaselineAppended DEF IInv, TypeOK
<1>4. /\ req' \in [Requests -> Request]
      /\ \A u \in Requests : RequestOK(req'[u], release_policies', baselines')
  BY <1>1, <1>3, IdleOK, OneRequest DEF IInv
<1>5. baselines' \in Seq(BaselineRow)
  BY <1>2, AppendProperties DEF IInv, TypeOK
<1>6. TypeOK'
  BY <1>1, <1>4, <1>5 DEF IInv, TypeOK
<1> QED BY <1>3, <1>4, <1>6 DEF IInv

LEMMA CreatePolicyIInv == ASSUME NEW t \in Requests, IInv, CreatePolicy(t) PROVE IInv'
<1>1. ASSUME NEW p \in Policies, BuildPolicy(t, p)
      PROVE  IInv'
  <2> DEFINE q == [Idle EXCEPT !.pc = "policy_add", !.draft = p, !.stamp = clock]
  <2>1. clock \in Nat
    BY DEF IInv, TypeOK
  <2>2. q \in Request /\ RequestOK(q, release_policies, baselines)
    BY <2>1 DEF Idle, Request, Step, GateSteps, ApproveSteps, RequestOK, LocalsOK,
           PolicyResolved, FloorKept, VersionTaken, ReferenceRead
  <2>3. req' = [req EXCEPT ![t] = q] /\ clock' = clock + 1
    BY <1>1 DEF BuildPolicy, Begin
  <2>4. /\ UNCHANGED tables
        /\ UNCHANGED <<up, run_repository, case_result_store, crashes, evaluated, returned>>
    BY <1>1 DEF BuildPolicy, memory, history
  <2> HIDE DEF q
  <2>5. TypeOK'
    <3>1. clock' \in Nat
      BY <2>1, <2>3
    <3>2. /\ req' \in [Requests -> Request]
          /\ UNCHANGED <<release_policies, baselines, gate_decisions>>
      BY <2>2, <2>3, <2>4, LocalStep DEF tables
    <3> QED BY <2>4, <3>1, <3>2 DEF IInv, TypeOK
  <2> QED BY <2>2, <2>3, <2>4, <2>5, LocalStep DEF IInv
<1>2. CASE AddPolicy(t)
  <2> DEFINE row == [policy |-> req[t].draft, created_at |-> req[t].stamp]
  <2>1. /\ req' = [req EXCEPT ![t] = Idle] /\ req[t].pc = "policy_add"
        /\ release_policies' = Append(release_policies, row)
        /\ UNCHANGED <<baselines, gate_decisions, up, clock, crashes>>
        /\ UNCHANGED <<run_repository, case_result_store, evaluated, returned>>
    BY <1>2 DEF AddPolicy, Finish, Continue, memory, history
  <2>2. row \in PolicyRow
    BY <2>1, RequestFacts DEF Request, RequestOK, LocalsOK, PolicyRow
  <2> HIDE DEF row
  <2>3. \A u \in Requests : RequestOK(req[u], release_policies', baselines')
    BY <2>1, <2>2, PolicyAppended DEF IInv, TypeOK
  <2>4. /\ req' \in [Requests -> Request]
        /\ \A u \in Requests : RequestOK(req'[u], release_policies', baselines')
    BY <2>1, <2>3, IdleOK, OneRequest DEF IInv
  <2>5. release_policies' \in Seq(PolicyRow)
    BY <2>1, <2>2, AppendProperties DEF IInv, TypeOK
  <2>6. TypeOK'
    BY <2>1, <2>4, <2>5 DEF IInv, TypeOK
  <2> QED BY <2>1, <2>4, <2>6 DEF IInv
<1> QED BY <1>1, <1>2 DEF CreatePolicy

THEOREM NextIInv == IInv /\ [Next]_vars => IInv'
<1> SUFFICES ASSUME IInv, [Next]_vars PROVE IInv'
  OBVIOUS
<1>1. CASE Start
  BY <1>1, StartIInv
<1>2. CASE Crash
  BY <1>2, CrashIInv
<1>3. ASSUME NEW t \in Requests, Evaluate(t) PROVE IInv'
  BY <1>3, EvaluateIInv
<1>4. ASSUME NEW t \in Requests, RunGate(t) PROVE IInv'
  <2>1. ASSUME NEW r \in Runs, NEW wanted \in {None} \cup 0 .. Len(release_policies),
               GateRun(t, r, wanted)
        PROVE  IInv'
    BY <2>1, FindRunIInv DEF GateRun
  <2>2. CASE GateResults(t)
    BY <2>2, ReadResultsIInv DEF GateResults
  <2>3. CASE GatePolicy(t)
    BY <2>3, GatePolicyIInv
  <2>4. CASE GateBaseline(t)
    BY <2>4, GateBaselineIInv
  <2>5. CASE GateAdd(t)
    BY <2>5, GateAddIInv
  <2> QED BY <1>4, <2>1, <2>2, <2>3, <2>4, <2>5 DEF RunGate
<1>5. ASSUME NEW t \in Requests, ApproveBaseline(t) PROVE IInv'
  <2>1. ASSUME NEW r \in Runs, ApproveRun(t, r) PROVE IInv'
    <3>1. None \in {None} \cup 0 .. Len(release_policies)
      OBVIOUS
    <3> QED BY <2>1, <3>1, FindRunIInv DEF ApproveRun
  <2>2. CASE ApproveResults(t)
    BY <2>2, ReadResultsIInv DEF ApproveResults
  <2>3. CASE ApproveVersion(t)
    BY <2>3, ApproveVersionIInv
  <2>4. CASE ApproveAdd(t)
    BY <2>4, ApproveAddIInv
  <2> QED BY <1>5, <2>1, <2>2, <2>3, <2>4 DEF ApproveBaseline
<1>6. ASSUME NEW t \in Requests, CreatePolicy(t) PROVE IInv'
  BY <1>6, CreatePolicyIInv
<1>7. CASE UNCHANGED vars
  <2>1. UNCHANGED <<up, run_repository, case_result_store, release_policies, baselines,
                    gate_decisions, clock, req, crashes, evaluated, returned>>
    BY <1>7 DEF vars, memory, tables, history
  <2> QED BY <2>1 DEF IInv, TypeOK
<1> QED BY <1>1, <1>2, <1>3, <1>4, <1>5, <1>6, <1>7 DEF Next

-----------------------------------------------------------------------------
\* Adding a baseline keeps the latest one, or replaces it by one of a higher version.
LEMMA LatestAfterAppend ==
  ASSUME NEW table \in Seq(BaselineRow), NEW row \in BaselineRow, Contiguous(table),
         row.version <= TopVersion(table, row.dataset) + 1, NEW d \in Datasets,
         Latest(Append(table, row), d) # Latest(table, d)
  PROVE  VersionAt(Append(table, row), Latest(Append(table, row), d))
           > VersionAt(table, Latest(table, d))
<1> DEFINE new == Append(table, row)
<1>1. new \in Seq(BaselineRow) /\ Len(table) \in Nat
  BY AppendProperties, LenProperties
<1>2. Contiguous(new) /\ TopVersion(table, d) <= TopVersion(new, d)
  BY BaselineAppended
<1>3. /\ RowsOf(table, d) \subseteq RowsOf(new, d)
      /\ RowsOf(new, d) \subseteq RowsOf(table, d) \cup {Len(table) + 1}
      /\ \A i \in RowsOf(table, d) : new[i] = table[i]
  <2>1. RowsOf(new, d) =
          RowsOf(table, d) \cup (IF row.dataset = d THEN {Len(table) + 1} ELSE {})
    BY RowsAfterAppend
  <2>2. \A i \in RowsOf(table, d) : new[i] = table[i]
    BY RowsKept
  <2> HIDE DEF new
  <2> QED BY <2>1, <2>2
<1> HIDE DEF new
<1>4. PICK n \in Nat : VersionsOf(table, d) = 1 .. n
  BY DEF Contiguous
<1>5. PICK m \in Nat : VersionsOf(new, d) = 1 .. m
  BY <1>2 DEF Contiguous
<1>6. n <= m
  BY <1>2, <1>4, <1>5, TopVersionIs
<1>7. /\ Latest(table, d) \in 0 .. Len(table)
      /\ VersionAt(table, Latest(table, d)) = n
      /\ n # 0 => Latest(table, d) \in RowsOf(table, d)
      /\ \A i \in RowsOf(table, d) : table[i].version = n => Latest(table, d) <= i
  BY <1>4, LatestIs
<1>8. /\ Latest(new, d) \in 0 .. Len(new)
      /\ VersionAt(new, Latest(new, d)) = m
      /\ m # 0 => Latest(new, d) \in RowsOf(new, d)
      /\ \A i \in RowsOf(new, d) : new[i].version = m => Latest(new, d) <= i
  BY <1>1, <1>5, LatestIs
<1>9. ASSUME m = n
      PROVE  Latest(new, d) = Latest(table, d)
  <2>1. CASE n = 0
    <3>1. VersionsOf(table, d) = {} /\ VersionsOf(new, d) = {}
      BY <1>4, <1>5, <1>9, <2>1
    <3>2. RowsOf(table, d) = {}
      BY <3>1 DEF VersionsOf
    <3>3. RowsOf(new, d) = {}
      BY <3>1 DEF VersionsOf
    <3> QED BY <3>2, <3>3 DEF Latest
  <2>2. CASE n # 0
    <3>1. Latest(table, d) \in RowsOf(table, d) /\ Latest(table, d) # 0
      BY <1>7, <2>2 DEF RowsOf, VersionAt
    <3>2. new[Latest(table, d)].version = m
      BY <1>3, <1>7, <1>9, <3>1 DEF VersionAt
    <3>3. Latest(new, d) <= Latest(table, d)
      BY <1>3, <1>8, <3>1, <3>2
    <3>4. Latest(new, d) \in RowsOf(table, d)
      BY <1>3, <1>7, <1>8, <1>9, <2>2, <3>3, <1>1
    <3>5. table[Latest(new, d)].version = n
      BY <1>3, <1>8, <1>9, <2>2, <3>4 DEF VersionAt
    <3>6. Latest(table, d) <= Latest(new, d)
      BY <1>7, <3>4, <3>5
    <3> QED BY <1>7, <1>8, <3>3, <3>6
  <2> QED BY <2>1, <2>2
<1>10. m > n
  BY <1>6, <1>9 DEF new
<1> QED BY <1>7, <1>8, <1>10 DEF new

\* The step that adds a baseline is the only one that touches the table.
LEMMA OnlyApprovalsAddBaselines ==
  ASSUME IInv, [Next]_vars
  PROVE  \/ UNCHANGED baselines
         \/ \E row \in BaselineRow :
              /\ row.version <= TopVersion(baselines, row.dataset) + 1
              /\ baselines' = Append(baselines, row)
<1>1. ASSUME NEW t \in Requests, ApproveAdd(t)
      PROVE  \E row \in BaselineRow :
               /\ row.version <= TopVersion(baselines, row.dataset) + 1
               /\ baselines' = Append(baselines, row)
  BY <1>1, ApprovedRow
<1>2. CASE Start \/ Crash \/ UNCHANGED vars
  BY <1>2 DEF Start, Crash, vars, tables
<1>3. ASSUME NEW t \in Requests, Evaluate(t) \/ RunGate(t) \/ CreatePolicy(t)
      PROVE  UNCHANGED baselines
  BY <1>3 DEF Evaluate, AddRun, SaveResults, RunGate, GateRun, FindRun, GateResults,
     ReadResults, GatePolicy, GateBaseline, GateAdd, CreatePolicy, BuildPolicy,
     AddPolicy, tables
<1>4. ASSUME NEW t \in Requests, ApproveBaseline(t), ~ApproveAdd(t)
      PROVE  UNCHANGED baselines
  BY <1>4 DEF ApproveBaseline, ApproveRun, FindRun, ApproveResults, ReadResults,
     ApproveVersion, tables
<1> QED BY <1>1, <1>2, <1>3, <1>4 DEF Next

-----------------------------------------------------------------------------
(***************************************************************************)
(* The theorems.                                                           *)
(***************************************************************************)
\* IInv holds of every reachable state.
THEOREM Invariance == Spec => []IInv
BY InitIInv, NextIInv, PTL DEF Spec

\* The types of the tables, of the process's memory and of every request.
THEOREM TypeCorrect == Spec => []TypeOK
<1>1. IInv => TypeOK
  BY DEF IInv
<1> QED BY <1>1, Invariance, PTL

(***************************************************************************)
(* Baseline history has no holes, for any number of concurrent approvals   *)
(* and crashes (BaselineRepository.approve).                               *)
(***************************************************************************)
THEOREM HistoryHasNoHoles == Spec => []VersionsContiguous
<1>1. IInv => VersionsContiguous
  <2> SUFFICES ASSUME IInv, NEW d \in Datasets
               PROVE  VersionsOf(baselines, d) = 1 .. TopVersion(baselines, d)
    BY DEF VersionsContiguous
  <2>1. PICK n \in Nat : VersionsOf(baselines, d) = 1 .. n
    BY DEF IInv, Contiguous
  <2> QED BY <2>1, TopVersionIs
<1> QED BY <1>1, Invariance, PTL

(***************************************************************************)
(* A gate call never overlooks a baseline approved before it came, and     *)
(* never takes one of another dataset (PolicyService.decide).              *)
(***************************************************************************)
THEOREM ApprovedBaselinesAreSeen == Spec => []GateSeesApprovedBaselines
<1>1. IInv => GateSeesApprovedBaselines
  BY DEF IInv, RequestOK, ReferenceRead, GateSeesApprovedBaselines
<1> QED BY <1>1, Invariance, PTL

(***************************************************************************)
(* The baseline a dataset is compared with is replaced only by one of a    *)
(* higher version (get_latest_for_dataset).                                *)
(***************************************************************************)
THEOREM ReferenceOnlyAdvances == Spec => LatestOnlyAdvances
<1> DEFINE Advance == \A d \in Datasets :
             LET before == Latest(baselines, d)
                 after  == Latest(baselines', d)
             IN  after # before =>
                   VersionAt(baselines', after) > VersionAt(baselines, before)
<1>1. ASSUME IInv, [Next]_vars
      PROVE  Advance
  <2>1. CASE UNCHANGED baselines
    BY <2>1
  <2>2. CASE \E row \in BaselineRow :
               /\ row.version <= TopVersion(baselines, row.dataset) + 1
               /\ baselines' = Append(baselines, row)
    <3>1. baselines \in Seq(BaselineRow) /\ Contiguous(baselines)
      BY <1>1 DEF IInv, TypeOK
    <3>2. PICK row \in BaselineRow :
            /\ row.version <= TopVersion(baselines, row.dataset) + 1
            /\ baselines' = Append(baselines, row)
      BY <2>2
    <3>3. ASSUME NEW d \in Datasets, Latest(baselines', d) # Latest(baselines, d)
          PROVE  VersionAt(baselines', Latest(baselines', d))
                   > VersionAt(baselines, Latest(baselines, d))
      BY <3>1, <3>2, <3>3, LatestAfterAppend
    <3> QED BY <3>3
  <2> QED BY <1>1, <2>1, <2>2, OnlyApprovalsAddBaselines
<1>2. IInv /\ [Next]_vars => [Advance]_vars
  BY <1>1
<1> HIDE DEF Advance
<1>3. Spec => [][Advance]_vars
  BY <1>2, Invariance, PTL DEF Spec
<1> QED BY <1>3 DEF LatestOnlyAdvances, Advance
-----------------------------------------------------------------------------
(***************************************************************************)
(* A gate call or an approval of an answered run works on the run's own    *)
(* case results: SettledRunsAreComplete.                                   *)
(*                                                                         *)
(* The argument needs what the property does not mention: the two stores   *)
(* of the process agree with what was evaluated, an answered run that is   *)
(* still in memory has its results stored, and a request that saw its run  *)
(* answered keeps seeing it, because only a crash forgets a run and a      *)
(* crash forgets the request as well.                                      *)
(***************************************************************************)
\* The stores of the process against what was evaluated and answered.
StoresOK ==
  \A r \in Runs :
    /\ run_repository[r] # None =>
         evaluated[r] # None /\ run_repository[r] = evaluated[r].dataset
    /\ case_result_store[r] # None =>
         evaluated[r] # None /\ case_result_store[r] = evaluated[r].results
    /\ r \in returned => evaluated[r] # None
    /\ r \in returned /\ run_repository[r] # None => case_result_store[r] # None

AfterResults == {"gate_policy", "gate_baseline", "gate_add",
                 "approve_version", "approve_add"}

\* Request q against the stores.
ResultsOK(q) ==
  /\ q.pc = "eval_save" =>
       /\ evaluated[q.run] # None
       /\ q.results = evaluated[q.run].results
  /\ q.pc \in GateSteps \cup ApproveSteps =>
       /\ evaluated[q.run] # None
       /\ q.dataset = evaluated[q.run].dataset
       /\ q.settled => q.run \in returned
  /\ q.pc \in {"gate_results", "approve_results"} /\ q.settled => run_repository[q.run] # None
  /\ q.pc \in AfterResults =>
       q.results = evaluated[q.run].results \/ (~q.settled /\ q.results = NoResults)

RunsInv == StoresOK /\ \A t \in Requests : ResultsOK(req[t])

-----------------------------------------------------------------------------
LEMMA InitRuns == Init => RunsInv
BY DEF Init, RunsInv, StoresOK, ResultsOK, Idle, AfterResults, GateSteps, ApproveSteps

\* A step of one request that leaves the stores alone.
LEMMA StoresUntouched ==
  ASSUME RunsInv, IInv, NEW t \in Requests, NEW q, req' = [req EXCEPT ![t] = q],
         ResultsOK(q),
         UNCHANGED <<run_repository, case_result_store, evaluated, returned>>
  PROVE  RunsInv'
<1>1. StoresOK'
  BY DEF RunsInv, StoresOK
<1>2. ASSUME NEW u \in Requests
      PROVE  ResultsOK(req[u])'
  <2>1. ResultsOK(req'[u])
    BY DEF RunsInv, IInv, TypeOK
  <2> QED BY <2>1 DEF ResultsOK
<1> QED BY <1>1, <1>2 DEF RunsInv

LEMMA IdleResultsOK == ResultsOK(Idle)
BY DEF ResultsOK, Idle, AfterResults, GateSteps, ApproveSteps

LEMMA AddRunRuns ==
  ASSUME RunsInv, IInv, NEW t \in Requests, NEW r \in Runs, NEW d \in Datasets,
         NEW results \in Outcomes, AddRun(t, r, d, results)
  PROVE  RunsInv'
<1>1. /\ evaluated[r] = None /\ run_repository' = [run_repository EXCEPT ![r] = d]
      /\ evaluated' = [evaluated EXCEPT ![r] = [dataset |-> d, results |-> results]]
      /\ UNCHANGED <<case_result_store, returned>>
  BY DEF AddRun
<1>2. /\ run_repository \in [Runs -> Datasets \cup {None}]
      /\ evaluated \in [Runs -> [dataset : Datasets, results : Outcomes] \cup {None}]
      /\ req \in [Requests -> Request]
  BY DEF IInv, TypeOK
<1>3. evaluated'[r] # None /\ evaluated'[r].results = results
  <2>1. [dataset |-> d, results |-> results] # None
    BY GateAssumption
  <2> QED BY <1>1, <1>2, <2>1
<1>4. \A s \in Runs : s # r => /\ evaluated'[s] = evaluated[s]
                              /\ run_repository'[s] = run_repository[s]
  BY <1>1, <1>2
<1>5. StoresOK'
  BY <1>1, <1>3, <1>4 DEF RunsInv, StoresOK
<1>6. ASSUME NEW u \in Requests, u # t
      PROVE  ResultsOK(req[u])'
  <2>1. req'[u] = req[u]
    BY <1>2, <1>6 DEF AddRun, Begin
  <2>2. /\ req[u].pc \in {"eval_save"} \cup GateSteps \cup ApproveSteps
           => req[u].run \in Runs \ {r}
        /\ ResultsOK(req[u])
    BY <1>1, RequestFacts DEF RequestOK, LocalsOK, RunsInv, ResultsOK
  <2> QED BY <1>1, <1>4, <2>1, <2>2 DEF ResultsOK, AfterResults, GateSteps, ApproveSteps
<1>7. ResultsOK(req[t])'
  <2>1. PICK q : /\ req' = [req EXCEPT ![t] = q]
                 /\ q = [Idle EXCEPT !.pc = "eval_save", !.run = r, !.results = results]
    BY Zenon DEF AddRun, Begin
  <2>2. q.pc = "eval_save" /\ q.run = r /\ q.results = results
    BY <2>1 DEF Idle
  <2>3. req'[t] = q
    BY <1>2, <2>1
  <2> QED BY <1>3, <2>2, <2>3 DEF ResultsOK, AfterResults, GateSteps, ApproveSteps
<1> QED BY <1>5, <1>6, <1>7 DEF RunsInv

LEMMA SaveResultsRuns ==
  ASSUME RunsInv, IInv, NEW t \in Requests, SaveResults(t)
  PROVE  RunsInv'
<1> DEFINE r == req[t].run
<1>1. /\ case_result_store' = [case_result_store EXCEPT ![r] = req[t].results]
      /\ returned' = returned \cup {r} /\ req' = [req EXCEPT ![t] = Idle]
      /\ UNCHANGED <<run_repository, evaluated>> /\ req[t].pc = "eval_save"
  BY DEF SaveResults, Finish, Continue
<1>2. /\ case_result_store \in [Runs -> Outcomes \cup {None}]
      /\ req \in [Requests -> Request]
  BY DEF IInv, TypeOK
<1>3. /\ r \in Runs /\ req[t].results \in Outcomes
      /\ evaluated[r] # None /\ req[t].results = evaluated[r].results
  BY <1>1, RequestFacts DEF RequestOK, LocalsOK, RunsInv, ResultsOK
<1>4. /\ case_result_store'[r] = evaluated[r].results /\ case_result_store'[r] # None
      /\ \A s \in Runs : s # r => case_result_store'[s] = case_result_store[s]
  BY <1>1, <1>2, <1>3, GateAssumption
<1> HIDE DEF r
<1>5. StoresOK'
  BY <1>1, <1>3, <1>4 DEF RunsInv, StoresOK
<1>6. ASSUME NEW u \in Requests
      PROVE  ResultsOK(req[u])'
  <2>1. ResultsOK(req'[u])
    BY <1>1, <1>2, IdleResultsOK DEF RunsInv
  <2> QED BY <1>1, <2>1 DEF ResultsOK
<1> QED BY <1>5, <1>6 DEF RunsInv

LEMMA CrashRuns == ASSUME RunsInv, IInv, Crash PROVE RunsInv'
<1>1. StoresOK'
  BY DEF Crash, history, RunsInv, StoresOK
<1>2. ASSUME NEW u \in Requests PROVE ResultsOK(req[u])'
  <2>1. req'[u] = Idle
    BY DEF Crash
  <2>2. req'[u].pc = "idle"
    BY <2>1 DEF Idle
  <2> QED BY <2>2 DEF ResultsOK, AfterResults, GateSteps, ApproveSteps
<1> QED BY <1>1, <1>2 DEF RunsInv

LEMMA FindRunRuns ==
  ASSUME RunsInv, IInv, NEW t \in Requests, NEW r \in Runs, NEW wanted,
         NEW first \in {"gate_results", "approve_results"}, FindRun(t, r, wanted, first)
  PROVE  RunsInv'
<1>1. PICK q : /\ req' = [req EXCEPT ![t] = q]
               /\ q = [Idle EXCEPT !.pc = first, !.run = r, !.dataset = run_repository[r],
                                   !.wanted = wanted, !.settled = r \in returned,
                                   !.floor = TopVersion(baselines, run_repository[r])]
  BY Zenon DEF FindRun, Begin
<1>2. /\ q.pc = first /\ q.run = r /\ (q.settled => r \in returned)
      /\ q.dataset = run_repository[r]
  BY <1>1 DEF Idle
<1>3. ResultsOK(q)
  BY <1>2 DEF FindRun, ResultsOK, AfterResults, GateSteps, ApproveSteps, RunsInv, StoresOK
<1>4. UNCHANGED <<run_repository, case_result_store, evaluated, returned>>
  BY DEF FindRun, memory, history
<1> QED BY <1>1, <1>3, <1>4, StoresUntouched

LEMMA ReadResultsRuns ==
  ASSUME RunsInv, IInv, NEW t \in Requests, NEW from, NEW to, ReadResults(t, from, to),
         from \in {"gate_results", "approve_results"}, to \in {"gate_policy", "approve_version"}
  PROVE  RunsInv'
<1>1. PICK q : /\ req' = [req EXCEPT ![t] = q] /\ req[t].pc = from
               /\ q = [req[t] EXCEPT !.pc = to, !.results = StoredResults(req[t].run)]
  BY Zenon DEF ReadResults, Continue
<1>2. req[t] \in Request /\ req[t].run \in Runs /\ ResultsOK(req[t])
  BY <1>1, RequestFacts DEF RequestOK, LocalsOK, RunsInv, GateSteps, ApproveSteps
<1>3. /\ q.pc = to /\ q.run = req[t].run /\ q.settled = req[t].settled
      /\ q.dataset = req[t].dataset /\ q.results = StoredResults(req[t].run)
  BY <1>1, <1>2 DEF Request
<1>4. q.settled \in BOOLEAN
  BY <1>2, <1>3 DEF Request
<1>5. ResultsOK(q)
  <2>1. /\ evaluated[q.run] # None /\ q.dataset = evaluated[q.run].dataset
        /\ q.settled => q.run \in returned /\ run_repository[q.run] # None
    BY <1>1, <1>2, <1>3 DEF ResultsOK, GateSteps, ApproveSteps
  <2>2. q.results = evaluated[q.run].results \/ (~q.settled /\ q.results = NoResults)
    BY <1>2, <1>3, <1>4, <2>1 DEF StoredResults, RunsInv, StoresOK
  <2> QED BY <1>3, <2>1, <2>2 DEF ResultsOK
<1>6. UNCHANGED <<run_repository, case_result_store, evaluated, returned>>
  BY DEF ReadResults, memory, history
<1> QED BY <1>1, <1>5, <1>6, StoresUntouched

\* A request that moves on with the run and the results it has.
LEMMA MoveOnRuns ==
  ASSUME RunsInv, IInv, NEW t \in Requests, NEW q, req' = [req EXCEPT ![t] = q],
         req[t].pc \in AfterResults, q.pc \in AfterResults,
         q.run = req[t].run, q.dataset = req[t].dataset,
         q.results = req[t].results, q.settled = req[t].settled,
         UNCHANGED <<run_repository, case_result_store, evaluated, returned>>
  PROVE  RunsInv'
<1>1. ResultsOK(q)
  BY DEF RunsInv, ResultsOK, AfterResults, GateSteps, ApproveSteps
<1> QED BY <1>1, StoresUntouched

LEMMA RunGateRuns == ASSUME RunsInv, IInv, NEW t \in Requests, RunGate(t) PROVE RunsInv'
<1>1. ASSUME NEW r \in Runs, NEW wanted, GateRun(t, r, wanted) PROVE RunsInv'
  BY <1>1, FindRunRuns DEF GateRun
<1>2. CASE GateResults(t)
  BY <1>2, ReadResultsRuns DEF GateResults
<1>3. req[t] \in Request
  BY RequestFacts
<1>4. CASE GatePolicy(t)
  <2>1. UNCHANGED <<run_repository, case_result_store, evaluated, returned>>
    BY <1>4 DEF GatePolicy, memory, history
  <2>2. CASE ResolvedPolicy(req[t].wanted) = 0
    <3>1. req' = [req EXCEPT ![t] = Idle]
      BY <1>4, <2>2 DEF GatePolicy, Continue
    <3> QED BY <2>1, <3>1, IdleResultsOK, StoresUntouched
  <2>3. CASE ResolvedPolicy(req[t].wanted) # 0
    <3>1. PICK q : /\ req' = [req EXCEPT ![t] = q] /\ req[t].pc = "gate_policy"
                   /\ q = [req[t] EXCEPT !.pc = "gate_baseline",
                                         !.policy = ResolvedPolicy(req[t].wanted)]
      BY <1>4, <2>3, Zenon DEF GatePolicy, Continue
    <3>2. /\ q.pc = "gate_baseline" /\ q.run = req[t].run
          /\ q.dataset = req[t].dataset
          /\ q.results = req[t].results /\ q.settled = req[t].settled
      BY <1>3, <3>1 DEF Request
    <3> QED BY <2>1, <3>1, <3>2, MoveOnRuns DEF AfterResults
  <2> QED BY <2>2, <2>3
<1>5. CASE GateBaseline(t)
  <2>1. UNCHANGED <<run_repository, case_result_store, evaluated, returned>>
    BY <1>5 DEF GateBaseline, memory, history
  <2>2. PICK q : /\ req' = [req EXCEPT ![t] = q] /\ req[t].pc = "gate_baseline"
                 /\ q = [req[t] EXCEPT !.pc = "gate_add",
                                       !.baseline = Latest(baselines, req[t].dataset)]
    BY <1>5, Zenon DEF GateBaseline, Continue
  <2>3. /\ q.pc = "gate_add" /\ q.run = req[t].run
        /\ q.dataset = req[t].dataset
        /\ q.results = req[t].results /\ q.settled = req[t].settled
    BY <1>3, <2>2 DEF Request
  <2> QED BY <2>1, <2>2, <2>3, MoveOnRuns DEF AfterResults
<1>6. CASE GateAdd(t)
  BY <1>6, IdleResultsOK, StoresUntouched DEF GateAdd, Finish, Continue, memory, history
<1> QED BY <1>1, <1>2, <1>4, <1>5, <1>6 DEF RunGate

LEMMA ApproveBaselineRuns ==
  ASSUME RunsInv, IInv, NEW t \in Requests, ApproveBaseline(t) PROVE RunsInv'
<1>1. ASSUME NEW r \in Runs, ApproveRun(t, r) PROVE RunsInv'
  BY <1>1, FindRunRuns DEF ApproveRun
<1>2. CASE ApproveResults(t)
  BY <1>2, ReadResultsRuns DEF ApproveResults
<1>3. CASE ApproveVersion(t)
  <2>1. UNCHANGED <<run_repository, case_result_store, evaluated, returned>>
    BY <1>3 DEF ApproveVersion, memory, history
  <2>2. PICK q : /\ req' = [req EXCEPT ![t] = q] /\ req[t].pc = "approve_version"
                 /\ q = [req[t] EXCEPT !.pc = "approve_add",
                           !.version = TopVersion(baselines, req[t].dataset) + 1]
    BY <1>3, Zenon DEF ApproveVersion, Continue
  <2>3. /\ q.pc = "approve_add" /\ q.run = req[t].run
        /\ q.dataset = req[t].dataset
        /\ q.results = req[t].results /\ q.settled = req[t].settled
    BY <2>2, RequestFacts DEF Request
  <2> QED BY <2>1, <2>2, <2>3, MoveOnRuns DEF AfterResults
<1>4. CASE ApproveAdd(t)
  BY <1>4, IdleResultsOK, StoresUntouched
     DEF ApproveAdd, Finish, Continue, memory, history
<1> QED BY <1>1, <1>2, <1>3, <1>4 DEF ApproveBaseline

LEMMA CreatePolicyRuns ==
  ASSUME RunsInv, IInv, NEW t \in Requests, CreatePolicy(t) PROVE RunsInv'
<1>1. ASSUME NEW p \in Policies, BuildPolicy(t, p) PROVE RunsInv'
  <2>1. PICK q : /\ req' = [req EXCEPT ![t] = q]
                 /\ q = [Idle EXCEPT !.pc = "policy_add", !.draft = p, !.stamp = clock]
    BY <1>1, Zenon DEF BuildPolicy, Begin
  <2>2. q.pc = "policy_add"
    BY <2>1 DEF Idle
  <2>3. ResultsOK(q)
    BY <2>2 DEF ResultsOK, AfterResults, GateSteps, ApproveSteps
  <2> QED BY <1>1, <2>1, <2>3, StoresUntouched DEF BuildPolicy, memory, history
<1>2. CASE AddPolicy(t)
  BY <1>2, IdleResultsOK, StoresUntouched DEF AddPolicy, Finish, Continue, memory, history
<1> QED BY <1>1, <1>2 DEF CreatePolicy

LEMMA StutterRuns ==
  ASSUME RunsInv, UNCHANGED <<req, run_repository, case_result_store, evaluated, returned>>
  PROVE  RunsInv'
<1>1. StoresOK'
  BY DEF RunsInv, StoresOK
<1>2. ASSUME NEW u \in Requests PROVE ResultsOK(req[u])'
  BY DEF RunsInv, ResultsOK
<1> QED BY <1>1, <1>2 DEF RunsInv

THEOREM NextRuns == IInv /\ RunsInv /\ [Next]_vars => RunsInv'
<1> SUFFICES ASSUME IInv, RunsInv, [Next]_vars PROVE RunsInv'
  OBVIOUS
<1>1. CASE Start \/ UNCHANGED vars
  BY <1>1, StutterRuns DEF Start, vars, memory, history
<1>2. CASE Crash
  BY <1>2, CrashRuns
<1>3. ASSUME NEW t \in Requests, Evaluate(t) PROVE RunsInv'
  BY <1>3, AddRunRuns, SaveResultsRuns DEF Evaluate
<1>4. ASSUME NEW t \in Requests, RunGate(t) PROVE RunsInv'
  BY <1>4, RunGateRuns
<1>5. ASSUME NEW t \in Requests, ApproveBaseline(t) PROVE RunsInv'
  BY <1>5, ApproveBaselineRuns
<1>6. ASSUME NEW t \in Requests, CreatePolicy(t) PROVE RunsInv'
  BY <1>6, CreatePolicyRuns
<1> QED BY <1>1, <1>2, <1>3, <1>4, <1>5, <1>6 DEF Next

(***************************************************************************)
(* A gate call or an approval of a run whose POST /runs had been answered  *)
(* works on that run's full case results (_get_run_and_results against     *)
(* EvaluationService.run's two stores).                                    *)
(***************************************************************************)
THEOREM AnsweredRunsAreComplete == Spec => []SettledRunsAreComplete
<1>1. RunsInv => SettledRunsAreComplete
  BY DEF RunsInv, ResultsOK, AfterResults, SettledRunsAreComplete
<1> QED BY <1>1, InitRuns, NextRuns, Invariance, PTL DEF Spec

-----------------------------------------------------------------------------
(***************************************************************************)
(* The services implement the ledger.  Besides what the requests have      *)
(* read, the argument needs that a running process always has a policy,    *)
(* so that a gate call is refused only if it asks for one nobody has.      *)
(***************************************************************************)
Seeded == up => Len(release_policies) > 0

\* Finitely many numbers, and at least one, have a greatest.
LEMMA Greatest ==
  ASSUME NEW L \in Nat \ {0}, NEW f \in [1 .. L -> Nat]
  PROVE  \E i \in 1 .. L : \A j \in 1 .. L : f[j] <= f[i]
<1> DEFINE IsGreatest(n, i) == \A j \in 1 .. n : f[j] <= f[i]
           Bad == {n \in 1 .. L : \A i \in 1 .. n : ~IsGreatest(n, i)}
<1>1. SUFFICES ASSUME L \in Bad PROVE FALSE
  OBVIOUS
<1>2. PICK n \in Bad : \A m \in Bad : n <= m
  <2>1. Bad \in SUBSET Nat
    OBVIOUS
  <2>2. Bad # {}
    BY <1>1
  <2> HIDE DEF Bad
  <2> QED BY <2>1, <2>2, LeastNatural
<1>3. n \in 1 .. L /\ \A i \in 1 .. n : ~IsGreatest(n, i)
  BY <1>2
<1>4. n # 1
  <2>1. n = 1 => \A j \in 1 .. 1 : f[j] <= f[1]
    OBVIOUS
  <2> QED BY <1>3, <2>1
<1>5. n - 1 \in 1 .. L /\ ~(n <= n - 1)
  BY <1>3, <1>4
<1>6. n - 1 \notin Bad
  <2> HIDE DEF Bad
  <2> QED BY <1>2, <1>5
<1>7. PICK i \in 1 .. n - 1 : IsGreatest(n - 1, i)
  BY <1>5, <1>6
<1>8. /\ n \in Nat /\ i \in 1 .. n /\ n \in 1 .. n /\ f[i] \in Nat /\ f[n] \in Nat
      /\ \A j \in 1 .. n : f[j] \in Nat /\ (j \in 1 .. n - 1 \/ j = n)
  BY <1>3, <1>7
<1>9. CASE f[n] <= f[i]
  <2>1. \A j \in 1 .. n : f[j] <= f[i]
    BY <1>7, <1>8, <1>9
  <2> QED BY <1>3, <1>8, <2>1
<1>10. CASE f[i] <= f[n]
  <2>1. ASSUME NEW j \in 1 .. n PROVE f[j] <= f[n]
    <3>1. j \in 1 .. n - 1 => f[j] <= f[i]
      BY <1>7
    <3> QED BY <1>8, <1>10, <3>1
  <2> QED BY <1>3, <1>8, <2>1
<1> QED BY <1>8, <1>9, <1>10

\* A table with a row has a newest one.
LEMMA NewestExists ==
  ASSUME NEW table \in Seq(PolicyRow), Len(table) > 0
  PROVE  Active(table) # 0
<1> DEFINE stamp == [i \in 1 .. Len(table) |-> table[i].created_at]
           newest == {k \in DOMAIN table :
                        \A j \in DOMAIN table : table[j].created_at <= table[k].created_at}
<1>1. Len(table) \in Nat \ {0} /\ DOMAIN table = 1 .. Len(table)
  BY LenProperties
<1>2. stamp \in [1 .. Len(table) -> Nat]
  <2>1. \A j \in 1 .. Len(table) : table[j] \in PolicyRow
    BY ElementOfSeq
  <2> QED BY <2>1 DEF PolicyRow
<1>3. \E i \in 1 .. Len(table) : \A j \in 1 .. Len(table) : stamp[j] <= stamp[i]
  <2> HIDE DEF stamp
  <2> QED BY <1>1, <1>2, Greatest
<1>4. newest # {} /\ newest \in SUBSET (1 .. Len(table))
  BY <1>1, <1>3
<1>5. Active(table) = CHOOSE k \in newest : \A j \in newest : k <= j
  BY <1>4 DEF Active
<1> HIDE DEF newest
<1>6. \E k \in newest : \A j \in newest : k <= j
  BY <1>1, <1>4, LeastNatural
<1>7. Active(table) \in newest
  BY <1>5, <1>6
<1> QED BY <1>1, <1>4, <1>7

LEMMA SeededStep == IInv /\ Seeded /\ [Next]_vars => Seeded'
<1> SUFFICES ASSUME IInv, Seeded, [Next]_vars PROVE Seeded'
  OBVIOUS
<1>1. release_policies \in Seq(PolicyRow) /\ Len(release_policies) \in Nat
  BY LenProperties DEF IInv, TypeOK
<1>2. CASE Start
  <2>1. CASE Active(release_policies) = 0
    <3> DEFINE row == [policy |-> DefaultPolicy, created_at |-> clock]
    <3>1. release_policies' = Append(release_policies, row)
      BY <1>2, <2>1 DEF Start
    <3> HIDE DEF row
    <3>2. Len(release_policies') = Len(release_policies) + 1
      BY <1>1, <3>1
    <3> QED BY <1>1, <3>2 DEF Seeded
  <2>2. CASE Active(release_policies) # 0
    <3>1. Active(release_policies) \in 0 .. Len(release_policies)
      BY <1>1, ActiveIsRow
    <3>2. release_policies' = release_policies
      BY <1>2, <2>2 DEF Start
    <3> QED BY <1>1, <2>2, <3>1, <3>2 DEF Seeded
  <2> QED BY <2>1, <2>2
<1>3. CASE Crash
  BY <1>3 DEF Crash, Seeded
<1>4. ASSUME up' = up, release_policies' = release_policies
      PROVE  Seeded'
  BY <1>4 DEF Seeded
<1>5. ASSUME NEW t \in Requests, Evaluate(t)
      PROVE  Seeded'
  BY <1>4, <1>5 DEF Evaluate, AddRun, SaveResults, tables
<1>6. ASSUME NEW t \in Requests, RunGate(t)
      PROVE  Seeded'
  BY <1>4, <1>6 DEF RunGate, GateRun, FindRun, GateResults, ReadResults, GatePolicy,
                    GateBaseline, GateAdd, tables
<1>7. ASSUME NEW t \in Requests, ApproveBaseline(t)
      PROVE  Seeded'
  BY <1>4, <1>7 DEF ApproveBaseline, ApproveRun, FindRun, ApproveResults, ReadResults,
                    ApproveVersion, ApproveAdd, tables
<1>8. ASSUME NEW t \in Requests, CreatePolicy(t)
      PROVE  Seeded'
  <2>1. CASE AddPolicy(t)
    <3> DEFINE row == [policy |-> req[t].draft, created_at |-> req[t].stamp]
    <3>1. release_policies' = Append(release_policies, row) /\ up
      BY <2>1 DEF AddPolicy, Finish, Continue
    <3> HIDE DEF row
    <3>2. Len(release_policies') = Len(release_policies) + 1
      BY <1>1, <3>1
    <3> QED BY <1>1, <3>2 DEF Seeded
  <2>2. ASSUME NEW p \in Policies, BuildPolicy(t, p)
        PROVE  Seeded'
    BY <1>4, <2>2 DEF BuildPolicy, tables
  <2> QED BY <1>8, <2>1, <2>2 DEF CreatePolicy
<1>9. CASE UNCHANGED vars
  BY <1>4, <1>9 DEF vars, tables
<1> QED BY <1>2, <1>3, <1>5, <1>6, <1>7, <1>8, <1>9 DEF Next

\* What the ledger is given for its policies and its pending requests.
Registered == [i \in DOMAIN release_policies |-> release_policies[i].policy]
Asked == [t \in Requests |-> Pending(req[t])]
mapped == <<evaluated, returned, Registered, baselines, gate_decisions, Asked>>

LEMMA NewestIsTop ==
  ASSUME IInv, NEW d \in Datasets
  PROVE  Ledger!NewestVersion(d) = TopVersion(baselines, d)
<1>1. PICK n \in Nat : VersionsOf(baselines, d) = 1 .. n
  BY DEF IInv, Contiguous
<1>2. TopVersion(baselines, d) = n
  BY <1>1, TopVersionIs
<1> DEFINE versions == {0} \cup {baselines[b].version : b \in {x \in DOMAIN baselines :
                                                            baselines[x].dataset = d}}
<1>3. versions = 0 .. n
  <2>1. versions = {0} \cup VersionsOf(baselines, d)
    BY DEF VersionsOf, RowsOf
  <2> HIDE DEF versions
  <2> QED BY <1>1, <2>1
<1>4. Ledger!NewestVersion(d) = CHOOSE v \in versions : \A w \in versions : w <= v
  BY DEF Ledger!NewestVersion
<1> HIDE DEF versions
<1> QED BY <1>2, <1>3, <1>4

LEMMA RegisteredAppended ==
  ASSUME NEW row \in PolicyRow, IInv, release_policies' = Append(release_policies, row)
  PROVE  Registered' = Append(Registered, row.policy)
<1>1. release_policies \in Seq(PolicyRow)
  BY DEF IInv, TypeOK
<1>2. /\ Len(release_policies) \in Nat
      /\ DOMAIN release_policies = 1 .. Len(release_policies)
      /\ Len(release_policies') = Len(release_policies) + 1
      /\ DOMAIN release_policies' = 1 .. Len(release_policies) + 1
      /\ \A i \in 1 .. Len(release_policies) : release_policies'[i] = release_policies[i]
      /\ release_policies'[Len(release_policies) + 1] = row
  BY <1>1, AppendProperties, LenProperties
<1>3. \A i \in 1 .. Len(release_policies) : release_policies[i] \in PolicyRow
  BY <1>1, ElementOfSeq
<1>4. Registered \in Seq(Policies) /\ Len(Registered) = Len(release_policies)
  BY <1>2, <1>3 DEF Registered, PolicyRow
<1>5. row.policy \in Policies
  BY DEF PolicyRow
<1> DEFINE new == Append(Registered, row.policy)
<1>6. /\ new \in Seq(Policies) /\ DOMAIN new = 1 .. Len(release_policies) + 1
      /\ new = [i \in 1 .. Len(release_policies) + 1 |-> new[i]]
      /\ \A i \in 1 .. Len(release_policies) : new[i] = Registered[i]
      /\ new[Len(release_policies) + 1] = row.policy
  BY <1>2, <1>4, <1>5, AppendProperties, LenProperties
<1> HIDE DEF new
<1>7. ASSUME NEW i \in 1 .. Len(release_policies) + 1
      PROVE  new[i] = release_policies'[i].policy
  <2>1. CASE i \in 1 .. Len(release_policies)
    BY <1>2, <1>6, <2>1 DEF Registered
  <2>2. CASE i = Len(release_policies) + 1
    BY <1>2, <1>6, <2>2
  <2> QED BY <1>2, <2>1, <2>2
<1>8. Registered' = [i \in 1 .. Len(release_policies) + 1 |-> release_policies'[i].policy]
  BY <1>2 DEF Registered
<1>9. Registered' = new
  BY <1>6, <1>7, <1>8
<1> QED BY <1>9 DEF new

LEMMA AskedUpdated ==
  ASSUME IInv, NEW t \in Requests, NEW q, req' = [req EXCEPT ![t] = q]
  PROVE  Asked' = [Asked EXCEPT ![t] = Pending(q)]
BY DEF IInv, TypeOK, Asked

\* A step of a request that the ledger does not see.
LEMMA Unseen ==
  ASSUME IInv, NEW t \in Requests, NEW q, req' = [req EXCEPT ![t] = q],
         Pending(q) = Pending(req[t]),
         UNCHANGED <<evaluated, returned, release_policies, baselines, gate_decisions>>
  PROVE  UNCHANGED mapped
<1>1. Asked' = Asked
  BY AskedUpdated DEF Asked
<1> QED BY <1>1 DEF mapped, Registered

\* What a request that asks for something is to the ledger is not None.
LEMMA PendingIsRecord ==
  ASSUME NEW q \in Request, q.run \in Runs, q.pc \in GateSteps \cup ApproveSteps
  PROVE  /\ Pending(q) # None
         /\ Pending(q).kind = (IF q.pc \in GateSteps THEN "gate" ELSE "approve")
         /\ Pending(q).run = q.run /\ Pending(q).wanted = q.wanted
         /\ Pending(q).settled = q.settled /\ Pending(q).floor = q.floor
<1>1. Pending(q) = [kind |-> IF q.pc \in GateSteps THEN "gate" ELSE "approve", run |-> q.run,
                    wanted |-> q.wanted, settled |-> q.settled, floor |-> q.floor]
  BY DEF Pending
<1>2. Pending(q) \in [kind : {"gate", "approve"}, run : Runs, wanted : Nat \cup {None},
                      settled : BOOLEAN, floor : Nat]
  BY <1>1 DEF Request
<1> QED BY <1>1, <1>2, GateAssumption

LEMMA LedgerInitial == Init => Ledger!LedgerInit
<1> SUFFICES ASSUME Init PROVE Ledger!LedgerInit
  OBVIOUS
<1>1. Registered = <<>>
  BY DEF Registered, Init
<1>2. Asked = [t \in Requests |-> None]
  BY DEF Asked, Init, Pending, Idle, GateSteps, ApproveSteps
<1> QED BY <1>1, <1>2 DEF Init, Ledger!LedgerInit, Registered, Asked

LEMMA StartInLedger ==
  ASSUME IInv, Start
  PROVE  Ledger!RegisterPolicy \/ UNCHANGED mapped
<1>1. UNCHANGED <<evaluated, returned, baselines, gate_decisions, req>>
  BY DEF Start, history
<1>2. UNCHANGED Asked
  BY <1>1 DEF Asked
<1>3. CASE Active(release_policies) = 0
  <2> DEFINE row == [policy |-> DefaultPolicy, created_at |-> clock]
  <2>1. release_policies' = Append(release_policies, row)
    BY <1>3 DEF Start
  <2>2. row \in PolicyRow /\ row.policy = DefaultPolicy
    BY GateAssumption DEF PolicyRow, IInv, TypeOK
  <2> HIDE DEF row
  <2>3. Registered' = Append(Registered, DefaultPolicy)
    BY <2>1, <2>2, RegisteredAppended
  <2>4. DefaultPolicy \in Policies
    BY GateAssumption
  <2> QED BY <1>1, <1>2, <2>3, <2>4 DEF Ledger!RegisterPolicy, Registered, Asked
<1>4. CASE Active(release_policies) # 0
  <2>1. release_policies' = release_policies
    BY <1>4 DEF Start
  <2> QED BY <1>1, <1>2, <2>1 DEF mapped, Registered
<1> QED BY <1>3, <1>4

LEMMA CrashInLedger == ASSUME Crash PROVE Ledger!LoseAll
<1>1. Asked' = [t \in Requests |-> None]
  BY DEF Crash, Asked, Pending, Idle, GateSteps, ApproveSteps
<1> QED BY <1>1 DEF Crash, tables, history, Ledger!LoseAll, Asked, Registered

LEMMA AddRunInLedger ==
  ASSUME IInv, NEW t \in Requests, NEW r \in Runs, NEW d \in Datasets,
         NEW results \in Outcomes, AddRun(t, r, d, results)
  PROVE  Ledger!EvaluateRun(r)
<1> DEFINE q == [Idle EXCEPT !.pc = "eval_save", !.run = r, !.results = results]
<1>1. req' = [req EXCEPT ![t] = q] /\ req[t].pc = "idle"
  BY DEF AddRun, Begin
<1>2. UNCHANGED <<returned, release_policies, baselines, gate_decisions>>
  BY DEF AddRun, tables
<1>3. Pending(q) = Pending(req[t])
  BY <1>1 DEF Pending, Idle, GateSteps, ApproveSteps
<1> HIDE DEF q
<1>4. Asked' = Asked
  BY <1>1, <1>3, AskedUpdated DEF Asked
<1> QED BY <1>2, <1>4 DEF AddRun, Ledger!EvaluateRun, Asked, Registered

LEMMA SaveResultsInLedger ==
  ASSUME IInv, RunsInv, NEW t \in Requests, SaveResults(t)
  PROVE  Ledger!AnswerRun(req[t].run)
<1>1. req' = [req EXCEPT ![t] = Idle] /\ req[t].pc = "eval_save"
  BY DEF SaveResults, Finish, Continue
<1>2. /\ UNCHANGED <<evaluated, release_policies, baselines, gate_decisions>>
      /\ returned' = returned \cup {req[t].run}
  BY DEF SaveResults, tables
<1>3. Pending(Idle) = Pending(req[t])
  BY <1>1 DEF Pending, Idle, GateSteps, ApproveSteps
<1>4. Asked' = Asked
  BY <1>1, <1>3, AskedUpdated DEF Asked
<1>5. evaluated[req[t].run] # None
  BY <1>1 DEF RunsInv, ResultsOK
<1> QED BY <1>2, <1>4, <1>5 DEF Ledger!AnswerRun, Asked, Registered

LEMMA FindRunInLedger ==
  ASSUME IInv, RunsInv, NEW t \in Requests, NEW r \in Runs,
         NEW wanted \in {None} \cup (0 .. Len(release_policies)),
         NEW first \in {"gate_results", "approve_results"}, FindRun(t, r, wanted, first)
  PROVE  Ledger!Ask(t)
<1> DEFINE d == run_repository[r]
           q == [Idle EXCEPT !.pc = first, !.run = r, !.dataset = d,
                             !.wanted = wanted, !.settled = r \in returned,
                             !.floor = TopVersion(baselines, d)]
           kind == IF first = "gate_results" THEN "gate" ELSE "approve"
<1>1. /\ req' = [req EXCEPT ![t] = q] /\ req[t].pc = "idle" /\ d # None
      /\ UNCHANGED <<evaluated, returned, release_policies, baselines, gate_decisions>>
  BY DEF FindRun, Begin, tables, history
<1>2. d \in Datasets /\ evaluated[r] # None /\ evaluated[r].dataset = d
  BY <1>1 DEF IInv, TypeOK, RunsInv, StoresOK
<1>3. Pending(q) = [kind |-> kind, run |-> r, wanted |-> wanted, settled |-> r \in returned,
                    floor |-> Ledger!NewestVersion(evaluated[r].dataset)]
  <2>1. /\ q.pc = first /\ q.run = r /\ q.wanted = wanted
        /\ q.settled = (r \in returned) /\ q.floor = TopVersion(baselines, d)
    BY DEF Idle
  <2> HIDE DEF q
  <2>2. Pending(q) = [kind |-> kind, run |-> r, wanted |-> wanted,
                      settled |-> r \in returned, floor |-> TopVersion(baselines, d)]
    BY <2>1 DEF Pending, GateSteps, ApproveSteps
  <2> QED BY <1>2, <2>2, NewestIsTop
<1>4. Asked[t] = None
  BY <1>1 DEF Asked, Pending, GateSteps, ApproveSteps
<1> HIDE DEF q
<1>5. Asked' = [Asked EXCEPT ![t] = Pending(q)]
  BY <1>1, AskedUpdated
<1>6. Len(Registered) = Len(release_policies)
  BY LenProperties DEF Registered, IInv, TypeOK
<1>7. kind \in {"gate", "approve"}
  OBVIOUS
<1> HIDE DEF kind, d
<1>8. \E k \in {"gate", "approve"}, w \in {None} \cup (0 .. Len(Registered)) :
        Asked' = [Asked EXCEPT ![t] =
          [kind |-> k, run |-> r, wanted |-> w, settled |-> r \in returned,
           floor |-> Ledger!NewestVersion(evaluated[r].dataset)]]
  BY <1>3, <1>5, <1>6, <1>7
<1> QED BY <1>1, <1>2, <1>4, <1>8 DEF Ledger!Ask, Asked, Registered

LEMMA ReadResultsInLedger ==
  ASSUME IInv, NEW t \in Requests, NEW from, NEW to, ReadResults(t, from, to),
         (from \in GateSteps /\ to \in GateSteps) \/ (from \in ApproveSteps /\ to \in ApproveSteps)
  PROVE  UNCHANGED mapped
<1> DEFINE q == [req[t] EXCEPT !.pc = to, !.results = StoredResults(req[t].run)]
<1>1. /\ req' = [req EXCEPT ![t] = q] /\ req[t].pc = from
      /\ UNCHANGED <<evaluated, returned, release_policies, baselines, gate_decisions>>
  BY DEF ReadResults, Continue, tables, history
<1>2. /\ q.pc = to /\ q.run = req[t].run /\ q.wanted = req[t].wanted
      /\ q.settled = req[t].settled /\ q.floor = req[t].floor
  BY RequestFacts DEF Request
<1> HIDE DEF q
<1>3. Pending(q) = Pending(req[t])
  BY <1>1, <1>2 DEF Pending, GateSteps, ApproveSteps
<1> QED BY <1>1, <1>3, Unseen

LEMMA GatePolicyInLedger ==
  ASSUME IInv, RunsInv, Seeded, NEW t \in Requests, GatePolicy(t)
  PROVE  Ledger!Refuse(t) \/ UNCHANGED mapped
<1> DEFINE policy == ResolvedPolicy(req[t].wanted)
           q == [req[t] EXCEPT !.pc = "gate_baseline", !.policy = policy]
<1>1. /\ req' = [req EXCEPT ![t] = IF policy = 0 THEN Idle ELSE q]
      /\ req[t].pc = "gate_policy" /\ up
      /\ UNCHANGED <<evaluated, returned, release_policies, baselines, gate_decisions>>
  BY DEF GatePolicy, Continue, tables, history
<1>2. req[t] \in Request /\ RequestOK(req[t], release_policies, baselines)
  BY RequestFacts
<1>3. CASE policy = 0
  <2>1. Active(release_policies) # 0
    BY <1>1, NewestExists DEF Seeded, IInv, TypeOK
  <2>2. req[t].wanted = 0
    BY <1>3, <2>1 DEF ResolvedPolicy
  <2>3. Pending(req[t]) # None /\ Pending(req[t]).kind = "gate" /\ Pending(req[t]).wanted = 0
    BY <1>1, <1>2, <2>2, PendingIsRecord DEF RequestOK, LocalsOK, GateSteps
  <2>4. Asked' = [Asked EXCEPT ![t] = None]
    <3>1. Pending(Idle) = None
      BY DEF Pending, Idle, GateSteps, ApproveSteps
    <3> QED BY <1>1, <1>3, <3>1, AskedUpdated
  <2> QED BY <1>1, <2>3, <2>4 DEF Ledger!Refuse, Asked, Registered
<1>4. CASE policy # 0
  <2>1. /\ q.pc = "gate_baseline" /\ q.run = req[t].run /\ q.wanted = req[t].wanted
        /\ q.settled = req[t].settled /\ q.floor = req[t].floor
    BY <1>2 DEF Request
  <2> HIDE DEF q, policy
  <2>2. Pending(q) = Pending(req[t])
    BY <1>1, <2>1 DEF Pending, GateSteps
  <2> QED BY <1>1, <1>4, <2>2, Unseen
<1> QED BY <1>3, <1>4

LEMMA GateBaselineInLedger ==
  ASSUME IInv, NEW t \in Requests, GateBaseline(t)
  PROVE  UNCHANGED mapped
<1> DEFINE q == [req[t] EXCEPT !.pc = "gate_add", !.baseline = Latest(baselines, req[t].dataset)]
<1>1. /\ req' = [req EXCEPT ![t] = q] /\ req[t].pc = "gate_baseline"
      /\ UNCHANGED <<evaluated, returned, release_policies, baselines, gate_decisions>>
  BY DEF GateBaseline, Continue, tables, history
<1>2. /\ q.pc = "gate_add" /\ q.run = req[t].run /\ q.wanted = req[t].wanted
      /\ q.settled = req[t].settled /\ q.floor = req[t].floor
  BY RequestFacts DEF Request
<1> HIDE DEF q
<1>3. Pending(q) = Pending(req[t])
  BY <1>1, <1>2 DEF Pending, GateSteps
<1> QED BY <1>1, <1>3, Unseen

LEMMA ApproveVersionInLedger ==
  ASSUME IInv, NEW t \in Requests, ApproveVersion(t)
  PROVE  UNCHANGED mapped
<1> DEFINE q == [req[t] EXCEPT !.pc = "approve_add",
                               !.version = TopVersion(baselines, req[t].dataset) + 1]
<1>1. /\ req' = [req EXCEPT ![t] = q] /\ req[t].pc = "approve_version"
      /\ UNCHANGED <<evaluated, returned, release_policies, baselines, gate_decisions>>
  BY DEF ApproveVersion, Continue, tables, history
<1>2. /\ q.pc = "approve_add" /\ q.run = req[t].run /\ q.wanted = req[t].wanted
      /\ q.settled = req[t].settled /\ q.floor = req[t].floor
  BY RequestFacts DEF Request
<1> HIDE DEF q
<1>3. Pending(q) = Pending(req[t])
  BY <1>1, <1>2 DEF Pending, GateSteps, ApproveSteps
<1> QED BY <1>1, <1>3, Unseen

\* The results of a request at its last step are among those the ledger allows.
LEMMA ResultsAllowed ==
  ASSUME IInv, RunsInv, NEW t \in Requests, req[t].pc \in {"gate_add", "approve_add"}
  PROVE  /\ Asked[t] # None
         /\ Asked[t].kind = (IF req[t].pc = "gate_add" THEN "gate" ELSE "approve")
         /\ Asked[t].run = req[t].run /\ Asked[t].wanted = req[t].wanted
         /\ Asked[t].floor = req[t].floor
         /\ req[t].results \in Ledger!ResultsFor(Asked[t])
         /\ req[t].dataset = evaluated[req[t].run].dataset
         /\ req[t].dataset \in Datasets
<1>1. req[t] \in Request /\ RequestOK(req[t], release_policies, baselines)
  BY RequestFacts
<1>2. req[t].run \in Runs /\ req[t].dataset \in Datasets
  BY <1>1 DEF RequestOK, LocalsOK, GateSteps, ApproveSteps
<1>3. /\ Asked[t] # None
      /\ Asked[t].kind = (IF req[t].pc = "gate_add" THEN "gate" ELSE "approve")
      /\ Asked[t].run = req[t].run /\ Asked[t].wanted = req[t].wanted
      /\ Asked[t].settled = req[t].settled /\ Asked[t].floor = req[t].floor
  BY <1>1, <1>2, PendingIsRecord DEF Asked, GateSteps, ApproveSteps
<1>4. req[t].results \in Ledger!ResultsFor(Asked[t])
  BY <1>3 DEF RunsInv, ResultsOK, AfterResults, Ledger!ResultsFor
<1>5. req[t].dataset = evaluated[req[t].run].dataset
  BY DEF RunsInv, ResultsOK, GateSteps, ApproveSteps
<1> QED BY <1>2, <1>3, <1>4, <1>5

LEMMA NothingAsked ==
  ASSUME IInv, NEW t \in Requests, req' = [req EXCEPT ![t] = Idle]
  PROVE  Asked' = [Asked EXCEPT ![t] = None]
<1>1. Pending(Idle) = None
  BY DEF Pending, Idle, GateSteps, ApproveSteps
<1> QED BY <1>1, AskedUpdated

LEMMA GateAddInLedger ==
  ASSUME IInv, RunsInv, NEW t \in Requests, GateAdd(t)
  PROVE  Ledger!Decide(t)
<1> DEFINE p == req[t].policy
           b == req[t].baseline
           results == req[t].results
<1>1. /\ req' = [req EXCEPT ![t] = Idle] /\ req[t].pc = "gate_add"
      /\ gate_decisions' = Append(gate_decisions, Decision(req[t]))
      /\ UNCHANGED <<evaluated, returned, release_policies, baselines>>
  BY DEF GateAdd, Finish, Continue, history
<1>2. RequestOK(req[t], release_policies, baselines)
  BY RequestFacts
<1>3. p \in DOMAIN Registered /\ Registered[p] = release_policies[p].policy
  BY <1>1, <1>2, LenProperties DEF RequestOK, PolicyResolved, Registered, IInv, TypeOK
<1>4. Asked[t].wanted \in {None, p}
  BY <1>1, <1>2, ResultsAllowed DEF RequestOK, PolicyResolved
<1>5. b \in Ledger!BaselinesFor(Asked[t])
  <2>1. baselines \in Seq(BaselineRow) /\ DOMAIN baselines = 1 .. Len(baselines)
        /\ Len(baselines) \in Nat
    BY LenProperties DEF IInv, TypeOK
  <2>2. /\ b \in 0 .. Len(baselines) /\ VersionAt(baselines, b) >= req[t].floor
        /\ b # 0 => baselines[b].dataset = req[t].dataset
    BY <1>1, <1>2 DEF RequestOK, ReferenceRead
  <2>3. Ledger!VersionOf(b) = VersionAt(baselines, b)
    BY DEF Ledger!VersionOf, VersionAt
  <2> HIDE DEF b
  <2>4. b \in {0} \cup DOMAIN baselines
    BY <2>1, <2>2
  <2>5. /\ Asked[t].run = req[t].run /\ Asked[t].floor = req[t].floor
        /\ req[t].dataset = evaluated[req[t].run].dataset
    BY <1>1, ResultsAllowed
  <2> QED BY <2>2, <2>3, <2>4, <2>5 DEF Ledger!BaselinesFor
<1>6. results \in Ledger!ResultsFor(Asked[t])
  BY <1>1, ResultsAllowed
<1>7. Decision(req[t]) =
        [run |-> Asked[t].run, policy |-> p, baseline_version |-> Ledger!VersionOf(b),
         verdict |-> decide(results, Registered[p], Ledger!SnapshotOf(b))]
  <2>1. Ledger!VersionOf(b) = VersionAt(baselines, b) /\ Ledger!SnapshotOf(b) = SnapshotAt(baselines, b)
    BY DEF Ledger!VersionOf, VersionAt, Ledger!SnapshotOf, SnapshotAt
  <2>2. Asked[t].run = req[t].run
    BY <1>1, ResultsAllowed
  <2> QED BY <1>3, <2>1, <2>2 DEF Decision
<1>8. Asked[t] # None /\ Asked[t].kind = "gate"
  BY <1>1, ResultsAllowed
<1>9. Asked' = [Asked EXCEPT ![t] = None]
  BY <1>1, NothingAsked
<1> HIDE DEF p, b, results
<1> QED BY <1>1, <1>3, <1>4, <1>5, <1>6, <1>7, <1>8, <1>9 DEF Ledger!Decide, Asked, Registered

LEMMA ApproveAddInLedger ==
  ASSUME IInv, RunsInv, NEW t \in Requests, ApproveAdd(t)
  PROVE  Ledger!ApproveRun(t)
<1> DEFINE d == req[t].dataset
           v == req[t].version
           results == req[t].results
<1>1. /\ req' = [req EXCEPT ![t] = Idle] /\ req[t].pc = "approve_add"
      /\ baselines' = Append(baselines, [dataset |-> d, run |-> req[t].run, version |-> v,
                                         snapshot |-> Snapshot(results)])
      /\ UNCHANGED <<evaluated, returned, release_policies, gate_decisions>>
  BY DEF ApproveAdd, Finish, Continue, history
<1>2. req[t] \in Request /\ RequestOK(req[t], release_policies, baselines)
  BY RequestFacts
<1>3. /\ Asked[t] # None /\ Asked[t].kind = "approve" /\ Asked[t].run = req[t].run
      /\ Asked[t].floor = req[t].floor /\ results \in Ledger!ResultsFor(Asked[t])
      /\ d = evaluated[Asked[t].run].dataset /\ d \in Datasets
  BY <1>1, ResultsAllowed
<1>4. v \in Asked[t].floor + 1 .. Ledger!NewestVersion(d) + 1
  <2>1. Ledger!NewestVersion(d) = TopVersion(baselines, d) /\ TopVersion(baselines, d) \in Nat
    BY <1>3, NewestIsTop, TopVersionNat
  <2>2. v \in 1 .. TopVersion(baselines, d) + 1
    BY <1>1, <1>2 DEF RequestOK, VersionTaken
  <2>3. v > req[t].floor /\ req[t].floor \in Nat
    BY <1>1, <1>2 DEF RequestOK, VersionTaken, Request
  <2> QED BY <1>3, <2>1, <2>2, <2>3
<1>5. Asked' = [Asked EXCEPT ![t] = None]
  BY <1>1, NothingAsked
<1> HIDE DEF v, results
<1> QED BY <1>1, <1>3, <1>4, <1>5 DEF Ledger!ApproveRun, Asked, Registered

LEMMA CreatePolicyInLedger ==
  ASSUME IInv, NEW t \in Requests, CreatePolicy(t)
  PROVE  Ledger!RegisterPolicy \/ UNCHANGED mapped
<1>1. ASSUME NEW p \in Policies, BuildPolicy(t, p)
      PROVE  UNCHANGED mapped
  <2> DEFINE q == [Idle EXCEPT !.pc = "policy_add", !.draft = p, !.stamp = clock]
  <2>1. /\ req' = [req EXCEPT ![t] = q] /\ req[t].pc = "idle"
        /\ UNCHANGED <<evaluated, returned, release_policies, baselines, gate_decisions>>
    BY <1>1 DEF BuildPolicy, Begin, tables, history
  <2>2. Pending(q) = Pending(req[t])
    BY <2>1 DEF Pending, Idle, GateSteps, ApproveSteps
  <2> HIDE DEF q
  <2> QED BY <2>1, <2>2, Unseen
<1>2. CASE AddPolicy(t)
  <2> DEFINE row == [policy |-> req[t].draft, created_at |-> req[t].stamp]
  <2>1. /\ req' = [req EXCEPT ![t] = Idle] /\ req[t].pc = "policy_add"
        /\ release_policies' = Append(release_policies, row)
        /\ UNCHANGED <<evaluated, returned, baselines, gate_decisions>>
    BY <1>2 DEF AddPolicy, Finish, Continue, history
  <2>2. row \in PolicyRow /\ row.policy \in Policies
    BY <2>1, RequestFacts DEF RequestOK, LocalsOK, Request, PolicyRow
  <2> HIDE DEF row
  <2>3. Registered' = Append(Registered, row.policy)
    BY <2>1, <2>2, RegisteredAppended
  <2>4. Asked' = Asked
    <3>1. Pending(Idle) = Pending(req[t])
      BY <2>1 DEF Pending, Idle, GateSteps, ApproveSteps
    <3> QED BY <2>1, <3>1, AskedUpdated DEF Asked
  <2> QED BY <2>1, <2>2, <2>3, <2>4 DEF Ledger!RegisterPolicy, Asked, Registered
<1> QED BY <1>1, <1>2 DEF CreatePolicy

LEMMA LedgerStep ==
  IInv /\ RunsInv /\ Seeded /\ [Next]_vars => [Ledger!LedgerNext]_mapped
<1> SUFFICES ASSUME IInv, RunsInv, Seeded, [Next]_vars
             PROVE  Ledger!LedgerNext \/ UNCHANGED mapped
  OBVIOUS
<1> USE DEF Ledger!LedgerNext
<1>1. CASE Start
  BY <1>1, StartInLedger
<1>2. CASE Crash
  BY <1>2, CrashInLedger
<1>3. ASSUME NEW t \in Requests, Evaluate(t)
      PROVE  Ledger!LedgerNext
  <2>1. ASSUME NEW r \in Runs, NEW d \in Datasets, NEW results \in Outcomes,
               AddRun(t, r, d, results)
        PROVE  Ledger!LedgerNext
    BY <2>1, AddRunInLedger
  <2>2. CASE SaveResults(t)
    <3>1. req[t].run \in Runs
      BY <2>2, RequestFacts DEF SaveResults, Finish, Continue, RequestOK, LocalsOK
    <3> QED BY <2>2, <3>1, SaveResultsInLedger
  <2> QED BY <1>3, <2>1, <2>2 DEF Evaluate
<1>4. ASSUME NEW t \in Requests, RunGate(t)
      PROVE  Ledger!LedgerNext \/ UNCHANGED mapped
  <2>1. ASSUME NEW r \in Runs, NEW wanted \in {None} \cup (0 .. Len(release_policies)),
               GateRun(t, r, wanted)
        PROVE  Ledger!LedgerNext
    <3>1. Ledger!Ask(t)
      BY <2>1, FindRunInLedger DEF GateRun
    <3> QED BY <3>1
  <2>2. CASE GateResults(t)
    BY <2>2, ReadResultsInLedger DEF GateResults, GateSteps
  <2>3. CASE GatePolicy(t)
    BY <2>3, GatePolicyInLedger
  <2>4. CASE GateBaseline(t)
    BY <2>4, GateBaselineInLedger
  <2>5. CASE GateAdd(t)
    BY <2>5, GateAddInLedger
  <2> QED BY <1>4, <2>1, <2>2, <2>3, <2>4, <2>5 DEF RunGate
<1>5. ASSUME NEW t \in Requests, ApproveBaseline(t)
      PROVE  Ledger!LedgerNext \/ UNCHANGED mapped
  <2>1. ASSUME NEW r \in Runs, ApproveRun(t, r)
        PROVE  Ledger!LedgerNext
    <3>1. Ledger!Ask(t)
      BY <2>1, FindRunInLedger DEF ApproveRun
    <3> QED BY <3>1
  <2>2. CASE ApproveResults(t)
    BY <2>2, ReadResultsInLedger DEF ApproveResults, ApproveSteps
  <2>3. CASE ApproveVersion(t)
    BY <2>3, ApproveVersionInLedger
  <2>4. CASE ApproveAdd(t)
    BY <2>4, ApproveAddInLedger
  <2> QED BY <1>5, <2>1, <2>2, <2>3, <2>4 DEF ApproveBaseline
<1>6. ASSUME NEW t \in Requests, CreatePolicy(t)
      PROVE  Ledger!LedgerNext \/ UNCHANGED mapped
  BY <1>6, CreatePolicyInLedger
<1>7. CASE UNCHANGED vars
  BY <1>7 DEF vars, tables, history, mapped, Registered, Asked
<1> QED BY <1>1, <1>2, <1>3, <1>4, <1>5, <1>6, <1>7 DEF Next

(***************************************************************************)
(* Whatever requests run at the same time and wherever the process dies, a *)
(* client sees decisions and approvals that take effect one at a time, on  *)
(* data no older than what it could know when it asked.                    *)
(***************************************************************************)
THEOREM ServicesImplementLedger == Spec => ImplementsLedger
<1>1. Init => Seeded
  BY DEF Init, Seeded
<1>2. IInv /\ RunsInv /\ Seeded /\ [Next]_vars => [Ledger!LedgerNext]_Ledger!ledger
  BY LedgerStep DEF mapped, Registered, Asked, Ledger!ledger
<1> QED BY <1>1, <1>2, LedgerInitial, InitRuns, NextRuns, SeededStep, Invariance, PTL
        DEF Spec, ImplementsLedger, Ledger!LedgerSpec
=============================================================================
