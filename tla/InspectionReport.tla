-------------------------- MODULE InspectionReport --------------------------
(***************************************************************************)
(* One inspection from the officer's review to the report: the handlers    *)
(* that review readings, run the checks, decide and issue, withdraw and    *)
(* reissue the report (api/app/api/v1/inspections.py and reports.py, with  *)
(* services/inspections.py, rules/engine.py and reports/), run by requests *)
(* that overlap each other and the worker.                                 *)
(*                                                                         *)
(* A handler reads, then commits.  The inspection row has a version: a     *)
(* commit that updates it fails when another commit has updated it since   *)
(* the handler read it (StaleDataError).  A commit that updates other rows *)
(* only is not stopped.  Client versions, roles, reasons and scopes decide *)
(* whether a handler gets past its first reads and nothing after, and are  *)
(* left out.                                                               *)
(***************************************************************************)
EXTENDS Naturals, FiniteSets, InspectionMachine

CONSTANTS
    Request,     \* requests that may be in flight together
    Candidate,   \* machine readings the inspection may come to have
    Verdict,     \* what an officer may make of one: confirmed, corrected, ...
    Measure,     \* what measurements may say
    None,        \* no decision, no findings, no report
    MaxRevision  \* bound on the reports of the inspection

VARIABLES
    decision,  \* inspections.decision, with its note
    checks,    \* whether inspections.checks_executed_at is set
    measured,  \* the character heights in inspections.context
    reading,   \* declaration_candidates: the review state of each
    findings,  \* the current findings: what they were computed from
    reports,   \* the reports, by revision
    req        \* the progress of each request

data == <<decision, checks, measured, reading, findings, reports>>

vars == <<state, data, req>>

-----------------------------------------------------------------------------
Reading == {"absent", "pending", "deleted"} \cup Verdict

Inputs == [readings : [Candidate -> Verdict \cup {None}], measured : Measure]

\* froze: issuing the report moved the inspection to report_issued.  What the
\* snapshot shows is kept for such a report only.
Snapshot == [decision : DecidedState, findings : Inputs \cup {None}]

Report == [status : {"issued", "withdrawn"}, froze : {TRUE}, shows : Snapshot]
              \cup [status : {"issued", "withdrawn"}, froze : {FALSE}]

ASSUME ReportAssumption ==
    /\ MaxRevision \in Nat
    /\ Verdict \cap {"absent", "pending", "deleted"} = {}
    /\ None \notin DecidedState \cup Report

\* What a request has read and decided to write.
\* clears: it was loaded with checks_executed_at set.
\* moves: it was loaded in a state with an edge to report_issued.
\* Stale: its commit will update the inspection row, which another commit has
\* updated since it was loaded; it can only fail.
Idle    == [op |-> "idle"]
Stale   == [op |-> "stale"]
Moves   == [op : {"move"}, target : InspectionState, decides : BOOLEAN]
Reviews == [op : {"review"}, clears : BOOLEAN, candidate : Candidate,
            was : Reading, verdict : Verdict]
Runs    == [op : {"checks"}, found : Inputs \cup {None}]
Edits   == [op : {"edit"}, measured : Measure]
Issues  == [op : {"issue"}, moves : BOOLEAN, decision : DecidedState]
Drafts  == [op : {"freeze"}, moves : BOOLEAN, decision : DecidedState,
            revision : 1..MaxRevision, found : Inputs \cup {None}]

ReportTypeOK ==
    /\ state \in InspectionState
    /\ decision \in DecidedState \cup {None}
    /\ checks \in BOOLEAN
    /\ measured \in Measure
    /\ reading \in [Candidate -> Reading]
    /\ findings \in Inputs \cup {None}
    /\ reports \in [1..MaxRevision -> Report \cup {None}]
    /\ req \in [Request -> {Idle, Stale} \cup Moves \cup Reviews \cup Runs \cup Edits
                              \cup Issues \cup Drafts]

\* The analysis has ended and the officer's review begins.
ReportInit ==
    /\ state = "officer_review"
    /\ decision = None
    /\ checks = FALSE
    /\ measured \in Measure
    /\ reading \in [Candidate -> {"absent", "pending"}]
    /\ findings = None
    /\ reports = [n \in 1..MaxRevision |-> None]
    /\ req = [r \in Request |-> Idle]

-----------------------------------------------------------------------------
(* What handlers read                                                      *)

Pending == {c \in Candidate : reading[c] = "pending"}

\* build_check_input: readings under review do not reach the engine.
CheckInput ==
    [readings |-> [c \in Candidate |-> IF reading[c] \in Verdict THEN reading[c] ELSE None],
     measured |-> measured]

Exists(n) == reports[n] # None

Issued == {n \in 1..MaxRevision : Exists(n) /\ reports[n].status = "issued"}

\* evaluate_guard, for the guards of the edge from the loaded state to target.
\* product_identified and has_evidence hold from officer_review on.
Guard(target) ==
    /\ target \in DecidedState \cup {"reviewer_review"} /\ state \notin DecidedState
          => Pending = {}
    /\ target \in {"compliant", "violation_found"} => checks /\ findings # None
    /\ target = "case_opened" => \E n \in 1..MaxRevision : Exists(n)

Start(r, request) ==
    /\ req[r] = Idle
    /\ req' = [req EXCEPT ![r] = request]
    /\ UNCHANGED <<state, data>>

\* POST transitions: the edge and its guards are looked at, with the decision
\* that is stored for the edge that needs one.
BeginTransition(r, target) ==
    /\ <<state, target>> \in Edge
    /\ Guard(target)
    /\ target = "report_issued" => decision # None
    /\ Start(r, [op |-> "move", target |-> target, decides |-> FALSE])

\* POST decision: the same guards, and the decision is set before them.
BeginDecision(r, target) ==
    /\ target \in DecidedState
    /\ <<state, target>> \in Edge
    /\ Guard(target)
    /\ Start(r, [op |-> "move", target |-> target, decides |-> TRUE])

\* PATCH candidates: any reading of an inspection that is not frozen.
BeginReview(r, c, v) ==
    /\ state \notin FrozenState
    /\ reading[c] \in {"pending"} \cup Verdict
    /\ Start(r, [op |-> "review", clears |-> checks, candidate |-> c,
                 was |-> reading[c], verdict |-> v])

\* POST checks: the inputs are read and the rules applied.  It may be that no
\* rule applies and nothing is found.
BeginChecks(r, found) ==
    /\ state \notin FrozenState
    /\ found \in {CheckInput, None}
    /\ Start(r, [op |-> "checks", found |-> found])

\* POST measurements.
BeginMeasurements(r, m) ==
    /\ state \notin FrozenState
    /\ Start(r, [op |-> "edit", measured |-> m])

\* POST reports, first reads: the decision, the checks, no pending reading and
\* no report in force.  The state of the inspection is not looked at.
BeginIssue(r) ==
    /\ decision # None
    /\ checks
    /\ Pending = {}
    /\ Issued = {}
    /\ Start(r, [op |-> "issue", decision |-> decision,
                 moves |-> <<state, "report_issued">> \in Edge])

\* Next reads: the revisions there are, and the findings for the snapshot.
BuildSnapshot(r) ==
    LET next == CHOOSE n \in 1..(MaxRevision + 1) :
                    /\ \A m \in 1..MaxRevision : Exists(m) => m < n
                    /\ n = 1 \/ Exists(n - 1)
    IN  /\ req[r].op = "issue"
        /\ next <= MaxRevision
        /\ req' = [req EXCEPT ![r] =
                      [op |-> "freeze", decision |-> @.decision,
                       moves |-> @.moves, revision |-> next, found |-> findings]]
        /\ UNCHANGED <<state, data>>

-----------------------------------------------------------------------------
(* What handlers commit                                                    *)

End(r) == req' = [req EXCEPT ![r] = Idle]

\* The commit of q will update the inspection row.
WillUpdate(q) ==
    \/ q.op \in {"move", "checks", "edit"}
    \/ q.op = "review" /\ q.clears
    \/ q.op \in {"issue", "freeze"} /\ q.moves

\* A mutant of EndUpdated: the row has no version.
EndUnversioned(r) == req' = [req EXCEPT ![r] = Idle]

\* The commit of r has updated the inspection row, and its version.
EndUpdated(r) ==
    req' = [q \in Request |-> IF q = r THEN Idle
                              ELSE IF WillUpdate(req[q]) THEN Stale ELSE req[q]]

\* The handler raises, or its UPDATE finds another version (StaleDataError).
Rollback(r) ==
    /\ req[r] # Idle
    /\ End(r)
    /\ UNCHANGED <<state, data>>

\* transition and record_decision.
CommitMove(r) ==
    /\ req[r].op = "move"
    /\ state' = req[r].target
    /\ decision' = IF req[r].decides THEN req[r].target ELSE decision
    /\ EndUpdated(r)
    /\ UNCHANGED <<checks, measured, reading, findings, reports>>

\* A mutant of CommitReview: the version of the reading is not compared.
ReviewUnversioned(r) ==
    LET q == req[r] IN
    /\ q.op = "review"
    /\ reading' = [reading EXCEPT ![q.candidate] = q.verdict]
    /\ IF q.clears
       THEN checks' = FALSE /\ EndUpdated(r)
       ELSE End(r) /\ UNCHANGED checks
    /\ UNCHANGED <<state, decision, measured, findings, reports>>

\* review_candidate: the reading has a version too.  checks_executed_at is set
\* to None; where it was loaded as None there is nothing to update.
CommitReview(r) ==
    LET q == req[r] IN
    /\ q.op = "review"
    /\ reading[q.candidate] = q.was
    /\ reading' = [reading EXCEPT ![q.candidate] = q.verdict]
    /\ IF q.clears
       THEN checks' = FALSE /\ EndUpdated(r)
       ELSE End(r) /\ UNCHANGED checks
    /\ UNCHANGED <<state, decision, measured, findings, reports>>

\* evaluate_inspection: new findings supersede the current ones.
CommitChecks(r) ==
    /\ req[r].op = "checks"
    /\ checks' = TRUE
    /\ findings' = req[r].found
    /\ EndUpdated(r)
    /\ UNCHANGED <<state, decision, measured, reading, reports>>

\* record_measurements leaves the checks as they are.
CommitMeasurements(r) ==
    /\ req[r].op = "edit"
    /\ measured' = req[r].measured
    /\ EndUpdated(r)
    /\ UNCHANGED <<state, decision, checks, reading, findings, reports>>

\* issue_report: the report is inserted, its revision unique.  Then the
\* inspection moves to report_issued, if it was loaded in a state with that
\* edge; where it was not, the move is skipped and the row is not updated.
CommitIssue(r) ==
    LET q == req[r] IN
    /\ q.op = "freeze"
    /\ ~Exists(q.revision)
    /\ IF q.moves
       THEN /\ state' = "report_issued"
            /\ reports' = [reports EXCEPT ![q.revision] =
                   [status |-> "issued", froze |-> TRUE,
                    shows |-> [decision |-> q.decision, findings |-> q.found]]]
            /\ EndUpdated(r)
       ELSE /\ reports' = [reports EXCEPT ![q.revision] =
                   [status |-> "issued", froze |-> FALSE]]
            /\ End(r)
            /\ UNCHANGED state
    /\ UNCHANGED <<decision, checks, measured, reading, findings>>

\* POST withdraw.  The inspection stays where it is.
Withdraw(n) ==
    /\ n \in Issued
    /\ reports' = [reports EXCEPT ![n].status = "withdrawn"]
    /\ UNCHANGED <<state, decision, checks, measured, reading, findings, req>>

\* The worker stores an analysis: a reading under review is inserted, or
\* deleted to be replaced.  It looks at neither the state nor the version.
WorkerStores(c) ==
    /\ \/ reading[c] = "absent"  /\ reading' = [reading EXCEPT ![c] = "pending"]
       \/ reading[c] = "pending" /\ reading' = [reading EXCEPT ![c] = "deleted"]
    /\ UNCHANGED <<state, decision, checks, measured, findings, reports, req>>

-----------------------------------------------------------------------------
Begin(r) ==
    \/ \E target \in InspectionState : BeginTransition(r, target)
    \/ \E target \in InspectionState : BeginDecision(r, target)
    \/ \E c \in Candidate, v \in Verdict : BeginReview(r, c, v)
    \/ \E found \in {CheckInput, None} : BeginChecks(r, found)
    \/ \E m \in Measure : BeginMeasurements(r, m)
    \/ BeginIssue(r)
    \/ BuildSnapshot(r)

Commit(r) ==
    \/ CommitMove(r)
    \/ CommitReview(r)
    \/ CommitChecks(r)
    \/ CommitMeasurements(r)
    \/ CommitIssue(r)
    \/ Rollback(r)

ReportNext ==
    \/ \E r \in Request : Begin(r) \/ Commit(r)
    \/ \E n \in 1..MaxRevision : Withdraw(n)
    \/ \E c \in Candidate : WorkerStores(c)

ReportSpec == ReportInit /\ [][ReportNext]_vars

-----------------------------------------------------------------------------
(* Properties                                                              *)

\* However the handlers overlap, the state only moves along declared edges:
\* two officers who both loaded a state cannot both leave it.
MovesAlongEdges == [][Move]_state

\* compliant and violation_found are entered only while the checks count as run
\* and have found something.  The guard is evaluated on what was loaded; no
\* review or run in between may make it stale.
DecisionsRestOnChecks ==
    [][state' # state /\ state' \in {"compliant", "violation_found"}
          => checks /\ findings # None]_state

\* A review is applied to the reading its officer saw: never to one that a
\* colleague has reviewed or the worker has replaced in the meantime.
ReviewsApplyToWhatWasSeen ==
    [][\A c \in Candidate : reading'[c] # reading[c] /\ reading'[c] \in Verdict =>
          \E r \in Request : /\ req[r].op = "review"
                             /\ req[r].candidate = c
                             /\ req[r].was = reading[c]]_reading

\* Of two requests that both find a decided inspection without a report, one
\* issues: no two reports ever moved the inspection to report_issued.
OneReportFreezes ==
    \A m, n \in 1..MaxRevision :
        Exists(m) /\ Exists(n) /\ reports[m].froze /\ reports[n].froze => m = n

\* The report that froze the inspection keeps showing the decision and the
\* findings the inspection has: no run and no decision that was in flight when
\* it was issued is committed afterwards.
FrozenReportStaysTrue ==
    \A n \in 1..MaxRevision : Exists(n) /\ reports[n].froze =>
        reports[n].shows = [decision |-> decision, findings |-> findings]

\* What inspections.py:1104 says of a review: a change to the inputs
\* invalidates the previous check run.  So findings that count as current rest
\* on the reviews as they stand.
ChecksFollowReviews ==
    checks /\ findings # None => findings.readings = CheckInput.readings
=============================================================================
