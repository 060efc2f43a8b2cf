---------------------- MODULE InspectionReport_proofs ----------------------
(***************************************************************************)
(* Proofs about InspectionReport, for any number of overlapping requests,  *)
(* readings and reports.  What a request that will update the inspection   *)
(* row has read of it holds until it commits: every other update of the    *)
(* row stops it.  A report that froze the inspection then stays true,      *)
(* because no request in flight can still have read it unfrozen.           *)
(***************************************************************************)
EXTENDS InspectionReport, TLAPS

-----------------------------------------------------------------------------
\* What a request has read of the inspection row and of the findings, if it is
\* going to update the row.
Held(r) ==
    /\ req[r].op = "move" =>
          /\ <<state, req[r].target>> \in Edge
          /\ req[r].decides => req[r].target \in DecidedState
          /\ req[r].target \in {"compliant", "violation_found"} => checks /\ findings # None
    /\ req[r].op = "checks" => state \notin FrozenState
    /\ req[r].op \in {"issue", "freeze"} /\ req[r].moves =>
          <<state, "report_issued">> \in Edge /\ decision = req[r].decision
    /\ req[r].op = "freeze" /\ req[r].moves => req[r].found = findings

RequestsHold == \A r \in Request : Held(r)

\* The next revision a request is going to insert follows one there is.
Follows(r) == req[r].op = "freeze" => req[r].revision = 1 \/ Exists(req[r].revision - 1)

\* The revisions are numbered without a gap.
NoGap ==
    /\ \E k \in 0..MaxRevision : \A n \in 1..MaxRevision : Exists(n) <=> n <= k
    /\ \A r \in Request : Follows(r)

\* A report that froze the inspection: it is frozen, and as the report shows it.
Frozen ==
    \A n \in 1..MaxRevision : Exists(n) /\ reports[n].froze =>
        /\ state \in FrozenState
        /\ reports[n].shows = [decision |-> decision, findings |-> findings]

IInv == ReportTypeOK /\ RequestsHold /\ NoGap /\ Frozen /\ OneReportFreezes

-----------------------------------------------------------------------------
\* What the operation of a request says about its fields.
LEMMA RequestFields ==
    ASSUME ReportTypeOK, NEW r \in Request
    PROVE  /\ req[r].op = "move" => req[r].target \in InspectionState /\ req[r].decides \in BOOLEAN
           /\ req[r].op = "review" =>
                 /\ req[r].clears \in BOOLEAN /\ req[r].candidate \in Candidate
                 /\ req[r].verdict \in Verdict
           /\ req[r].op = "checks" => req[r].found \in Inputs \cup {None}
           /\ req[r].op = "edit" => req[r].measured \in Measure
           /\ req[r].op \in {"issue", "freeze"} =>
                 req[r].moves \in BOOLEAN /\ req[r].decision \in DecidedState
           /\ req[r].op = "freeze" =>
                 req[r].revision \in 1..MaxRevision /\ req[r].found \in Inputs \cup {None}
<1>1. \/ req[r] \in {Idle, Stale} \/ req[r] \in Moves \/ req[r] \in Reviews \/ req[r] \in Runs
      \/ req[r] \in Edits \/ req[r] \in Issues \/ req[r] \in Drafts
  BY DEF ReportTypeOK
<1>2. CASE req[r] \in {Idle, Stale}
  BY <1>2 DEF Idle, Stale
<1>3. CASE req[r] \in Moves
  BY <1>3 DEF Moves
<1>4. CASE req[r] \in Reviews
  BY <1>4 DEF Reviews
<1>5. CASE req[r] \in Runs
  BY <1>5 DEF Runs
<1>6. CASE req[r] \in Edits
  BY <1>6 DEF Edits
<1>7. CASE req[r] \in Issues
  BY <1>7 DEF Issues
<1>8. CASE req[r] \in Drafts
  BY <1>8 DEF Drafts
<1> QED
  BY <1>1, <1>2, <1>3, <1>4, <1>5, <1>6, <1>7, <1>8

Requests == {Idle, Stale} \cup Moves \cup Reviews \cup Runs \cup Edits \cup Issues \cup Drafts

LEMMA InitIInv == ReportInit => IInv
<1> SUFFICES ASSUME ReportInit PROVE IInv
  OBVIOUS
<1> USE DEF ReportInit
<1>1. ReportTypeOK
  BY DEF ReportTypeOK, InspectionState, Reading
<1>2. RequestsHold /\ \A r \in Request : Follows(r)
  BY DEF RequestsHold, Held, Follows, Idle
<1>3. \A n \in 1..MaxRevision : ~Exists(n)
  BY DEF Exists
<1>4. NoGap
  <2>1. 0 \in 0..MaxRevision /\ \A n \in 1..MaxRevision : ~(n <= 0)
    BY ReportAssumption
  <2> QED
    BY <1>2, <1>3, <2>1 DEF NoGap
<1>5. Frozen /\ OneReportFreezes
  BY <1>3 DEF Frozen, OneReportFreezes
<1> QED
  BY <1>1, <1>2, <1>4, <1>5 DEF IInv

-----------------------------------------------------------------------------
(* What requests read                                                      *)

\* A request begins, or goes on, by what it reads.
LEMMA TakeIInv ==
    ASSUME IInv, NEW r \in Request, NEW request \in Requests,
           req' = [req EXCEPT ![r] = request], UNCHANGED <<state, data>>,
           Held(r)', Follows(r)'
    PROVE  IInv'
<1> USE DEF data
<1>1. \A q \in Request : q # r => req'[q] = req[q]
  BY DEF IInv, ReportTypeOK
<1>2. ReportTypeOK'
  BY DEF IInv, ReportTypeOK, Requests
<1>3. RequestsHold'
  BY <1>1 DEF IInv, RequestsHold, Held
<1>4. \A n \in 1..MaxRevision : Exists(n)' <=> Exists(n)
  BY DEF Exists
<1>5. \A q \in Request : Follows(q)'
  BY <1>1 DEF IInv, NoGap, Follows, Exists
<1>6. NoGap'
  BY <1>4, <1>5 DEF IInv, NoGap
<1>7. Frozen' /\ OneReportFreezes'
  BY <1>4 DEF IInv, Frozen, OneReportFreezes
<1> QED
  BY <1>2, <1>3, <1>6, <1>7 DEF IInv
LEMMA BeginIInv ==
    ASSUME IInv, NEW r \in Request, Begin(r)
    PROVE  IInv'
<1>0. ReportTypeOK
  BY DEF IInv
<1>1. ASSUME NEW target \in InspectionState, BeginTransition(r, target)
      PROVE  IInv'
  <2> DEFINE request == [op |-> "move", target |-> target, decides |-> FALSE]
  <2>1. request \in Requests
    BY DEF Requests, Moves
  <2>2. req' = [req EXCEPT ![r] = request] /\ UNCHANGED <<state, data>>
    BY <1>1 DEF BeginTransition, Start
  <2>3. req'[r] = request
    BY <1>0, <2>2 DEF ReportTypeOK
  <2>4. /\ <<state, target>> \in Edge
        /\ target \in {"compliant", "violation_found"} => checks /\ findings # None
    BY <1>1 DEF BeginTransition, Guard
  <2>5. Held(r)' /\ Follows(r)'
    BY <2>2, <2>3, <2>4 DEF Held, Follows, data
  <2> QED
    BY <2>1, <2>2, <2>5, TakeIInv
<1>2. ASSUME NEW target \in InspectionState, BeginDecision(r, target)
      PROVE  IInv'
  <2> DEFINE request == [op |-> "move", target |-> target, decides |-> TRUE]
  <2>1. request \in Requests
    BY DEF Requests, Moves
  <2>2. req' = [req EXCEPT ![r] = request] /\ UNCHANGED <<state, data>>
    BY <1>2 DEF BeginDecision, Start
  <2>3. req'[r] = request
    BY <1>0, <2>2 DEF ReportTypeOK
  <2>4. /\ <<state, target>> \in Edge /\ target \in DecidedState
        /\ target \in {"compliant", "violation_found"} => checks /\ findings # None
    BY <1>2 DEF BeginDecision, Guard
  <2>5. Held(r)' /\ Follows(r)'
    BY <2>2, <2>3, <2>4 DEF Held, Follows, data
  <2> QED
    BY <2>1, <2>2, <2>5, TakeIInv
<1>3. ASSUME NEW c \in Candidate, NEW v \in Verdict, BeginReview(r, c, v)
      PROVE  IInv'
  <2> DEFINE request == [op |-> "review", clears |-> checks, candidate |-> c,
                         was |-> reading[c], verdict |-> v]
  <2>1. request \in Requests
    <3>1. checks \in BOOLEAN /\ reading[c] \in Reading
      BY <1>0 DEF ReportTypeOK
    <3> QED
      BY <3>1 DEF Requests, Reviews
  <2>2. req' = [req EXCEPT ![r] = request] /\ UNCHANGED <<state, data>>
    BY <1>3 DEF BeginReview, Start
  <2>3. req'[r] = request
    BY <1>0, <2>2 DEF ReportTypeOK
  <2>4. Held(r)' /\ Follows(r)'
    BY <2>3 DEF Held, Follows
  <2> QED
    BY <2>1, <2>2, <2>4, TakeIInv
<1>4. ASSUME NEW found \in {CheckInput, None}, BeginChecks(r, found)
      PROVE  IInv'
  <2> DEFINE request == [op |-> "checks", found |-> found]
  <2>1. CheckInput \in Inputs
    BY <1>0 DEF CheckInput, Inputs, ReportTypeOK
  <2>2. request \in Requests
    BY <2>1 DEF Requests, Runs
  <2>3. req' = [req EXCEPT ![r] = request] /\ UNCHANGED <<state, data>> /\ state \notin FrozenState
    BY <1>4 DEF BeginChecks, Start
  <2>4. req'[r] = request
    BY <1>0, <2>3 DEF ReportTypeOK
  <2>5. Held(r)' /\ Follows(r)'
    BY <2>3, <2>4 DEF Held, Follows
  <2> QED
    BY <2>2, <2>3, <2>5, TakeIInv
<1>5. ASSUME NEW m \in Measure, BeginMeasurements(r, m)
      PROVE  IInv'
  <2> DEFINE request == [op |-> "edit", measured |-> m]
  <2>1. request \in Requests
    BY DEF Requests, Edits
  <2>2. req' = [req EXCEPT ![r] = request] /\ UNCHANGED <<state, data>>
    BY <1>5 DEF BeginMeasurements, Start
  <2>3. req'[r] = request
    BY <1>0, <2>2 DEF ReportTypeOK
  <2>4. Held(r)' /\ Follows(r)'
    BY <2>3 DEF Held, Follows
  <2> QED
    BY <2>1, <2>2, <2>4, TakeIInv
<1>6. ASSUME BeginIssue(r)
      PROVE  IInv'
  <2> DEFINE onEdge == <<state, "report_issued">> \in Edge
  <2>0. onEdge \in BOOLEAN
    OBVIOUS
  <2> HIDE DEF onEdge
  <2>1. PICK moves \in BOOLEAN : moves = onEdge
    BY <2>0, Zenon
  <2> DEFINE request == [op |-> "issue", decision |-> decision, moves |-> moves]
  <2>2. decision \in DecidedState
    BY <1>0, <1>6 DEF BeginIssue, ReportTypeOK
  <2>3. request \in Requests
    BY <2>2 DEF Requests, Issues
  <2>4. req' = [req EXCEPT ![r] = request] /\ UNCHANGED <<state, data>>
    BY <1>6, <2>1 DEF BeginIssue, Start, onEdge
  <2>5. req'[r] = request
    BY <1>0, <2>4 DEF ReportTypeOK
  <2>6. Held(r)' /\ Follows(r)'
    <3>1. moves => <<state, "report_issued">> \in Edge
      BY <2>1 DEF onEdge
    <3>2. req'[r].op = "issue" /\ req'[r].moves = moves /\ req'[r].decision = decision
      BY <2>5
    <3>3. state' = state /\ decision' = decision
      BY <2>4 DEF data
    <3> QED
      BY <3>1, <3>2, <3>3 DEF Held, Follows
  <2> QED
    BY <2>3, <2>4, <2>6, TakeIInv
<1>7. ASSUME BuildSnapshot(r)
      PROVE  IInv'
  <2> DEFINE IsNext(n) == /\ \A m \in 1..MaxRevision : Exists(m) => m < n
                          /\ n = 1 \/ Exists(n - 1)
  <2> DEFINE next == CHOOSE n \in 1..(MaxRevision + 1) : IsNext(n)
  <2>1. PICK k \in 0..MaxRevision : \A n \in 1..MaxRevision : Exists(n) <=> n <= k
    BY DEF IInv, NoGap
  <2>2. k + 1 \in 1..(MaxRevision + 1) /\ IsNext(k + 1)
    BY <2>1, ReportAssumption
  <2> HIDE DEF IsNext
  <2>3. next \in 1..(MaxRevision + 1) /\ IsNext(next)
    BY <2>2
  <2> DEFINE request == [op |-> "freeze", decision |-> req[r].decision, moves |-> req[r].moves,
                         revision |-> next, found |-> findings]
  <2>4. req[r].op = "issue" /\ next <= MaxRevision /\ UNCHANGED <<state, data>>
          /\ req' = [req EXCEPT ![r] = request]
    BY <1>7 DEF BuildSnapshot, IsNext
  <2> HIDE DEF next
  <2>5. next \in 1..MaxRevision
    BY <2>3, <2>4, ReportAssumption
  <2>6. request \in Requests
    <3>1. req[r].moves \in BOOLEAN /\ req[r].decision \in DecidedState
      BY <1>0, <2>4, RequestFields
    <3>2. findings \in Inputs \cup {None}
      BY <1>0 DEF ReportTypeOK
    <3> QED
      BY <2>5, <3>1, <3>2 DEF Requests, Drafts
  <2>7. req'[r] = request
    BY <1>0, <2>4 DEF ReportTypeOK
  <2>8. next = 1 \/ Exists(next - 1)
    BY <2>3 DEF IsNext
  <2>9. Follows(r)'
    BY <2>4, <2>7, <2>8 DEF Follows, Exists, data
  <2>10. Held(r)'
    <3>1. req[r].moves => <<state, "report_issued">> \in Edge /\ decision = req[r].decision
      BY <2>4 DEF IInv, RequestsHold, Held
    <3>2. state' = state /\ decision' = decision /\ findings' = findings
      BY <2>4 DEF data
    <3>3. req'[r].op = "freeze" /\ req'[r].moves = req[r].moves /\ req'[r].found = findings
             /\ req'[r].decision = req[r].decision
      BY <2>7
    <3> QED
      BY <3>1, <3>2, <3>3 DEF Held
  <2> QED
    BY <2>4, <2>6, <2>9, <2>10, TakeIInv
<1> QED
  BY <1>1, <1>2, <1>3, <1>4, <1>5, <1>6, <1>7 DEF Begin

-----------------------------------------------------------------------------
(* What they commit                                                        *)

\* Requests after one has ended: each has ended too, or is as it was.
LEMMA EndedFields ==
    ASSUME ReportTypeOK, NEW r \in Request, End(r) \/ EndUpdated(r)
    PROVE  /\ req' \in [Request -> Requests]
           /\ \A q \in Request : req'[q] \in {Idle, Stale} \/ req'[q] = req[q]
<1>1. CASE End(r)
  BY <1>1 DEF End, ReportTypeOK, Requests
<1>2. CASE EndUpdated(r)
  BY <1>2 DEF EndUpdated, ReportTypeOK, Requests
<1> QED
  BY <1>1, <1>2

LEMMA EndedHolds ==
    ASSUME NEW r \in Request, req'[r] \in {Idle, Stale}
    PROVE  Held(r)' /\ Follows(r)'
  BY DEF Held, Follows, Idle, Stale

\* A commit that updates the inspection row stops every request that goes by it.
LEMMA UpdateHolds ==
    ASSUME ReportTypeOK, RequestsHold, NEW r \in Request, EndUpdated(r)
    PROVE  RequestsHold'
<1> SUFFICES ASSUME NEW q \in Request PROVE Held(q)'
  BY DEF RequestsHold
<1>1. req'[q] \in {Idle, Stale} \/ (req'[q] = req[q] /\ ~WillUpdate(req[q]))
  BY DEF EndUpdated
<1>2. CASE req'[q] \in {Idle, Stale}
  BY <1>2, EndedHolds
<1>3. CASE req'[q] = req[q] /\ ~WillUpdate(req[q])
  <2>1. req[q].op \in {"issue", "freeze"} => ~req[q].moves
    BY <1>3 DEF WillUpdate
  <2>2. req[q].op \notin {"move", "checks"}
    BY <1>3 DEF WillUpdate
  <2> QED
    BY <1>3, <2>1, <2>2 DEF Held
<1> QED
  BY <1>1, <1>2, <1>3

\* One that leaves the row alone leaves what they go by.
LEMMA AsideHolds ==
    ASSUME ReportTypeOK, RequestsHold, NEW r \in Request, End(r),
           UNCHANGED <<state, decision, checks, findings>>
    PROVE  RequestsHold'
<1> SUFFICES ASSUME NEW q \in Request PROVE Held(q)'
  BY DEF RequestsHold
<1>1. CASE req'[q] \in {Idle, Stale}
  BY <1>1, EndedHolds
<1>2. CASE req'[q] = req[q]
  BY <1>2 DEF RequestsHold, Held
<1> QED
  BY <1>1, <1>2, EndedFields

\* Reports are not lost, and no revision is skipped.
LEMMA NoGapStays ==
    ASSUME IInv, NEW r \in Request, End(r) \/ EndUpdated(r), UNCHANGED reports
    PROVE  NoGap'
<1>1. \A n \in 1..MaxRevision : Exists(n)' <=> Exists(n)
  BY DEF Exists
<1>2. ASSUME NEW q \in Request PROVE Follows(q)'
  <2>1. CASE req'[q] \in {Idle, Stale}
    BY <2>1, EndedHolds
  <2>2. CASE req'[q] = req[q]
    BY <2>2 DEF IInv, NoGap, Follows, Exists
  <2> QED
    BY <2>1, <2>2, EndedFields DEF IInv
<1> QED
  BY <1>1, <1>2 DEF IInv, NoGap

LEMMA MoveIInv ==
    ASSUME IInv, NEW r \in Request, CommitMove(r)
    PROVE  IInv'
<1>0. /\ req[r].op = "move" /\ state' = req[r].target /\ EndUpdated(r)
      /\ decision' = IF req[r].decides THEN req[r].target ELSE decision
      /\ UNCHANGED <<checks, measured, reading, findings, reports>>
  BY DEF CommitMove
<1>1. /\ req[r].target \in InspectionState /\ <<state, req[r].target>> \in Edge
      /\ req[r].decides => req[r].target \in DecidedState
  BY <1>0, RequestFields DEF IInv, RequestsHold, Held
<1>2. ReportTypeOK'
  BY <1>0, <1>1, EndedFields DEF IInv, ReportTypeOK, Requests
<1>3. RequestsHold' /\ NoGap'
  BY <1>0, UpdateHolds, NoGapStays DEF IInv
<1>4. \A n \in 1..MaxRevision : Exists(n)' <=> Exists(n)
  BY <1>0 DEF Exists
<1>5. Frozen'
  <2>1. state \in FrozenState => req[r].target \in FrozenState /\ req[r].target \notin DecidedState
    BY <1>1 DEF Edge, FrozenState, DecidedState
  <2>2. state \in FrozenState => state' \in FrozenState /\ decision' = decision
    BY <1>0, <1>1, <2>1
  <2> QED
    BY <1>0, <1>4, <2>2 DEF IInv, Frozen
<1>6. OneReportFreezes'
  BY <1>0, <1>4 DEF IInv, OneReportFreezes
<1> QED
  BY <1>2, <1>3, <1>5, <1>6 DEF IInv

LEMMA ReviewIInv ==
    ASSUME IInv, NEW r \in Request, CommitReview(r)
    PROVE  IInv'
<1>0. /\ req[r].op = "review"
      /\ reading' = [reading EXCEPT ![req[r].candidate] = req[r].verdict]
      /\ (checks' = FALSE /\ EndUpdated(r)) \/ (End(r) /\ UNCHANGED checks)
      /\ UNCHANGED <<state, decision, measured, findings, reports>>
  BY DEF CommitReview
<1>1. req[r].verdict \in Verdict /\ req[r].candidate \in Candidate
  BY <1>0, RequestFields DEF IInv
<1>2. ReportTypeOK'
  <2>1. req' \in [Request -> Requests]
    BY <1>0, EndedFields DEF IInv
  <2>2. reading' \in [Candidate -> Reading]
    BY <1>0, <1>1 DEF IInv, ReportTypeOK, Reading
  <2> QED
    BY <1>0, <2>1, <2>2 DEF IInv, ReportTypeOK, Requests
<1>3. RequestsHold' /\ NoGap'
  BY <1>0, UpdateHolds, AsideHolds, NoGapStays DEF IInv
<1>4. Frozen' /\ OneReportFreezes'
  BY <1>0 DEF IInv, Frozen, OneReportFreezes, Exists
<1> QED
  BY <1>2, <1>3, <1>4 DEF IInv

LEMMA ChecksIInv ==
    ASSUME IInv, NEW r \in Request, CommitChecks(r)
    PROVE  IInv'
<1>0. /\ req[r].op = "checks" /\ checks' = TRUE /\ findings' = req[r].found /\ EndUpdated(r)
      /\ UNCHANGED <<state, decision, measured, reading, reports>>
  BY DEF CommitChecks
<1>1. req[r].found \in Inputs \cup {None} /\ state \notin FrozenState
  BY <1>0, RequestFields DEF IInv, RequestsHold, Held
<1>2. ReportTypeOK'
  BY <1>0, <1>1, EndedFields DEF IInv, ReportTypeOK, Requests
<1>3. RequestsHold' /\ NoGap'
  BY <1>0, UpdateHolds, NoGapStays DEF IInv
<1>4. Frozen' /\ OneReportFreezes'
  BY <1>0, <1>1 DEF IInv, Frozen, OneReportFreezes, Exists
<1> QED
  BY <1>2, <1>3, <1>4 DEF IInv

LEMMA MeasurementsIInv ==
    ASSUME IInv, NEW r \in Request, CommitMeasurements(r)
    PROVE  IInv'
<1>0. /\ req[r].op = "edit" /\ measured' = req[r].measured /\ EndUpdated(r)
      /\ UNCHANGED <<state, decision, checks, reading, findings, reports>>
  BY DEF CommitMeasurements
<1>1. req[r].measured \in Measure
  BY <1>0, RequestFields DEF IInv
<1>2. ReportTypeOK'
  BY <1>0, <1>1, EndedFields DEF IInv, ReportTypeOK, Requests
<1>3. RequestsHold' /\ NoGap'
  BY <1>0, UpdateHolds, NoGapStays DEF IInv
<1>4. Frozen' /\ OneReportFreezes'
  BY <1>0 DEF IInv, Frozen, OneReportFreezes, Exists
<1> QED
  BY <1>2, <1>3, <1>4 DEF IInv

\* The report that moves the inspection found it decided, with no report that
\* froze it, and shows the decision and the findings it has.
LEMMA IssueIInv ==
    ASSUME IInv, NEW r \in Request, CommitIssue(r)
    PROVE  IInv'
<1> DEFINE q == req[r]
<1> DEFINE shown == [status |-> "issued", froze |-> TRUE,
                     shows |-> [decision |-> q.decision, findings |-> q.found]]
<1> DEFINE other == [status |-> "issued", froze |-> FALSE]
<1>0. /\ q.op = "freeze" /\ ~Exists(q.revision)
      /\ UNCHANGED <<decision, checks, measured, reading, findings>>
      /\ \/ /\ q.moves /\ state' = "report_issued" /\ EndUpdated(r)
            /\ reports' = [reports EXCEPT ![q.revision] = shown]
         \/ /\ ~q.moves /\ UNCHANGED state /\ End(r)
            /\ reports' = [reports EXCEPT ![q.revision] = other]
  BY DEF CommitIssue
<1>1. q.revision \in 1..MaxRevision /\ q.found \in Inputs \cup {None} /\ q.decision \in DecidedState
  BY <1>0, RequestFields DEF IInv
<1>2. q.moves => /\ <<state, "report_issued">> \in Edge
                 /\ q.decision = decision /\ q.found = findings
  BY <1>0 DEF IInv, RequestsHold, Held
<1>3. shown \in Report /\ other \in Report
  BY <1>1 DEF Report, Snapshot
<1>4. PICK row \in Report :
         /\ reports' = [reports EXCEPT ![q.revision] = row]
         /\ row.froze = TRUE => q.moves /\ row = shown
  BY <1>0, <1>3
<1> HIDE DEF shown, other
<1>5. ReportTypeOK'
  <2>1. state' \in InspectionState
    BY <1>0 DEF IInv, ReportTypeOK, InspectionState
  <2>2. reports' \in [1..MaxRevision -> Report \cup {None}]
    BY <1>4 DEF IInv, ReportTypeOK
  <2>3. req' \in [Request -> Requests]
    BY <1>0, EndedFields DEF IInv
  <2> QED
    BY <1>0, <2>1, <2>2, <2>3 DEF IInv, ReportTypeOK, Requests
<1>6. RequestsHold'
  BY <1>0, UpdateHolds, AsideHolds DEF IInv
<1>7. row # None
  BY ReportAssumption
<1>8. \A n \in 1..MaxRevision : reports'[n] = IF n = q.revision THEN row ELSE reports[n]
  BY <1>4 DEF IInv, ReportTypeOK
<1>9. \A n \in 1..MaxRevision : Exists(n)' <=> Exists(n) \/ n = q.revision
  BY <1>7, <1>8 DEF Exists
<1>10. NoGap'
  <2>1. PICK k \in 0..MaxRevision : \A n \in 1..MaxRevision : Exists(n) <=> n <= k
    BY DEF IInv, NoGap
  <2>2. q.revision = 1 \/ Exists(q.revision - 1)
    BY <1>0 DEF IInv, NoGap, Follows
  <2>3. q.revision = k + 1
    <3>1. ~(q.revision <= k)
      BY <1>0, <1>1, <2>1
    <3>2. q.revision = 1 \/ (q.revision - 1 \in 1..MaxRevision /\ Exists(q.revision - 1))
      BY <1>1, <2>2, ReportAssumption
    <3> QED
      BY <1>1, <2>1, <3>1, <3>2, ReportAssumption
  <2>4. k + 1 \in 0..MaxRevision /\ \A n \in 1..MaxRevision : Exists(n)' <=> n <= k + 1
    BY <1>1, <1>9, <2>1, <2>3, ReportAssumption
  <2>5. ASSUME NEW p \in Request PROVE Follows(p)'
    <3>1. CASE req'[p] \in {Idle, Stale}
      BY <3>1, EndedHolds
    <3>2. CASE req'[p] = req[p]
      <4> SUFFICES ASSUME req[p].op = "freeze", req[p].revision # 1
                   PROVE  Exists(req[p].revision - 1)'
        BY <3>2 DEF Follows
      <4>1. req[p].revision - 1 \in 1..MaxRevision /\ Exists(req[p].revision - 1)
        BY RequestFields, ReportAssumption DEF IInv, NoGap, Follows
      <4>2. \A n \in 1..MaxRevision : Exists(n) => reports'[n] # None
        BY <1>9 DEF Exists
      <4> QED
        BY <3>2, <4>1, <4>2 DEF Exists
    <3> QED
      BY <1>0, <3>1, <3>2, EndedFields DEF IInv
  <2> QED
    BY <2>4, <2>5 DEF NoGap
<1>11. CASE q.moves
  <2>1. state \notin FrozenState
    BY <1>2, <1>11 DEF Edge, DecidedState, FrozenState
  <2>2. \A n \in 1..MaxRevision : Exists(n) => ~reports[n].froze
    BY <2>1 DEF IInv, Frozen
  <2>3. shown.froze /\ shown.shows = [decision |-> decision, findings |-> findings]
    BY <1>2, <1>11 DEF shown
  <2>4. state' \in FrozenState
    BY <1>0, <1>11 DEF FrozenState
  <2>5. \A n \in 1..MaxRevision : Exists(n)' /\ reports'[n].froze =>
           n = q.revision /\ reports'[n] = row
    BY <1>8, <1>9, <2>2
  <2>6. row = shown
    BY <1>0, <1>1, <1>4, <1>8, <1>11 DEF IInv, ReportTypeOK, shown
  <2>7. Frozen'
    BY <1>0, <2>3, <2>4, <2>5, <2>6 DEF Frozen
  <2> QED
    BY <1>5, <1>6, <1>10, <2>5, <2>7 DEF IInv, OneReportFreezes
<1>12. CASE ~q.moves
  <2>1. row.froze \in BOOLEAN
    BY DEF Report
  <2>2. \A n \in 1..MaxRevision : Exists(n)' /\ reports'[n].froze =>
           Exists(n) /\ reports[n].froze /\ reports'[n] = reports[n]
    BY <1>4, <1>8, <1>9, <1>12, <2>1
  <2>3. state' = state
    BY <1>0, <1>12
  <2>4. Frozen' /\ OneReportFreezes'
    BY <1>0, <2>2, <2>3 DEF IInv, Frozen, OneReportFreezes
  <2> QED
    BY <1>5, <1>6, <1>10, <2>4 DEF IInv
<1> QED
  BY <1>11, <1>12

\* Rollbacks, withdrawals and the worker leave the inspection row alone.
LEMMA OtherIInv ==
    ASSUME IInv,
           \/ \E r \in Request : Rollback(r)
           \/ \E n \in 1..MaxRevision : Withdraw(n)
           \/ \E c \in Candidate : WorkerStores(c)
    PROVE  IInv'
<1>1. ASSUME NEW r \in Request, Rollback(r) PROVE IInv'
  <2>0. End(r) /\ UNCHANGED <<state, decision, checks, measured, reading, findings, reports>>
    BY <1>1 DEF Rollback, data
  <2>1. ReportTypeOK'
    BY <2>0, EndedFields DEF IInv, ReportTypeOK, Requests
  <2>2. RequestsHold' /\ NoGap'
    BY <2>0, AsideHolds, NoGapStays DEF IInv
  <2>3. Frozen' /\ OneReportFreezes'
    BY <2>0 DEF IInv, Frozen, OneReportFreezes, Exists
  <2> QED
    BY <2>1, <2>2, <2>3 DEF IInv
<1>2. ASSUME NEW n \in 1..MaxRevision, Withdraw(n) PROVE IInv'
  <2> DEFINE row == [reports[n] EXCEPT !.status = "withdrawn"]
  <2>0. /\ Exists(n) /\ reports' = [reports EXCEPT ![n] = row]
        /\ UNCHANGED <<state, decision, checks, measured, reading, findings, req>>
    BY <1>2 DEF Withdraw, Issued
  <2>1. reports[n] \in Report
    BY <2>0 DEF Exists, IInv, ReportTypeOK
  <2>2. row \in Report /\ row.froze = reports[n].froze
          /\ (reports[n].froze => row.shows = reports[n].shows)
    <3>1. CASE reports[n] \in [status : {"issued", "withdrawn"}, froze : {TRUE}, shows : Snapshot]
      BY <3>1 DEF Report
    <3>2. CASE reports[n] \in [status : {"issued", "withdrawn"}, froze : {FALSE}]
      BY <3>2 DEF Report
    <3> QED
      BY <2>1, <3>1, <3>2 DEF Report
  <2> HIDE DEF row
  <2>3. row # None
    BY <2>2, ReportAssumption
  <2>4. \A m \in 1..MaxRevision : reports'[m] = IF m = n THEN row ELSE reports[m]
    BY <2>0 DEF IInv, ReportTypeOK
  <2>5. \A m \in 1..MaxRevision : Exists(m)' <=> Exists(m)
    BY <2>0, <2>3, <2>4 DEF Exists
  <2>6. ReportTypeOK'
    BY <2>0, <2>2 DEF IInv, ReportTypeOK
  <2>7. RequestsHold'
    BY <2>0 DEF IInv, RequestsHold, Held
  <2>8. ASSUME NEW p \in Request PROVE Follows(p)'
    <3>1. CASE req[p].op = "freeze" /\ req[p].revision # 1
      <4>1. req[p].revision - 1 \in 1..MaxRevision /\ Exists(req[p].revision - 1)
        BY <3>1, RequestFields, ReportAssumption DEF IInv, NoGap, Follows
      <4>2. \A m \in 1..MaxRevision : Exists(m) => reports'[m] # None
        BY <2>5 DEF Exists
      <4> QED
        BY <2>0, <4>1, <4>2 DEF Follows, Exists
    <3>2. CASE ~(req[p].op = "freeze" /\ req[p].revision # 1)
      BY <2>0, <3>2 DEF Follows
    <3> QED
      BY <3>1, <3>2
  <2>9. NoGap'
    BY <2>5, <2>8 DEF IInv, NoGap
  <2>10. Frozen' /\ OneReportFreezes'
    BY <2>0, <2>2, <2>4, <2>5 DEF IInv, Frozen, OneReportFreezes
  <2> QED
    BY <2>6, <2>7, <2>9, <2>10 DEF IInv
<1>3. ASSUME NEW c \in Candidate, WorkerStores(c) PROVE IInv'
  <2>0. /\ UNCHANGED <<state, decision, checks, measured, findings, reports, req>>
        /\ \/ reading' = [reading EXCEPT ![c] = "pending"]
           \/ reading' = [reading EXCEPT ![c] = "deleted"]
    BY <1>3 DEF WorkerStores
  <2>1. ReportTypeOK'
    BY <2>0 DEF IInv, ReportTypeOK, Reading
  <2>2. RequestsHold'
    BY <2>0 DEF IInv, RequestsHold, Held
  <2>3. NoGap'
    BY <2>0 DEF IInv, NoGap, Follows, Exists
  <2>4. Frozen' /\ OneReportFreezes'
    BY <2>0 DEF IInv, Frozen, OneReportFreezes, Exists
  <2> QED
    BY <2>1, <2>2, <2>3, <2>4 DEF IInv
<1> QED
  BY <1>1, <1>2, <1>3

LEMMA StepIInv == IInv /\ [ReportNext]_vars => IInv'
<1> SUFFICES ASSUME IInv, [ReportNext]_vars PROVE IInv'
  OBVIOUS
<1>1. ASSUME NEW r \in Request, Commit(r) PROVE IInv'
  BY <1>1, MoveIInv, ReviewIInv, ChecksIInv, MeasurementsIInv, IssueIInv, OtherIInv DEF Commit
<1>2. CASE UNCHANGED vars
  <2>0. UNCHANGED <<state, decision, checks, measured, reading, findings, reports, req>>
    BY <1>2 DEF vars, data
  <2>1. ReportTypeOK'
    BY <2>0 DEF IInv, ReportTypeOK
  <2>2. RequestsHold'
    BY <2>0 DEF IInv, RequestsHold, Held
  <2>3. NoGap'
    BY <2>0 DEF IInv, NoGap, Follows, Exists
  <2>4. Frozen' /\ OneReportFreezes'
    BY <2>0 DEF IInv, Frozen, OneReportFreezes, Exists
  <2> QED
    BY <2>1, <2>2, <2>3, <2>4 DEF IInv
<1> QED
  BY <1>1, <1>2, BeginIInv, OtherIInv DEF ReportNext

LEMMA AlwaysIInv == ReportSpec => []IInv
  BY InitIInv, StepIInv, PTL DEF ReportSpec

-----------------------------------------------------------------------------
\* Every value stays in its set; in particular no revision is numbered past the
\* next one.
THEOREM TypeCorrect == ReportSpec => []ReportTypeOK
<1>1. IInv => ReportTypeOK
  BY DEF IInv
<1> QED
  BY <1>1, AlwaysIInv, PTL

\* Two requests that both found the inspection decided and without a report do
\* not both freeze it (reports.py, the inspection's version).
THEOREM FrozenOnce == ReportSpec => []OneReportFreezes
<1>1. IInv => OneReportFreezes
  BY DEF IInv
<1> QED
  BY <1>1, AlwaysIInv, PTL

\* The report that froze the inspection shows its decision and its findings for
\* good (reports.py, and the handlers that look at FrozenState before and at
\* the version after).
THEOREM ReportStaysTrue == ReportSpec => []FrozenReportStaysTrue
<1>1. IInv => FrozenReportStaysTrue
  BY DEF IInv, Frozen, FrozenReportStaysTrue
<1> QED
  BY <1>1, AlwaysIInv, PTL

\* The state moves along declared edges only, however requests overlap
\* (services/inspections.py apply_transition).
THEOREM EdgesOnly == ReportSpec => MovesAlongEdges
<1>1. IInv /\ [ReportNext]_vars => [Move]_state
  <2> SUFFICES ASSUME IInv, [ReportNext]_vars, state' # state PROVE Move
    OBVIOUS
  <2>1. PICK r \in Request : CommitMove(r) \/ CommitIssue(r)
    BY DEF ReportNext, Begin, Commit, BeginTransition, BeginDecision, BeginReview, BeginChecks,
           BeginMeasurements, BeginIssue, BuildSnapshot, Start, CommitReview, CommitChecks,
           CommitMeasurements, Rollback, Withdraw, WorkerStores, vars, data
  <2>2. CASE CommitMove(r)
    <3>1. req[r].op = "move" /\ state' = req[r].target
      BY <2>2 DEF CommitMove
    <3>2. req[r].target \in InspectionState /\ <<state, req[r].target>> \in Edge
      BY <3>1, RequestFields DEF IInv, RequestsHold, Held
    <3> QED
      BY <3>1, <3>2 DEF Move
  <2>3. CASE CommitIssue(r)
    <3>1. req[r].op = "freeze" /\ req[r].moves /\ state' = "report_issued"
      BY <2>3 DEF CommitIssue
    <3>2. <<state, "report_issued">> \in Edge
      BY <3>1 DEF IInv, RequestsHold, Held
    <3> QED
      BY <3>1, <3>2 DEF Move, InspectionState
  <2> QED
    BY <2>1, <2>2, <2>3
<1> QED
  BY <1>1, AlwaysIInv, PTL DEF ReportSpec, MovesAlongEdges

\* An inspection is not found compliant or in violation without checks that
\* found something (domain/states.py, the guards, and the version that keeps
\* what they have looked at).
THEOREM ChecksComeFirst == ReportSpec => DecisionsRestOnChecks
<1>1. IInv /\ [ReportNext]_vars =>
         [state' # state /\ state' \in {"compliant", "violation_found"}
            => checks /\ findings # None]_state
  <2> SUFFICES ASSUME IInv, [ReportNext]_vars, state' # state,
                      state' \in {"compliant", "violation_found"}
               PROVE  checks /\ findings # None
    OBVIOUS
  <2>1. PICK r \in Request : CommitMove(r) \/ CommitIssue(r)
    BY DEF ReportNext, Begin, Commit, BeginTransition, BeginDecision, BeginReview, BeginChecks,
           BeginMeasurements, BeginIssue, BuildSnapshot, Start, CommitReview, CommitChecks,
           CommitMeasurements, Rollback, Withdraw, WorkerStores, vars, data
  <2>2. req[r].op = "move" /\ state' = req[r].target
    BY <2>1 DEF CommitMove, CommitIssue
  <2> QED
    BY <2>2 DEF IInv, RequestsHold, Held
<1> QED
  BY <1>1, AlwaysIInv, PTL DEF ReportSpec, DecisionsRestOnChecks

\* A review reaches the reading its officer saw, whatever the worker and other
\* officers did in the meantime (review_candidate, the reading's version).
THEOREM ReviewsSeeTheirReading == ReportSpec => ReviewsApplyToWhatWasSeen
<1>1. IInv /\ [ReportNext]_vars =>
         [\A c \in Candidate : reading'[c] # reading[c] /\ reading'[c] \in Verdict =>
             \E r \in Request : /\ req[r].op = "review"
                                /\ req[r].candidate = c
                                /\ req[r].was = reading[c]]_reading
  <2> SUFFICES ASSUME IInv, [ReportNext]_vars, reading' # reading, NEW c \in Candidate,
                      reading'[c] # reading[c], reading'[c] \in Verdict
               PROVE  \E r \in Request : /\ req[r].op = "review"
                                         /\ req[r].candidate = c
                                         /\ req[r].was = reading[c]
    OBVIOUS
  <2>1. CASE \E d \in Candidate : WorkerStores(d)
    <3>1. PICK d \in Candidate : \/ reading' = [reading EXCEPT ![d] = "pending"]
                                 \/ reading' = [reading EXCEPT ![d] = "deleted"]
      BY <2>1 DEF WorkerStores
    <3>2. reading'[c] \in {"pending", "deleted"}
      BY <3>1 DEF IInv, ReportTypeOK
    <3> QED
      BY <3>2, ReportAssumption
  <2>2. CASE \E r \in Request : CommitReview(r)
    <3>1. PICK r \in Request : CommitReview(r)
      BY <2>2
    <3>2. /\ req[r].op = "review" /\ reading[req[r].candidate] = req[r].was
          /\ reading' = [reading EXCEPT ![req[r].candidate] = req[r].verdict]
      BY <3>1 DEF CommitReview
    <3>3. req[r].candidate = c
      BY <3>2 DEF IInv, ReportTypeOK
    <3> QED
      BY <3>2, <3>3
  <2> QED
    BY <2>1, <2>2
    DEF ReportNext, Begin, Commit, BeginTransition, BeginDecision, BeginReview, BeginChecks,
        BeginMeasurements, BeginIssue, BuildSnapshot, Start, CommitMove, CommitChecks,
        CommitMeasurements, CommitIssue, Rollback, Withdraw, vars, data
<1> QED
  BY <1>1, AlwaysIInv, PTL DEF ReportSpec, ReviewsApplyToWhatWasSeen

=============================================================================
