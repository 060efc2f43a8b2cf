------------------------------ MODULE CaseFile ------------------------------
(***************************************************************************)
(* The cases opened on one reported inspection, and the notices prepared,  *)
(* issued, delivered and answered under them (api/app/services/cases.py    *)
(* and api/app/api/v1/cases.py), handled by requests that overlap.         *)
(*                                                                         *)
(* Cases and inspections have a version, notices have none: a request      *)
(* that touches a notice is stopped by the case it updates with it, and    *)
(* withdrawing a notice, which updates no case, by nothing.  The           *)
(* inspection has adverse findings, without which no case is opened; they  *)
(* are frozen, and what a notice says of them is left out.  Roles,         *)
(* reasons, dates and the client's version decide whether a handler gets   *)
(* past its first reads, and are left out, as are the entries of the       *)
(* timeline.                                                               *)
(***************************************************************************)
EXTENDS Naturals, FiniteSets, Requests

CONSTANTS
    Case,     \* cases that may be opened
    Notice,   \* notices that may be prepared
    Clerk,    \* requests about cases that may be in flight together
    None      \* no row yet

VARIABLES
    inspection,  \* inspections.state, once the report is issued
    reported,    \* whether a report stands issued
    case,        \* cases
    notice,      \* notices
    req          \* the progress of each request

caseVars == <<inspection, reported, case, notice, req>>

-----------------------------------------------------------------------------
CaseState == {"draft", "notice_issued", "awaiting_response", "response_received",
              "hearing_scheduled", "under_consideration", "follow_up_inspection",
              "resolved", "withdrawn", "closed"}

CaseEdge ==
    {<<"draft", "notice_issued">>,
     <<"draft", "withdrawn">>,
     <<"notice_issued", "awaiting_response">>,
     <<"notice_issued", "withdrawn">>,
     <<"awaiting_response", "response_received">>,
     <<"awaiting_response", "under_consideration">>,
     <<"awaiting_response", "withdrawn">>,
     <<"response_received", "hearing_scheduled">>,
     <<"response_received", "under_consideration">>,
     <<"hearing_scheduled", "under_consideration">>,
     <<"under_consideration", "follow_up_inspection">>,
     <<"under_consideration", "resolved">>,
     <<"follow_up_inspection", "under_consideration">>,
     <<"resolved", "closed">>,
     <<"withdrawn", "closed">>}

\* moved: opening it moved the inspection to case_opened.
Cases == [state : CaseState, moved : BOOLEAN]

Notices == [case : Case, issued : BOOLEAN, delivered : BOOLEAN, answered : BOOLEAN,
            withdrawn : BOOLEAN]

Openings == [op : {"open"}, moves : BOOLEAN]
Services == [op : {"issue", "delivery", "response"}, case : Case, notice : Notice]
Changes  == [op : {"move"}, case : Case, target : CaseState]

ASSUME CaseAssumption == None \notin Cases \cup Notices

CaseTypeOK ==
    /\ inspection \in {"report_issued", "case_opened", "closed", "archived"}
    /\ reported \in BOOLEAN
    /\ case \in [Case -> Cases \cup {None}]
    /\ notice \in [Notice -> Notices \cup {None}]
    /\ req \in [Clerk -> {Idle, Stale} \cup Openings \cup Services \cup Changes]

CaseInit ==
    /\ inspection = "report_issued"
    /\ reported = TRUE
    /\ case = [c \in Case |-> None]
    /\ notice = [n \in Notice |-> None]
    /\ req = [r \in Clerk |-> Idle]

-----------------------------------------------------------------------------
(* The inspection and its report, meanwhile                                *)

OpensInFlight == {r \in Clerk : req[r].op = "open" /\ req[r].moves}

\* POST /inspections/{id}/transitions: the guard of case_opened asks for a
\* report, not for a case.
MoveInspection ==
    \E target \in {"case_opened", "closed", "archived"} :
        /\ <<inspection, target>> \in {<<"report_issued", "case_opened">>,
                                       <<"report_issued", "closed">>,
                                       <<"case_opened", "closed">>,
                                       <<"closed", "archived">>}
        /\ inspection' = target
        /\ req' = [r \in Clerk |-> IF r \in OpensInFlight THEN Stale ELSE req[r]]
        /\ UNCHANGED <<reported, case, notice>>

\* The report is withdrawn, or issued again as a new revision.
ReplaceReport ==
    /\ reported' = ~reported
    /\ UNCHANGED <<inspection, case, notice, req>>

-----------------------------------------------------------------------------
(* Opening a case                                                          *)

Start(r, request) ==
    /\ req[r] = Idle
    /\ req' = [req EXCEPT ![r] = request]
    /\ UNCHANGED <<inspection, reported, case, notice>>

Open(c) == case[c] # None /\ case[c].state # "closed"

BeginOpen(r) ==
    /\ reported
    /\ ~\E c \in Case : Open(c)
    /\ Start(r, [op |-> "open", moves |-> inspection = "report_issued"])

\* A mutant of CommitOpen: the inspection's version is not compared.
CommitOpenUnversioned(r) ==
    /\ req[r].op = "open"
    /\ \E c \in Case :
          /\ case[c] = None
          /\ case' = [case EXCEPT ![c] = [state |-> "draft", moved |-> req[r].moves]]
    /\ inspection' = IF req[r].moves THEN "case_opened" ELSE inspection
    /\ req' = Ended(req, r, {})
    /\ UNCHANGED <<reported, notice>>

\* apply_transition_unchecked leaves the inspection alone where it has no
\* edge to case_opened; its version is then not compared either.
CommitOpen(r) ==
    /\ req[r].op = "open"
    /\ \E c \in Case :
          /\ case[c] = None
          /\ case' = [case EXCEPT ![c] = [state |-> "draft", moved |-> req[r].moves]]
    /\ inspection' = IF req[r].moves THEN "case_opened" ELSE inspection
    /\ req' = Ended(req, r, IF req[r].moves THEN OpensInFlight ELSE {})
    /\ UNCHANGED <<reported, notice>>

-----------------------------------------------------------------------------
(* Notices                                                                 *)

\* A row is inserted from what no longer changes, whatever the case's state.
PrepareNotice ==
    \E n \in Notice, c \in Case :
        /\ notice[n] = None
        /\ case[c] # None
        /\ notice' = [notice EXCEPT ![n] =
                         [case |-> c, issued |-> FALSE, delivered |-> FALSE,
                          answered |-> FALSE, withdrawn |-> FALSE]]
        /\ UNCHANGED <<inspection, reported, case, req>>

Under(c) == {n \in Notice : notice[n] # None /\ notice[n].case = c}

HasEdge(c, target) == case[c] # None /\ <<case[c].state, target>> \in CaseEdge

BeginIssue(r) ==
    \E c \in Case : \E n \in Under(c) :
        /\ HasEdge(c, "notice_issued")
        /\ ~notice[n].issued
        /\ Start(r, [op |-> "issue", case |-> c, notice |-> n])

BeginDelivery(r) ==
    \E c \in Case : \E n \in Under(c) :
        /\ HasEdge(c, "awaiting_response")
        /\ notice[n].issued
        /\ Start(r, [op |-> "delivery", case |-> c, notice |-> n])

\* Any notice of the case, issued or not.
BeginResponse(r) ==
    \E c \in Case : \E n \in Under(c) :
        /\ HasEdge(c, "response_received")
        /\ Start(r, [op |-> "response", case |-> c, notice |-> n])

\* Neither the case nor its version is touched.
WithdrawNotice ==
    \E n \in Notice :
        /\ notice[n] # None
        /\ notice[n].issued /\ ~notice[n].withdrawn
        /\ notice' = [notice EXCEPT ![n].withdrawn = TRUE]
        /\ UNCHANGED <<inspection, reported, case, req>>

-----------------------------------------------------------------------------
(* Changes of state                                                        *)

\* A mutant of NoticeGuard: delivery is not asked for.
PreparedIsEnough(c, target) ==
    target = "notice_issued" => Under(c) # {}

\* The guards of the edges; no guard asks whether a notice was issued.
NoticeGuard(c, target) ==
    /\ target = "notice_issued" => Under(c) # {}
    /\ target = "awaiting_response" => \E n \in Under(c) : notice[n].delivered

\* POST /cases/{id}/transitions, and /outcome, which takes the edge to
\* resolved and stores the outcome with it.
BeginChange(r) ==
    \E c \in Case, target \in CaseState :
        /\ HasEdge(c, target)
        /\ NoticeGuard(c, target)
        /\ Start(r, [op |-> "move", case |-> c, target |-> target])

About(c) == {r \in Clerk : req[r].op \in {"issue", "delivery", "response", "move"}
                              /\ req[r].case = c}

\* A mutant of Change: the case's version is not compared.
ChangeUnversioned(r, target) ==
    /\ case' = [case EXCEPT ![req[r].case].state = target]
    /\ req' = Ended(req, r, {})
    /\ UNCHANGED <<inspection, reported>>

Change(r, target) ==
    /\ case' = [case EXCEPT ![req[r].case].state = target]
    /\ req' = Ended(req, r, About(req[r].case))
    /\ UNCHANGED <<inspection, reported>>

CommitIssue(r) ==
    /\ req[r].op = "issue"
    /\ notice' = [notice EXCEPT ![req[r].notice].issued = TRUE]
    /\ Change(r, "notice_issued")

CommitDelivery(r) ==
    /\ req[r].op = "delivery"
    /\ notice' = [notice EXCEPT ![req[r].notice].delivered = TRUE]
    /\ Change(r, "awaiting_response")

CommitResponse(r) ==
    /\ req[r].op = "response"
    /\ notice' = [notice EXCEPT ![req[r].notice].answered = TRUE]
    /\ Change(r, "response_received")

CommitChange(r) ==
    /\ req[r].op = "move"
    /\ UNCHANGED notice
    /\ Change(r, req[r].target)

AbortCase(r) ==
    /\ req[r] # Idle
    /\ req' = Ended(req, r, {})
    /\ UNCHANGED <<inspection, reported, case, notice>>

-----------------------------------------------------------------------------
BeginCase(r) == BeginOpen(r) \/ BeginIssue(r) \/ BeginDelivery(r) \/ BeginResponse(r)
                  \/ BeginChange(r)

CommitCase(r) == CommitOpen(r) \/ CommitIssue(r) \/ CommitDelivery(r) \/ CommitResponse(r)
                   \/ CommitChange(r)

CaseNext ==
    \/ MoveInspection
    \/ ReplaceReport
    \/ PrepareNotice
    \/ WithdrawNotice
    \/ \E r \in Clerk : BeginCase(r) \/ CommitCase(r) \/ AbortCase(r)

CaseSpec == CaseInit /\ [][CaseNext]_caseVars

-----------------------------------------------------------------------------
(* Properties                                                              *)

\* Requests that issue different notices of a case, or the same one, both
\* having found the case in draft, do not both succeed.
OneNoticeIsServed ==
    \A c \in Case : Cardinality({n \in Under(c) : notice[n].issued}) <= 1

\* Whichever endpoint moved it, a case that awaits or weighs a response has
\* had a notice issued and delivered.
ProceedingsRestOnService ==
    \A c \in Case :
        case[c] # None
        /\ case[c].state \notin {"draft", "notice_issued", "withdrawn", "closed"}
           => \E n \in Under(c) : notice[n].issued /\ notice[n].delivered

\* Of the requests that found the inspection reported and no case open, one
\* opens the case.
OneCaseOpensTheMatter ==
    Cardinality({c \in Case : case[c] # None /\ case[c].moved}) <= 1
=============================================================================
