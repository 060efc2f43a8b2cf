--------------------------- MODULE RuleGovernance ---------------------------
(***************************************************************************)
(* The versions of one rule code from draft to withdrawal, and which of    *)
(* them an inspection is judged by (api/app/services/rules/governance.py,  *)
(* api/app/api/v1/rules.py).                                               *)
(*                                                                         *)
(* A handler loads a version, then commits.  The row has record_version: a *)
(* commit that updates the row fails when another commit has updated it    *)
(* since it was loaded.  The bulk UPDATE that supersedes versions is the   *)
(* exception: it neither compares nor raises record_version.  Notes,       *)
(* reasons and permissions only decide whether a handler gets past its     *)
(* first reads, and are left out; so are the accounts, since author_id is  *)
(* never assigned again and is compared under the row's version, and the   *)
(* flag that records a legal authority's word, which nothing here reads.   *)
(***************************************************************************)
EXTENDS RuleSelection

CONSTANTS
    MaxVersions,  \* bound on the versions of the code
    MaxEdits,     \* bound on the edits of each version
    Day,          \* the days of the calendar
    Window,       \* pairs of a first and a last day, or of a first day and None
    Request       \* requests that may be in flight together

ASSUME GovernanceAssumption ==
    /\ MaxVersions \in Nat
    /\ MaxEdits \in [1..MaxVersions -> Nat]
    /\ Day \subseteq Nat
    /\ Window \subseteq Day \X (Day \cup {None}) /\ Window # {}
    /\ None \notin Nat

VARIABLES
    status,    \* rule_versions.status, or absent
    text,      \* what the version says: its window and how often it was edited
    run,       \* the latest of rule_test_runs
    cited,     \* the findings: the version each cites, and what it said
    req        \* the progress of each request

rows == <<status, text, run>>

vars == <<rows, cited, req>>

-----------------------------------------------------------------------------
Version == 1..MaxVersions

Status == {"draft", "under_review", "changes_required", "approved", "active",
           "superseded", "withdrawn"}

Transitions ==
    {<<"draft", "under_review">>,
     <<"changes_required", "under_review">>,
     <<"under_review", "changes_required">>,
     <<"under_review", "approved">>,
     <<"approved", "active">>,
     <<"approved", "withdrawn">>,
     <<"active", "withdrawn">>}

EditableStatus == {"draft", "changes_required"}

Content == [edit : Nat, from : Day, to : Day \cup {None}]

\* The windows that an instance uses.
Texts(v) == {[edit |-> e, from |-> w[1], to |-> w[2]] : e \in 0..MaxEdits[v], w \in Window}

\* The scenario kinds that a run must cover: those of every version are one
\* kind here, and an end of the window stands for what asks for more, as
\* bands and exceptions do.
Kind == {"mandatory", "expired"}

RequiredKinds(content) == {"mandatory"} \cup (IF content.to # None THEN {"expired"} ELSE {})

\* passes: the kinds that the run covers, none if one of its scenarios failed.
\* edit: what the version said when it ran; no column records it.
Passes == {{}, {"mandatory"}, Kind}

TestRun == [edit : Nat, passes : Passes]

\* What a request has read and decided to write.  ends: the versions that its
\* bulk UPDATE has matched.  Stale: the row it loaded has been updated since.
Idle     == [op |-> "idle"]
Stale    == [op |-> "stale"]
Edit     == [op : {"edit"}, v : Version, becomes : Content]
Simulate == [op : {"simulate"}, v : Version, result : TestRun]
Endorse  == [op : {"endorse"}, v : Version]
Moves    == [op : {"move"}, v : Version, target : Status, ends : SUBSET Version]

GovernanceTypeOK ==
    /\ status \in [Version -> Status \cup {"absent"}]
    /\ text \in [Version -> Content]
    /\ run \in [Version -> TestRun \cup {None}]
    /\ cited \in SUBSET (Version \X Content)
    /\ req \in [Request -> {Idle, Stale} \cup Edit \cup Simulate \cup Endorse \cup Moves]

NoText(v) == CHOOSE c \in Texts(v) : c.edit = 0

Init ==
    /\ status = [v \in Version |-> "absent"]
    /\ text = [v \in Version |-> NoText(v)]
    /\ run = [v \in Version |-> None]
    /\ cited = {}
    /\ req = [r \in Request |-> Idle]

-----------------------------------------------------------------------------
(* New versions.  A row is inserted whole, and (code, version) is unique:   *)
(* of two requests that number a version alike one fails.                   *)

Insert(v, content) ==
    /\ status[v] = "absent"
    /\ \A w \in 1..(v - 1) : status[w] # "absent"
    /\ status' = [status EXCEPT ![v] = "draft"]
    /\ text' = [text EXCEPT ![v] = content]
    /\ UNCHANGED <<run, cited, req>>

CreateRule ==
    \E v \in Version : \E content \in Texts(v) :
        /\ content.edit = 0
        /\ content.to # None => content.from <= content.to
        /\ Insert(v, content)

\* The starter set is inserted where the code has no first version.
SeedRules ==
    /\ 1 \in Version
    /\ \E content \in Texts(1) : content.edit = 0 /\ content.to = None /\ Insert(1, content)

-----------------------------------------------------------------------------
(* What handlers read                                                       *)

Start(r, request) ==
    /\ req[r] = Idle
    /\ req' = [req EXCEPT ![r] = request]
    /\ UNCHANGED <<rows, cited>>

\* Fields that a request does not name stay; none can be cleared, and the end
\* is no longer compared with the beginning.
EditsOf(v) ==
    {c \in Texts(v) :
        /\ c.edit = text[v].edit + 1
        /\ text[v].to # None => c.to # None}

BeginEdit(r) ==
    \E v \in Version :
        /\ status[v] \in EditableStatus
        /\ \E c \in EditsOf(v) : Start(r, [op |-> "edit", v |-> v, becomes |-> c])

\* Whatever the status; the author supplies the scenarios.
BeginSimulation(r) ==
    \E v \in Version, passes \in Passes :
        /\ status[v] # "absent"
        /\ Start(r, [op |-> "simulate", v |-> v,
                     result |-> [edit |-> text[v].edit, passes |-> passes]])

BeginEndorsement(r) ==
    \E v \in Version :
        /\ status[v] # "absent"
        /\ Start(r, [op |-> "endorse", v |-> v])

\* The checks of change_status before it approves.
MayApprove(v) ==
    /\ run[v] # None
    /\ RequiredKinds(text[v]) \subseteq run[v].passes

Overtaken(v) ==
    {w \in Version \ {v} : status[w] = "active" /\ text[w].from < text[v].from}

BeginMove(r) ==
    \E v \in Version, target \in Status :
        /\ <<status[v], target>> \in Transitions
        /\ target = "approved" => MayApprove(v)
        /\ Start(r, [op |-> "move", v |-> v, target |-> target,
                     ends |-> IF target = "active" THEN Overtaken(v) ELSE {}])

-----------------------------------------------------------------------------
(* What they commit                                                         *)

\* A mutant of EndUpdated: no version is compared.
EndUnversioned(r, v) == req' = [req EXCEPT ![r] = Idle]

\* The update of row v raises its record_version: whoever else has loaded the
\* row cannot commit.
EndUpdated(r, v) ==
    req' = [q \in Request |->
               IF q = r THEN Idle
               ELSE IF req[q] \notin {Idle, Stale} /\ req[q].v = v THEN Stale
               ELSE req[q]]

CommitEdit(r) ==
    LET q == req[r] IN
    /\ q.op = "edit"
    /\ text' = [text EXCEPT ![q.v] = q.becomes]
    /\ EndUpdated(r, q.v)
    /\ UNCHANGED <<status, run, cited>>

\* A mutant of CommitSimulation: only the run is inserted, and the rule row
\* is left as it is.
CommitRunAlone(r) ==
    LET q == req[r] IN
    /\ q.op = "simulate"
    /\ run' = [run EXCEPT ![q.v] = q.result]
    /\ EndUnversioned(r, q.v)
    /\ UNCHANGED <<status, text, cited>>

\* The summary in test_results contains the time of the run, so that the row
\* is always updated together with the new run.
CommitSimulation(r) ==
    LET q == req[r] IN
    /\ q.op = "simulate"
    /\ run' = [run EXCEPT ![q.v] = q.result]
    /\ EndUpdated(r, q.v)
    /\ UNCHANGED <<status, text, cited>>

CommitEndorsement(r) ==
    LET q == req[r] IN
    /\ q.op = "endorse"
    /\ EndUpdated(r, q.v)
    /\ UNCHANGED <<rows, cited>>

\* PostgreSQL tests a row that the bulk UPDATE has matched again when it gets
\* the row's lock.
CommitMove(r) ==
    LET q == req[r] IN
    /\ q.op = "move"
    /\ status' = [w \in Version |->
                     IF w = q.v THEN q.target
                     ELSE IF w \in q.ends /\ status[w] = "active" THEN "superseded"
                     ELSE status[w]]
    /\ EndUpdated(r, q.v)
    /\ UNCHANGED <<text, run, cited>>

Abort(r) ==
    /\ req[r] # Idle
    /\ req' = [req EXCEPT ![r] = Idle]
    /\ UNCHANGED <<rows, cited>>

-----------------------------------------------------------------------------
(* Inspections                                                              *)

Row(v) == [code |-> "one", version |-> v, status |-> status[v],
           from |-> text[v].from, to |-> text[v].to]

\* The version that an inspection dated on a day is judged by: none or one.
Chosen(day) ==
    Preferred({row \in {Row(v) : v \in Version} : StatusAllows(row) /\ InForce(row, day)})

EvaluateInspection(day) ==
    \E row \in Chosen(day) :
        /\ cited' = cited \cup {<<row.version, text[row.version]>>}
        /\ UNCHANGED <<rows, req>>

-----------------------------------------------------------------------------
Begin(r) == BeginEdit(r) \/ BeginSimulation(r) \/ BeginEndorsement(r) \/ BeginMove(r)

Commit(r) == CommitEdit(r) \/ CommitSimulation(r) \/ CommitEndorsement(r) \/ CommitMove(r)

GovernanceNext ==
    \/ CreateRule
    \/ SeedRules
    \/ \E r \in Request : Begin(r) \/ Commit(r) \/ Abort(r)
    \/ \E day \in Day : EvaluateInspection(day)

Spec == Init /\ [][GovernanceNext]_vars

-----------------------------------------------------------------------------
(* Properties                                                               *)

\* What rule governance promises.
PhaseOf(s) ==
    IF s \in EditableStatus THEN "open"
    ELSE IF s = "under_review" THEN "review"
    ELSE IF s \in EffectiveStatus THEN "effective"
    ELSE IF s \in {"superseded", "withdrawn"} THEN "retired"
    ELSE "absent"

Promise == INSTANCE RuleLifecycle
               WITH phase <- [v \in Version |-> PhaseOf(status[v])],
                    content <- text

\* An edit or a move that was in flight while the version moved on does not
\* reach it: what is in effect cannot be edited, and what has ended stays so.
ImplementsLifecycle == Promise!Spec

\* What a finding cites still says what it said when the inspection was
\* judged by it, and has not returned to the authors.
CitedVersionsStand ==
    \A c \in cited :
        /\ text[c[1]] = c[2]
        /\ PhaseOf(status[c[1]]) \in {"effective", "retired"}

\* When an approval commits, the latest run passes and covers what the
\* version requires at that moment, although both were read before.
ApprovalsRestOnTheLatestRun ==
    [][\A v \in Version :
          status[v] # "approved" /\ status'[v] = "approved"
             => /\ run[v] # None
                /\ RequiredKinds(text[v]) \subseteq run[v].passes]_vars

\* The comment at api/v1/rules.py:380: editing invalidates any previous run.
\* What is approved has passed the simulator as it stands.
ApprovedAsSimulated ==
    \A v \in Version : status[v] = "approved" => run[v].edit = text[v].edit
=============================================================================
