----------------------- MODULE RuleGovernance_proofs ------------------------
(***************************************************************************)
(* Proofs about RuleGovernance, for any versions, windows, days and        *)
(* requests.  The invariant says of the requests that are still going to   *)
(* commit that what they have read holds: the row's version stops every    *)
(* other.  The only update that compares no version turns active into      *)
(* superseded, which harms none of them.                                   *)
(***************************************************************************)
EXTENDS RuleGovernance, TLAPS

-----------------------------------------------------------------------------
(* The invariant                                                           *)

\* An edit that may commit is of a version that may be edited.
EditsAreOpen ==
    \A r \in Request : req[r].op = "edit" => status[req[r].v] \in EditableStatus

\* A move that may commit follows an edge, or withdraws what was superseded
\* meanwhile; one that approves has a run that passes; one that activates, and
\* no other, ends versions, not its own.
MovesAreAllowed ==
    \A r \in Request : req[r].op = "move" =>
        /\ \/ <<status[req[r].v], req[r].target>> \in Transitions
           \/ status[req[r].v] = "superseded" /\ req[r].target = "withdrawn"
        /\ req[r].target = "approved" => MayApprove(req[r].v)
        /\ req[r].target # "active" => req[r].ends = {}
        /\ req[r].v \notin req[r].ends

IInv == GovernanceTypeOK /\ EditsAreOpen /\ MovesAreAllowed /\ CitedVersionsStand

-----------------------------------------------------------------------------
(* Records                                                                 *)

LEMMA TextsAreContents == \A v \in Version : Texts(v) \subseteq Content
  BY GovernanceAssumption DEF Texts, Content, Version

LEMMA NoTextIsContent == \A v \in Version : NoText(v) \in Content
<1> SUFFICES ASSUME NEW v \in Version PROVE NoText(v) \in Content
  OBVIOUS
<1>1. PICK w \in Window : TRUE
  BY GovernanceAssumption
<1>2. [edit |-> 0, from |-> w[1], to |-> w[2]] \in Texts(v)
  BY GovernanceAssumption DEF Texts, Version
<1>3. NoText(v) \in Texts(v)
  BY <1>2 DEF NoText
<1> QED
  BY <1>3, TextsAreContents

\* What the operation of a request says about its fields.
LEMMA RequestFields ==
    ASSUME GovernanceTypeOK, NEW r \in Request
    PROVE  /\ req[r].op = "edit" => req[r] \in Edit
           /\ req[r].op = "simulate" => req[r] \in Simulate
           /\ req[r].op = "endorse" => req[r] \in Endorse
           /\ req[r].op = "move" => req[r] \in Moves
           /\ req[r] \in {Idle, Stale} => req[r].op \in {"idle", "stale"}
           /\ req[r] \notin {Idle, Stale} => req[r].op \in {"edit", "simulate", "endorse", "move"}
  BY DEF GovernanceTypeOK, Idle, Stale, Edit, Simulate, Endorse, Moves

-----------------------------------------------------------------------------
LEMMA InitIInv == Init => IInv
<1> SUFFICES ASSUME Init PROVE IInv
  OBVIOUS
<1>1. GovernanceTypeOK
  BY NoTextIsContent DEF Init, GovernanceTypeOK
<1> QED
  BY <1>1 DEF Init, IInv, EditsAreOpen, MovesAreAllowed, CitedVersionsStand, Idle

-----------------------------------------------------------------------------
(* What the parts of an action leave of the requests                       *)

\* A request that is still going to commit after an update of row v was going
\* to commit the same before, and is about another row.
LEMMA EndUpdatedSpares ==
    ASSUME GovernanceTypeOK, NEW r \in Request, NEW v \in Version, EndUpdated(r, v)
    PROVE  /\ req' \in [Request -> {Idle, Stale} \cup Edit \cup Simulate \cup Endorse \cup Moves]
           /\ \A q \in Request : req'[q] \in {Idle, Stale} \/ (req'[q] = req[q] /\ req[q].v # v)
<1>1. req' \in [Request -> {Idle, Stale} \cup Edit \cup Simulate \cup Endorse \cup Moves]
  BY DEF EndUpdated, GovernanceTypeOK
<1>2. ASSUME NEW q \in Request
      PROVE  req'[q] \in {Idle, Stale} \/ (req'[q] = req[q] /\ req[q].v # v)
  BY DEF EndUpdated
<1> QED
  BY <1>1, <1>2

LEMMA IdleOrStaleFields == Idle.op = "idle" /\ Stale.op = "stale"
  BY DEF Idle, Stale

\* Starting a request leaves the others and the rows alone.
LEMMA StartKeeps ==
    ASSUME IInv, NEW r \in Request, NEW request, Start(r, request),
           request \in Edit \cup Simulate \cup Endorse \cup Moves,
           request.op = "edit" => status[request.v] \in EditableStatus,
           request.op = "move" =>
              /\ <<status[request.v], request.target>> \in Transitions
              /\ request.target = "approved" => MayApprove(request.v)
              /\ request.target # "active" => request.ends = {}
              /\ request.v \notin request.ends
    PROVE  IInv'
<1> USE DEF IInv, Start, rows
<1>1. \A q \in Request : req'[q] = IF q = r THEN request ELSE req[q]
  BY DEF GovernanceTypeOK
<1>2. GovernanceTypeOK'
  BY DEF GovernanceTypeOK
<1>3. EditsAreOpen'
  BY <1>1 DEF EditsAreOpen
<1>4. MovesAreAllowed'
  BY <1>1 DEF MovesAreAllowed, MayApprove, RequiredKinds
<1>5. CitedVersionsStand'
  BY DEF CitedVersionsStand
<1> QED
  BY <1>2, <1>3, <1>4, <1>5

-----------------------------------------------------------------------------
(* Every action preserves the invariant                                    *)

LEMMA InsertIInv ==
    ASSUME IInv, NEW v \in Version, NEW content \in Content, Insert(v, content)
    PROVE  IInv'
<1> USE DEF IInv, Insert
<1>1. GovernanceTypeOK'
  BY DEF GovernanceTypeOK, Status
<1>2. \A w \in Version : w # v => status'[w] = status[w] /\ text'[w] = text[w]
  BY DEF GovernanceTypeOK
<1>3. status[v] = "absent"
  OBVIOUS
<1>4. EditsAreOpen'
  BY <1>2, <1>3, RequestFields DEF EditsAreOpen, EditableStatus, Edit
<1>5. MovesAreAllowed'
  <2> SUFFICES ASSUME NEW r \in Request, req[r].op = "move"
               PROVE  req[r].v # v
    BY <1>2, RequestFields DEF MovesAreAllowed, MayApprove, RequiredKinds, Moves
  <2> QED
    BY <1>3 DEF MovesAreAllowed, Transitions
<1>6. CitedVersionsStand'
  BY <1>2, <1>3 DEF CitedVersionsStand, PhaseOf, EditableStatus, EffectiveStatus,
                    GovernanceTypeOK
<1> QED
  BY <1>1, <1>4, <1>5, <1>6

LEMMA BeginIInv == ASSUME IInv, NEW r \in Request, Begin(r) PROVE IInv'
<1>1. CASE BeginEdit(r)
  <2>1. PICK v \in Version :
           /\ status[v] \in EditableStatus
           /\ \E c \in EditsOf(v) : Start(r, [op |-> "edit", v |-> v, becomes |-> c])
    BY <1>1 DEF BeginEdit
  <2>2. PICK c \in EditsOf(v) : Start(r, [op |-> "edit", v |-> v, becomes |-> c])
    BY <2>1
  <2>3. c \in Content
    BY TextsAreContents DEF EditsOf
  <2> QED
    BY <2>1, <2>2, <2>3, StartKeeps DEF Edit
<1>2. CASE BeginSimulation(r)
  <2>1. PICK v \in Version, passes \in Passes :
           Start(r, [op |-> "simulate", v |-> v,
                     result |-> [edit |-> text[v].edit, passes |-> passes]])
    BY <1>2 DEF BeginSimulation
  <2>2. text[v].edit \in Nat
    BY DEF IInv, GovernanceTypeOK, Content
  <2> QED
    BY <2>1, <2>2, StartKeeps DEF Simulate, TestRun
<1>3. CASE BeginEndorsement(r)
  BY <1>3, StartKeeps DEF BeginEndorsement, Endorse
<1>4. CASE BeginMove(r)
  <2>1. PICK v \in Version, target \in Status :
           /\ <<status[v], target>> \in Transitions
           /\ target = "approved" => MayApprove(v)
           /\ Start(r, [op |-> "move", v |-> v, target |-> target,
                        ends |-> IF target = "active" THEN Overtaken(v) ELSE {}])
    BY <1>4 DEF BeginMove
  <2> DEFINE request == [op |-> "move", v |-> v, target |-> target,
                         ends |-> IF target = "active" THEN Overtaken(v) ELSE {}]
  <2>2. request \in Moves /\ v \notin request.ends
    BY DEF Moves, Overtaken
  <2> QED
    BY <2>1, <2>2, StartKeeps
<1> QED
  BY <1>1, <1>2, <1>3, <1>4 DEF Begin

\* Where neither the status nor the text of the other rows changes, nor the
\* run of those, the requests that are left keep what they have read.
LEMMA SparedRequestsKeep ==
    ASSUME IInv, NEW r \in Request, NEW v \in Version, EndUpdated(r, v),
           \A w \in Version \ {v} :
              /\ text'[w] = text[w] /\ run'[w] = run[w]
              /\ status'[w] = status[w] \/ (status[w] = "active" /\ status'[w] = "superseded")
    PROVE  EditsAreOpen' /\ MovesAreAllowed'
<1> USE DEF IInv
<1>1. \A q \in Request : req'[q] \in {Idle, Stale} \/ (req'[q] = req[q] /\ req[q].v # v)
  BY EndUpdatedSpares
<1>2. EditsAreOpen'
  BY <1>1, IdleOrStaleFields, RequestFields DEF EditsAreOpen, EditableStatus, Edit
<1>3. ASSUME NEW q \in Request, req'[q].op = "move"
      PROVE  /\ req'[q] = req[q] /\ req[q] \in Moves /\ req[q].v \in Version \ {v}
             /\ \/ <<status[req[q].v], req[q].target>> \in Transitions
                \/ status[req[q].v] = "superseded" /\ req[q].target = "withdrawn"
             /\ req[q].target = "approved" => MayApprove(req[q].v)
             /\ req[q].target # "active" => req[q].ends = {}
             /\ req[q].v \notin req[q].ends
  BY <1>1, <1>3, IdleOrStaleFields, RequestFields DEF MovesAreAllowed, Moves
<1>4. ASSUME NEW q \in Request, req'[q].op = "move"
      PROVE  /\ \/ <<status'[req[q].v], req[q].target>> \in Transitions
                \/ status'[req[q].v] = "superseded" /\ req[q].target = "withdrawn"
             /\ req[q].target = "approved" =>
                   /\ run'[req[q].v] # None
                   /\ RequiredKinds(text'[req[q].v]) \subseteq run'[req[q].v].passes
  <2> DEFINE w == req[q].v
  <2>1. /\ w \in Version \ {v}
        /\ \/ <<status[w], req[q].target>> \in Transitions
           \/ status[w] = "superseded" /\ req[q].target = "withdrawn"
        /\ req[q].target = "approved" => MayApprove(w)
    BY <1>3, <1>4
  <2>2. /\ text'[w] = text[w] /\ run'[w] = run[w]
        /\ status'[w] = status[w] \/ (status[w] = "active" /\ status'[w] = "superseded")
    BY <2>1
  <2>3. req[q].target = "approved" =>
           /\ run'[w] # None
           /\ RequiredKinds(text'[w]) \subseteq run'[w].passes
    BY <2>1, <2>2 DEF MayApprove
  <2>4. \/ <<status'[w], req[q].target>> \in Transitions
        \/ status'[w] = "superseded" /\ req[q].target = "withdrawn"
    BY <2>1, <2>2 DEF Transitions
  <2> QED
    BY <2>3, <2>4
<1>5. MovesAreAllowed'
  <2> SUFFICES ASSUME NEW q \in Request, req'[q].op = "move"
               PROVE  /\ \/ <<status'[req'[q].v], req'[q].target>> \in Transitions
                         \/ status'[req'[q].v] = "superseded" /\ req'[q].target = "withdrawn"
                      /\ req'[q].target = "approved" =>
                            /\ run'[req'[q].v] # None
                            /\ RequiredKinds(text'[req'[q].v]) \subseteq run'[req'[q].v].passes
                      /\ req'[q].target # "active" => req'[q].ends = {}
                      /\ req'[q].v \notin req'[q].ends
    BY DEF MovesAreAllowed, MayApprove, RequiredKinds
  <2>1. /\ req'[q] = req[q]
        /\ req[q].target # "active" => req[q].ends = {}
        /\ req[q].v \notin req[q].ends
    BY <1>3
  <2>2. /\ \/ <<status'[req[q].v], req[q].target>> \in Transitions
           \/ status'[req[q].v] = "superseded" /\ req[q].target = "withdrawn"
        /\ req[q].target = "approved" =>
              /\ run'[req[q].v] # None
              /\ RequiredKinds(text'[req[q].v]) \subseteq run'[req[q].v].passes
    BY <1>4
  <2> QED
    BY <2>1, <2>2, Zenon
<1> QED
  BY <1>2, <1>5

LEMMA CommitEditIInv == ASSUME IInv, NEW r \in Request, CommitEdit(r) PROVE IInv'
<1> DEFINE v == req[r].v
<1> USE DEF IInv, CommitEdit
<1>1. req[r] \in Edit /\ v \in Version /\ status[v] \in EditableStatus
  BY RequestFields DEF Edit, EditsAreOpen
<1>2. \A w \in Version \ {v} : text'[w] = text[w]
  BY <1>1 DEF GovernanceTypeOK
<1>3. EditsAreOpen' /\ MovesAreAllowed'
  BY <1>1, <1>2, SparedRequestsKeep
<1>4. GovernanceTypeOK'
  BY <1>1, EndUpdatedSpares DEF GovernanceTypeOK, Edit
<1>5. CitedVersionsStand'
  BY <1>1, <1>2 DEF CitedVersionsStand, PhaseOf, GovernanceTypeOK
<1> QED
  BY <1>3, <1>4, <1>5

LEMMA CommitSimulationIInv ==
    ASSUME IInv, NEW r \in Request, CommitSimulation(r) PROVE IInv'
<1> DEFINE v == req[r].v
<1> USE DEF IInv, CommitSimulation
<1>1. req[r] \in Simulate /\ v \in Version
  BY RequestFields DEF Simulate
<1>2. \A w \in Version \ {v} : run'[w] = run[w]
  BY <1>1 DEF GovernanceTypeOK
<1>3. EditsAreOpen' /\ MovesAreAllowed'
  BY <1>1, <1>2, SparedRequestsKeep
<1>4. GovernanceTypeOK'
  BY <1>1, EndUpdatedSpares DEF GovernanceTypeOK, Simulate
<1>5. CitedVersionsStand'
  BY DEF CitedVersionsStand
<1> QED
  BY <1>3, <1>4, <1>5

LEMMA CommitEndorsementIInv ==
    ASSUME IInv, NEW r \in Request, CommitEndorsement(r) PROVE IInv'
<1> USE DEF IInv, CommitEndorsement, rows
<1>1. req[r].v \in Version
  BY RequestFields DEF Endorse
<1>2. EditsAreOpen' /\ MovesAreAllowed'
  BY <1>1, SparedRequestsKeep
<1>3. GovernanceTypeOK'
  BY <1>1, EndUpdatedSpares DEF GovernanceTypeOK
<1>4. CitedVersionsStand'
  BY DEF CitedVersionsStand
<1> QED
  BY <1>2, <1>3, <1>4

\* What a move that commits does to the statuses.
LEMMA MoveFollowsEdges ==
    ASSUME IInv, NEW r \in Request, CommitMove(r)
    PROVE  LET v == req[r].v IN
           /\ req[r] \in Moves /\ v \in Version
           /\ status'[v] = req[r].target
           /\ \/ <<status[v], req[r].target>> \in Transitions
              \/ status[v] = "superseded" /\ req[r].target = "withdrawn"
           /\ req[r].target = "approved" => MayApprove(v)
           /\ \A w \in Version \ {v} :
                 status'[w] = status[w] \/ (status[w] = "active" /\ status'[w] = "superseded")
           /\ req[r].target # "active" => \A w \in Version \ {v} : status'[w] = status[w]
           /\ status' \in [Version -> Status \cup {"absent"}]
<1> DEFINE v == req[r].v
<1> USE DEF IInv, CommitMove
<1>1. req[r] \in Moves /\ v \in Version
  BY RequestFields DEF Moves
<1>2. /\ \/ <<status[v], req[r].target>> \in Transitions
         \/ status[v] = "superseded" /\ req[r].target = "withdrawn"
      /\ req[r].target = "approved" => MayApprove(v)
      /\ req[r].target # "active" => req[r].ends = {}
      /\ req[r].v \notin req[r].ends
  BY DEF MovesAreAllowed
<1>3. /\ status'[v] = req[r].target
      /\ \A w \in Version \ {v} :
            status'[w] = IF w \in req[r].ends /\ status[w] = "active" THEN "superseded"
                         ELSE status[w]
  BY <1>1
<1>4. status' \in [Version -> Status \cup {"absent"}]
  BY <1>1 DEF GovernanceTypeOK, Moves, Status
<1> QED
  BY <1>1, <1>2, <1>3, <1>4

LEMMA CommitMoveIInv == ASSUME IInv, NEW r \in Request, CommitMove(r) PROVE IInv'
<1> DEFINE v == req[r].v
<1> USE DEF IInv
<1>1. UNCHANGED <<text, run, cited>> /\ EndUpdated(r, v)
  BY DEF CommitMove
<1>2. EditsAreOpen' /\ MovesAreAllowed'
  BY <1>1, MoveFollowsEdges, SparedRequestsKeep
<1>3. GovernanceTypeOK'
  BY <1>1, MoveFollowsEdges, EndUpdatedSpares DEF GovernanceTypeOK
<1>4. ASSUME NEW w \in Version, PhaseOf(status[w]) \in {"effective", "retired"}
      PROVE  PhaseOf(status'[w]) \in {"effective", "retired"}
  BY <1>4, MoveFollowsEdges DEF PhaseOf, Transitions, EditableStatus, EffectiveStatus
<1>5. CitedVersionsStand'
  BY <1>1, <1>4 DEF CitedVersionsStand, GovernanceTypeOK
<1> QED
  BY <1>2, <1>3, <1>5

LEMMA AbortIInv == ASSUME IInv, NEW r \in Request, Abort(r) PROVE IInv'
<1> USE DEF IInv, Abort, rows
<1>1. \A q \in Request : req'[q] = Idle \/ req'[q] = req[q]
  BY DEF GovernanceTypeOK
<1>2. GovernanceTypeOK'
  BY DEF GovernanceTypeOK
<1>3. EditsAreOpen' /\ MovesAreAllowed'
  BY <1>1, IdleOrStaleFields DEF EditsAreOpen, MovesAreAllowed, MayApprove, RequiredKinds
<1>4. CitedVersionsStand'
  BY DEF CitedVersionsStand
<1> QED
  BY <1>2, <1>3, <1>4

LEMMA EvaluateIInv == ASSUME IInv, NEW day \in Day, EvaluateInspection(day) PROVE IInv'
<1> USE DEF IInv, rows
<1>1. PICK v \in Version :
         /\ status[v] \in EffectiveStatus
         /\ cited' = cited \cup {<<v, text[v]>>}
         /\ UNCHANGED <<rows, req>>
  BY DEF EvaluateInspection, Chosen, Preferred, Row, StatusAllows
<1>2. GovernanceTypeOK'
  BY <1>1 DEF GovernanceTypeOK
<1>3. EditsAreOpen' /\ MovesAreAllowed'
  BY <1>1 DEF EditsAreOpen, MovesAreAllowed, MayApprove, RequiredKinds
<1>4. CitedVersionsStand'
  BY <1>1 DEF CitedVersionsStand, PhaseOf, EffectiveStatus, EditableStatus
<1> QED
  BY <1>2, <1>3, <1>4

LEMMA NextIInv == IInv /\ [GovernanceNext]_vars => IInv'
<1> SUFFICES ASSUME IInv, [GovernanceNext]_vars PROVE IInv'
  OBVIOUS
<1>1. CASE CreateRule
  BY <1>1, TextsAreContents, InsertIInv DEF CreateRule
<1>2. CASE SeedRules
  BY <1>2, TextsAreContents, InsertIInv DEF SeedRules
<1>3. ASSUME NEW r \in Request, Begin(r) PROVE IInv'
  BY <1>3, BeginIInv
<1>4. ASSUME NEW r \in Request, Commit(r) PROVE IInv'
  BY <1>4, CommitEditIInv, CommitSimulationIInv, CommitEndorsementIInv, CommitMoveIInv
     DEF Commit
<1>5. ASSUME NEW r \in Request, Abort(r) PROVE IInv'
  BY <1>5, AbortIInv
<1>6. ASSUME NEW day \in Day, EvaluateInspection(day) PROVE IInv'
  BY <1>6, EvaluateIInv
<1>7. CASE UNCHANGED vars
  BY <1>7 DEF vars, rows, IInv, GovernanceTypeOK, EditsAreOpen, MovesAreAllowed, MayApprove,
              CitedVersionsStand
<1> QED
  BY <1>1, <1>2, <1>3, <1>4, <1>5, <1>6, <1>7 DEF GovernanceNext

LEMMA SpecIInv == Spec => []IInv
<1>1. Init => IInv
  BY InitIInv
<1>2. IInv /\ [GovernanceNext]_vars => IInv'
  BY NextIInv
<1> QED
  BY <1>1, <1>2, PTL DEF Spec

-----------------------------------------------------------------------------
(* Theorems                                                                *)

\* The rows, the runs, the citations and the requests keep their types: what
\* is written is always a text, a status or a run of the program.
THEOREM TypeCorrect == Spec => []GovernanceTypeOK
<1>1. IInv => GovernanceTypeOK
  BY DEF IInv
<1> QED
  BY <1>1, SpecIInv, PTL

\* A version that an inspection was judged by is never edited and never goes
\* back to its authors, however many requests were in flight.
THEOREM CitationsStand == Spec => []CitedVersionsStand
<1>1. IInv => CitedVersionsStand
  BY DEF IInv
<1> QED
  BY <1>1, SpecIInv, PTL

\* An approval commits only on a latest run that passes and covers what the
\* version requires when it commits.
THEOREM ApprovalsAreTested == Spec => ApprovalsRestOnTheLatestRun
<1> DEFINE Tested == \A v \in Version :
                        status[v] # "approved" /\ status'[v] = "approved"
                           => /\ run[v] # None
                              /\ RequiredKinds(text[v]) \subseteq run[v].passes
<1>1. IInv /\ [GovernanceNext]_vars => [Tested]_vars
  <2> SUFFICES ASSUME IInv, [GovernanceNext]_vars, NEW v \in Version,
                      status[v] # "approved", status'[v] = "approved"
               PROVE  MayApprove(v)
    BY DEF MayApprove
  <2>1. CASE CreateRule \/ SeedRules
    BY <2>1 DEF CreateRule, SeedRules, Insert, IInv, GovernanceTypeOK
  <2>2. ASSUME NEW r \in Request, Begin(r) \/ Abort(r) PROVE FALSE
    BY <2>2 DEF Begin, BeginEdit, BeginSimulation, BeginEndorsement, BeginMove, Start, Abort, rows
  <2>3. ASSUME NEW r \in Request, CommitEdit(r) \/ CommitSimulation(r) \/ CommitEndorsement(r)
        PROVE  FALSE
    BY <2>3 DEF CommitEdit, CommitSimulation, CommitEndorsement, rows
  <2>4. ASSUME NEW r \in Request, CommitMove(r) PROVE MayApprove(v)
    BY <2>4, MoveFollowsEdges
  <2>5. ASSUME NEW day \in Day, EvaluateInspection(day) PROVE FALSE
    BY <2>5 DEF EvaluateInspection, rows
  <2>6. CASE UNCHANGED vars
    BY <2>6 DEF vars, rows
  <2> QED
    BY <2>1, <2>2, <2>3, <2>4, <2>5, <2>6 DEF GovernanceNext, Commit
<1> QED
  BY <1>1, SpecIInv, PTL DEF Spec, ApprovalsRestOnTheLatestRun

-----------------------------------------------------------------------------
(* The refinement                                                          *)

LEMMA InitRefines == IInv /\ Init => Promise!Init
  BY DEF Init, Promise!Init, PhaseOf, EditableStatus, EffectiveStatus, IInv, GovernanceTypeOK

\* A text that is written is a content.
LEMMA WriteRefines ==
    ASSUME IInv, IInv', NEW v \in Version, NEW content, text' = [text EXCEPT ![v] = content]
    PROVE  Promise!Write(v)
<1>1. text'[v] = content /\ text'[v] \in Content
  BY DEF IInv, GovernanceTypeOK
<1> QED
  BY <1>1 DEF Promise!Write

\* The phase changes as the status of one version does.
LEMMA PhasesFollow ==
    ASSUME IInv, IInv', NEW v \in Version,
           \A w \in Version \ {v} : status'[w] = status[w]
    PROVE  [w \in Version |-> PhaseOf(status'[w])]
             = [[w \in Version |-> PhaseOf(status[w])] EXCEPT ![v] = PhaseOf(status'[v])]
  BY DEF IInv, GovernanceTypeOK

\* Inserting a version creates it.
LEMMA InsertRefines ==
    ASSUME IInv, IInv', NEW v \in Version, NEW content \in Content, Insert(v, content)
    PROVE  Promise!Next
<1>1. \A w \in Version \ {v} : status'[w] = status[w]
  BY DEF Insert, IInv, GovernanceTypeOK
<1>2. PhaseOf(status[v]) = "absent" /\ PhaseOf(status'[v]) = "open"
  BY DEF Insert, PhaseOf, EditableStatus, EffectiveStatus, IInv, GovernanceTypeOK
<1>3. Promise!Enter(v, "absent", "open")
  BY <1>1, <1>2, PhasesFollow DEF Promise!Enter
<1>4. Promise!Write(v)
  BY WriteRefines DEF Insert
<1> QED
  BY <1>3, <1>4 DEF Promise!Next, Promise!Create

\* An edit that commits revises an open version.
LEMMA EditRefines ==
    ASSUME IInv, IInv', NEW r \in Request, CommitEdit(r)
    PROVE  Promise!Next
<1> DEFINE v == req[r].v
<1>1. v \in Version /\ PhaseOf(status[v]) = "open"
  BY RequestFields DEF CommitEdit, IInv, EditsAreOpen, Edit, PhaseOf
<1>2. Promise!Write(v)
  BY <1>1, WriteRefines DEF CommitEdit
<1>3. UNCHANGED [w \in Version |-> PhaseOf(status[w])]
  BY DEF CommitEdit
<1> QED
  BY <1>1, <1>2, <1>3 DEF Promise!Next, Promise!Revise

\* Versions whose effect ends together.
LEMMA RetireRefines ==
    ASSUME NEW ended \in SUBSET Version, UNCHANGED text,
           \A w \in ended : PhaseOf(status[w]) = "effective" /\ PhaseOf(status'[w]) = "retired",
           \A w \in Version \ ended : PhaseOf(status'[w]) = PhaseOf(status[w])
    PROVE  Promise!Next
<1>1. Promise!Retire(ended)
  BY DEF Promise!Retire
<1> QED
  BY <1>1 DEF Promise!Next

\* A move that commits is one step of the life of its version, or ends the
\* effect of those it overtakes.
LEMMA MoveRefines ==
    ASSUME IInv, IInv', NEW r \in Request, CommitMove(r)
    PROVE  Promise!Next
<1> DEFINE v == req[r].v
<1> DEFINE target == req[r].target
<1>1. /\ v \in Version /\ status'[v] = target
      /\ \/ <<status[v], target>> \in Transitions
         \/ status[v] = "superseded" /\ target = "withdrawn"
      /\ \A w \in Version \ {v} :
            status'[w] = status[w] \/ (status[w] = "active" /\ status'[w] = "superseded")
      /\ target # "active" => \A w \in Version \ {v} : status'[w] = status[w]
  BY MoveFollowsEdges
<1>2. UNCHANGED text
  BY DEF CommitMove
<1> USE DEF PhaseOf, EditableStatus, EffectiveStatus
<1>3. CASE target = "active"
  <2> DEFINE ended == {w \in Version : status[w] = "active" /\ status'[w] = "superseded"}
  <2>1. \A w \in ended : PhaseOf(status[w]) = "effective" /\ PhaseOf(status'[w]) = "retired"
    OBVIOUS
  <2>2. \A w \in Version \ ended : PhaseOf(status'[w]) = PhaseOf(status[w])
    BY <1>1, <1>3 DEF Transitions
  <2> QED
    BY <1>2, <2>1, <2>2, RetireRefines
<1>4. CASE target = "withdrawn"
  <2> DEFINE ended == {w \in {v} : status[w] # "superseded"}
  <2>1. \A w \in ended : PhaseOf(status[w]) = "effective" /\ PhaseOf(status'[w]) = "retired"
    BY <1>1, <1>4 DEF Transitions
  <2>2. \A w \in Version \ ended : PhaseOf(status'[w]) = PhaseOf(status[w])
    BY <1>1, <1>4
  <2>3. ended \in SUBSET Version
    BY <1>1
  <2> QED
    BY <1>2, <2>1, <2>2, <2>3, RetireRefines
<1>5. CASE target \notin {"active", "withdrawn"}
  <2>1. /\ <<status[v], target>> \in Transitions
        /\ \A w \in Version \ {v} : status'[w] = status[w]
    BY <1>1, <1>5
  <2>2. \/ PhaseOf(status[v]) = "open" /\ PhaseOf(target) = "review"
        \/ PhaseOf(status[v]) = "review" /\ PhaseOf(target) = "open"
        \/ PhaseOf(status[v]) = "review" /\ PhaseOf(target) = "effective"
    BY <2>1, <1>5 DEF Transitions
  <2>3. Promise!Enter(v, PhaseOf(status[v]), PhaseOf(target))
    <3>1. [w \in Version |-> PhaseOf(status'[w])]
             = [[w \in Version |-> PhaseOf(status[w])] EXCEPT ![v] = PhaseOf(target)]
      BY <1>1, <2>1, PhasesFollow DEF IInv, GovernanceTypeOK
    <3>2. [w \in Version |-> PhaseOf(status[w])][v] = PhaseOf(status[v])
      BY <1>1
    <3> HIDE DEF PhaseOf
    <3> QED
      BY <3>1, <3>2 DEF Promise!Enter
  <2> HIDE DEF PhaseOf, v, target
  <2>4. \/ Promise!Enter(v, "open", "review")
        \/ Promise!Enter(v, "review", "open")
        \/ Promise!Enter(v, "review", "effective")
    BY <2>2, <2>3, Zenon
  <2> QED
    BY <1>1, <1>2, <2>4 DEF Promise!Next, Promise!Submit, Promise!Return, Promise!Approve
<1> QED
  BY <1>3, <1>4, <1>5

\* What a step leaves of statuses and texts leaves the phases.
LEMMA QuietRefines ==
    ASSUME UNCHANGED <<status, text>>
    PROVE  UNCHANGED <<[v \in Version |-> PhaseOf(status[v])], text>>
  OBVIOUS

LEMMA NextRefines ==
    IInv /\ IInv' /\ [GovernanceNext]_vars
       => [Promise!Next]_<<[v \in Version |-> PhaseOf(status[v])], text>>
<1> SUFFICES ASSUME IInv, IInv', [GovernanceNext]_vars
             PROVE  Promise!Next \/ UNCHANGED <<status, text>>
  BY QuietRefines
<1>1. CASE CreateRule \/ SeedRules
  BY <1>1, TextsAreContents, InsertRefines DEF CreateRule, SeedRules
<1>2. ASSUME NEW r \in Request, Begin(r) \/ Abort(r) PROVE UNCHANGED <<status, text>>
  BY <1>2 DEF Begin, BeginEdit, BeginSimulation, BeginEndorsement, BeginMove, Start, Abort, rows
<1>3. ASSUME NEW r \in Request, Commit(r) PROVE Promise!Next \/ UNCHANGED <<status, text>>
  <2>1. CASE CommitSimulation(r) \/ CommitEndorsement(r)
    BY <2>1 DEF CommitSimulation, CommitEndorsement, rows
  <2> QED
    BY <1>3, <2>1, EditRefines, MoveRefines DEF Commit
<1>4. ASSUME NEW day \in Day, EvaluateInspection(day) PROVE UNCHANGED <<status, text>>
  BY <1>4 DEF EvaluateInspection, rows
<1>5. CASE UNCHANGED vars
  BY <1>5 DEF vars, rows
<1> QED
  BY <1>1, <1>2, <1>3, <1>4, <1>5 DEF GovernanceNext

\* The governance of one rule code, with its requests in flight, keeps the
\* promise about every version: it is written while it is open only, takes
\* effect once, from a review, and when its effect has ended it is over.
THEOREM KeepsThePromise == Spec => ImplementsLifecycle
<1>1. Spec => Promise!Init
  BY InitRefines, SpecIInv, PTL DEF Spec
<1>2. Spec => [][Promise!Next]_<<[v \in Version |-> PhaseOf(status[v])], text>>
  BY NextRefines, SpecIInv, PTL DEF Spec
<1> QED
  BY <1>1, <1>2, PTL DEF ImplementsLifecycle, Promise!Spec

=============================================================================
