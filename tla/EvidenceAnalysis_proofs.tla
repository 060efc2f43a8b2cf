---------------------- MODULE EvidenceAnalysis_proofs ----------------------
(***************************************************************************)
(* Proofs about EvidenceAnalysis, for any files, matches, jobs, requests   *)
(* and tasks.  The composition takes only steps of the queue, so what is   *)
(* proved of the queue holds here; the invariant adds that a fresh view    *)
(* shows the inspection as it is, that a key in use names one file, and    *)
(* that the row of a task at work waits or runs.                           *)
(***************************************************************************)
EXTENDS MCEvidenceAnalysis, JobQueue_proofs

-----------------------------------------------------------------------------
(* The queue inside the composition                                        *)

\* What a step of the requests, of the tasks or of the officers does to the
\* queue is a step of the queue, or nothing.
LEMMA StepIsAQueueStep == AnalysisNext => Next \/ UNCHANGED vars
<1> SUFFICES ASSUME AnalysisNext PROVE Next \/ UNCHANGED vars
  OBVIOUS
<1>1. ASSUME NEW r \in Request, RequestAction(r) PROVE Next \/ UNCHANGED vars
  <2>1. CASE \E j \in Job, e \in Evidence : BeginUpload(r, j, e) \/ BeginReanalyse(r, j, e)
    BY <2>1 DEF BeginUpload, BeginReanalyse, Next, RequestStep
  <2>2. CASE \/ \E j \in Job, e \in Evidence : BeginAgain(r, j, e)
             \/ CommitAgain(r)
    BY <2>2 DEF BeginAgain, CommitAgain, queueVars
  <2>3. CASE CommitUpload(r)
    BY <2>3 DEF CommitUpload, Next, RequestStep
  <2>4. CASE CommitReanalyse(r)
    BY <2>4 DEF CommitReanalyse, Next, RequestStep
  <2>5. CASE AbandonRequest(r)
    BY <2>5 DEF AbandonRequest, queueVars, Next, RequestStep
  <2> QED
    BY <1>1, <2>1, <2>2, <2>3, <2>4, <2>5 DEF RequestAction
<1>2. ASSUME NEW w \in Slot, TaskAction(w) PROVE Next \/ UNCHANGED vars
  <2>1. CASE FindRunning(w) \/ BeginAnalysis(w) \/ ReadEvidence(w) \/ FindFailed(w)
    BY <2>1 DEF FindRunning, BeginAnalysis, ReadEvidence, FindFailed, queueVars
  <2>2. CASE \E found \in SUBSET Match, ok \in BOOLEAN : StoreResults(w, found, ok)
    BY <2>2 DEF StoreResults, Next, TaskStep
  <2>3. CASE CountOutstanding(w)
    BY <2>3 DEF CountOutstanding, queueVars, Next, TaskStep
  <2>4. CASE AdvanceInspection(w)
    BY <2>4 DEF AdvanceInspection, Next, TaskStep
  <2>5. CASE FailAnalysis(w)
    BY <2>5 DEF FailAnalysis, Next, TaskStep
  <2>6. CASE CutAnalysis(w)
    BY <2>6 DEF CutAnalysis, Next, TaskStep
  <2> QED
    BY <1>2, <2>1, <2>2, <2>3, <2>4, <2>5, <2>6 DEF TaskAction
<1>3. CASE WorkerIsKilled
  BY <1>3 DEF WorkerIsKilled, Next
<1>4. CASE \E e \in Evidence, m \in Match : Review(e, m)
  BY <1>4 DEF Review, queueVars
<1>5. CASE \E target \in M!InspectionState : OfficerMove(target)
  BY <1>5 DEF OfficerMove, queueVars
<1>6. CASE QueueOnly
  BY <1>6 DEF QueueOnly, Next, RequestStep, TaskStep
<1> QED
  BY <1>1, <1>2, <1>3, <1>4, <1>5, <1>6 DEF AnalysisNext

\* Whatever evidence, readings and officers do, the jobs behave as JobQueue
\* says, so every theorem about the queue holds of the composition.
THEOREM QueueKeepsItsSpecification == AnalysisSpec => Spec
<1>1. AnalysisInit => Init
  BY DEF AnalysisInit
<1>2. [AnalysisNext]_allVars => [Next]_vars
  BY StepIsAQueueStep DEF allVars
<1> QED
  BY <1>1, <1>2, PTL DEF AnalysisSpec, Spec

-----------------------------------------------------------------------------
(* The invariant                                                           *)

\* A fresh view shows the inspection as it is, and a task that has counted
\* nothing outstanding has read it as processing.
FreshViews ==
    /\ \A r \in Request : seen[r].fresh => seen[r].state = state
    /\ \A w \in Slot : work[w].stage = "counted" /\ work[w].fresh => state = "processing"

\* An upload at work is at work on a key that nothing else knows.
UploadsAreNew ==
    \A r \in Request : seen[r].op = "upload" =>
        /\ session[r].stage = "insert" /\ session[r].job \in Job
        /\ row[session[r].job].state = "absent"
        /\ seen[r].evidence \in Evidence
        /\ \A q \in Request \ {r} : seen[q].op # "none" => session[q].job # session[r].job

\* A key names no file before its row is there, and then the file of whoever
\* is at work on it.  A request that has found its job is at work on no key.
KeysNameOneFile ==
    /\ \A j \in Job : row[j].state = "absent" => subject[j] = NoSubject
    /\ \A r \in Request : seen[r].op = "reanalyse" =>
        /\ session[r].stage \in {"insert", "requeue"} /\ session[r].job \in Job
        /\ seen[r].evidence \in Evidence
        /\ subject[session[r].job].evidence \in {NoEvidence, seen[r].evidence}
    /\ \A q, r \in Request :
        /\ seen[q].op = "reanalyse" /\ seen[r].op = "reanalyse"
        /\ session[q].job = session[r].job
        => seen[q].evidence = seen[r].evidence
    /\ \A r \in Request : seen[r].op = "again" =>
        session[r] = Idle /\ seen[r].evidence \in Evidence

\* The row of a task that has not stored its results yet waits or runs.
RunningRows ==
    restarts = 0 => \A w \in Slot :
        slot[w].stage = "running" => row[slot[w].job].state \in {"queued", "running"}

AInv ==
    /\ AnalysisTypeOK
    /\ FreshViews
    /\ UploadsAreNew
    /\ KeysNameOneFile
    /\ RunningRows

LEMMA InitAInv == AnalysisInit => AInv
<1> SUFFICES ASSUME AnalysisInit PROVE AInv
  OBVIOUS
<1>1. IInv
  BY InitIInv DEF AnalysisInit
<1>2. AnalysisTypeOK
  <2>1. NoView \in View /\ NoSubject \in Subject /\ NoWork \in Work
    BY DEF NoView, View, NoSubject, Subject, NoWork, Work, M!InspectionState
  <2> QED
    BY <1>1, <2>1 DEF AnalysisInit, AnalysisTypeOK, IInv, M!InspectionState, Analysis, Reading
<1>3. FreshViews /\ UploadsAreNew /\ KeysNameOneFile
  BY DEF AnalysisInit, FreshViews, UploadsAreNew, KeysNameOneFile, NoView, NoWork
<1>4. RunningRows
  BY DEF AnalysisInit, Init, RunningRows, Free
<1> QED
  BY <1>2, <1>3, <1>4 DEF AInv

-----------------------------------------------------------------------------
(* Types                                                                   *)

LEMMA Defaults == NoView \in View /\ NoSubject \in Subject /\ NoWork \in Work
  BY DEF NoView, View, NoSubject, Subject, NoWork, Work, M!InspectionState

LEMMA StaleTypes ==
    ASSUME AnalysisTypeOK
    PROVE  StaleViews \in [Request -> View] /\ StaleWork \in [Slot -> Work]
<1>1. seen \in [Request -> View] /\ work \in [Slot -> Work]
  BY DEF AnalysisTypeOK
<1>2. \A r \in Request : [seen[r] EXCEPT !.fresh = FALSE] \in View
  BY <1>1 DEF View
<1>3. \A w \in Slot : [work[w] EXCEPT !.fresh = FALSE] \in Work
  BY <1>1 DEF Work
<1> QED
  BY <1>2, <1>3 DEF StaleViews, StaleWork

LEMMA RequestTypes ==
    ASSUME AnalysisTypeOK, TypeOK', NEW r \in Request, RequestAction(r)
    PROVE  AnalysisTypeOK'
<1> USE Defaults, StaleTypes
<1>0. /\ state \in M!InspectionState
      /\ analysis \in [Evidence -> Analysis]
      /\ subject \in [Job -> Subject]
      /\ seen \in [Request -> View]
      /\ seen[r] \in View
      /\ "queued" \in Analysis /\ "processing" \in M!InspectionState
  BY DEF AnalysisTypeOK, Analysis, Outstanding, M!InspectionState
<1>1. ASSUME NEW j \in Job, NEW e \in Evidence, BeginUpload(r, j, e) PROVE AnalysisTypeOK'
  <2> DEFINE v == [op |-> "upload", evidence |-> e, state |-> state,
                   queued |-> FALSE, fresh |-> TRUE]
  <2>1. v \in View
    BY <1>0 DEF View
  <2>2. seen' = [seen EXCEPT ![r] = v]
    BY <1>1 DEF BeginUpload
  <2> HIDE DEF v
  <2> QED
    BY <1>1, <2>1, <2>2 DEF BeginUpload, AnalysisTypeOK
<1>2. ASSUME NEW j \in Job, NEW e \in Evidence, NEW op \in {"reanalyse", "again"}
      PROVE  [op |-> op, evidence |-> e, state |-> "draft",
              queued |-> analysis[e] = "queued", fresh |-> FALSE] \in View
  <2> DEFINE q == analysis[e] = "queued"
  <2>1. q \in BOOLEAN
    OBVIOUS
  <2> HIDE DEF q
  <2>2. [op |-> op, evidence |-> e, state |-> "draft", queued |-> q, fresh |-> FALSE] \in View
    BY <2>1 DEF View, M!InspectionState
  <2> QED
    BY <2>2 DEF q
<1>3. ASSUME NEW j \in Job, NEW e \in Evidence, BeginReanalyse(r, j, e) \/ BeginAgain(r, j, e)
      PROVE  AnalysisTypeOK'
  <2>1. PICK op \in {"reanalyse", "again"} :
          seen' = [seen EXCEPT ![r] = [op |-> op, evidence |-> e, state |-> "draft",
                                       queued |-> analysis[e] = "queued", fresh |-> FALSE]]
    BY Zenon, <1>3 DEF BeginReanalyse, BeginAgain
  <2>2. seen' \in [Request -> View]
    BY Zenon, <1>0, <1>2, <2>1
  <2> QED
    BY <1>3, <2>2 DEF BeginReanalyse, BeginAgain, AnalysisTypeOK
<1>4. CASE CommitUpload(r)
  <2> DEFINE s == [evidence |-> seen[r].evidence, first |-> TRUE]
  <2>1. s \in Subject
    BY <1>0 DEF Subject, View
  <2>2. subject' = [subject EXCEPT ![session[r].job] = s]
    BY <1>4 DEF CommitUpload
  <2>3. subject' \in [Job -> Subject]
    <3> HIDE DEF s
    <3> QED
      BY <1>0, <2>1, <2>2
  <2>4. analysis' \in [Evidence -> Analysis]
    BY <1>0, <1>4 DEF CommitUpload
  <2>5. seen' \in [Request -> View] /\ work' \in [Slot -> Work] /\ state' \in M!InspectionState
    BY <1>0, <1>4 DEF CommitUpload, AnalysisTypeOK
  <2> QED
    BY <1>4, <2>3, <2>4, <2>5 DEF CommitUpload, AnalysisTypeOK
<1>5. CASE CommitReanalyse(r)
  <2>1. analysis' \in [Evidence -> Analysis]
    BY <1>0, <1>5 DEF CommitReanalyse, MarkQueued
  <2>2. subject' \in [Job -> Subject]
    <3>1. \A j \in Job : [subject[j] EXCEPT !.evidence = seen[r].evidence] \in Subject
      BY <1>0 DEF Subject, View
    <3>2. \/ subject' = [subject EXCEPT ![session[r].job].evidence = seen[r].evidence]
          \/ UNCHANGED subject
      BY <1>5 DEF CommitReanalyse
    <3> QED
      BY <1>0, <3>1, <3>2
  <2> QED
    BY <1>0, <1>5, <2>1, <2>2 DEF CommitReanalyse, AnalysisTypeOK
<1>6. CASE AbandonRequest(r)
  BY <1>0, <1>6 DEF AbandonRequest, AnalysisTypeOK
<1>7. CASE CommitAgain(r)
  BY <1>0, <1>7 DEF CommitAgain, MarkQueued, AnalysisTypeOK
<1> QED
  BY <1>1, <1>3, <1>4, <1>5, <1>6, <1>7 DEF RequestAction

LEMMA ReplacedType ==
    ASSUME AnalysisTypeOK, NEW e \in Evidence, NEW found \in SUBSET Match
    PROVE  Replaced(e, found) \in [Match -> Reading]
  BY DEF Replaced, Reading

LEMMA TaskTypes ==
    ASSUME AnalysisTypeOK, TypeOK', NEW w \in Slot, TaskAction(w)
    PROVE  AnalysisTypeOK'
<1> USE Defaults, StaleTypes
<1>0. /\ analysis \in [Evidence -> Analysis]
      /\ work \in [Slot -> Work]
      /\ reading \in [Evidence -> [Match -> Reading]]
      /\ {"running", "completed", "failed"} \subseteq Analysis
      /\ "officer_review" \in M!InspectionState
  BY DEF AnalysisTypeOK, Analysis, Outstanding, M!InspectionState
<1>1. ASSUME \/ Working(w, "opening") \/ Working(w, "begun") \/ Working(w, "stored")
             \/ Working(w, "failing") \/ HasCounted(w)
      PROVE  work' \in [Slot -> Work]
  <2>1. \A s \in {"opening", "begun", "stored", "failing"} :
          [stage |-> s, settled |-> "no", fresh |-> FALSE] \in Work
    BY DEF Work
  <2>2. [stage |-> "counted", settled |-> "no", fresh |-> TRUE] \in Work
    BY DEF Work
  <2> QED
    BY <1>0, <1>1, <2>1, <2>2 DEF Working, HasCounted
<1>2. ASSUME Stopped(w) PROVE work' \in [Slot -> Work]
  BY <1>0, <1>2 DEF Stopped
<1>3. CASE BeginAnalysis(w)
  <2>1. analysis' \in [Evidence -> Analysis]
    BY <1>0, <1>3 DEF BeginAnalysis
  <2> QED
    BY <1>1, <1>3, <2>1 DEF BeginAnalysis, AnalysisTypeOK
<1>4. ASSUME NEW found \in SUBSET Match, NEW ok \in BOOLEAN, StoreResults(w, found, ok)
      PROVE  AnalysisTypeOK'
  <2>1. reading' \in [Evidence -> [Match -> Reading]]
    <3>1. CASE On(w) \in Evidence
      BY <1>0, <1>4, <3>1, ReplacedType DEF StoreResults
    <3>2. CASE On(w) \notin Evidence
      BY <1>0, <1>4, <3>2 DEF StoreResults
    <3> QED
      BY <3>1, <3>2
  <2>2. analysis' \in [Evidence -> Analysis]
    BY <1>0, <1>4 DEF StoreResults
  <2>3. work' \in [Slot -> Work]
    BY <1>1, <1>4 DEF StoreResults
  <2> QED
    BY <1>4, <2>1, <2>2, <2>3 DEF StoreResults, AnalysisTypeOK
<1>5. CASE CountOutstanding(w)
  <2>1. work' \in [Slot -> Work]
    BY <1>1, <1>2, <1>5 DEF CountOutstanding
  <2> QED
    BY <1>5, <2>1 DEF CountOutstanding, AnalysisTypeOK
<1>6. CASE AdvanceInspection(w)
  BY <1>0, <1>6 DEF AdvanceInspection, AnalysisTypeOK
<1>7. CASE FailAnalysis(w)
  <2>1. analysis' \in [Evidence -> Analysis]
    BY <1>0, <1>7 DEF FailAnalysis
  <2> QED
    BY <1>2, <1>7, <2>1 DEF FailAnalysis, AnalysisTypeOK
<1>8. CASE CutAnalysis(w)
  BY <1>2, <1>8 DEF CutAnalysis, AnalysisTypeOK
<1>9. CASE ReadEvidence(w)
  <2> DEFINE x == IF analysis[On(w)] \in {"completed", "failed"} THEN analysis[On(w)] ELSE "no"
             v == [stage |-> "read", fresh |-> FALSE, settled |-> x]
  <2>1. v \in Work
    <3>1. x \in {"no", "completed", "failed"}
      OBVIOUS
    <3> HIDE DEF x
    <3> QED
      BY <3>1 DEF Work
  <2>2. work' = [work EXCEPT ![w] = v]
    BY <1>9 DEF ReadEvidence
  <2> HIDE DEF v
  <2>3. work' \in [Slot -> Work]
    BY <1>0, <2>1, <2>2
  <2> QED
    BY <1>9, <2>3 DEF ReadEvidence, AnalysisTypeOK
<1>10. CASE FindRunning(w) \/ FindFailed(w)
  BY <1>1, <1>10 DEF FindRunning, FindFailed, AnalysisTypeOK
<1> QED
  BY <1>3, <1>4, <1>5, <1>6, <1>7, <1>8, <1>9, <1>10 DEF TaskAction

LEMMA StepTypes ==
    ASSUME AnalysisTypeOK, TypeOK', AnalysisNext
    PROVE  AnalysisTypeOK'
<1> USE Defaults, StaleTypes
<1>1. CASE WorkerIsKilled
  BY <1>1 DEF WorkerIsKilled, AnalysisTypeOK
<1>2. ASSUME NEW e \in Evidence, NEW m \in Match, Review(e, m) PROVE AnalysisTypeOK'
  <2>1. reading' \in [Evidence -> [Match -> Reading]]
    BY <1>2 DEF Review, AnalysisTypeOK, Reading
  <2>2. seen' \in [Request -> View] /\ work' \in [Slot -> Work]
    BY <1>2 DEF Review, AnalysisTypeOK
  <2> QED
    BY <1>2, <2>1, <2>2 DEF Review, AnalysisTypeOK
<1>3. ASSUME NEW target \in M!InspectionState, OfficerMove(target) PROVE AnalysisTypeOK'
  BY <1>3 DEF OfficerMove, AnalysisTypeOK
<1>4. CASE QueueOnly
  BY <1>4 DEF QueueOnly, evidenceVars, AnalysisTypeOK
<1> QED
  BY RequestTypes, TaskTypes, <1>1, <1>2, <1>3, <1>4 DEF AnalysisNext

-----------------------------------------------------------------------------
(* Views                                                                   *)

\* After an update of the inspection no view of another is fresh.
LEMMA StaleFacts ==
    ASSUME AnalysisTypeOK
    PROVE  /\ \A r \in Request : StaleViews[r].fresh = FALSE
           /\ \A w \in Slot : StaleWork[w].fresh = FALSE
  BY DEF StaleViews, StaleWork, AnalysisTypeOK, View, Work

LEMMA RequestViews ==
    ASSUME AnalysisTypeOK, FreshViews, NEW r \in Request, RequestAction(r)
    PROVE  FreshViews'
<1> USE StaleFacts
<1>0. /\ seen \in [Request -> View] /\ work \in [Slot -> Work]
      /\ StaleViews \in [Request -> View] /\ StaleWork \in [Slot -> Work]
      /\ ~NoView.fresh
  BY StaleTypes DEF AnalysisTypeOK, NoView
<1>1. ASSUME NEW j \in Job, NEW e \in Evidence, BeginUpload(r, j, e) PROVE FreshViews'
  BY <1>0, <1>1 DEF BeginUpload, FreshViews
<1>2. ASSUME NEW j \in Job, NEW e \in Evidence, BeginReanalyse(r, j, e) \/ BeginAgain(r, j, e)
      PROVE  FreshViews'
  <2>1. UNCHANGED <<state, work>> /\ \A q \in Request \ {r} : seen'[q] = seen[q]
    BY <1>0, <1>2 DEF BeginReanalyse, BeginAgain
  <2>2. ~seen'[r].fresh
    <3> DEFINE v(op, queued) == [op |-> op, evidence |-> e, state |-> "draft",
                                 queued |-> queued, fresh |-> FALSE]
    <3>1. \A op, queued : v(op, queued).fresh = FALSE
      OBVIOUS
    <3>2. \E op, queued : seen' = [seen EXCEPT ![r] = v(op, queued)]
      BY Zenon, <1>2 DEF BeginReanalyse, BeginAgain, v
    <3> HIDE DEF v
    <3> QED
      BY <1>0, <3>1, <3>2
  <2> QED
    BY <2>1, <2>2 DEF FreshViews
<1>3. ASSUME seen' = [seen EXCEPT ![r] = NoView], UNCHANGED <<state, work>>
      PROVE  FreshViews'
  BY <1>0, <1>3 DEF FreshViews
<1>4. CASE CommitUpload(r)
  <2>1. CASE seen[r].state \in {"draft", "evidence_pending"}
    <3>1. seen' = [StaleViews EXCEPT ![r] = NoView] /\ work' = StaleWork
      BY <1>4, <2>1 DEF CommitUpload
    <3> QED
      BY <1>0, <3>1 DEF FreshViews
  <2>2. CASE seen[r].state \notin {"draft", "evidence_pending"}
    BY <1>3, <1>4, <2>2 DEF CommitUpload
  <2> QED
    BY <2>1, <2>2
<1>5. CASE CommitReanalyse(r)
  BY <1>3, <1>5 DEF CommitReanalyse
<1>6. CASE AbandonRequest(r) \/ CommitAgain(r)
  BY <1>3, <1>6 DEF AbandonRequest, CommitAgain
<1> QED
  BY <1>1, <1>2, <1>4, <1>5, <1>6 DEF RequestAction

LEMMA TaskViews ==
    ASSUME AnalysisTypeOK, FreshViews, NEW w \in Slot, TaskAction(w)
    PROVE  FreshViews'
<1> USE StaleFacts
<1>0. /\ seen \in [Request -> View] /\ work \in [Slot -> Work]
      /\ StaleViews \in [Request -> View] /\ StaleWork \in [Slot -> Work]
      /\ NoWork.stage = "none"
  BY StaleTypes DEF AnalysisTypeOK, NoWork
<1>1. ASSUME \/ Working(w, "opening") \/ Working(w, "begun") \/ Working(w, "stored")
             \/ Working(w, "failing")
             \/ HasCounted(w) /\ state = "processing",
             UNCHANGED <<state, seen>>
      PROVE  FreshViews'
  BY <1>0, <1>1 DEF Working, HasCounted, FreshViews
<1>2. ASSUME Stopped(w), UNCHANGED <<state, seen>> PROVE FreshViews'
  BY <1>0, <1>2 DEF Stopped, FreshViews
<1>3. CASE FindRunning(w) \/ BeginAnalysis(w) \/ FindFailed(w)
  BY <1>1, <1>3 DEF FindRunning, BeginAnalysis, FindFailed
<1>4. ASSUME NEW found \in SUBSET Match, NEW ok \in BOOLEAN, StoreResults(w, found, ok)
      PROVE  FreshViews'
  BY <1>1, <1>4 DEF StoreResults
<1>5. CASE CountOutstanding(w)
  BY <1>1, <1>2, <1>5 DEF CountOutstanding
<1>6. CASE AdvanceInspection(w)
  BY <1>0, <1>6 DEF AdvanceInspection, FreshViews
<1>7. CASE FailAnalysis(w)
  BY <1>2, <1>7 DEF FailAnalysis
<1>8. CASE CutAnalysis(w)
  BY <1>2, <1>8 DEF CutAnalysis
<1>9. CASE ReadEvidence(w)
  <2>1. UNCHANGED <<state, seen>> /\ work'[w].stage = "read"
        /\ \A v \in Slot \ {w} : work'[v] = work[v]
    BY <1>0, <1>9 DEF ReadEvidence
  <2> QED
    BY <2>1 DEF FreshViews
<1> QED
  BY <1>3, <1>4, <1>5, <1>6, <1>7, <1>8, <1>9 DEF TaskAction

LEMMA StepViews ==
    ASSUME AnalysisTypeOK, FreshViews, AnalysisNext
    PROVE  FreshViews'
<1> USE StaleFacts
<1>1. CASE WorkerIsKilled
  BY <1>1 DEF WorkerIsKilled, FreshViews, NoWork
<1>2. ASSUME NEW e \in Evidence, NEW m \in Match, Review(e, m) PROVE FreshViews'
  BY <1>2 DEF Review, FreshViews
<1>3. ASSUME NEW target \in M!InspectionState, OfficerMove(target) PROVE FreshViews'
  BY <1>3 DEF OfficerMove, FreshViews
<1>4. CASE QueueOnly
  BY <1>4 DEF QueueOnly, evidenceVars, FreshViews
<1> QED
  BY RequestViews, TaskViews, <1>1, <1>2, <1>3, <1>4 DEF AnalysisNext

-----------------------------------------------------------------------------
(* What one step does to the inspection and to the readings                *)

\* Only an upload, a task and an officer write the state.
LEMMA StepMoves ==
    ASSUME FreshViews, AnalysisNext
    PROVE  M!Next \/ UNCHANGED state
<1>1. ASSUME NEW r \in Request, RequestAction(r) PROVE M!Next \/ UNCHANGED state
  <2>1. CASE CommitUpload(r)
    <3>1. \/ UNCHANGED state
          \/ state \in {"draft", "evidence_pending"} /\ state' = "processing"
      BY <2>1 DEF CommitUpload, FreshViews
    <3> QED
      BY <3>1 DEF M!Next, M!Move, M!SubmitDraft, M!Edge, M!InspectionState
  <2>2. CASE ~CommitUpload(r)
    BY <1>1, <2>2 DEF RequestAction, BeginUpload, BeginReanalyse, BeginAgain,
       CommitReanalyse, CommitAgain, AbandonRequest
  <2> QED
    BY <2>1, <2>2
<1>2. ASSUME NEW w \in Slot, TaskAction(w) PROVE M!Next \/ UNCHANGED state
  <2>1. CASE AdvanceInspection(w)
    <3>1. state = "processing" /\ state' = "officer_review"
      BY <2>1 DEF AdvanceInspection, FreshViews
    <3> QED
      BY <3>1 DEF M!Next, M!Move, M!Edge, M!InspectionState
  <2>2. CASE ~AdvanceInspection(w)
    BY <1>2, <2>2 DEF TaskAction, FindRunning, BeginAnalysis, ReadEvidence, StoreResults,
       CountOutstanding, FindFailed, FailAnalysis, CutAnalysis
  <2> QED
    BY <2>1, <2>2
<1>3. ASSUME NEW target \in M!InspectionState, OfficerMove(target) PROVE M!Next
  BY <1>3 DEF OfficerMove, M!Next, M!Move
<1>4. ASSUME \/ WorkerIsKilled \/ QueueOnly
             \/ \E e \in Evidence, m \in Match : Review(e, m)
      PROVE  UNCHANGED state
  BY <1>4 DEF WorkerIsKilled, QueueOnly, evidenceVars, Review
<1> QED
  BY <1>1, <1>2, <1>3, <1>4 DEF AnalysisNext

\* Only the results of a task and a review write readings.
LEMMA StepReads ==
    ASSUME AnalysisTypeOK, AnalysisNext, NEW e \in Evidence, NEW m \in Match,
           TypeOf[m] \in ReviewedTypes(e), reading[e][m] # "pending"
    PROVE  reading'[e][m] = reading[e][m]
<1>0. reading \in [Evidence -> [Match -> Reading]]
  BY DEF AnalysisTypeOK
<1>1. ASSUME NEW w \in Slot, NEW found \in SUBSET Match, NEW ok \in BOOLEAN,
             StoreResults(w, found, ok)
      PROVE  reading'[e][m] = reading[e][m]
  <2>1. CASE On(w) = e
    <3>1. reading'[e] = Replaced(e, found)
      BY <1>0, <1>1, <2>1 DEF StoreResults
    <3>2. reading[e][m] \in {"none", "reviewed"}
      BY <1>0 DEF Reading
    <3> QED
      BY <3>1, <3>2 DEF Replaced
  <2>2. CASE On(w) # e
    BY <1>0, <1>1, <2>2 DEF StoreResults
  <2> QED
    BY <2>1, <2>2
<1>2. ASSUME NEW f \in Evidence, NEW n \in Match, Review(f, n)
      PROVE  reading'[e][m] = reading[e][m]
  <2>1. CASE f = e /\ n = m
    <3>1. reading[e][m] = "reviewed"
      BY <1>0, <1>2, <2>1 DEF Review, Reading
    <3> QED
      BY <1>0, <1>2, <2>1, <3>1 DEF Review
  <2>2. CASE ~(f = e /\ n = m)
    BY <1>0, <1>2, <2>2 DEF Review
  <2> QED
    BY <2>1, <2>2
<1>3. ASSUME NEW r \in Request, RequestAction(r) PROVE UNCHANGED reading
  BY <1>3 DEF RequestAction, BeginUpload, BeginReanalyse, BeginAgain, CommitUpload,
     CommitReanalyse, CommitAgain, AbandonRequest
<1>4. ASSUME NEW w \in Slot, TaskAction(w),
             ~\E found \in SUBSET Match, ok \in BOOLEAN : StoreResults(w, found, ok)
      PROVE  UNCHANGED reading
  BY <1>4 DEF TaskAction, FindRunning, FindFailed, BeginAnalysis, ReadEvidence, CountOutstanding,
     AdvanceInspection, FailAnalysis, CutAnalysis
<1>5. ASSUME \/ WorkerIsKilled \/ QueueOnly
             \/ \E target \in M!InspectionState : OfficerMove(target)
      PROVE  UNCHANGED reading
  BY <1>5 DEF WorkerIsKilled, QueueOnly, evidenceVars, OfficerMove
<1> QED
  BY <1>1, <1>2, <1>3, <1>4, <1>5 DEF AnalysisNext

-----------------------------------------------------------------------------
(* Keys                                                                    *)

OtherQueueStep ==
    \/ \E w \in Slot : TaskStep(w)
    \/ \E w \in Slot, j \in Job : Deliver(w, j)
    \/ CronStep
    \/ \E j \in Job : Age(j) \/ ExpireResult(j)
    \/ WorkerDies
    \/ RedisRestart

\* Only a request inserts a row, and nothing deletes one.
LEMMA OthersKeepRows ==
    ASSUME IInv, OtherQueueStep
    PROVE  UNCHANGED session /\ \A j \in Job : Exists(j)' <=> Exists(j)
<1>0. row \in [Job -> Row]
  BY DEF IInv, TypeOK
<1>1. ASSUME NEW w \in Slot, TaskStep(w)
      PROVE  UNCHANGED session /\ \A j \in Job : Exists(j)' <=> Exists(j)
  <2>1. slot[w] # Free /\ UNCHANGED session
    BY <1>1 DEF TaskStep, MarkRunning, MarkSucceeded, Return, MarkFailed, EndUnrecorded,
       Finish, Free
  <2>2. slot[w].job \in Job /\ Exists(slot[w].job)
    BY <2>1 DEF IInv, WellNamed, RowsComeFirst
  <2>3. \/ UNCHANGED row
        \/ \E s \in JobState : row' = [row EXCEPT ![slot[w].job].state = s]
        \/ row' = [row EXCEPT ![slot[w].job] =
                      [state |-> "running", attempts |-> @.attempts + 1, stale |-> FALSE]]
    BY <1>1 DEF TaskStep, MarkRunning, MarkSucceeded, Return, MarkFailed, EndUnrecorded,
       Finish, JobState
  <2> QED
    BY <1>0, <2>1, <2>2, <2>3 DEF Exists, Row, JobState
<1>2. CASE CronStep
  <2>1. CASE RequeueStalled
    BY <1>0, <2>1 DEF RequeueStalled, Exists, IInv, RowsComeFirst, Row
  <2>2. CASE SelectStalled \/ \E j \in Job : PushStalled(j)
    BY <2>2 DEF SelectStalled, PushStalled, Exists
  <2> QED
    BY <1>2, <2>1, <2>2 DEF CronStep
<1>3. ASSUME NEW j \in Job, Age(j)
      PROVE  UNCHANGED session /\ \A k \in Job : Exists(k)' <=> Exists(k)
  BY <1>0, <1>3 DEF Age, Exists, Row
<1>4. ASSUME \/ \E w \in Slot, j \in Job : Deliver(w, j)
             \/ \E j \in Job : ExpireResult(j)
             \/ WorkerDies \/ RedisRestart
      PROVE  UNCHANGED <<session, row>>
  BY <1>4 DEF Deliver, ExpireResult, WorkerDies, RedisRestart
<1> QED
  BY <1>1, <1>2, <1>3, <1>4 DEF OtherQueueStep, Exists

KInv == UploadsAreNew /\ KeysNameOneFile

\* A step that leaves the requests and their views alone, and the subjects.
LEMMA QuietKeys ==
    ASSUME KInv, UNCHANGED <<session, subject>>,
           \A j \in Job : Exists(j)' <=> Exists(j),
           \A r \in Request : seen'[r].op = seen[r].op /\ seen'[r].evidence = seen[r].evidence
    PROVE  KInv'
  BY DEF KInv, UploadsAreNew, KeysNameOneFile, Exists

\* A request that has let go of its view no longer counts.
LEMMA ForgottenKeys ==
    ASSUME AnalysisTypeOK, KInv, NEW r \in Request, seen' = [seen EXCEPT ![r] = NoView],
           \A q \in Request \ {r} : session'[q] = session[q],
           UNCHANGED <<row, subject>>
    PROVE  KInv'
<1>1. /\ seen \in [Request -> View] /\ seen'[r].op = "none"
      /\ \A q \in Request \ {r} : seen'[q] = seen[q]
  BY DEF AnalysisTypeOK, NoView
<1> QED
  BY <1>1 DEF KInv, UploadsAreNew, KeysNameOneFile

\* A request that begins takes a key no upload is at work on, and that names
\* its file if it names one.
LEMMA BeginKeys ==
    ASSUME IInv, AnalysisTypeOK, KInv, NEW r \in Request, NEW j \in Job, NEW e \in Evidence,
           BeginUpload(r, j, e) \/ BeginReanalyse(r, j, e)
    PROVE  KInv'
<1>0. /\ session \in [Request -> Session] /\ seen \in [Request -> View]
      /\ row \in [Job -> Row] /\ subject \in [Job -> Subject]
  BY DEF IInv, TypeOK, AnalysisTypeOK
<1>1. /\ session'[r].stage \in {"insert", "requeue"} /\ session'[r].job = j
      /\ session[r].stage = "idle"
      /\ \A q \in Request \ {r} : session'[q] = session[q] /\ seen'[q] = seen[q]
      /\ UNCHANGED <<row, subject>>
  BY <1>0 DEF BeginUpload, BeginReanalyse, Lookup
<1>2. seen'[r].evidence = e
  BY <1>0 DEF BeginUpload, BeginReanalyse
<1>3. seen[r].op = "none"
  BY DEF BeginUpload, BeginReanalyse
<1>4. CASE BeginUpload(r, j, e)
  <2>1. /\ row[j].state = "absent" /\ session'[r].stage = "insert"
        /\ \A q \in Request : session[q].job # j
    BY <1>0, <1>4 DEF BeginUpload, Lookup
  <2>2. seen'[r].op = "upload"
    BY <1>0, <1>4 DEF BeginUpload
  <2>3. UploadsAreNew'
    BY <1>1, <1>2, <2>1, <2>2 DEF KInv, UploadsAreNew, KeysNameOneFile
  <2>4. KeysNameOneFile'
    BY <1>1, <1>2, <2>1, <2>2 DEF KInv, KeysNameOneFile
  <2> QED
    BY <2>3, <2>4 DEF KInv
<1>5. CASE BeginReanalyse(r, j, e)
  <2>1. /\ subject[j].evidence \in {NoEvidence, e}
        /\ \A q \in Request : seen[q].op # "none" /\ session[q].job = j =>
              seen[q].op = "reanalyse" /\ seen[q].evidence = e
    BY <1>5 DEF BeginReanalyse, NoSubject
  <2>2. seen'[r].op = "reanalyse"
    BY <1>0, <1>5 DEF BeginReanalyse
  <2>3. UploadsAreNew'
    BY <1>1, <1>2, <2>1, <2>2 DEF KInv, UploadsAreNew
  <2>4. KeysNameOneFile'
    BY <1>1, <1>2, <2>1, <2>2 DEF KInv, KeysNameOneFile
  <2> QED
    BY <2>3, <2>4 DEF KInv
<1> QED
  BY <1>4, <1>5

\* A commit writes the row and the file of its own key.
LEMMA CommitKeys ==
    ASSUME IInv, AnalysisTypeOK, KInv, NEW r \in Request,
           CommitUpload(r) \/ CommitReanalyse(r)
    PROVE  KInv'
<1> DEFINE j == session[r].job
<1>0. /\ session \in [Request -> Session] /\ seen \in [Request -> View]
      /\ row \in [Job -> Row] /\ subject \in [Job -> Subject]
      /\ StaleViews \in [Request -> View]
  BY StaleTypes DEF IInv, TypeOK, AnalysisTypeOK
<1>1. seen[r].op \in {"upload", "reanalyse"} /\ j \in Job
  BY DEF CommitUpload, CommitReanalyse, KInv, UploadsAreNew, KeysNameOneFile
<1>2. \A q \in Request \ {r} : session'[q] = session[q]
  BY <1>0 DEF CommitUpload, CommitReanalyse, CommitInsert, CommitRequeue
<1>3. /\ seen'[r].op = "none"
      /\ \A q \in Request \ {r} : /\ seen'[q].op = seen[q].op
                                   /\ seen'[q].evidence = seen[q].evidence
  <2>1. NoView.op = "none"
    BY DEF NoView
  <2>2. \A q \in Request : /\ StaleViews[q].op = seen[q].op
                           /\ StaleViews[q].evidence = seen[q].evidence
    BY <1>0 DEF StaleViews, View
  <2>3. \/ seen' = [seen EXCEPT ![r] = NoView]
        \/ seen' = [StaleViews EXCEPT ![r] = NoView]
    BY DEF CommitUpload, CommitReanalyse
  <2> QED
    BY <1>0, <2>1, <2>2, <2>3
<1>4. /\ \A k \in Job \ {j} : row'[k] = row[k] /\ subject'[k] = subject[k]
      /\ row'[j].state # "absent"
  <2>1. \A k \in Job \ {j} : row'[k] = row[k]
    BY <1>0 DEF CommitUpload, CommitReanalyse, CommitInsert, CommitRequeue
  <2>2. \A k \in Job \ {j} : subject'[k] = subject[k]
    BY <1>0 DEF CommitUpload, CommitReanalyse
  <2>3. row'[j].state # "absent"
    BY <1>0, <1>1 DEF CommitUpload, CommitReanalyse, CommitInsert, CommitRequeue, Row
  <2> QED
    BY <2>1, <2>2, <2>3
<1>5. subject'[j] = subject[j] \/ subject'[j].evidence = seen[r].evidence
  BY <1>0, <1>1 DEF CommitUpload, CommitReanalyse, Subject
<1>6. UploadsAreNew'
  <2> SUFFICES ASSUME NEW q \in Request \ {r}, seen[q].op = "upload"
               PROVE  /\ session[q].stage = "insert" /\ session[q].job \in Job
                      /\ row'[session[q].job].state = "absent"
                      /\ seen[q].evidence \in Evidence
                      /\ \A p \in Request \ {q} :
                            seen'[p].op # "none" => session'[p].job # session[q].job
    BY <1>2, <1>3 DEF UploadsAreNew
  <2>1. session[q].job # j
    BY <1>1 DEF KInv, UploadsAreNew
  <2> QED
    BY <1>2, <1>3, <1>4, <2>1 DEF KInv, UploadsAreNew
<1>7. KeysNameOneFile'
  <2>1. \A k \in Job : row'[k].state = "absent" => subject'[k] = NoSubject
    BY <1>4 DEF KInv, KeysNameOneFile
  <2>2. ASSUME NEW q \in Request \ {r}, seen[q].op = "reanalyse"
        PROVE  subject'[session[q].job].evidence \in {NoEvidence, seen[q].evidence}
    <3>1. CASE session[q].job # j
      BY <1>4, <2>2, <3>1 DEF KInv, KeysNameOneFile
    <3>2. CASE session[q].job = j
      <4>1. seen[r].op = "reanalyse"
        BY <1>1, <2>2, <3>2 DEF KInv, UploadsAreNew
      <4>2. seen[q].evidence = seen[r].evidence
        BY <2>2, <3>2, <4>1 DEF KInv, KeysNameOneFile
      <4> QED
        BY <1>5, <2>2, <3>2, <4>2 DEF KInv, KeysNameOneFile
    <3> QED
      BY <3>1, <3>2
  <2> QED
    BY <1>2, <1>3, <2>1, <2>2 DEF KInv, KeysNameOneFile
<1> QED
  BY <1>6, <1>7 DEF KInv

LEMMA StepKeys ==
    ASSUME IInv, AnalysisTypeOK, KInv, AnalysisNext
    PROVE  KInv'
<1>0. /\ session \in [Request -> Session] /\ seen \in [Request -> View]
  BY DEF IInv, TypeOK, AnalysisTypeOK
<1>1. ASSUME NEW r \in Request, RequestAction(r) PROVE KInv'
  <2>1. CASE \E j \in Job, e \in Evidence : BeginUpload(r, j, e) \/ BeginReanalyse(r, j, e)
    BY <2>1, BeginKeys
  <2>2. ASSUME NEW j \in Job, NEW e \in Evidence, BeginAgain(r, j, e) PROVE KInv'
    <3>1. /\ session[r] = Idle /\ UNCHANGED <<session, row, subject>>
          /\ seen'[r].op = "again" /\ seen'[r].evidence = e
          /\ \A q \in Request \ {r} : seen'[q] = seen[q]
      BY <1>0, <2>2 DEF BeginAgain, queueVars, vars
    <3>2. \A q \in Request : session[q].job \in Job => session[q].job # session[r].job
      BY <3>1, QueueAssumption DEF Idle
    <3> QED
      BY <3>1, <3>2 DEF KInv, UploadsAreNew, KeysNameOneFile
  <2>3. CASE CommitUpload(r) \/ CommitReanalyse(r)
    BY <2>3, CommitKeys
  <2>4. CASE AbandonRequest(r) \/ CommitAgain(r)
    <3>1. /\ seen' = [seen EXCEPT ![r] = NoView] /\ UNCHANGED <<row, subject>>
          /\ \A q \in Request \ {r} : session'[q] = session[q]
      BY <1>0, <2>4 DEF AbandonRequest, CommitAgain, Rollback, queueVars, vars
    <3> QED
      BY <3>1, ForgottenKeys
  <2> QED
    BY <1>1, <2>1, <2>2, <2>3, <2>4 DEF RequestAction
<1>2. ASSUME UNCHANGED <<session, subject>>,
             \A j \in Job : Exists(j)' <=> Exists(j),
             seen' \in {seen, StaleViews}
      PROVE  KInv'
  <2>1. \A r \in Request : seen'[r].op = seen[r].op /\ seen'[r].evidence = seen[r].evidence
    BY <1>0, <1>2 DEF StaleViews, View
  <2> QED
    BY <1>2, <2>1, QuietKeys
<1>3. ASSUME OtherQueueStep, UNCHANGED subject, seen' \in {seen, StaleViews} PROVE KInv'
  BY <1>2, <1>3, OthersKeepRows
<1>4. ASSUME UNCHANGED <<vars, subject>>, seen' \in {seen, StaleViews} PROVE KInv'
  BY <1>2, <1>4 DEF vars, Exists
<1>5. ASSUME NEW w \in Slot, TaskAction(w) PROVE KInv'
  <2>1. UNCHANGED subject /\ seen' \in {seen, StaleViews}
    BY <1>5 DEF TaskAction, FindRunning, FindFailed, BeginAnalysis, ReadEvidence, StoreResults, CountOutstanding,
       AdvanceInspection, FailAnalysis, CutAnalysis
  <2>2. OtherQueueStep \/ UNCHANGED vars
    BY <1>5 DEF TaskAction, FindRunning, FindFailed, BeginAnalysis, ReadEvidence, StoreResults, CountOutstanding,
       AdvanceInspection, FailAnalysis, CutAnalysis, OtherQueueStep, TaskStep, queueVars
  <2> QED
    BY <1>3, <1>4, <2>1, <2>2
<1>6. CASE WorkerIsKilled
  BY <1>3, <1>6 DEF WorkerIsKilled, OtherQueueStep
<1>7. ASSUME NEW e \in Evidence, NEW m \in Match, Review(e, m) PROVE KInv'
  BY <1>4, <1>7 DEF Review, queueVars
<1>8. ASSUME NEW target \in M!InspectionState, OfficerMove(target) PROVE KInv'
  BY <1>4, <1>8 DEF OfficerMove, queueVars
<1>9. CASE QueueOnly
  <2>1. ASSUME NEW r \in Request, PushPending(r) PROVE KInv'
    <3>1. /\ session[r].stage = "pushing" /\ UNCHANGED row
          /\ \A q \in Request \ {r} : session'[q] = session[q]
          /\ UNCHANGED <<seen, subject>>
      BY <1>0, <1>9, <2>1 DEF PushPending, QueueOnly, evidenceVars
    <3>2. seen[r].op = "none"
      BY <1>0, <3>1 DEF KInv, UploadsAreNew, KeysNameOneFile, View, Idle
    <3> QED
      BY <3>1, <3>2 DEF KInv, UploadsAreNew, KeysNameOneFile
  <2>2. CASE ~\E r \in Request : PushPending(r)
    BY <1>3, <1>9, <2>2 DEF QueueOnly, evidenceVars, OtherQueueStep, TaskStep
  <2> QED
    BY <2>1, <2>2
<1> QED
  BY <1>1, <1>5, <1>6, <1>7, <1>8, <1>9 DEF AnalysisNext

-----------------------------------------------------------------------------
(* Rows of tasks at work                                                   *)

\* What Redis has lost stays lost.
LEMMA LossesStay ==
    ASSUME IInv, Next \/ UNCHANGED vars, restarts' = 0
    PROVE  restarts = 0
<1>1. CASE RedisRestart
  BY <1>1 DEF RedisRestart, IInv, TypeOK
<1>2. CASE \/ \E r \in Request : RequestStep(r)
           \/ \E v \in Slot : TaskStep(v)
  BY <1>2 DEF RequestStep, TaskStep, Lookup, CommitInsert, CommitRequeue, Rollback,
     PushPending, MarkRunning, MarkSucceeded, Return, MarkFailed, EndUnrecorded, Finish
<1>3. CASE \/ \E v \in Slot, j \in Job : Deliver(v, j)
           \/ CronStep \/ WorkerDies \/ UNCHANGED vars
           \/ \E j \in Job : Age(j) \/ ExpireResult(j)
  BY <1>3 DEF Deliver, CronStep, SelectStalled, RequeueStalled, PushStalled, Age,
     ExpireResult, WorkerDies, vars
<1> QED
  BY <1>1, <1>2, <1>3 DEF Next

\* As long as Redis has lost nothing, only the task itself takes the row of
\* its job out of queued and running.
LEMMA StepRunning ==
    ASSUME IInv, RunningRows, Next \/ UNCHANGED vars
    PROVE  RunningRows'
<1> SUFFICES ASSUME restarts' = 0, NEW w \in Slot, slot'[w].stage = "running"
             PROVE  row'[slot'[w].job].state \in {"queued", "running"}
  BY DEF RunningRows
<1>0. /\ row \in [Job -> Row] /\ slot \in [Slot -> Task] /\ restarts \in Nat
      /\ session \in [Request -> Session]
  BY DEF IInv, TypeOK
<1>1. restarts = 0
  BY LossesStay
<1>2. \A v \in Slot \ {w} : slot[w] # Free => slot[v] = Free \/ slot[v].job # slot[w].job
  BY <1>1, QueueAssumption DEF IInv, TasksHoldMessages, WellNamed
<1>3. slot[w].stage = "running" =>
        slot[w].job \in Job /\ row[slot[w].job].state \in {"queued", "running"}
  BY <1>0, <1>1 DEF RunningRows, IInv, WellNamed, Free
<1>4. ASSUME UNCHANGED <<slot, row>>
      PROVE  row'[slot'[w].job].state \in {"queued", "running"}
  BY <1>3, <1>4
<1>5. ASSUME NEW v \in Slot, TaskStep(v)
      PROVE  row'[slot'[w].job].state \in {"queued", "running"}
  <2>1. CASE v = w
    <3>1. MarkRunning(w) /\ row[slot[w].job].state # "absent"
      BY <1>0, <1>5, <2>1 DEF TaskStep, MarkRunning, MarkSucceeded, Return, MarkFailed,
         EndUnrecorded, Finish, Enter, Free, Task
    <3>2. slot[w].job \in Job /\ slot'[w].job = slot[w].job
      BY <1>0, <3>1 DEF MarkRunning, Enter, IInv, WellNamed, Free, Task
    <3> QED
      BY <1>0, <3>1, <3>2 DEF MarkRunning
  <2>2. CASE v # w
    <3>1. slot[v] # Free /\ slot'[w] = slot[w]
      BY <1>0, <1>5, <2>2 DEF TaskStep, MarkRunning, MarkSucceeded, Return, MarkFailed,
         EndUnrecorded, Finish, Enter, Free
    <3>2. slot[w] # Free
      BY <3>1 DEF Free
    <3>3. slot[v].job # slot[w].job
      BY <1>2, <2>2, <3>1, <3>2
    <3>4. row'[slot[w].job] = row[slot[w].job]
      BY <1>0, <1>3, <1>5, <3>1, <3>3 DEF TaskStep, MarkRunning, MarkSucceeded, Return,
         MarkFailed, EndUnrecorded, Finish
    <3> QED
      BY <1>3, <3>1, <3>4
  <2> QED
    BY <2>1, <2>2
<1>6. ASSUME UNCHANGED slot,
             \A k \in Job : row'[k].state = row[k].state \/ row'[k].state = "queued"
      PROVE  row'[slot'[w].job].state \in {"queued", "running"}
  BY <1>3, <1>6
<1>7. ASSUME NEW r \in Request, RequestStep(r)
      PROVE  row'[slot'[w].job].state \in {"queued", "running"}
  <2>1. UNCHANGED slot
    BY <1>7 DEF RequestStep, Lookup, CommitInsert, CommitRequeue, Rollback, PushPending
  <2>2. \/ UNCHANGED row
        \/ row' = [row EXCEPT ![session[r].job].state = "queued"]
    BY <1>7 DEF RequestStep, Lookup, CommitInsert, CommitRequeue, Rollback, PushPending
  <2> QED
    BY <1>0, <1>6, <2>1, <2>2 DEF Row
<1>8. CASE CronStep
  <2>1. UNCHANGED slot
    BY <1>8 DEF CronStep, SelectStalled, RequeueStalled, PushStalled
  <2>2. \A k \in Job : row'[k].state = row[k].state \/ row'[k].state = "queued"
    BY <1>0, <1>8 DEF CronStep, SelectStalled, RequeueStalled, PushStalled, Row
  <2> QED
    BY <1>6, <2>1, <2>2
<1>9. ASSUME NEW j \in Job, Age(j)
      PROVE  row'[slot'[w].job].state \in {"queued", "running"}
  <2>1. \A k \in Job : row'[k].state = row[k].state
    BY <1>0, <1>9 DEF Age, Row
  <2> QED
    BY <1>6, <1>9, <2>1 DEF Age
<1>10. ASSUME NEW v \in Slot, NEW j \in Job, Deliver(v, j)
       PROVE  row'[slot'[w].job].state \in {"queued", "running"}
  <2>1. slot'[w] = slot[w] /\ UNCHANGED row
    BY <1>0, <1>10 DEF Deliver
  <2> QED
    BY <1>3, <2>1
<1>11. CASE WorkerDies
  BY <1>11 DEF WorkerDies, Free
<1>12. ASSUME \/ UNCHANGED vars \/ RedisRestart \/ \E j \in Job : ExpireResult(j)
       PROVE  UNCHANGED <<slot, row>>
  BY <1>12 DEF vars, RedisRestart, ExpireResult
<1> QED
  BY <1>4, <1>5, <1>7, <1>8, <1>9, <1>10, <1>11, <1>12 DEF Next

-----------------------------------------------------------------------------
(* Evidence that waits                                                      *)

\* Evidence with an unfinished job keeps one, unless a request commits late on
\* it or a task passes over it.
LEMMA StepAttended ==
    ASSUME IInv, AnalysisTypeOK, KInv, RunningRows, AnalysisNext, restarts = 0,
           NEW e \in Evidence, Attended(e),
           \A r \in Request : ~CommitsLate(r, e),
           \A w \in Slot : ~PassesOver(w, e)
    PROVE  Attended(e)'
<1> DEFINE Waits(j) == row[j].state \in {"queued", "running"}
           HasJob == \E j \in Job : subject[j].evidence = e /\ Waits(j)
<1> SUFFICES ASSUME analysis'[e] \in Outstanding
             PROVE  HasJob'
  BY DEF Attended
<1>0. /\ row \in [Job -> Row] /\ session \in [Request -> Session]
      /\ slot \in [Slot -> Task] /\ analysis \in [Evidence -> Analysis]
      /\ subject \in [Job -> Subject] /\ e # NoEvidence
  BY AnalysisAssumption DEF IInv, TypeOK, AnalysisTypeOK
<1>2. analysis[e] \in Outstanding => HasJob
  BY DEF Attended
<1>3. ASSUME UNCHANGED <<analysis, subject>>,
             \A k \in Job : row'[k].state \in {row[k].state, "queued", "running"}
      PROVE  HasJob'
  BY <1>2, <1>3
<1>4. ASSUME NEW r \in Request, RequestAction(r) PROVE HasJob'
  <2> DEFINE j == session[r].job
  <2>1. CASE \E k \in Job, f \in Evidence :
               BeginUpload(r, k, f) \/ BeginReanalyse(r, k, f) \/ BeginAgain(r, k, f)
    BY <1>3, <2>1 DEF BeginUpload, BeginReanalyse, BeginAgain, Lookup, queueVars, vars
  <2>3. ASSUME j \in Job, row'[j].state = "queued", subject'[j].evidence = seen[r].evidence,
               \A k \in Job \ {j} : row'[k] = row[k] /\ subject'[k] = subject[k],
               analysis'[e] = analysis[e] \/ e = seen[r].evidence,
               Waits(j) => subject[j].evidence \in {NoEvidence, seen[r].evidence}
        PROVE  HasJob'
    <3>1. CASE e = seen[r].evidence
      BY <2>3, <3>1
    <3>2. CASE e # seen[r].evidence
      <4>1. PICK k \in Job : subject[k].evidence = e /\ Waits(k)
        BY <1>2, <2>3, <3>2
      <4>2. k # j
        BY <1>0, <2>3, <3>2, <4>1
      <4> QED
        BY <2>3, <4>1, <4>2
    <3> QED
      BY <3>1, <3>2
  <2>4. CASE CommitUpload(r)
    <3>1. j \in Job /\ row[j].state = "absent"
      BY <2>4 DEF CommitUpload, KInv, UploadsAreNew
    <3>2. row' = [row EXCEPT ![j].state = "queued"]
      BY <2>4, <3>1 DEF CommitUpload, CommitInsert
    <3>3. subject'[j].evidence = seen[r].evidence
      BY <1>0, <2>4, <3>1 DEF CommitUpload
    <3>4. \A k \in Job \ {j} : subject'[k] = subject[k]
      BY <1>0, <2>4 DEF CommitUpload
    <3>5. analysis'[e] = analysis[e] \/ e = seen[r].evidence
      BY <1>0, <2>4 DEF CommitUpload
    <3> QED
      BY <1>0, <2>3, <3>1, <3>2, <3>3, <3>4, <3>5 DEF Row
  <2>5. CASE CommitReanalyse(r)
    <3>1. j \in Job /\ subject[j].evidence \in {NoEvidence, seen[r].evidence}
      BY <2>5 DEF CommitReanalyse, KInv, KeysNameOneFile
    <3>2. CASE session'[r].stage = "pushing"
      <4>1. row' = [row EXCEPT ![j].state = "queued"]
        BY <1>0, <2>5, <3>2 DEF CommitReanalyse, CommitInsert, CommitRequeue, Idle
      <4>2. subject' = [subject EXCEPT ![j].evidence = seen[r].evidence]
        BY <2>5, <3>2 DEF CommitReanalyse
      <4>3. analysis'[e] = analysis[e] \/ e = seen[r].evidence
        BY <1>0, <2>5, <3>2 DEF CommitReanalyse, MarkQueued
      <4> QED
        BY <1>0, <2>3, <3>1, <4>1, <4>2, <4>3 DEF Row, Subject
    <3>3. CASE session'[r].stage # "pushing"
      <4>1. UNCHANGED <<row, analysis, subject>>
        BY <1>0, <2>5, <3>3 DEF CommitReanalyse, CommitInsert, CommitRequeue, Session
      <4> QED
        BY <1>3, <4>1
    <3> QED
      BY <3>2, <3>3
  <2>6. CASE AbandonRequest(r)
    BY <1>3, <2>6 DEF AbandonRequest, Rollback, queueVars, vars
  <2>7. CASE CommitAgain(r)
    <3>1. UNCHANGED <<row, subject>> /\ seen[r].op = "again" /\ seen'[r].op = "none"
      BY <2>7 DEF CommitAgain, AnalysisTypeOK, queueVars, vars, NoView
    <3>2. seen[r].evidence # e
      BY <3>1 DEF CommitsLate
    <3>3. analysis'[e] = analysis[e]
      BY <1>0, <2>7, <3>2 DEF CommitAgain, MarkQueued
    <3> QED
      BY <1>2, <3>1, <3>3
  <2> QED
    BY <1>4, <2>1, <2>4, <2>5, <2>6, <2>7 DEF RequestAction
<1>5. ASSUME NEW w \in Slot, TaskAction(w) PROVE HasJob'
  <2> DEFINE j == slot[w].job
  <2>1. ASSUME UNCHANGED subject, analysis'[On(w)] \notin Outstanding,
               analysis'[e] = analysis[e] \/ e = On(w),
               \A k \in Job \ {j} : row'[k] = row[k]
        PROVE  HasJob'
    <3>1. e # On(w) /\ analysis[e] \in Outstanding
      BY <2>1
    <3>2. PICK k \in Job : subject[k].evidence = e /\ Waits(k)
      BY <1>2, <3>1
    <3>3. k # j
      BY <3>1, <3>2 DEF On
    <3> QED
      BY <2>1, <3>2, <3>3
  <2>2. CASE BeginAnalysis(w)
    <3>1. /\ slot[w].stage = "running" /\ UNCHANGED <<row, subject>>
          /\ analysis'[e] = analysis[e] \/ e = On(w)
      BY <1>0, <2>2 DEF BeginAnalysis, queueVars, vars
    <3>2. j \in Job /\ Waits(j)
      BY <3>1 DEF RunningRows, IInv, WellNamed, Free
    <3> QED
      BY <1>2, <3>1, <3>2 DEF On
  <2>3. ASSUME NEW x \in {"completed", "failed"}, UNCHANGED subject,
               \/ analysis' = [analysis EXCEPT ![On(w)] = x]
               \/ analysis' = analysis /\ On(w) # e,
               MarkSucceeded(w) \/ MarkFailed(w)
        PROVE  HasJob'
    <3>1. \A k \in Job \ {j} : row'[k] = row[k]
      BY <1>0, <2>3 DEF MarkSucceeded, MarkFailed
    <3>2. On(w) # e /\ analysis'[e] = analysis[e]
      BY <1>0, <2>3 DEF Outstanding
    <3>3. PICK k \in Job : subject[k].evidence = e /\ Waits(k)
      BY <1>2, <3>2
    <3>4. k # j
      BY <3>2, <3>3 DEF On
    <3> QED
      BY <2>3, <3>1, <3>3, <3>4
  <2>4. ASSUME NEW found \in SUBSET Match, NEW ok \in BOOLEAN, StoreResults(w, found, ok)
        PROVE  HasJob'
    <3> DEFINE outcome == IF ok THEN "completed" ELSE "failed"
    <3>1. outcome \in {"completed", "failed"} /\ UNCHANGED subject /\ MarkSucceeded(w)
      BY <2>4 DEF StoreResults
    <3>2. analysis' = IF work[w].settled = outcome THEN analysis
                      ELSE [analysis EXCEPT ![On(w)] = outcome]
      BY <2>4 DEF StoreResults
    <3>3. slot'[w] # slot[w]
      BY <1>0, <3>1 DEF MarkSucceeded, Enter, Task
    <3> HIDE DEF outcome
    <3>4. work[w].settled = outcome => On(w) # e
      BY <3>1, <3>3 DEF PassesOver
    <3> QED
      BY <2>3, <3>1, <3>2, <3>4
  <2>5. CASE FailAnalysis(w)
    <3>1. MarkFailed(w) /\ slot'[w] # slot[w]
      BY <1>0, <2>5 DEF FailAnalysis, MarkFailed, Enter, Task
    <3>2. work[w].stage = "failing" => On(w) # e
      BY <3>1 DEF PassesOver
    <3> QED
      BY <2>3, <2>5, <3>1, <3>2 DEF FailAnalysis
  <2>6. CASE \/ FindRunning(w) \/ ReadEvidence(w) \/ FindFailed(w)
             \/ CountOutstanding(w) \/ AdvanceInspection(w) \/ CutAnalysis(w)
    BY <1>3, <2>6 DEF FindRunning, ReadEvidence, FindFailed, CountOutstanding,
       AdvanceInspection, CutAnalysis, Return, EndUnrecorded, queueVars, vars
  <2> QED
    BY <1>5, <2>2, <2>4, <2>5, <2>6 DEF TaskAction
<1>6. ASSUME \/ WorkerIsKilled
             \/ \E f \in Evidence, m \in Match : Review(f, m)
             \/ \E target \in M!InspectionState : OfficerMove(target)
      PROVE  HasJob'
  BY <1>3, <1>6 DEF WorkerIsKilled, WorkerDies, Review, OfficerMove, queueVars, vars
<1>7. CASE QueueOnly
  <2>1. UNCHANGED <<analysis, subject>>
    BY <1>7 DEF QueueOnly, evidenceVars
  <2>2. \A k \in Job : row'[k].state \in {row[k].state, "queued", "running"}
    <3>1. ASSUME NEW w \in Slot, MarkRunning(w)
          PROVE  \A k \in Job : row'[k].state \in {row[k].state, "queued", "running"}
      BY <1>0, <3>1 DEF MarkRunning
    <3>2. CASE CronStep
      BY <1>0, <3>2 DEF CronStep, SelectStalled, RequeueStalled, PushStalled, Row
    <3>3. ASSUME NEW j \in Job, Age(j)
          PROVE  \A k \in Job : row'[k].state \in {row[k].state, "queued", "running"}
      BY <1>0, <3>3 DEF Age, Row
    <3>4. ASSUME \/ \E r \in Request : PushPending(r)
                 \/ \E w \in Slot : Finish(w)
                 \/ \E w \in Slot, j \in Job : Deliver(w, j)
                 \/ \E j \in Job : ExpireResult(j)
                 \/ RedisRestart
          PROVE  UNCHANGED row
      BY <3>4 DEF PushPending, Finish, Deliver, ExpireResult, RedisRestart
    <3> QED
      BY <1>7, <3>1, <3>2, <3>3, <3>4 DEF QueueOnly
  <2> QED
    BY <1>3, <2>1, <2>2
<1> QED
  BY <1>4, <1>5, <1>6, <1>7 DEF AnalysisNext

-----------------------------------------------------------------------------
(* Theorems                                                                *)

LEMMA StepAInv == IInv /\ IInv' /\ AInv /\ [AnalysisNext]_allVars => AInv'
<1> SUFFICES ASSUME IInv, IInv', AInv, [AnalysisNext]_allVars PROVE AInv'
  OBVIOUS
<1>1. TypeOK'
  BY DEF IInv
<1>2. CASE AnalysisNext
  <2>1. AnalysisTypeOK' /\ FreshViews'
    BY <1>1, <1>2, StepTypes, StepViews DEF AInv
  <2>2. KInv'
    BY <1>2, StepKeys DEF AInv, KInv
  <2>3. RunningRows'
    BY <1>2, StepIsAQueueStep, StepRunning DEF AInv, KInv
  <2> QED
    BY <2>1, <2>2, <2>3 DEF AInv, KInv
<1>3. CASE UNCHANGED allVars
  <2>1. UNCHANGED <<row, message, session, cron, slot, restarts,
                    state, analysis, reading, subject, seen, work>>
    BY <1>3 DEF allVars, vars, evidenceVars
  <2>2. AnalysisTypeOK' /\ FreshViews'
    BY <1>1, <2>1 DEF AInv, AnalysisTypeOK, FreshViews
  <2>3. UploadsAreNew' /\ KeysNameOneFile' /\ RunningRows'
    BY <2>1 DEF AInv, UploadsAreNew, KeysNameOneFile, RunningRows
  <2> QED
    BY <2>2, <2>3 DEF AInv
<1> QED
  BY <1>2, <1>3

LEMMA AnalysisAInv == AnalysisSpec => []IInv /\ []AInv
<1>1. AnalysisSpec => []IInv
  BY QueueKeepsItsSpecification, SpecIInv, PTL
<1>2. AnalysisSpec /\ []IInv => []AInv
  BY InitAInv, StepAInv, PTL DEF AnalysisSpec
<1> QED
  BY <1>1, <1>2, PTL

\* Every variable keeps its type, with any number of requests and tasks.
THEOREM AnalysisTypeCorrect == AnalysisSpec => []AnalysisTypeOK
<1>1. AInv => AnalysisTypeOK
  BY DEF AInv
<1> QED
  BY AnalysisAInv, <1>1, PTL

\* Until Redis loses something, evidence that waits for analysis keeps a job
\* that is not finished, whatever uploads, re-analyses, tasks of the same file
\* and the cron task commit in between, but for a second request of the same
\* second that commits late and a task that passes over what it had found.
THEOREM EvidenceIsAttended == AnalysisSpec => OnlyLateCommitsLeaveEvidence
<1> DEFINE Excused(e) == \/ \E r \in Request : CommitsLate(r, e)
                         \/ \E w \in Slot : PassesOver(w, e)
           Stays == restarts = 0 =>
                      \A e \in Evidence : Attended(e) /\ ~Attended(e)' => Excused(e)
<1>1. IInv /\ AInv /\ [AnalysisNext]_allVars => [Stays]_allVars
  BY StepAttended DEF AInv, KInv
<1>2. AnalysisSpec => [][Stays]_allVars
  BY AnalysisAInv, <1>1, PTL DEF AnalysisSpec
<1> QED
  BY <1>2 DEF OnlyLateCommitsLeaveEvidence

\* Uploads, tasks and officers move the inspection only along its edges: a
\* view that is not fresh never moves it.
THEOREM MovesAreTheMachines == AnalysisSpec => FollowsTheMachine
<1>1. AnalysisInit => M!Init
  BY DEF AnalysisInit, M!Init
<1>2. AInv /\ [AnalysisNext]_allVars => [M!Next]_state
  BY StepMoves DEF AInv, allVars, evidenceVars
<1> QED
  BY AnalysisAInv, <1>1, <1>2, PTL DEF AnalysisSpec, FollowsTheMachine, M!Spec

\* No re-analysis changes a reviewed reading or puts one of its type beside it.
THEOREM DecisionsOnReadingsStand == AnalysisSpec => ReviewedTypesAreLeftAlone
<1> DEFINE Kept == \A e \in Evidence, m \in Match :
                      TypeOf[m] \in ReviewedTypes(e) =>
                          \/ reading'[e][m] = reading[e][m]
                          \/ reading[e][m] = "pending"
<1>1. AInv /\ [AnalysisNext]_allVars => [Kept]_allVars
  BY StepReads DEF AInv
<1>2. AnalysisSpec => [][Kept]_allVars
  BY AnalysisAInv, <1>1, PTL DEF AnalysisSpec
<1> QED
  BY <1>2 DEF ReviewedTypesAreLeftAlone

-----------------------------------------------------------------------------
(* The last task                                                           *)

LEMMA ObservedStep == ObservedNext => AnalysisNext
<1> SUFFICES ASSUME ObservedNext PROVE AnalysisNext
  OBVIOUS
<1>1. ASSUME NEW w \in Slot,
             \/ FindRunning(w)
             \/ BeginAnalysis(w)
             \/ ReadEvidence(w)
             \/ \E found \in SUBSET Match, ok \in BOOLEAN : StoreResults(w, found, ok)
             \/ CountOutstanding(w)
             \/ AdvanceInspection(w)
             \/ FindFailed(w)
             \/ FailAnalysis(w)
             \/ CutAnalysis(w)
      PROVE  AnalysisNext
  BY <1>1 DEF TaskAction, AnalysisNext
<1> QED
  BY <1>1 DEF ObservedNext, AnalysisNext

\* The run's specification only adds the history variable.
LEMMA ObservedAInv == ObservedSpec => []IInv /\ []AInv
<1>1. ObservedInit => AnalysisInit
  BY DEF ObservedInit
<1>2. [ObservedNext]_<<allVars, undisturbed>> => [AnalysisNext]_allVars
  BY ObservedStep
<1>3. ObservedSpec => AnalysisSpec
  BY <1>1, <1>2, PTL DEF ObservedSpec, AnalysisSpec
<1> QED
  BY <1>3, AnalysisAInv, PTL

LEMMA StepLast ==
    ASSUME IInv, AInv, LastTaskAdvances, ObservedNext
    PROVE  LastTaskAdvances'
<1> SUFFICES ASSUME undisturbed', state' = "processing", NothingOutstanding'
             PROVE  \E w \in Slot : slot'[w].stage = "stored"
  BY DEF LastTaskAdvances
<1>0. /\ slot \in [Slot -> Task] /\ analysis \in [Evidence -> Analysis]
      /\ work \in [Slot -> Work] /\ session \in [Request -> Session]
      /\ "queued" \in Outstanding /\ "running" \in Outstanding
  BY DEF IInv, TypeOK, AInv, AnalysisTypeOK, Outstanding
<1>1. ASSUME undisturbed, state = "processing", UNCHANGED <<analysis, slot>>
      PROVE  \E w \in Slot : slot'[w].stage = "stored"
  BY <1>1 DEF LastTaskAdvances, NothingOutstanding
<1>2. ASSUME NEW r \in Request, RequestAction(r), UNCHANGED undisturbed
      PROVE  \E w \in Slot : slot'[w].stage = "stored"
  <2>1. CASE CommitUpload(r)
    <3>1. seen[r].evidence \in Evidence
      BY <2>1 DEF CommitUpload, AInv, UploadsAreNew
    <3>2. analysis'[seen[r].evidence] = "queued"
      BY <1>0, <2>1, <3>1 DEF CommitUpload
    <3> QED
      BY <1>0, <3>1, <3>2 DEF NothingOutstanding
  <2>2. CASE CommitReanalyse(r) \/ CommitAgain(r)
    <3>1. seen[r].evidence \in Evidence
      BY <2>2 DEF CommitReanalyse, CommitAgain, AInv, KeysNameOneFile
    <3>2. UNCHANGED <<slot, state>>
      BY <2>2 DEF CommitReanalyse, CommitAgain, CommitInsert, CommitRequeue, queueVars, vars
    <3>3. UNCHANGED analysis \/ analysis'[seen[r].evidence] = "queued"
      BY <1>0, <2>2, <3>1 DEF CommitReanalyse, CommitAgain, MarkQueued
    <3> QED
      BY <1>0, <1>1, <1>2, <3>1, <3>2, <3>3 DEF NothingOutstanding
  <2>3. CASE \/ \E j \in Job, e \in Evidence :
                  BeginUpload(r, j, e) \/ BeginReanalyse(r, j, e) \/ BeginAgain(r, j, e)
             \/ AbandonRequest(r)
    BY <1>1, <1>2, <2>3 DEF BeginUpload, BeginReanalyse, BeginAgain, AbandonRequest,
       Lookup, Rollback, queueVars, vars
  <2> QED
    BY <1>2, <2>1, <2>2, <2>3 DEF RequestAction
<1>3. ASSUME NEW w \in Slot, FindRunning(w) \/ BeginAnalysis(w) \/ ReadEvidence(w),
             UNCHANGED undisturbed
      PROVE  \E v \in Slot : slot'[v].stage = "stored"
  <2>1. UNCHANGED <<slot, state>>
    BY <1>3 DEF FindRunning, BeginAnalysis, ReadEvidence, queueVars, vars
  <2>2. \/ UNCHANGED analysis
        \/ On(w) \in Evidence /\ analysis'[On(w)] = "running"
    <3>1. \/ UNCHANGED analysis
          \/ analysis' = [analysis EXCEPT ![On(w)] = "running"]
      BY <1>3 DEF FindRunning, BeginAnalysis, ReadEvidence
    <3>2. CASE On(w) \in Evidence
      BY <1>0, <3>1, <3>2
    <3>3. CASE On(w) \notin Evidence
      BY <1>0, <3>1, <3>3
    <3> QED
      BY <3>2, <3>3
  <2> QED
    BY <1>0, <1>1, <1>3, <2>1, <2>2 DEF NothingOutstanding
<1>4. ASSUME NEW w \in Slot, NEW found \in SUBSET Match, NEW ok \in BOOLEAN,
             StoreResults(w, found, ok)
      PROVE  slot'[w].stage = "stored"
  BY <1>0, <1>4 DEF StoreResults, MarkSucceeded, Enter, Task
<1>5. ASSUME NEW w \in Slot, CountOutstanding(w), UNCHANGED undisturbed
      PROVE  \E v \in Slot : slot'[v].stage = "stored"
  <2>1. UNCHANGED <<state, analysis>>
    BY <1>5 DEF CountOutstanding
  <2>2. NothingOutstanding /\ state = "processing"
    BY <2>1 DEF NothingOutstanding
  <2>3. UNCHANGED slot
    BY <1>5, <2>2 DEF CountOutstanding, queueVars, vars
  <2> QED
    BY <1>1, <1>5, <2>1, <2>2, <2>3
<1>6. ASSUME NEW w \in Slot, AdvanceInspection(w) PROVE FALSE
  BY <1>6 DEF AdvanceInspection
<1>7. ASSUME NEW e \in Evidence, NEW m \in Match, Review(e, m), UNCHANGED undisturbed
      PROVE  \E w \in Slot : slot'[w].stage = "stored"
  BY <1>1, <1>7 DEF Review, queueVars, vars
<1>8. ASSUME QueueOnly, UNCHANGED undisturbed
      PROVE  \E w \in Slot : slot'[w].stage = "stored"
  <2>1. UNCHANGED <<state, analysis>>
    BY <1>8 DEF QueueOnly, evidenceVars
  <2>2. PICK w \in Slot : slot[w].stage = "stored"
    BY <1>8, <2>1 DEF LastTaskAdvances, NothingOutstanding
  <2>3. slot'[w] = slot[w]
    <3>1. ASSUME NEW v \in Slot, MarkRunning(v) \/ Finish(v) PROVE slot'[w] = slot[w]
      <4>1. v # w
        BY <2>2, <3>1 DEF MarkRunning, Finish
      <4> QED
        BY <1>0, <3>1, <4>1 DEF MarkRunning, Finish, Enter
    <3>2. ASSUME NEW v \in Slot, NEW j \in Job, Deliver(v, j) PROVE slot'[w] = slot[w]
      <4>1. v # w
        BY <2>2, <3>2 DEF Deliver, Free
      <4> QED
        BY <1>0, <3>2, <4>1 DEF Deliver
    <3>3. ASSUME \/ \E r \in Request : PushPending(r)
                 \/ CronStep \/ RedisRestart
                 \/ \E j \in Job : Age(j) \/ ExpireResult(j)
          PROVE  UNCHANGED slot
      BY <3>3 DEF PushPending, CronStep, SelectStalled, RequeueStalled, PushStalled,
         RedisRestart, Age, ExpireResult
    <3> QED
      BY <1>8, <3>1, <3>2, <3>3 DEF QueueOnly
  <2> QED
    BY <2>2, <2>3
<1> QED
  BY <1>2, <1>3, <1>4, <1>5, <1>6, <1>7, <1>8 DEF ObservedNext

\* The inspection does not stay in processing for want of a task that looks:
\* of any number of tasks that end together the last one to commit its results
\* has yet to count.
THEOREM TheLastTaskLooks == ObservedSpec => []LastTaskAdvances
<1>1. ObservedInit => LastTaskAdvances
  BY DEF ObservedInit, AnalysisInit, LastTaskAdvances
<1>2. IInv /\ AInv /\ LastTaskAdvances /\ [ObservedNext]_<<allVars, undisturbed>>
        => LastTaskAdvances'
  <2>1. ASSUME LastTaskAdvances, UNCHANGED <<allVars, undisturbed>> PROVE LastTaskAdvances'
    <3>1. UNCHANGED <<slot, state, analysis, undisturbed>>
      BY <2>1 DEF allVars, vars, evidenceVars
    <3> QED
      BY <2>1, <3>1 DEF LastTaskAdvances, NothingOutstanding
  <2> QED
    BY <2>1, StepLast
<1> QED
  BY ObservedAInv, <1>1, <1>2, PTL DEF ObservedSpec
=============================================================================
