-------------------------- MODULE EvidenceAnalysis --------------------------
(***************************************************************************)
(* The evidence of one inspection from its upload to the review of its     *)
(* readings: store_evidence and request_reanalysis (services/evidence.py), *)
(* analyse_evidence (worker/tasks.py), review_candidate and the officers'  *)
(* transitions (api/v1/inspections.py, services/inspections.py).           *)
(*                                                                         *)
(* It is composed with the job queue: a request is an enqueue of JobQueue  *)
(* that also writes evidence, a task is a task of JobQueue that also       *)
(* writes readings and may move the inspection.                            *)
(*                                                                         *)
(* A row that is written with "WHERE version = the version read" is        *)
(* modelled without the number: whoever has read the inspection holds a    *)
(* fresh view, and every update of the row makes the other views stale.    *)
(***************************************************************************)
EXTENDS JobQueue

CONSTANTS
    Evidence,   \* evidence files of the inspection
    Match,      \* places on a file where a declaration may be located
    TypeOf,     \* the declaration type of each match
    NoEvidence  \* the evidence of a job that does not exist yet

ASSUME AnalysisAssumption == NoEvidence \notin Evidence

VARIABLES
    state,     \* inspections.state
    analysis,  \* evidence.analysis_state; pending and queued are one here
    reading,   \* the declaration_candidates row of each match, by review_state
    subject,   \* analysis_jobs.evidence_id, and whether the key is the upload's
    seen,      \* what each request has read of the inspection and the evidence
    work       \* how far each task is in _run_analysis, and its view

M == INSTANCE InspectionMachine

evidenceVars == <<state, analysis, reading, subject, seen, work>>
queueVars == vars
allVars == <<vars, evidenceVars>>

-----------------------------------------------------------------------------
Outstanding == {"queued", "running"}

Analysis == Outstanding \cup {"absent", "completed", "failed"}

\* reviewed: any review_state but pending.
Reading == {"none", "pending", "reviewed"}

\* op: what the request will do at its commit; again: mark the evidence queued
\* and leave the job it found as it is.  queued: it has read the evidence as
\* queued.  state, fresh: the inspection as an upload has read it, and whether
\* that is still the current version; a re-analysis does not write it.
View == [op : {"none", "upload", "reanalyse", "again"},
         evidence : Evidence \cup {NoEvidence},
         state : M!InspectionState, queued : BOOLEAN, fresh : BOOLEAN]

\* first: the key of the upload (v1), not of a re-analysis.
Subject == [evidence : Evidence \cup {NoEvidence}, first : BOOLEAN]

\* opening: the first transaction has read the evidence as running already.
\* begun: analysis_state is running.  read: the transaction that stores the
\* results has read the evidence; settled: the outcome of another task that it
\* found there.  failing: the transaction that records a failure has read the
\* evidence as failed already.  counted: the task has found nothing
\* outstanding; fresh: the inspection it has read then is the current version.
Work == [stage : {"none", "opening", "begun", "read", "stored", "counted", "failing"},
         settled : {"no", "completed", "failed"}, fresh : BOOLEAN]

NoView == [op |-> "none", evidence |-> NoEvidence,
           state |-> "draft", queued |-> FALSE, fresh |-> FALSE]
NoSubject == [evidence |-> NoEvidence, first |-> FALSE]
NoWork == [stage |-> "none", settled |-> "no", fresh |-> FALSE]

AnalysisTypeOK ==
    /\ TypeOK
    /\ state \in M!InspectionState
    /\ analysis \in [Evidence -> Analysis]
    /\ reading \in [Evidence -> [Match -> Reading]]
    /\ subject \in [Job -> Subject]
    /\ seen \in [Request -> View]
    /\ work \in [Slot -> Work]

AnalysisInit ==
    /\ Init
    /\ state = "draft"
    /\ analysis = [e \in Evidence |-> "absent"]
    /\ reading = [e \in Evidence |-> [m \in Match |-> "none"]]
    /\ subject = [j \in Job |-> NoSubject]
    /\ seen = [r \in Request |-> NoView]
    /\ work = [w \in Slot |-> NoWork]

Frozen == state \in M!FrozenState

On(w) == subject[slot[w].job].evidence

StaleViews == [r \in Request |-> [seen[r] EXCEPT !.fresh = FALSE]]
StaleWork  == [w \in Slot |-> [work[w] EXCEPT !.fresh = FALSE]]

-----------------------------------------------------------------------------
(* Requests that queue an analysis                                         *)

\* store_evidence up to its first write: it reads the inspection, refuses a
\* frozen one, and stores the object.  The evidence and its key are new.
BeginUpload(r, j, e) ==
    /\ row[j].state = "absent"
    /\ seen[r].op = "none"
    /\ Lookup(r, j)
    /\ ~Frozen
    /\ analysis[e] = "absent"
    /\ \A q \in Request : seen[q].evidence # e /\ session[q].job # j
    /\ seen' = [seen EXCEPT ![r] = [op |-> "upload", evidence |-> e, state |-> state,
                                    queued |-> FALSE, fresh |-> TRUE]]
    /\ UNCHANGED <<state, analysis, reading, subject, work>>

\* reanalyse_evidence up to its first write.  Its key holds the second of the
\* request, so it finds a job that an earlier request queued in that second;
\* the model has no clock and lets that second last.
BeginReanalyse(r, j, e) ==
    /\ seen[r].op = "none"
    /\ Lookup(r, j)
    /\ ~Frozen
    /\ analysis[e] # "absent"
    /\ subject[j] \in {NoSubject, [evidence |-> e, first |-> FALSE]}
    /\ \A q \in Request : seen[q].op # "none" /\ session[q].job = j =>
          seen[q].op = "reanalyse" /\ seen[q].evidence = e
    /\ seen' = [seen EXCEPT ![r] = [op |-> "reanalyse", evidence |-> e, state |-> "draft",
                                    queued |-> analysis[e] = "queued", fresh |-> FALSE]]
    /\ UNCHANGED <<state, analysis, reading, subject, work>>

\* reanalyse_evidence, where enqueue finds its key in use and nothing to take
\* up again: the job is returned as it is and none is registered to be pushed.
BeginAgain(r, j, e) ==
    /\ session[r] = Idle
    /\ seen[r].op = "none"
    /\ ~Frozen
    /\ subject[j] = [evidence |-> e, first |-> FALSE]
    /\ row[j].state = "failed" => row[j].attempts >= MaxAttempts
    /\ seen' = [seen EXCEPT ![r] = [op |-> "again", evidence |-> e, state |-> "draft",
                                    queued |-> analysis[e] = "queued", fresh |-> FALSE]]
    /\ UNCHANGED <<queueVars, state, analysis, reading, subject, work>>

\* The upload commits.  From a draft or from evidence_pending the inspection
\* moves to processing, which needs a fresh view; in any other state the row
\* of the inspection is not written and its version not compared.
CommitUpload(r) ==
    LET v == seen[r] IN
    /\ v.op = "upload"
    /\ CommitInsert(r)
    /\ IF v.state \in {"draft", "evidence_pending"}
       THEN /\ v.fresh
            /\ state' = "processing"
            /\ seen' = [StaleViews EXCEPT ![r] = NoView]
            /\ work' = StaleWork
       ELSE /\ seen' = [seen EXCEPT ![r] = NoView]
            /\ UNCHANGED <<state, work>>
    /\ analysis' = [analysis EXCEPT ![v.evidence] = "queued"]
    /\ subject' = [subject EXCEPT ![session[r].job] = [evidence |-> v.evidence, first |-> TRUE]]
    /\ UNCHANGED reading

\* analysis_state is only written when it differs from the value that was read.
MarkQueued(v) ==
    analysis' = IF v.queued THEN analysis ELSE [analysis EXCEPT ![v.evidence] = "queued"]

\* The re-analysis commits, with its job.
CommitReanalyse(r) ==
    LET v == seen[r] IN
    /\ v.op = "reanalyse"
    /\ CommitInsert(r) \/ CommitRequeue(r)
    /\ IF session'[r].stage = "pushing"
       THEN /\ MarkQueued(v)
            /\ subject' = [subject EXCEPT ![session[r].job].evidence = v.evidence]
       ELSE UNCHANGED <<analysis, subject>>
    /\ seen' = [seen EXCEPT ![r] = NoView]
    /\ UNCHANGED <<state, reading, work>>

\* The re-analysis that found a job commits.  It has waited for the audit chain
\* since it read the job, which may be finished by now; evidence has no version.
CommitAgain(r) ==
    /\ seen[r].op = "again"
    /\ MarkQueued(seen[r])
    /\ seen' = [seen EXCEPT ![r] = NoView]
    /\ UNCHANGED <<queueVars, state, reading, subject, work>>

\* The request fails, also because its view of the inspection is stale.
AbandonRequest(r) ==
    /\ \/ Rollback(r)
       \/ seen[r].op = "again" /\ UNCHANGED queueVars
    /\ seen' = [seen EXCEPT ![r] = NoView]
    /\ UNCHANGED <<state, analysis, reading, subject, work>>

-----------------------------------------------------------------------------
(* analyse_evidence                                                        *)

Working(w, stage) ==
    work' = [work EXCEPT ![w] = [stage |-> stage, settled |-> "no", fresh |-> FALSE]]

HasCounted(w) ==
    work' = [work EXCEPT ![w] = [stage |-> "counted", settled |-> "no", fresh |-> TRUE]]

Stopped(w) == work' = [work EXCEPT ![w] = NoWork]

\* The first transaction of _run_analysis reads the evidence and finds that
\* another task has it running: it will not write what is there.
FindRunning(w) ==
    /\ slot[w].stage = "running"
    /\ work[w].stage = "none"
    /\ analysis[On(w)] = "running"
    /\ Working(w, "opening")
    /\ UNCHANGED <<queueVars, state, analysis, reading, subject, seen>>

\* The first transaction of _run_analysis commits.
BeginAnalysis(w) ==
    /\ slot[w].stage = "running"
    /\ work[w].stage \in {"none", "opening"}
    /\ analysis' = IF work[w].stage = "opening" THEN analysis
                   ELSE [analysis EXCEPT ![On(w)] = "running"]
    /\ Working(w, "begun")
    /\ UNCHANGED <<queueVars, state, reading, subject, seen>>

ReviewedTypes(e) == {TypeOf[m] : m \in {n \in Match : reading[e][n] = "reviewed"}}

\* A mutant of Replaced: only the reviewed reading itself is kept.
ReplacedBesideReviewed(e, found) ==
    [m \in Match |->
        IF reading[e][m] = "reviewed" THEN "reviewed"
        ELSE IF m \in found THEN "pending" ELSE "none"]

\* What storing a result does to the readings of a file: pending ones are
\* deleted, and a match becomes a reading unless its type has been reviewed.
Replaced(e, found) ==
    [m \in Match |->
        IF reading[e][m] = "reviewed" THEN "reviewed"
        ELSE IF m \in found /\ TypeOf[m] \notin ReviewedTypes(e) THEN "pending"
        ELSE "none"]

\* The transaction that stores the results begins: it reads the evidence.
ReadEvidence(w) ==
    /\ slot[w].stage = "running"
    /\ work[w].stage = "begun"
    /\ work' = [work EXCEPT ![w] =
          [stage |-> "read", fresh |-> FALSE,
           settled |-> IF analysis[On(w)] \in {"completed", "failed"} THEN analysis[On(w)]
                       ELSE "no"]]
    /\ UNCHANGED <<queueVars, state, analysis, reading, subject, seen>>

\* It stores the OCR result, the readings and the outcome, and commits when it
\* has had the audit chain.  Nothing in it looks at the state of the inspection.
\* A failed OCR finds nothing and is stored as the result of a job that
\* succeeded.  An outcome that is what was read is not written.
StoreResults(w, found, ok) ==
    LET outcome == IF ok THEN "completed" ELSE "failed" IN
    /\ work[w].stage = "read"
    /\ ok \/ found = {}
    /\ MarkSucceeded(w)
    /\ reading' = [reading EXCEPT ![On(w)] = Replaced(On(w), found)]
    /\ analysis' = IF work[w].settled = outcome THEN analysis
                   ELSE [analysis EXCEPT ![On(w)] = outcome]
    /\ Working(w, "stored")
    /\ UNCHANGED <<state, subject, seen>>

NothingOutstanding == \A e \in Evidence : analysis[e] \notin Outstanding

\* A mutant of CountOutstanding: a file whose OCR failed counts as outstanding.
CountUnread(w) ==
    /\ slot[w].stage = "stored"
    /\ work[w].stage = "stored"
    /\ IF /\ \A e \in Evidence : analysis[e] \in {"absent", "completed"}
          /\ state = "processing"
       THEN HasCounted(w) /\ UNCHANGED queueVars
       ELSE Return(w) /\ Stopped(w)
    /\ UNCHANGED <<state, analysis, reading, subject, seen>>

\* _advance_inspection_if_ready reads the inspection and counts.  The edge from
\* evidence_pending to officer_review does not exist, so only processing moves.
CountOutstanding(w) ==
    /\ slot[w].stage = "stored"
    /\ work[w].stage = "stored"
    /\ IF NothingOutstanding /\ state = "processing"
       THEN HasCounted(w) /\ UNCHANGED queueVars
       ELSE Return(w) /\ Stopped(w)
    /\ UNCHANGED <<state, analysis, reading, subject, seen>>

\* A mutant of AdvanceInspection: the update does not compare the version.
AdvanceUnversioned(w) ==
    /\ work[w].stage = "counted"
    /\ Return(w)
    /\ state' = "officer_review"
    /\ seen' = StaleViews
    /\ work' = [StaleWork EXCEPT ![w] = NoWork]
    /\ UNCHANGED <<analysis, reading, subject>>

\* It then moves the inspection, if its view is fresh.
AdvanceInspection(w) ==
    /\ work[w].stage = "counted" /\ work[w].fresh
    /\ Return(w)
    /\ state' = "officer_review"
    /\ seen' = StaleViews
    /\ work' = [StaleWork EXCEPT ![w] = NoWork]
    /\ UNCHANGED <<analysis, reading, subject>>

\* A mutant of FailAnalysis: only the job is marked failed.
FailJobOnly(w) ==
    /\ MarkFailed(w)
    /\ Stopped(w)
    /\ UNCHANGED <<state, analysis, reading, subject, seen>>

\* The transaction that records a failure reads the evidence and finds that
\* another task has failed on it: it will not write what is there.
FindFailed(w) ==
    /\ slot[w].stage \in {"running", "stored"}
    /\ work[w].stage # "failing"
    /\ analysis[On(w)] = "failed"
    /\ Working(w, "failing")
    /\ UNCHANGED <<queueVars, state, analysis, reading, subject, seen>>

\* Any exception, a stale view in the step above included: job and evidence
\* are marked failed in one transaction.
FailAnalysis(w) ==
    /\ MarkFailed(w)
    /\ analysis' = IF work[w].stage = "failing" THEN analysis
                   ELSE [analysis EXCEPT ![On(w)] = "failed"]
    /\ Stopped(w)
    /\ UNCHANGED <<state, reading, subject, seen>>

\* The task is cancelled, or cannot record its failure.
CutAnalysis(w) ==
    /\ EndUnrecorded(w)
    /\ Stopped(w)
    /\ UNCHANGED <<state, analysis, reading, subject, seen>>

WorkerIsKilled ==
    /\ WorkerDies
    /\ work' = [w \in Slot |-> NoWork]
    /\ UNCHANGED <<state, analysis, reading, subject, seen>>

-----------------------------------------------------------------------------
(* Officers                                                                *)

\* review_candidate on a pending or an already reviewed reading.  It clears
\* checks_executed_at: if the checks had run the inspection gets a new version.
Review(e, m) ==
    /\ ~Frozen
    /\ reading[e][m] # "none"
    /\ reading' = [reading EXCEPT ![e][m] = "reviewed"]
    /\ \/ UNCHANGED <<seen, work>>
       \/ seen' = StaleViews /\ work' = StaleWork
    /\ UNCHANGED <<queueVars, state, analysis, subject>>

AllCandidatesReviewed == \A e \in Evidence, m \in Match : reading[e][m] # "pending"

\* The guards of the edge that these variables decide.  The others
\* (product, checks, decision, report) may pass or not.
Guard(source, target) ==
    /\ <<source, target>> = <<"evidence_pending", "processing">> =>
          \E e \in Evidence : analysis[e] # "absent"
    /\ source \in {"officer_review", "reviewer_review"} /\
       target \in {"reviewer_review"} \cup M!DecidedState => AllCandidatesReviewed

\* transition, record_decision or issue_report moves the inspection.
OfficerMove(target) ==
    /\ <<state, target>> \in M!Edge
    /\ Guard(state, target)
    /\ state' = target
    /\ seen' = StaleViews
    /\ work' = StaleWork
    /\ UNCHANGED <<queueVars, analysis, reading, subject>>

-----------------------------------------------------------------------------
\* Steps of the queue that no evidence row takes part in.
QueueOnly ==
    /\ \/ \E r \in Request : PushPending(r)
       \/ \E w \in Slot : MarkRunning(w) \/ Finish(w)
       \/ \E w \in Slot, j \in Job : Deliver(w, j)
       \/ CronStep
       \/ \E j \in Job : Age(j) \/ ExpireResult(j)
       \/ RedisRestart
    /\ UNCHANGED evidenceVars

RequestAction(r) ==
    \/ \E j \in Job, e \in Evidence : BeginUpload(r, j, e)
    \/ \E j \in Job, e \in Evidence : BeginReanalyse(r, j, e)
    \/ \E j \in Job, e \in Evidence : BeginAgain(r, j, e)
    \/ CommitUpload(r)
    \/ CommitReanalyse(r)
    \/ CommitAgain(r)
    \/ AbandonRequest(r)

TaskAction(w) ==
    \/ FindRunning(w)
    \/ BeginAnalysis(w)
    \/ ReadEvidence(w)
    \/ \E found \in SUBSET Match, ok \in BOOLEAN : StoreResults(w, found, ok)
    \/ CountOutstanding(w)
    \/ AdvanceInspection(w)
    \/ FindFailed(w)
    \/ FailAnalysis(w)
    \/ CutAnalysis(w)

AnalysisNext ==
    \/ \E r \in Request : RequestAction(r)
    \/ \E w \in Slot : TaskAction(w)
    \/ WorkerIsKilled
    \/ \E e \in Evidence, m \in Match : Review(e, m)
    \/ \E target \in M!InspectionState : OfficerMove(target)
    \/ QueueOnly

AnalysisSpec == AnalysisInit /\ [][AnalysisNext]_allVars

-----------------------------------------------------------------------------
(* Properties                                                              *)

\* An officer's decision on a reading survives every re-analysis: the reading
\* stays, and no reading of its type is put beside it (tasks.py, step 5).
ReviewedTypesAreLeftAlone ==
    [][\A e \in Evidence, m \in Match :
          TypeOf[m] \in ReviewedTypes(e) =>
              \/ reading'[e][m] = reading[e][m]
              \/ reading[e][m] = "pending"]_allVars

\* Evidence that waits for analysis has a job that is not finished.
Attended(e) ==
    analysis[e] \in Outstanding =>
        \E j \in Job : subject[j].evidence = e /\ row[j].state \in {"queued", "running"}

\* A request that found a job (jobs.py:116) commits, whatever became of the job.
CommitsLate(r, e) ==
    seen[r].op = "again" /\ seen[r].evidence = e /\ seen'[r].op = "none"

\* A task commits its results or its failure that, when it came to that, had
\* found the file settled by another task; what it found it does not write.
PassesOver(w, e) ==
    /\ work[w].stage = "failing" \/ work[w].settled # "no"
    /\ slot'[w] # slot[w] /\ On(w) = e

\* As long as Redis keeps what it was given, there are two ways only in which a
\* file comes to wait for an analysis that no job will do: a second request of
\* the same second that commits after the job it found has ended, and a task that
\* passes over what a request has written meanwhile.  No upload, no failure of
\* a task, no requeueing and no other order of the transactions leads there.
OnlyLateCommitsLeaveEvidence ==
    [][restarts = 0 =>
          \A e \in Evidence :
              Attended(e) /\ ~Attended(e)' =>
                  \/ \E r \in Request : CommitsLate(r, e)
                  \/ \E w \in Slot : PassesOver(w, e)]_allVars

\* The inspection moves as InspectionMachine allows: no task or upload moves
\* it along an edge that is gone by the time its transaction commits.
FollowsTheMachine == M!Spec
=============================================================================
