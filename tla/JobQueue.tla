------------------------------ MODULE JobQueue ------------------------------
(***************************************************************************)
(* The background job queue: the rows of table analysis_jobs, which are    *)
(* the durable record of work, and the arq messages in Redis, which wake   *)
(* a worker (api/app/services/jobs.py, api/app/worker, api/app/db.py).     *)
(*                                                                         *)
(* A job is named by its idempotency key, which is unique in the table.    *)
(* A database transaction is one step, taken when it commits; a handler    *)
(* that reads, awaits and then writes is two steps.  Nothing makes the     *)
(* commit and the push to Redis one step.                                  *)
(***************************************************************************)
EXTENDS Naturals, FiniteSets

CONSTANTS
    Job,          \* idempotency keys
    Request,      \* API requests that may be in flight together
    Slot,         \* tasks the arq worker runs at once (max_jobs)
    MaxAttempts,  \* analysis_jobs.max_attempts
    NoJob,        \* names no job: the job of an idle request or task
    MaxTries,     \* WorkerSettings.max_tries, deliveries of one message
    MaxRestarts   \* bound: how often Redis may come back from its snapshot

ASSUME QueueAssumption ==
    /\ MaxAttempts \in Nat \ {0}
    /\ MaxTries \in Nat \ {0}
    /\ MaxRestarts \in Nat
    /\ IsFiniteSet(Slot)
    /\ NoJob \notin Job

VARIABLES
    row,      \* the committed row of each job
    message,  \* what Redis holds for each job
    session,  \* the progress of each API request through enqueue and push
    cron,     \* the progress of recover_stalled_jobs
    slot,     \* the progress of each task of the worker
    restarts  \* how often Redis has come back from its snapshot

vars == <<row, message, session, cron, slot, restarts>>

-----------------------------------------------------------------------------
(* State                                                                   *)

JobState == {"queued", "running", "succeeded", "failed"}

\* stale: started_at lies more than older_than_seconds (900 s) in the past.
Row == [state : JobState \cup {"absent"}, attempts : Nat, stale : BOOLEAN]

\* kept: the result key of a finished message still exists (keep_result, 300 s).
Message == [at : {"none", "waiting", "taken"}, tries : 0..MaxTries, kept : BOOLEAN]

\* insert, requeue: what enqueue has decided from the row it read.
\* pushing: committed, with the job registered on the session.
SessionStage == {"idle", "insert", "requeue", "pushing"}

\* delivered: taken from Redis.  running: mark_running has committed.
\* stored: the results are committed.  ended: the task has returned or raised.
SlotStage == {"free", "delivered", "running", "stored", "ended"}

Session == [stage : SessionStage, job : Job \cup {NoJob}]
Task    == [stage : SlotStage, job : Job \cup {NoJob}]
Cron    == [stage : {"idle", "selected", "pushing"}, jobs : SUBSET Job]

Idle == [stage |-> "idle", job |-> NoJob]
Free == [stage |-> "free", job |-> NoJob]

TypeOK ==
    /\ row \in [Job -> Row]
    /\ message \in [Job -> Message]
    /\ session \in [Request -> Session]
    /\ cron \in Cron
    /\ slot \in [Slot -> Task]
    /\ restarts \in 0..MaxRestarts

Init ==
    /\ row = [j \in Job |-> [state |-> "absent", attempts |-> 0, stale |-> FALSE]]
    /\ message = [j \in Job |-> [at |-> "none", tries |-> 0, kept |-> FALSE]]
    /\ session = [r \in Request |-> Idle]
    /\ cron = [stage |-> "idle", jobs |-> {}]
    /\ slot = [w \in Slot |-> Free]
    /\ restarts = 0

-----------------------------------------------------------------------------
(* Redis, as arq uses it                                                   *)

\* enqueue_job with a fixed _job_id: a message for a job that Redis already
\* holds, or whose result it still keeps, is refused and nothing is raised.
ArqEnqueue(j) ==
    message' = [message EXCEPT ![j] =
        IF @.at = "none" /\ ~@.kept
        THEN [at |-> "waiting", tries |-> 0, kept |-> FALSE]
        ELSE @]

\* A mutant of Push: without _job_id a message is added whatever Redis holds.
PushUnnamed(j) ==
    \/ message' = [message EXCEPT ![j] = [at |-> "waiting", tries |-> 0, kept |-> FALSE]]
    \/ UNCHANGED message

\* _push: the Redis call either reaches Redis or fails and is only logged.
Push(j) == ArqEnqueue(j) \/ UNCHANGED message

\* The task has ended: arq deletes the message of its job and keeps a result.
ArqFinish(j) ==
    message' = [message EXCEPT ![j] = [at |-> "none", tries |-> 0, kept |-> TRUE]]

\* keep_result has elapsed.  By the code's clocks a request or a cron task,
\* which takes seconds, is shorter than keep_result (300 s), so a result key
\* does not expire under one that is at work on its job.
ExpireResult(j) ==
    /\ message[j].kept
    /\ \A r \in Request : session[r].job # j
    /\ j \notin cron.jobs
    /\ message' = [message EXCEPT ![j].kept = FALSE]
    /\ UNCHANGED <<row, session, cron, slot, restarts>>

\* Redis ends abnormally and loads its last snapshot (save 900 1, no
\* append-only file): a message may be lost, and one that has been consumed
\* since the snapshot may be back.
Restored(j) ==
    [at : {"none"}, tries : {0}, kept : {FALSE}] \cup
    IF message[j].at # "none" \/ message[j].kept \/ row[j].attempts > 0
    THEN [at : {"waiting"}, tries : 0..MaxTries, kept : {FALSE}]
    ELSE {}

RedisRestart ==
    /\ restarts < MaxRestarts
    /\ restarts' = restarts + 1
    /\ message' \in [Job -> Message]
    /\ \A j \in Job : message'[j] \in Restored(j)
    /\ UNCHANGED <<row, session, cron, slot>>

-----------------------------------------------------------------------------
(* An API request: enqueue, the commit of the handler, push_pending         *)

\* enqueue reads the row of its key.  Only a failed job with attempts left is
\* taken up again; any other existing job is returned as it is.
Lookup(r, j) ==
    /\ session[r].stage = "idle"
    /\ \/ /\ row[j].state = "absent"
          /\ session' = [session EXCEPT ![r] = [stage |-> "insert", job |-> j]]
       \/ /\ row[j].state = "failed"
          /\ row[j].attempts < MaxAttempts
          /\ session' = [session EXCEPT ![r] = [stage |-> "requeue", job |-> j]]
    /\ UNCHANGED <<row, message, cron, slot, restarts>>

\* The handler commits its insert.  Of two requests with one key the second
\* gets an IntegrityError, rolls back and registers nothing to push.
CommitInsert(r) ==
    LET j == session[r].job IN
    /\ session[r].stage = "insert"
    /\ IF row[j].state = "absent"
       THEN /\ row' = [row EXCEPT ![j].state = "queued"]
            /\ session' = [session EXCEPT ![r].stage = "pushing"]
       ELSE /\ session' = [session EXCEPT ![r] = Idle]
            /\ UNCHANGED row
    /\ UNCHANGED <<message, cron, slot, restarts>>

\* The handler commits its update of the failed row it read.  The row has no
\* version column: whatever it holds by now is overwritten.
CommitRequeue(r) ==
    /\ session[r].stage = "requeue"
    /\ row' = [row EXCEPT ![session[r].job].state = "queued"]
    /\ session' = [session EXCEPT ![r].stage = "pushing"]
    /\ UNCHANGED <<message, cron, slot, restarts>>

\* The handler raises before its commit: the row is not written.
Rollback(r) ==
    /\ session[r].stage \in {"insert", "requeue"}
    /\ session' = [session EXCEPT ![r] = Idle]
    /\ UNCHANGED <<row, message, cron, slot, restarts>>

\* A mutant of PushPending: the job is pushed where its row is created.
PushWhereCreated(r) ==
    \/ /\ session[r].stage = "pushing"
       /\ Push(session[r].job)
       /\ session' = [session EXCEPT ![r] = Idle]
       /\ UNCHANGED <<row, cron, slot, restarts>>
    \/ /\ session[r].stage = "insert"
       /\ Push(session[r].job)
       /\ UNCHANGED <<row, session, cron, slot, restarts>>

\* get_db: after the handler has returned, the registered job is pushed.
PushPending(r) ==
    /\ session[r].stage = "pushing"
    /\ Push(session[r].job)
    /\ session' = [session EXCEPT ![r] = Idle]
    /\ UNCHANGED <<row, cron, slot, restarts>>
-----------------------------------------------------------------------------
(* The worker: one arq process running up to Cardinality(Slot) tasks        *)

Enter(w, stage) == slot' = [slot EXCEPT ![w].stage = stage]

\* A mutant of Deliver: a message past max_tries is left where it is.
DeliverOrLeave(w, j) ==
    /\ slot[w] = Free
    /\ message[j].at = "waiting"
    /\ message[j].tries < MaxTries
    /\ message' = [message EXCEPT ![j].at = "taken", ![j].tries = @ + 1]
    /\ slot' = [slot EXCEPT ![w] = [stage |-> "delivered", job |-> j]]
    /\ UNCHANGED <<row, session, cron, restarts>>

\* arq takes a waiting message.  Past max_tries the message is dropped
\* without running the task.
Deliver(w, j) ==
    /\ slot[w] = Free
    /\ message[j].at = "waiting"
    /\ IF message[j].tries < MaxTries
       THEN /\ message' = [message EXCEPT ![j].at = "taken", ![j].tries = @ + 1]
            /\ slot' = [slot EXCEPT ![w] = [stage |-> "delivered", job |-> j]]
       ELSE /\ ArqFinish(j)
            /\ UNCHANGED slot
    /\ UNCHANGED <<row, session, cron, restarts>>

\* mark_running, the first transaction of the task: any row is marked, whatever
\* its state; if there is no row the task returns job_not_found.
MarkRunning(w) ==
    LET j == slot[w].job IN
    /\ slot[w].stage = "delivered"
    /\ IF row[j].state = "absent"
       THEN Enter(w, "ended") /\ UNCHANGED row
       ELSE /\ row' = [row EXCEPT ![j] = [state |-> "running",
                                          attempts |-> @.attempts + 1,
                                          stale |-> FALSE]]
            /\ Enter(w, "running")
    /\ UNCHANGED <<message, session, cron, restarts>>

\* mark_succeeded, in the transaction that stores the results.
MarkSucceeded(w) ==
    /\ slot[w].stage = "running"
    /\ row' = [row EXCEPT ![slot[w].job].state = "succeeded"]
    /\ Enter(w, "stored")
    /\ UNCHANGED <<message, session, cron, restarts>>

\* The task has nothing left to do.
Return(w) ==
    /\ slot[w].stage = "stored"
    /\ Enter(w, "ended")
    /\ UNCHANGED <<row, message, session, cron, restarts>>

\* An exception, also one raised after the results are stored, is caught and
\* the job marked failed in a transaction of its own.
MarkFailed(w) ==
    /\ slot[w].stage \in {"running", "stored"}
    /\ row' = [row EXCEPT ![slot[w].job].state = "failed"]
    /\ Enter(w, "ended")
    /\ UNCHANGED <<message, session, cron, restarts>>

\* The task ends and nothing is recorded: job_timeout cancels it, and
\* CancelledError is no Exception; or the transaction of mark_running or of
\* mark_failed fails itself.
EndUnrecorded(w) ==
    /\ slot[w].stage \in {"delivered", "running", "stored"}
    /\ Enter(w, "ended")
    /\ UNCHANGED <<row, message, session, cron, restarts>>

\* arq ends the message of a task that returned or raised: no retry.
Finish(w) ==
    /\ slot[w].stage = "ended"
    /\ ArqFinish(slot[w].job)
    /\ slot' = [slot EXCEPT ![w] = Free]
    /\ UNCHANGED <<row, session, cron, restarts>>

\* The worker process dies or is stopped: its tasks and its cron task are gone,
\* and the messages it had taken are delivered again later.
WorkerDies ==
    /\ cron.stage # "idle" \/ \E w \in Slot : slot[w] # Free
    /\ slot' = [w \in Slot |-> Free]
    /\ cron' = [stage |-> "idle", jobs |-> {}]
    /\ message' = [j \in Job |->
                      IF message[j].at = "taken"
                      THEN [message[j] EXCEPT !.at = "waiting"]
                      ELSE message[j]]
    /\ UNCHANGED <<row, session, restarts>>

-----------------------------------------------------------------------------
(* recover_stalled_jobs, the cron task                                     *)

\* started_at passes the threshold of 900 s.  No task is still at work by then:
\* job_timeout is 300 s.
Age(j) ==
    /\ row[j].state = "running"
    /\ ~row[j].stale
    /\ \A w \in Slot : slot[w].job = j => slot[w].stage \in {"delivered", "ended"}
    /\ row' = [row EXCEPT ![j].stale = TRUE]
    /\ UNCHANGED <<message, session, cron, slot, restarts>>

\* Two mutants of Stalled: attempts are not looked at, or one is held back.
StalledWhateverAttempts(j) == row[j].state = "running" /\ row[j].stale

StalledBelowLastAttempt(j) ==
    /\ row[j].state = "running"
    /\ row[j].stale
    /\ row[j].attempts + 1 < MaxAttempts

Stalled(j) ==
    /\ row[j].state = "running"
    /\ row[j].stale
    /\ row[j].attempts < MaxAttempts

\* requeue_stalled reads the stalled rows.
SelectStalled ==
    /\ cron.stage = "idle"
    /\ \E j \in Job : Stalled(j)
    /\ cron' = [stage |-> "selected", jobs |-> {j \in Job : Stalled(j)}]
    /\ UNCHANGED <<row, message, session, slot, restarts>>

\* It commits its updates; the rows have no version column.
RequeueStalled ==
    /\ cron.stage = "selected"
    /\ row' = [j \in Job |->
                  IF j \in cron.jobs THEN [row[j] EXCEPT !.state = "queued"] ELSE row[j]]
    /\ cron' = [cron EXCEPT !.stage = "pushing"]
    /\ UNCHANGED <<message, session, slot, restarts>>

\* session_scope: after the commit each registered job is pushed.
PushStalled(j) ==
    /\ cron.stage = "pushing"
    /\ j \in cron.jobs
    /\ Push(j)
    /\ cron' = [stage |-> IF cron.jobs = {j} THEN "idle" ELSE "pushing",
                jobs  |-> cron.jobs \ {j}]
    /\ UNCHANGED <<row, session, slot, restarts>>

-----------------------------------------------------------------------------
RequestStep(r) ==
    \/ \E j \in Job : Lookup(r, j)
    \/ CommitInsert(r)
    \/ CommitRequeue(r)
    \/ Rollback(r)
    \/ PushPending(r)

TaskStep(w) ==
    \/ MarkRunning(w)
    \/ MarkSucceeded(w)
    \/ Return(w)
    \/ MarkFailed(w)
    \/ EndUnrecorded(w)
    \/ Finish(w)

CronStep ==
    \/ SelectStalled
    \/ RequeueStalled
    \/ \E j \in Job : PushStalled(j)

Next ==
    \/ \E r \in Request : RequestStep(r)
    \/ \E w \in Slot : TaskStep(w)
    \/ \E w \in Slot, j \in Job : Deliver(w, j)
    \/ CronStep
    \/ \E j \in Job : Age(j) \/ ExpireResult(j)
    \/ WorkerDies
    \/ RedisRestart

\* The scheduling the code has: the API and the worker process keep running
\* or are restarted, arq polls Redis, cron fires every quarter of an hour and
\* time passes.  Requeueing is strongly fair: a worker process that is killed
\* again and again is not killed each time between the same two statements.
\* Nothing else is assumed about failures, and nothing makes a task succeed
\* rather than fail, or a push reach Redis.
Fairness ==
    /\ \A r \in Request :
          /\ WF_vars(CommitInsert(r) \/ CommitRequeue(r) \/ Rollback(r))
          /\ WF_vars(PushPending(r))
    /\ \A w \in Slot : WF_vars(TaskStep(w))
    /\ \A j \in Job : WF_vars(\E w \in Slot : Deliver(w, j))
    /\ \A j \in Job : WF_vars(Age(j)) /\ WF_vars(ExpireResult(j))
    /\ WF_vars(CronStep)
    /\ SF_vars(RequeueStalled)

Spec == Init /\ [][Next]_vars

FairSpec == Spec /\ Fairness

-----------------------------------------------------------------------------
(* Properties                                                              *)

Held(w) == slot[w].job

\* A worker never takes a message whose row it cannot see.  The push is kept
\* out of enqueue and put after the commit (get_db, session_scope) so that no
\* work is dropped as job_not_found; the rows and the messages must agree
\* through requests, the cron task, redelivery and a Redis restart.
NoTaskMissesItsRow ==
    \A w \in Slot : slot[w].stage = "delivered" => row[Held(w)].state # "absent"

\* As long as Redis keeps what it was given, no job is in the hands of two
\* tasks, however often requests and the cron task push it again: the fixed
\* _job_id makes arq refuse the second message.
OneTaskPerJob ==
    restarts = 0 =>
        \A v, w \in Slot : v # w /\ Held(v) = Held(w) => Held(v) = NoJob

\* Attempts may pass max_attempts, since arq redelivers without looking at the
\* row, but not without limit: the last re-queueing happens below max_attempts
\* and gives max_tries deliveries, and each loss of Redis as many again.
MaxReadings == MaxAttempts - 1 + MaxTries * (1 + restarts)

AttemptsBounded == \A j \in Job : row[j].attempts <= MaxReadings

\* A waiting message is consumed: delivered to its end or dropped after
\* max_tries.  Worker deaths delay it and cannot keep it for ever.
MessagesAreConsumed ==
    \A j \in Job : message[j].at = "waiting" ~> message[j].at = "none"

\* A job whose worker died or was cancelled does not stay running with
\* attempts left: requeue_stalled finds it.  (One with no attempt left does
\* stay running, since requeue_stalled leaves it out.)
StalledJobsAreRequeued ==
    \A j \in Job : []<>~(row[j].state = "running" /\ row[j].attempts < MaxAttempts)

\* What jobs.py:8-10 says of the row: a loss of scheduling never loses the work,
\* requeue_stalled enqueues it again.  So a queued job would not stay queued.
QueuedJobsAreTakenUp ==
    \A j \in Job : row[j].state = "queued" ~> row[j].state # "queued"
=============================================================================
