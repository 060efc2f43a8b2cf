-------------------------- MODULE JobQueue_proofs ---------------------------
(***************************************************************************)
(* Proofs about JobQueue, for any jobs, requests, slots and limits.  The   *)
(* invariant says that the row of a job is there before anything else      *)
(* speaks of the job, and that as long as Redis has lost nothing a task    *)
(* is the only one to have taken the message of its job.  A second one     *)
(* counts: the attempts of a job, those its tasks and its message may      *)
(* still make, and the times Redis has lost the message.                   *)
(***************************************************************************)
EXTENDS JobQueue, FiniteSetTheorems, TLAPS

-----------------------------------------------------------------------------
(* The invariant                                                           *)

\* A request or task at work is at work on a job, an idle one on none.
WellNamed ==
    /\ \A r \in Request : session[r].stage = "idle" \/ session[r].job \in Job
    /\ \A w \in Slot : slot[w] = Free \/ (slot[w].stage # "free" /\ slot[w].job \in Job)

Exists(j) == row[j].state # "absent"

\* The row is written before the message, the task and the push.
RowsComeFirst ==
    /\ \A j \in Job :
          message[j].at # "none" \/ message[j].kept \/ row[j].attempts > 0 => Exists(j)
    /\ \A r \in Request : session[r].stage \in {"requeue", "pushing"} =>
          Exists(session[r].job)
    /\ \A w \in Slot : slot[w] # Free => Exists(slot[w].job)
    /\ \A j \in cron.jobs : Exists(j)

\* A task holds the one message of its job.
TasksHoldMessages ==
    restarts = 0 =>
        /\ \A w \in Slot : slot[w] # Free => message[slot[w].job].at = "taken"
        /\ \A v, w \in Slot : slot[v] # Free /\ slot[v].job = slot[w].job => v = w

IInv == TypeOK /\ WellNamed /\ RowsComeFirst /\ TasksHoldMessages

LEMMA InitIInv == Init => IInv
<1> SUFFICES ASSUME Init PROVE IInv
  OBVIOUS
<1>1. TypeOK
  BY QueueAssumption DEF Init, TypeOK, Row, JobState, Message, Session, SessionStage,
     Task, SlotStage, Cron, Idle, Free
<1> QED
  BY <1>1 DEF Init, IInv, WellNamed, RowsComeFirst, TasksHoldMessages, Idle, Free

-----------------------------------------------------------------------------
(* What the actions on Redis do to the messages                            *)

\* A push adds a message only where Redis holds none, and touches no other.
LEMMA PushKeeps ==
    ASSUME TypeOK, NEW j \in Job, Push(j)
    PROVE  /\ message' \in [Job -> Message]
           /\ \A k \in Job : \/ message'[k] = message[k]
                             \/ /\ k = j /\ message[k].at = "none" /\ ~message[k].kept
                                /\ message'[k].at = "waiting"
<1> DEFINE m == [at |-> "waiting", tries |-> 0, kept |-> FALSE]
<1>1. m \in Message
  BY QueueAssumption DEF Message
<1>2. message \in [Job -> Message]
  BY DEF TypeOK
<1>3. CASE UNCHANGED message
  BY <1>2, <1>3
<1>4. CASE ArqEnqueue(j)
  <2> DEFINE free == message[j].at = "none" /\ ~message[j].kept
  <2>1. message' = [message EXCEPT ![j] = IF free THEN m ELSE message[j]]
    BY <1>4 DEF ArqEnqueue
  <2>2. CASE free
    BY <1>1, <1>2, <2>1, <2>2
  <2>3. CASE ~free
    BY <1>2, <2>1, <2>3
  <2> QED
    BY <2>2, <2>3
<1> QED
  BY <1>3, <1>4 DEF Push

\* Ending a message leaves a result in its place, and touches no other.
LEMMA FinishKeeps ==
    ASSUME TypeOK, NEW j \in Job, ArqFinish(j)
    PROVE  /\ message' \in [Job -> Message]
           /\ message'[j].at = "none" /\ message'[j].kept
           /\ \A k \in Job \ {j} : message'[k] = message[k]
<1> DEFINE m == [at |-> "none", tries |-> 0, kept |-> TRUE]
<1>1. m \in Message
  BY QueueAssumption DEF Message
<1>2. message' = [message EXCEPT ![j] = m] /\ message \in [Job -> Message]
  BY DEF ArqFinish, TypeOK
<1> QED
  BY <1>1, <1>2

-----------------------------------------------------------------------------
(* Requests                                                                *)

LEMMA LookupIInv ==
    ASSUME IInv, NEW r \in Request, NEW j \in Job, Lookup(r, j)
    PROVE  IInv'
<1>1. PICK s \in {"insert", "requeue"} :
         /\ session' = [session EXCEPT ![r] = [stage |-> s, job |-> j]]
         /\ s = "requeue" => Exists(j)
  BY DEF Lookup, Exists
<1>2. TypeOK'
  BY <1>1 DEF Lookup, IInv, TypeOK, Session, SessionStage
<1>3. WellNamed'
  BY <1>1 DEF Lookup, IInv, TypeOK, WellNamed
<1>4. RowsComeFirst'
  BY <1>1 DEF Lookup, IInv, TypeOK, RowsComeFirst, Exists
<1>5. TasksHoldMessages'
  BY DEF Lookup, IInv, TasksHoldMessages
<1> QED
  BY <1>2, <1>3, <1>4, <1>5 DEF IInv

LEMMA CommitIInv ==
    ASSUME IInv, NEW r \in Request, CommitInsert(r) \/ CommitRequeue(r)
    PROVE  IInv'
<1> DEFINE j == session[r].job
<1>1. /\ session[r] \in Session /\ j \in Job
      /\ session \in [Request -> Session] /\ row \in [Job -> Row]
  BY DEF IInv, TypeOK, WellNamed, CommitInsert, CommitRequeue
<1>2. UNCHANGED <<message, cron, slot, restarts>>
  BY DEF CommitInsert, CommitRequeue
<1>3. \/ /\ row' = [row EXCEPT ![j].state = "queued"]
         /\ session' = [session EXCEPT ![r].stage = "pushing"]
      \/ row' = row /\ session' = [session EXCEPT ![r] = Idle]
  BY DEF CommitInsert, CommitRequeue
<1>4. \A k \in Job : /\ Exists(k) => Exists(k)'
                     /\ row'[k].attempts = row[k].attempts
  BY <1>1, <1>3 DEF Exists, Row
<1>5. row' \in [Job -> Row] /\ session' \in [Request -> Session]
  BY <1>1, <1>3 DEF Row, JobState, Session, SessionStage, Idle
<1>6. /\ \A q \in Request \ {r} : session'[q] = session[q]
      /\ session'[r].stage = "idle" \/ (session'[r].job = j /\ Exists(j)')
  BY <1>1, <1>3 DEF Exists, Row, Idle, Session
<1>7. TypeOK'
  BY <1>2, <1>5 DEF IInv, TypeOK
<1>8. WellNamed'
  BY <1>1, <1>2, <1>6 DEF IInv, WellNamed
<1>9. RowsComeFirst'
  BY <1>1, <1>2, <1>4, <1>6 DEF IInv, TypeOK, WellNamed, RowsComeFirst, Cron
<1>10. TasksHoldMessages'
  BY <1>2 DEF IInv, TasksHoldMessages
<1> QED
  BY <1>7, <1>8, <1>9, <1>10 DEF IInv

LEMMA RollbackIInv ==
    ASSUME IInv, NEW r \in Request, Rollback(r)
    PROVE  IInv'
<1>1. /\ session' = [session EXCEPT ![r] = Idle]
      /\ UNCHANGED <<row, message, cron, slot, restarts>>
  BY DEF Rollback
<1> QED
  BY <1>1 DEF IInv, TypeOK, WellNamed, RowsComeFirst, TasksHoldMessages, Exists,
              Idle, Session, SessionStage

\* What a step that only pushes keeps of the invariant.
LEMMA PushIInv ==
    ASSUME IInv, NEW j \in Job, Exists(j), Push(j), UNCHANGED <<row, slot, restarts>>
    PROVE  /\ message' \in [Job -> Message]
           /\ \A k \in Job : message'[k].at # "none" \/ message'[k].kept => Exists(k)'
           /\ TasksHoldMessages'
<1>1. /\ message' \in [Job -> Message]
      /\ \A k \in Job : \/ message'[k] = message[k]
                        \/ k = j /\ message[k].at = "none" /\ message'[k].at = "waiting"
  BY PushKeeps DEF IInv
<1>2. \A k \in Job : message'[k].at # "none" \/ message'[k].kept => Exists(k)'
  BY <1>1 DEF IInv, RowsComeFirst, Exists
<1>3. TasksHoldMessages'
  BY <1>1 DEF IInv, TasksHoldMessages, WellNamed
<1> QED
  BY <1>1, <1>2, <1>3

LEMMA PushPendingIInv ==
    ASSUME IInv, NEW r \in Request, PushPending(r)
    PROVE  IInv'
<1> DEFINE j == session[r].job
<1>1. /\ j \in Job /\ Exists(j) /\ Push(j)
      /\ session' = [session EXCEPT ![r] = Idle]
      /\ UNCHANGED <<row, cron, slot, restarts>>
  BY DEF IInv, WellNamed, RowsComeFirst, PushPending
<1>2. /\ message' \in [Job -> Message]
      /\ \A k \in Job : message'[k].at # "none" \/ message'[k].kept => Exists(k)'
      /\ TasksHoldMessages'
  BY <1>1, PushIInv
<1>3. TypeOK'
  BY <1>1, <1>2 DEF IInv, TypeOK, Idle, Session, SessionStage
<1>4. WellNamed' /\ RowsComeFirst'
  BY <1>1, <1>2 DEF IInv, TypeOK, WellNamed, RowsComeFirst, Exists, Idle
<1> QED
  BY <1>2, <1>3, <1>4 DEF IInv
-----------------------------------------------------------------------------
(* The worker                                                              *)

LEMMA DeliverIInv ==
    ASSUME IInv, NEW w \in Slot, NEW j \in Job, Deliver(w, j)
    PROVE  IInv'
<1>1. /\ slot[w] = Free /\ message[j].at = "waiting" /\ Exists(j)
      /\ UNCHANGED <<row, session, cron, restarts>>
      /\ message \in [Job -> Message] /\ slot \in [Slot -> Task]
  BY DEF IInv, TypeOK, RowsComeFirst, Deliver
<1>2. restarts = 0 => \A v \in Slot : slot[v] # Free => slot[v].job # j
  BY <1>1 DEF IInv, TasksHoldMessages
<1>3. CASE message[j].tries < MaxTries
  <2>1. /\ message' = [message EXCEPT ![j].at = "taken", ![j].tries = @ + 1]
        /\ slot' = [slot EXCEPT ![w] = [stage |-> "delivered", job |-> j]]
    BY <1>3 DEF Deliver
  <2>2. message[j].tries + 1 \in 0..MaxTries
    BY <1>1, <1>3, QueueAssumption DEF Message
  <2>3. /\ message' \in [Job -> Message]
        /\ message'[j].at = "taken"
        /\ \A k \in Job \ {j} : message'[k] = message[k]
    BY <1>1, <2>1, <2>2 DEF Message
  <2>4. /\ slot' \in [Slot -> Task]
        /\ slot'[w] = [stage |-> "delivered", job |-> j]
        /\ \A v \in Slot \ {w} : slot'[v] = slot[v]
    BY <1>1, <2>1 DEF Task, SlotStage
  <2>5. TypeOK'
    BY <1>1, <2>3, <2>4 DEF IInv, TypeOK
  <2>6. WellNamed'
    BY <1>1, <2>4 DEF IInv, WellNamed
  <2>7. RowsComeFirst'
    BY <1>1, <2>3, <2>4 DEF IInv, RowsComeFirst, Exists
  <2>8. TasksHoldMessages'
    <3> SUFFICES ASSUME restarts = 0
                 PROVE  /\ \A v \in Slot : slot'[v] # Free =>
                              message'[slot'[v].job].at = "taken"
                        /\ \A u, v \in Slot :
                              slot'[u] # Free /\ slot'[u].job = slot'[v].job => u = v
      BY <1>1 DEF TasksHoldMessages
    <3>1. \A v \in Slot : slot[v] # Free =>
             slot[v].job \in Job \ {j} /\ message[slot[v].job].at = "taken"
      BY <1>2 DEF IInv, WellNamed, TasksHoldMessages
    <3>2. j # NoJob /\ Free.job = NoJob
      BY QueueAssumption DEF Free
    <3>3. \A v \in Slot \ {w} : slot'[v].job # j
      BY <2>4, <3>1, <3>2
    <3>4. \A v \in Slot : slot'[v] # Free => message'[slot'[v].job].at = "taken"
      BY <2>3, <2>4, <3>1
    <3>5. \A u, v \in Slot : slot'[u] # Free /\ slot'[u].job = slot'[v].job => u = v
      BY <2>4, <3>3 DEF IInv, TasksHoldMessages
    <3> QED
      BY <3>4, <3>5
  <2> QED
    BY <2>5, <2>6, <2>7, <2>8 DEF IInv
<1>4. CASE ~(message[j].tries < MaxTries)
  <2>1. ArqFinish(j) /\ slot' = slot
    BY <1>4 DEF Deliver
  <2>2. /\ message' \in [Job -> Message]
        /\ \A k \in Job \ {j} : message'[k] = message[k]
    BY <2>1, FinishKeeps DEF IInv
  <2>3. TypeOK'
    BY <1>1, <2>1, <2>2 DEF IInv, TypeOK
  <2>4. WellNamed' /\ RowsComeFirst'
    BY <1>1, <2>1, <2>2 DEF IInv, WellNamed, RowsComeFirst, Exists
  <2>5. TasksHoldMessages'
    BY <1>1, <1>2, <2>1, <2>2 DEF IInv, WellNamed, TasksHoldMessages
  <2> QED
    BY <2>3, <2>4, <2>5 DEF IInv
<1> QED
  BY <1>3, <1>4

\* A step of a task that writes at most the row of its job.
LEMMA TaskWritesIInv ==
    ASSUME IInv, NEW w \in Slot, NEW stage \in SlotStage \ {"free"}, slot[w] # Free,
           Enter(w, stage), NEW x \in Row, x.state # "absent",
           row' = row \/ row' = [row EXCEPT ![slot[w].job] = x],
           UNCHANGED <<message, session, cron, restarts>>
    PROVE  IInv'
<1> DEFINE j == slot[w].job
<1>1. /\ j \in Job /\ Exists(j)
      /\ row \in [Job -> Row] /\ slot \in [Slot -> Task]
  BY DEF IInv, TypeOK, WellNamed, RowsComeFirst
<1>2. row' \in [Job -> Row] /\ \A k \in Job : Exists(k) => Exists(k)'
  BY <1>1 DEF Exists
<1>3. \A k \in Job : row'[k] = row[k] \/ Exists(k)'
  BY <1>1 DEF Exists
<1>4. /\ slot' \in [Slot -> Task]
      /\ slot'[w].job = j /\ slot'[w].stage = stage
      /\ \A v \in Slot \ {w} : slot'[v] = slot[v]
  BY <1>1 DEF Enter, Task, SlotStage
<1>5. slot'[w] # Free
  BY <1>4 DEF Free
<1>6. TypeOK'
  BY <1>2, <1>4 DEF IInv, TypeOK
<1>7. WellNamed'
  BY <1>1, <1>4, <1>5 DEF IInv, WellNamed
<1>8. RowsComeFirst'
  BY <1>1, <1>2, <1>3, <1>4, <1>5 DEF IInv, TypeOK, WellNamed, RowsComeFirst, Exists, Cron
<1>9. TasksHoldMessages'
  BY <1>1, <1>4, <1>5 DEF IInv, TasksHoldMessages
<1> QED
  BY <1>6, <1>7, <1>8, <1>9 DEF IInv

LEMMA FinishIInv ==
    ASSUME IInv, NEW w \in Slot, Finish(w)
    PROVE  IInv'
<1> DEFINE j == slot[w].job
<1>1. /\ slot[w] # Free /\ j \in Job /\ Exists(j)
      /\ ArqFinish(j)
      /\ slot' = [slot EXCEPT ![w] = Free]
      /\ UNCHANGED <<row, session, cron, restarts>>
  BY DEF Finish, Free, IInv, WellNamed, RowsComeFirst
<1>2. /\ message' \in [Job -> Message]
      /\ \A k \in Job \ {j} : message'[k] = message[k]
  BY <1>1, FinishKeeps DEF IInv
<1>3. /\ slot' \in [Slot -> Task]
      /\ slot'[w] = Free
      /\ \A v \in Slot \ {w} : slot'[v] = slot[v]
  BY <1>1 DEF IInv, TypeOK, Task, SlotStage, Free
<1>4. TypeOK'
  BY <1>1, <1>2, <1>3 DEF IInv, TypeOK
<1>5. WellNamed' /\ RowsComeFirst'
  BY <1>1, <1>2, <1>3 DEF IInv, WellNamed, RowsComeFirst, Exists
<1>6. TasksHoldMessages'
  <2>1. restarts = 0 => \A v \in Slot \ {w} : slot[v] # Free => slot[v].job \in Job \ {j}
    BY <1>1 DEF IInv, WellNamed, TasksHoldMessages
  <2>2. Free.job \notin Job
    BY QueueAssumption DEF Free
  <2> QED
    BY <1>1, <1>2, <1>3, <2>1, <2>2 DEF IInv, WellNamed, TasksHoldMessages
<1> QED
  BY <1>4, <1>5, <1>6 DEF IInv
\* The statements of a task, from its delivery to its end.
LEMMA TaskStepIInv ==
    ASSUME IInv, NEW w \in Slot, TaskStep(w)
    PROVE  IInv'
<1> DEFINE j == slot[w].job
<1>1. CASE Finish(w)
  BY <1>1, FinishIInv
<1>2. CASE ~Finish(w)
  <2>1. slot[w] # Free /\ UNCHANGED <<message, session, cron, restarts>>
    BY <1>2 DEF TaskStep, MarkRunning, MarkSucceeded, Return, MarkFailed, EndUnrecorded,
                Free
  <2>2. row[j] \in Row
    BY <2>1 DEF IInv, TypeOK, WellNamed
  <2>3. PICK stage \in SlotStage \ {"free"} : Enter(w, stage)
    BY <1>2 DEF TaskStep, MarkRunning, MarkSucceeded, Return, MarkFailed, EndUnrecorded,
                SlotStage
  <2> DEFINE running == [state |-> "running", attempts |-> row[j].attempts + 1,
                         stale |-> FALSE]
             succeeded == [row[j] EXCEPT !.state = "succeeded"]
             failed == [row[j] EXCEPT !.state = "failed"]
  <2>4. \A x \in {running, succeeded, failed} : x \in Row /\ x.state # "absent"
    <3>1. running \in Row /\ running.state = "running"
      BY <2>2 DEF Row, JobState
    <3>2. succeeded \in Row /\ succeeded.state = "succeeded"
      BY <2>2 DEF Row, JobState
    <3>3. failed \in Row /\ failed.state = "failed"
      BY <2>2 DEF Row, JobState
    <3> HIDE DEF running, succeeded, failed
    <3> QED
      BY <3>1, <3>2, <3>3
  <2>5. \/ row' = row
        \/ row' = [row EXCEPT ![j] = running]
        \/ row' = [row EXCEPT ![j] = succeeded]
        \/ row' = [row EXCEPT ![j] = failed]
    BY <1>2 DEF TaskStep, MarkRunning, MarkSucceeded, Return, MarkFailed, EndUnrecorded
  <2> HIDE DEF running, succeeded, failed
  <2>6. \E x \in {running, succeeded, failed} : row' = row \/ row' = [row EXCEPT ![j] = x]
    BY <2>5
  <2> QED
    BY <2>1, <2>3, <2>4, <2>6, TaskWritesIInv
<1> QED
  BY <1>1, <1>2

LEMMA WorkerDiesIInv == IInv /\ WorkerDies => IInv'
<1> SUFFICES ASSUME IInv, WorkerDies PROVE IInv'
  OBVIOUS
<1>1. /\ slot' = [w \in Slot |-> Free]
      /\ cron' = [stage |-> "idle", jobs |-> {}]
      /\ UNCHANGED <<row, session, restarts>>
  BY DEF WorkerDies
<1>2. \A j \in Job : \/ message'[j] = message[j]
                     \/ /\ message[j].at = "taken"
                        /\ message'[j] = [message[j] EXCEPT !.at = "waiting"]
  BY DEF WorkerDies
<1>3. message' \in [Job -> Message]
  <2>1. /\ message' = [j \in Job |-> IF message[j].at = "taken"
                                    THEN [message[j] EXCEPT !.at = "waiting"]
                                    ELSE message[j]]
        /\ \A j \in Job : message[j] \in Message
    BY DEF WorkerDies, IInv, TypeOK
  <2> QED
    BY <2>1 DEF Message
<1>4. TypeOK'
  BY <1>1, <1>3 DEF IInv, TypeOK, Task, SlotStage, Free, Cron
<1>5. WellNamed'
  BY <1>1 DEF IInv, WellNamed
<1>6. RowsComeFirst'
  BY <1>1, <1>2 DEF IInv, TypeOK, Message, RowsComeFirst, Exists
<1>7. TasksHoldMessages'
  <2>1. \A w \in Slot : slot'[w] = Free
    BY <1>1
  <2> QED
    BY <2>1 DEF TasksHoldMessages
<1> QED
  BY <1>4, <1>5, <1>6, <1>7 DEF IInv

-----------------------------------------------------------------------------
(* Time, the cron task and Redis                                           *)

LEMMA AgeIInv ==
    ASSUME IInv, NEW j \in Job, Age(j)
    PROVE  IInv'
<1>1. /\ row' = [row EXCEPT ![j].stale = TRUE]
      /\ UNCHANGED <<message, session, cron, slot, restarts>>
  BY DEF Age
<1>2. row' \in [Job -> Row]
  BY <1>1 DEF IInv, TypeOK, Row
<1>3. \A k \in Job : row'[k].state = row[k].state /\ row'[k].attempts = row[k].attempts
  BY <1>1 DEF IInv, TypeOK, Row
<1>4. TypeOK'
  BY <1>1, <1>2 DEF IInv, TypeOK
<1>5. RowsComeFirst'
  BY <1>1, <1>3 DEF IInv, TypeOK, WellNamed, RowsComeFirst, Exists, Cron
<1> QED
  BY <1>1, <1>4, <1>5 DEF IInv, WellNamed, TasksHoldMessages

LEMMA ExpireResultIInv ==
    ASSUME IInv, NEW j \in Job, ExpireResult(j)
    PROVE  IInv'
<1>1. /\ message[j].kept
      /\ message' = [message EXCEPT ![j].kept = FALSE]
      /\ UNCHANGED <<row, session, cron, slot, restarts>>
  BY DEF ExpireResult
<1>2. message' \in [Job -> Message]
  BY <1>1 DEF IInv, TypeOK, Message
<1>3. \A k \in Job : /\ message'[k].at = message[k].at
                     /\ message'[k].kept => message[k].kept
  BY <1>1 DEF IInv, TypeOK, Message
<1>4. TypeOK'
  BY <1>1, <1>2 DEF IInv, TypeOK
<1>5. RowsComeFirst'
  BY <1>1, <1>3 DEF IInv, RowsComeFirst, Exists
<1>6. TasksHoldMessages'
  BY <1>1, <1>3 DEF IInv, WellNamed, TasksHoldMessages
<1> QED
  BY <1>1, <1>4, <1>5, <1>6 DEF IInv, WellNamed

LEMMA CronIInv == IInv /\ CronStep => IInv'
<1> SUFFICES ASSUME IInv, CronStep PROVE IInv'
  OBVIOUS
<1>1. CASE SelectStalled
  <2>1. /\ cron' = [stage |-> "selected", jobs |-> {j \in Job : Stalled(j)}]
        /\ UNCHANGED <<row, message, session, slot, restarts>>
    BY <1>1 DEF SelectStalled
  <2>2. \A j \in cron'.jobs : j \in Job /\ Exists(j)
    BY <2>1 DEF Stalled, Exists
  <2>3. TypeOK'
    BY <2>1 DEF IInv, TypeOK, Cron
  <2>4. RowsComeFirst'
    BY <2>1, <2>2 DEF IInv, RowsComeFirst, Exists
  <2> QED
    BY <2>1, <2>3, <2>4 DEF IInv, WellNamed, TasksHoldMessages
<1>2. CASE RequeueStalled
  <2>1. /\ row' = [j \in Job |-> IF j \in cron.jobs
                                 THEN [row[j] EXCEPT !.state = "queued"] ELSE row[j]]
        /\ cron' = [cron EXCEPT !.stage = "pushing"]
        /\ UNCHANGED <<message, session, slot, restarts>>
    BY <1>2 DEF RequeueStalled
  <2>2. row' \in [Job -> Row]
    BY <2>1 DEF IInv, TypeOK, Row, JobState
  <2>3. \A j \in Job : /\ Exists(j) => Exists(j)'
                       /\ row'[j].attempts = row[j].attempts
    BY <2>1 DEF IInv, TypeOK, Row, JobState, Exists
  <2>4. cron'.jobs = cron.jobs /\ cron.jobs \subseteq Job
    BY <2>1 DEF IInv, TypeOK, Cron
  <2>5. TypeOK'
    BY <2>1, <2>2 DEF IInv, TypeOK, Cron
  <2>6. RowsComeFirst'
    BY <2>1, <2>3, <2>4 DEF IInv, WellNamed, RowsComeFirst
  <2> QED
    BY <2>1, <2>5, <2>6 DEF IInv, WellNamed, TasksHoldMessages
<1>3. ASSUME NEW j \in Job, PushStalled(j) PROVE IInv'
  <2>1. /\ Exists(j) /\ Push(j)
        /\ cron' = [stage |-> IF cron.jobs = {j} THEN "idle" ELSE "pushing",
                    jobs  |-> cron.jobs \ {j}]
        /\ UNCHANGED <<row, session, slot, restarts>>
    BY <1>3 DEF PushStalled, IInv, RowsComeFirst
  <2>2. /\ message' \in [Job -> Message]
        /\ \A k \in Job : message'[k].at # "none" \/ message'[k].kept => Exists(k)'
        /\ TasksHoldMessages'
    BY <2>1, PushIInv
  <2>3. TypeOK'
    BY <2>1, <2>2 DEF IInv, TypeOK, Cron
  <2>4. WellNamed' /\ RowsComeFirst'
    BY <2>1, <2>2 DEF IInv, WellNamed, RowsComeFirst, Exists
  <2> QED
    BY <2>2, <2>3, <2>4 DEF IInv
<1> QED
  BY <1>1, <1>2, <1>3 DEF CronStep

LEMMA RedisRestartIInv == IInv /\ RedisRestart => IInv'
<1> SUFFICES ASSUME IInv, RedisRestart PROVE IInv'
  OBVIOUS
<1>1. /\ restarts < MaxRestarts /\ restarts' = restarts + 1
      /\ message' \in [Job -> Message]
      /\ \A j \in Job : message'[j] \in Restored(j)
      /\ UNCHANGED <<row, session, cron, slot>>
  BY DEF RedisRestart
<1>2. restarts' \in 1..MaxRestarts
  BY <1>1, QueueAssumption DEF IInv, TypeOK
<1>3. ASSUME NEW j \in Job, message'[j].at # "none" \/ message'[j].kept
      PROVE  Exists(j)'
  <2>1. \/ message[j].at # "none" \/ message[j].kept \/ row[j].attempts > 0
        \/ message'[j].at = "none" /\ ~message'[j].kept
    BY <1>1 DEF Restored
  <2> QED
    BY <1>1, <1>3, <2>1 DEF IInv, RowsComeFirst, Exists
<1>4. TypeOK'
  BY <1>1, <1>2, QueueAssumption DEF IInv, TypeOK
<1>5. WellNamed' /\ RowsComeFirst'
  BY <1>1, <1>3 DEF IInv, WellNamed, RowsComeFirst, Exists
<1>6. TasksHoldMessages'
  BY <1>2 DEF TasksHoldMessages
<1> QED
  BY <1>4, <1>5, <1>6 DEF IInv

-----------------------------------------------------------------------------
LEMMA NextIInv == IInv /\ [Next]_vars => IInv'
<1> SUFFICES ASSUME IInv, [Next]_vars PROVE IInv'
  OBVIOUS
<1>1. CASE UNCHANGED vars
  BY <1>1 DEF vars, IInv, TypeOK, WellNamed, RowsComeFirst, TasksHoldMessages, Exists
<1>2. ASSUME NEW r \in Request, RequestStep(r) PROVE IInv'
  BY <1>2, LookupIInv, CommitIInv, RollbackIInv, PushPendingIInv DEF RequestStep
<1>3. ASSUME NEW w \in Slot, TaskStep(w) PROVE IInv'
  BY <1>3, TaskStepIInv
<1>4. ASSUME NEW w \in Slot, NEW j \in Job, Deliver(w, j) PROVE IInv'
  BY <1>4, DeliverIInv
<1>5. ASSUME NEW j \in Job, Age(j) \/ ExpireResult(j) PROVE IInv'
  BY <1>5, AgeIInv, ExpireResultIInv
<1> QED
  BY <1>1, <1>2, <1>3, <1>4, <1>5, CronIInv, WorkerDiesIInv, RedisRestartIInv DEF Next

LEMMA SpecIInv == Spec => []IInv
BY InitIInv, NextIInv, PTL DEF Spec

-----------------------------------------------------------------------------
(* How often a job is attempted                                            *)

\* The tasks of a job, and those of them that are about to mark it running.
HeldBy(j) == {w \in Slot : slot[w].job = j}

DeliveredOf(j) == {w \in Slot : slot[w].job = j /\ slot[w].stage = "delivered"}

\* The attempts made and those that tasks are about to make.
Ahead(j) == row[j].attempts + Cardinality(DeliveredOf(j))

\* Deliveries that the message of the job still allows.
Remaining(j) == IF message[j].at = "none" THEN 0 ELSE MaxTries - message[j].tries

\* Someone is going to push the job.
PushAhead(j) ==
    \/ j \in cron.jobs
    \/ \E r \in Request : session[r].stage \in {"requeue", "pushing"} /\ session[r].job = j

\* Attempts that the losses of Redis account for.
Spent == MaxTries * restarts

\* Each loss of Redis may leave a task behind whose message is delivered again;
\* a new message is pushed only for a job that had attempts left when that was
\* looked at, and has not been attempted since, but for those losses.
Bound(j) ==
    /\ Cardinality(HeldBy(j)) <= restarts + (IF message[j].at = "taken" THEN 1 ELSE 0)
    /\ Ahead(j) + Remaining(j) <= MaxAttempts - 1 + MaxTries + Spent
    /\ PushAhead(j) /\ message[j].at = "none" /\ ~message[j].kept =>
          Ahead(j) <= MaxAttempts - 1 + Spent

BInv == \A j \in Job : Bound(j)

LEMMA Products ==
    ASSUME NEW m \in Nat \ {0}, NEW r \in Nat
    PROVE  /\ m * r \in Nat
           /\ r <= m * r
           /\ m * (r + 1) = m * r + m
           /\ m * (1 + r) = m * r + m
<1>1. PICK k \in Nat : m = k + 1
  <2>1. m - 1 \in Nat /\ m = (m - 1) + 1
    OBVIOUS
  <2> QED
    BY <2>1
<1>2. k * r \in Nat /\ m * r = k * r + r
  BY <1>1
<1> QED
  BY <1>1, <1>2

LEMMA SpentFacts ==
    ASSUME TypeOK
    PROVE  restarts \in Nat /\ Spent \in Nat /\ restarts <= Spent
BY Products, QueueAssumption DEF TypeOK, Spent

LEMMA TaskSets ==
    ASSUME NEW s, NEW j
    PROVE  LET held == {w \in Slot : s[w].job = j}
               delivered == {w \in Slot : s[w].job = j /\ s[w].stage = "delivered"}
           IN  /\ IsFiniteSet(held) /\ IsFiniteSet(delivered)
               /\ Cardinality(held) \in Nat /\ Cardinality(delivered) \in Nat
               /\ Cardinality(delivered) <= Cardinality(held)
<1> DEFINE held == {w \in Slot : s[w].job = j}
           delivered == {w \in Slot : s[w].job = j /\ s[w].stage = "delivered"}
<1>1. held \subseteq Slot /\ delivered \subseteq held
  OBVIOUS
<1> HIDE DEF held, delivered
<1>2. IsFiniteSet(held)
  BY <1>1, FS_Subset, QueueAssumption
<1>3. IsFiniteSet(delivered) /\ Cardinality(delivered) <= Cardinality(held)
  BY <1>1, <1>2, FS_Subset
<1>4. Cardinality(held) \in Nat /\ Cardinality(delivered) \in Nat
  BY <1>2, <1>3, FS_CardinalityType
<1> QED
  BY <1>2, <1>3, <1>4 DEF held, delivered

\* The same of the tasks as they are and as they will be.
LEMMA TaskCounts ==
    ASSUME NEW j
    PROVE  /\ IsFiniteSet(HeldBy(j)) /\ IsFiniteSet(DeliveredOf(j))
           /\ Cardinality(HeldBy(j)) \in Nat /\ Cardinality(DeliveredOf(j)) \in Nat
           /\ Cardinality(DeliveredOf(j)) <= Cardinality(HeldBy(j))
           /\ IsFiniteSet(HeldBy(j)') /\ IsFiniteSet(DeliveredOf(j)')
           /\ Cardinality(HeldBy(j)') \in Nat /\ Cardinality(DeliveredOf(j)') \in Nat
           /\ Cardinality(DeliveredOf(j)') <= Cardinality(HeldBy(j)')
BY TaskSets DEF HeldBy, DeliveredOf

\* A job whose message and tasks stay as they are: whoever is newly going to
\* push it has seen that it has attempts left.
LEMMA QuietBound ==
    ASSUME IInv, NEW j \in Job, Bound(j),
           UNCHANGED restarts, message'[j] = message[j],
           HeldBy(j)' = HeldBy(j), DeliveredOf(j)' = DeliveredOf(j),
           row'[j].attempts = row[j].attempts,
           PushAhead(j)' => PushAhead(j) \/ row[j].attempts < MaxAttempts
    PROVE  Bound(j)'
<1> DEFINE a == row[j].attempts
           h == Cardinality(HeldBy(j))
           d == Cardinality(DeliveredOf(j))
<1>1. Remaining(j)' = Remaining(j) /\ Spent' = Spent
  BY DEF Remaining, Spent
<1>2. Ahead(j) = a + d /\ Ahead(j)' = Ahead(j)
  BY <1>1 DEF Ahead
<1>3. h \in Nat /\ d \in Nat /\ d <= h
  BY TaskCounts
<1>4. a \in Nat /\ restarts \in Nat /\ Spent \in Nat /\ restarts <= Spent
  BY SpentFacts DEF IInv, TypeOK, Row
<1>5. PushAhead(j)' /\ message[j].at = "none" /\ ~message[j].kept =>
         a + d <= MaxAttempts - 1 + Spent
  <2> SUFFICES ASSUME PushAhead(j)', message[j].at = "none", ~message[j].kept
               PROVE  a + d <= MaxAttempts - 1 + Spent
    OBVIOUS
  <2>1. CASE PushAhead(j)
    BY <1>2, <2>1 DEF Bound
  <2>2. CASE a < MaxAttempts
    <3>1. h <= restarts
      BY <1>4 DEF Bound
    <3> QED
      BY <1>3, <1>4, <2>2, <3>1, QueueAssumption
  <2> QED
    BY <2>1, <2>2
<1> QED
  BY <1>1, <1>2, <1>5 DEF Bound

\* A request step that does not push, the cron task before it pushes, and time.
LEMMA WaitingBound ==
    ASSUME IInv, BInv, UNCHANGED <<message, slot, restarts>>,
           \A j \in Job : /\ row'[j].attempts = row[j].attempts
                          /\ PushAhead(j)' => PushAhead(j) \/ row[j].attempts < MaxAttempts
    PROVE  BInv'
<1> SUFFICES ASSUME NEW j \in Job PROVE Bound(j)'
  BY DEF BInv
<1>1. HeldBy(j)' = HeldBy(j) /\ DeliveredOf(j)' = DeliveredOf(j)
  BY DEF HeldBy, DeliveredOf
<1> QED
  BY <1>1, QuietBound DEF BInv

\* A push adds deliveries only where the message had come to its end.
LEMMA PushBound ==
    ASSUME IInv, IInv', BInv, NEW j \in Job, Push(j), PushAhead(j),
           UNCHANGED <<row, slot, restarts>>,
           \A k \in Job : PushAhead(k)' => PushAhead(k)
    PROVE  BInv'
<1> SUFFICES ASSUME NEW k \in Job PROVE Bound(k)'
  BY DEF BInv
<1>1. HeldBy(k)' = HeldBy(k) /\ DeliveredOf(k)' = DeliveredOf(k) /\ Ahead(k)' = Ahead(k)
  BY DEF HeldBy, DeliveredOf, Ahead
<1>2. \/ message'[k] = message[k]
      \/ /\ k = j /\ message[k].at = "none" /\ ~message[k].kept
         /\ message'[k].at = "waiting"
  BY PushKeeps DEF IInv
<1>3. CASE message'[k] = message[k]
  BY <1>1, <1>3, QuietBound DEF BInv
<1>4. CASE /\ k = j /\ message[k].at = "none" /\ ~message[k].kept
           /\ message'[k].at = "waiting"
  <2>1. Bound(k)
    BY DEF BInv
  <2>2. Ahead(k) <= MaxAttempts - 1 + Spent
    BY <1>4, <2>1 DEF Bound
  <2>3. Remaining(k)' = MaxTries - message'[k].tries /\ message'[k].tries \in Nat
    BY <1>4 DEF Remaining, IInv, TypeOK, Message
  <2>4. Spent' = Spent /\ Spent \in Nat /\ restarts \in Nat
    BY SpentFacts DEF Spent, IInv
  <2>5. Ahead(k) \in Nat
    BY TaskCounts DEF Ahead, IInv, TypeOK, Row
  <2>6. Ahead(k) + Remaining(k)' <= MaxAttempts - 1 + MaxTries + Spent
    BY <2>2, <2>3, <2>4, <2>5, QueueAssumption
  <2>7. Cardinality(HeldBy(k)) <= restarts
    BY <1>4, <2>1, <2>4, TaskCounts DEF Bound
  <2>8. Cardinality(HeldBy(k)) <= restarts + (IF message'[k].at = "taken" THEN 1 ELSE 0)
    BY <1>4, <2>4, <2>7, TaskCounts
  <2> QED
    BY <1>1, <1>4, <2>4, <2>6, <2>8 DEF Bound
<1> QED
  BY <1>2, <1>3, <1>4

-----------------------------------------------------------------------------
LEMMA RequestBound ==
    ASSUME IInv, IInv', BInv, NEW r \in Request, RequestStep(r)
    PROVE  BInv'
<1>1. ASSUME NEW j \in Job, Lookup(r, j) PROVE BInv'
  <2>1. PICK s \in {"insert", "requeue"} :
           /\ session' = [session EXCEPT ![r] = [stage |-> s, job |-> j]]
           /\ s = "requeue" => row[j].attempts < MaxAttempts
    BY <1>1 DEF Lookup
  <2>2. \A k \in Job : PushAhead(k)' => PushAhead(k) \/ row[k].attempts < MaxAttempts
    BY <1>1, <2>1 DEF Lookup, PushAhead, IInv, TypeOK
  <2> QED
    BY <1>1, <2>2, WaitingBound DEF Lookup
<1>2. CASE CommitInsert(r) \/ CommitRequeue(r)
  <2> DEFINE j == session[r].job
  <2>1. /\ session[r] \in Session /\ j \in Job
        /\ session \in [Request -> Session] /\ row \in [Job -> Row]
    BY <1>2 DEF IInv, TypeOK, WellNamed, CommitInsert, CommitRequeue
  <2>2. UNCHANGED <<message, cron, slot, restarts>>
    BY <1>2 DEF CommitInsert, CommitRequeue
  <2>3. /\ row' = row \/ row' = [row EXCEPT ![j].state = "queued"]
        /\ \/ session' = [session EXCEPT ![r].stage = "pushing"]
           \/ session' = [session EXCEPT ![r] = Idle]
        /\ session[r].stage = "requeue" \/ row[j].state = "absent" \/ session'[r] = Idle
    BY <1>2, <2>1 DEF CommitInsert, CommitRequeue
  <2>4. row[j].state = "absent" => row[j].attempts < MaxAttempts
    BY <2>1, QueueAssumption DEF IInv, RowsComeFirst, Exists, Row
  <2>5. \A k \in Job : row'[k].attempts = row[k].attempts
    BY <2>1, <2>3 DEF Row
  <2>6. /\ \A q \in Request \ {r} : session'[q] = session[q]
        /\ session'[r].stage = "idle" \/ session'[r].job = j
    BY <2>1, <2>3 DEF Idle, Session
  <2>7. \A k \in Job : PushAhead(k)' => PushAhead(k) \/ row[k].attempts < MaxAttempts
    <3> SUFFICES ASSUME NEW k \in Job, PushAhead(k)', ~PushAhead(k)
                 PROVE  row[k].attempts < MaxAttempts
      OBVIOUS
    <3>1. session'[r].stage \in {"requeue", "pushing"} /\ session'[r].job = k
      BY <2>2, <2>6 DEF PushAhead
    <3>2. k = j /\ session'[r] # Idle
      BY <2>6, <3>1 DEF Idle
    <3>3. session[r].stage # "requeue"
      BY <3>2 DEF PushAhead
    <3> QED
      BY <2>3, <2>4, <3>2, <3>3
  <2> QED
    BY <2>2, <2>5, <2>7, WaitingBound
<1>3. CASE Rollback(r)
  <2>1. \A k \in Job : PushAhead(k)' => PushAhead(k)
    BY <1>3 DEF Rollback, PushAhead, IInv, TypeOK, Idle
  <2> QED
    BY <1>3, <2>1, WaitingBound DEF Rollback
<1>4. CASE PushPending(r)
  <2> DEFINE j == session[r].job
  <2>1. j \in Job /\ Push(j) /\ UNCHANGED <<row, cron, slot, restarts>> /\ PushAhead(j)
    BY <1>4 DEF IInv, WellNamed, PushPending, PushAhead
  <2>2. \A k \in Job : PushAhead(k)' => PushAhead(k)
    BY <1>4 DEF PushPending, PushAhead, IInv, TypeOK, Idle
  <2> HIDE DEF j
  <2> QED
    BY <2>1, <2>2, PushBound
<1> QED
  BY <1>1, <1>2, <1>3, <1>4 DEF RequestStep

LEMMA CronBound == IInv /\ IInv' /\ BInv /\ CronStep => BInv'
<1> SUFFICES ASSUME IInv, IInv', BInv, CronStep PROVE BInv'
  OBVIOUS
<1>1. CASE SelectStalled
  <2>1. \A k \in Job : PushAhead(k)' => PushAhead(k) \/ row[k].attempts < MaxAttempts
    BY <1>1 DEF SelectStalled, Stalled, PushAhead
  <2> QED
    BY <1>1, <2>1, WaitingBound DEF SelectStalled
<1>2. CASE RequeueStalled
  <2>1. \A k \in Job : row'[k].attempts = row[k].attempts
    BY <1>2 DEF RequeueStalled, IInv, TypeOK, Row
  <2>2. cron'.jobs = cron.jobs
    BY <1>2 DEF RequeueStalled, IInv, TypeOK, Cron
  <2>3. \A k \in Job : PushAhead(k)' => PushAhead(k)
    BY <1>2, <2>2 DEF RequeueStalled, PushAhead
  <2> QED
    BY <1>2, <2>1, <2>3, WaitingBound DEF RequeueStalled
<1>3. ASSUME NEW j \in Job, PushStalled(j) PROVE BInv'
  <2>1. /\ Push(j) /\ PushAhead(j) /\ UNCHANGED <<row, session, slot, restarts>>
        /\ cron'.jobs \subseteq cron.jobs
    BY <1>3 DEF PushStalled, PushAhead
  <2>2. \A k \in Job : PushAhead(k)' => PushAhead(k)
    BY <2>1 DEF PushAhead
  <2> QED
    BY <2>1, <2>2, PushBound
<1> QED
  BY <1>1, <1>2, <1>3 DEF CronStep

-----------------------------------------------------------------------------
\* A task that is at work on another job, before and after, does not count.
LEMMA OtherTasks ==
    ASSUME NEW w \in Slot, NEW k, \A v \in Slot \ {w} : slot'[v] = slot[v],
           slot[w].job # k, slot'[w].job # k
    PROVE  HeldBy(k)' = HeldBy(k) /\ DeliveredOf(k)' = DeliveredOf(k)
BY DEF HeldBy, DeliveredOf

LEMMA DeliverBound ==
    ASSUME IInv, IInv', BInv, NEW w \in Slot, NEW j \in Job, Deliver(w, j)
    PROVE  BInv'
<1>1. /\ slot[w] = Free /\ message[j].at = "waiting"
      /\ UNCHANGED <<row, session, cron, restarts>>
      /\ message \in [Job -> Message] /\ slot \in [Slot -> Task]
      /\ message[j].tries \in Nat
  BY DEF IInv, TypeOK, Deliver, Message
<1>2. \A k \in Job : PushAhead(k)' = PushAhead(k)
  BY <1>1 DEF PushAhead
<1>3. /\ Spent' = Spent /\ Spent \in Nat /\ restarts \in Nat
      /\ row[j].attempts \in Nat
  BY <1>1, SpentFacts DEF Spent, IInv, TypeOK, Row
<1>4. CASE message[j].tries < MaxTries
  <2>1. /\ message' = [message EXCEPT ![j].at = "taken", ![j].tries = @ + 1]
        /\ slot' = [slot EXCEPT ![w] = [stage |-> "delivered", job |-> j]]
    BY <1>4 DEF Deliver
  <2>2. /\ message'[j].at = "taken" /\ message'[j].tries = message[j].tries + 1
        /\ \A k \in Job \ {j} : message'[k] = message[k]
    BY <1>1, <2>1 DEF Message
  <2>3. /\ slot'[w] = [stage |-> "delivered", job |-> j]
        /\ \A v \in Slot \ {w} : slot'[v] = slot[v]
    BY <1>1, <2>1
  <2>4. \A k \in Job : slot[w].job # k
    BY <1>1, QueueAssumption DEF Free
  <2>5. ASSUME NEW k \in Job \ {j} PROVE Bound(k)'
    <3>1. HeldBy(k)' = HeldBy(k) /\ DeliveredOf(k)' = DeliveredOf(k)
      BY <2>3, <2>4, OtherTasks
    <3> QED
      BY <1>1, <1>2, <2>2, <3>1, QuietBound DEF BInv
  <2>6. Bound(j)'
    <3>1. HeldBy(j)' = HeldBy(j) \cup {w} /\ w \notin HeldBy(j)
      BY <2>3, <2>4 DEF HeldBy
    <3>2. DeliveredOf(j)' = DeliveredOf(j) \cup {w} /\ w \notin DeliveredOf(j)
      BY <2>3, <2>4 DEF DeliveredOf
    <3>3. Cardinality(HeldBy(j)') = Cardinality(HeldBy(j)) + 1
      BY <3>1, FS_AddElement, TaskCounts
    <3>4. Cardinality(DeliveredOf(j)') = Cardinality(DeliveredOf(j)) + 1
      BY <3>2, FS_AddElement, TaskCounts
    <3>5. Ahead(j)' = Ahead(j) + 1 /\ Ahead(j) \in Nat
      BY <1>1, <1>3, <3>4, TaskCounts DEF Ahead
    <3>6. Remaining(j) = Remaining(j)' + 1 /\ Remaining(j)' \in Int
      BY <1>1, <2>2, QueueAssumption DEF Remaining
    <3>7. /\ Cardinality(HeldBy(j)) <= restarts
          /\ Ahead(j) + Remaining(j) <= MaxAttempts - 1 + MaxTries + Spent
      BY <1>1, <1>3, TaskCounts DEF BInv, Bound
    <3>8. Cardinality(HeldBy(j)') <= restarts + 1
      BY <1>3, <3>3, <3>7, TaskCounts
    <3>9. Ahead(j)' + Remaining(j)' <= MaxAttempts - 1 + MaxTries + Spent
      BY <1>3, <3>5, <3>6, <3>7, QueueAssumption
    <3> QED
      BY <1>1, <1>3, <2>2, <3>8, <3>9 DEF Bound
  <2> QED
    BY <2>5, <2>6 DEF BInv
<1>5. CASE ~(message[j].tries < MaxTries)
  <2>1. ArqFinish(j) /\ slot' = slot
    BY <1>5 DEF Deliver
  <2>2. /\ message'[j].at = "none" /\ message'[j].kept
        /\ \A k \in Job \ {j} : message'[k] = message[k]
    BY <2>1, FinishKeeps DEF IInv
  <2>3. \A k \in Job : /\ HeldBy(k)' = HeldBy(k) /\ DeliveredOf(k)' = DeliveredOf(k)
                       /\ Ahead(k)' = Ahead(k)
    BY <1>1, <2>1 DEF HeldBy, DeliveredOf, Ahead
  <2>4. ASSUME NEW k \in Job \ {j} PROVE Bound(k)'
    BY <1>1, <1>2, <2>2, <2>3, QuietBound DEF BInv
  <2>5. Bound(j)'
    <3>1. Remaining(j)' = 0 /\ Remaining(j) = MaxTries - message[j].tries
      BY <1>1, <2>2 DEF Remaining
    <3>2. Remaining(j) >= 0 /\ Remaining(j) \in Int
      BY <1>1, <3>1, QueueAssumption DEF Message
    <3>3. Ahead(j) \in Nat
      BY <1>3, TaskCounts DEF Ahead
    <3>4. Ahead(j) + 0 <= MaxAttempts - 1 + MaxTries + Spent
      BY <1>3, <3>2, <3>3, QueueAssumption DEF BInv, Bound
    <3> QED
      BY <1>1, <1>3, <2>2, <2>3, <3>1, <3>4 DEF BInv, Bound
  <2> QED
    BY <2>4, <2>5 DEF BInv
<1> QED
  BY <1>4, <1>5

\* What a task that has been delivered still adds, mark_running adds.
LEMMA TaskWritesBound ==
    ASSUME IInv, IInv', BInv, NEW w \in Slot, TaskStep(w), ~Finish(w)
    PROVE  BInv'
<1>0. PICK j \in Job : j = slot[w].job
  BY DEF TaskStep, MarkRunning, MarkSucceeded, Return, MarkFailed, EndUnrecorded,
         Free, IInv, WellNamed
<1> DEFINE a == row[j].attempts
<1>1. /\ slot[w] # Free
      /\ UNCHANGED <<message, session, cron, restarts>>
      /\ slot \in [Slot -> Task] /\ row \in [Job -> Row] /\ a \in Nat
  BY DEF TaskStep, MarkRunning, MarkSucceeded, Return, MarkFailed, EndUnrecorded,
         Free, IInv, TypeOK, Row
<1>2. PICK stage \in SlotStage \ {"free", "delivered"} : Enter(w, stage)
  BY DEF TaskStep, MarkRunning, MarkSucceeded, Return, MarkFailed, EndUnrecorded, SlotStage
<1>3. /\ slot'[w].job = j /\ slot'[w].stage = stage
      /\ \A v \in Slot \ {w} : slot'[v] = slot[v]
  BY <1>0, <1>1, <1>2 DEF Enter, Task
<1>4. /\ row'[j].attempts = a
            \/ (row'[j].attempts = a + 1 /\ slot[w].stage = "delivered")
      /\ \A k \in Job \ {j} : row'[k] = row[k]
  <2>1. CASE MarkRunning(w)
    BY <1>0, <1>1, <2>1 DEF MarkRunning
  <2>2. CASE MarkSucceeded(w) \/ MarkFailed(w)
    BY <1>0, <1>1, <2>2 DEF MarkSucceeded, MarkFailed, Row
  <2>3. CASE Return(w) \/ EndUnrecorded(w)
    BY <1>0, <2>3 DEF Return, EndUnrecorded
  <2> QED
    BY <2>1, <2>2, <2>3 DEF TaskStep
<1>5. \A k \in Job : /\ PushAhead(k)' = PushAhead(k) /\ Remaining(k)' = Remaining(k)
                     /\ message'[k] = message[k]
  BY <1>1 DEF PushAhead, Remaining
<1>6. ASSUME NEW k \in Job \ {j} PROVE Bound(k)'
  <2>1. HeldBy(k)' = HeldBy(k) /\ DeliveredOf(k)' = DeliveredOf(k)
    BY <1>0, <1>3, OtherTasks
  <2> QED
    BY <1>1, <1>4, <1>5, <2>1, QuietBound DEF BInv
<1>7. Bound(j)'
  <2>1. HeldBy(j)' = HeldBy(j)
    BY <1>0, <1>1, <1>3 DEF HeldBy
  <2>2. DeliveredOf(j)' = DeliveredOf(j) \ {w}
    BY <1>0, <1>1, <1>3 DEF DeliveredOf
  <2>3. slot[w].stage = "delivered" <=> w \in DeliveredOf(j)
    BY <1>0 DEF DeliveredOf
  <2>4. Cardinality(DeliveredOf(j)') =
           IF slot[w].stage = "delivered" THEN Cardinality(DeliveredOf(j)) - 1
           ELSE Cardinality(DeliveredOf(j))
    BY <2>2, <2>3, FS_RemoveElement, TaskCounts
  <2>5. Ahead(j)' <= Ahead(j) /\ Ahead(j) \in Nat /\ Ahead(j)' \in Int
    <3>1. row'[j].attempts \in Nat
      BY <1>1, <1>4
    <3>2. /\ Ahead(j) = a + Cardinality(DeliveredOf(j))
          /\ Ahead(j)' = row'[j].attempts + Cardinality(DeliveredOf(j)')
      BY DEF Ahead
    <3> QED
      BY <1>1, <1>4, <2>4, <3>1, <3>2, TaskCounts
  <2>6. Spent' = Spent /\ Spent \in Nat
    BY <1>1, SpentFacts DEF Spent, IInv
  <2>7. Remaining(j) \in Int
    BY <1>1, QueueAssumption DEF Remaining, IInv, TypeOK, Message
  <2>8. Bound(j)
    BY <1>1 DEF BInv
  <2>9. Ahead(j)' + Remaining(j) <= MaxAttempts - 1 + MaxTries + Spent
    BY <2>5, <2>6, <2>7, <2>8, QueueAssumption DEF Bound
  <2>10. PushAhead(j) /\ message[j].at = "none" /\ ~message[j].kept =>
            Ahead(j)' <= MaxAttempts - 1 + Spent
    BY <2>5, <2>6, <2>8, QueueAssumption DEF Bound
  <2> QED
    BY <1>1, <1>5, <2>1, <2>6, <2>8, <2>9, <2>10 DEF Bound
<1> QED
  BY <1>6, <1>7 DEF BInv

\* The result that is kept refuses the pushes that are ahead.
LEMMA FinishBound ==
    ASSUME IInv, IInv', BInv, NEW w \in Slot, Finish(w)
    PROVE  BInv'
<1>0. PICK j \in Job : j = slot[w].job
  BY DEF Finish, Free, IInv, WellNamed
<1>1. /\ slot[w].stage = "ended"
      /\ ArqFinish(j)
      /\ slot' = [slot EXCEPT ![w] = Free]
      /\ UNCHANGED <<row, session, cron, restarts>>
      /\ slot \in [Slot -> Task]
  BY <1>0 DEF Finish, IInv, TypeOK
<1>2. /\ message'[j].at = "none" /\ message'[j].kept
      /\ \A k \in Job \ {j} : message'[k] = message[k]
  BY <1>1, FinishKeeps DEF IInv
<1>3. /\ slot'[w] = Free
      /\ \A v \in Slot \ {w} : slot'[v] = slot[v]
      /\ \A k \in Job : Free.job # k
  BY <1>1, QueueAssumption DEF Free
<1>4. \A k \in Job : PushAhead(k)' = PushAhead(k)
  BY <1>1 DEF PushAhead
<1>5. ASSUME NEW k \in Job \ {j} PROVE Bound(k)'
  <2>1. HeldBy(k)' = HeldBy(k) /\ DeliveredOf(k)' = DeliveredOf(k)
    BY <1>0, <1>3, OtherTasks
  <2> QED
    BY <1>1, <1>2, <1>4, <2>1, QuietBound DEF BInv
<1>6. Bound(j)'
  <2>1. HeldBy(j)' = HeldBy(j) \ {w} /\ w \in HeldBy(j)
    BY <1>0, <1>3 DEF HeldBy
  <2>2. DeliveredOf(j)' = DeliveredOf(j)
    BY <1>0, <1>1, <1>3 DEF DeliveredOf
  <2>3. Cardinality(HeldBy(j)') = Cardinality(HeldBy(j)) - 1
    BY <2>1, FS_RemoveElement, TaskCounts
  <2>4. /\ Spent' = Spent /\ Spent \in Nat /\ restarts \in Nat
        /\ row[j].attempts \in Nat
    BY <1>1, SpentFacts DEF Spent, IInv, TypeOK, Row
  <2>5. Bound(j)
    BY <1>1 DEF BInv
  <2>6. Cardinality(HeldBy(j)') <= restarts
    BY <2>3, <2>4, <2>5, TaskCounts DEF Bound
  <2>7. Ahead(j)' = Ahead(j) /\ Ahead(j) \in Nat
    BY <1>1, <2>2, <2>4, TaskCounts DEF Ahead
  <2>8. Remaining(j)' = 0 /\ Remaining(j) >= 0 /\ Remaining(j) \in Int
    BY <1>1, <1>2, QueueAssumption DEF Remaining, IInv, TypeOK, Message
  <2>9. Ahead(j) + 0 <= MaxAttempts - 1 + MaxTries + Spent
    BY <2>4, <2>5, <2>7, <2>8, QueueAssumption DEF Bound
  <2>10. Cardinality(HeldBy(j)') <= restarts + 0
    BY <2>4, <2>6, TaskCounts
  <2> QED
    BY <1>1, <1>2, <2>4, <2>7, <2>8, <2>9, <2>10 DEF Bound
<1> QED
  BY <1>5, <1>6 DEF BInv

\* The tasks are gone; the messages they had taken keep their count.
LEMMA WorkerDiesBound == IInv /\ IInv' /\ BInv /\ WorkerDies => BInv'
<1> SUFFICES ASSUME IInv, IInv', BInv, WorkerDies, NEW j \in Job PROVE Bound(j)'
  BY DEF BInv
<1>1. /\ slot' = [w \in Slot |-> Free]
      /\ cron' = [stage |-> "idle", jobs |-> {}]
      /\ UNCHANGED <<row, session, restarts>>
  BY DEF WorkerDies
<1>2. HeldBy(j)' = {} /\ DeliveredOf(j)' = {}
  BY <1>1, QueueAssumption DEF HeldBy, DeliveredOf, Free
<1>3. Cardinality(HeldBy(j)') = 0 /\ Cardinality(DeliveredOf(j)') = 0
  BY <1>2, FS_EmptySet
<1>4. /\ message[j].at # "none" <=> message'[j].at # "none"
      /\ message'[j].tries = message[j].tries /\ message'[j].kept = message[j].kept
  <2>1. \/ message'[j] = message[j]
        \/ /\ message[j].at = "taken"
           /\ message'[j] = [message[j] EXCEPT !.at = "waiting"]
    BY DEF WorkerDies
  <2>2. message[j] \in Message
    BY DEF IInv, TypeOK
  <2> QED
    BY <2>1, <2>2 DEF Message
<1>5. /\ Spent' = Spent /\ Spent \in Nat /\ restarts \in Nat
      /\ row[j].attempts \in Nat
  BY <1>1, SpentFacts DEF Spent, IInv, TypeOK, Row
<1>6. Ahead(j)' <= Ahead(j) /\ Ahead(j)' \in Nat /\ Ahead(j) \in Nat
  BY <1>1, <1>3, <1>5, TaskCounts DEF Ahead
<1>7. Remaining(j)' = Remaining(j) /\ Remaining(j) \in Int
  BY <1>4, QueueAssumption DEF Remaining, IInv, TypeOK, Message
<1>8. PushAhead(j)' => PushAhead(j)
  BY <1>1 DEF PushAhead
<1>9. Bound(j)
  BY DEF BInv
<1>10. Ahead(j)' + Remaining(j)' <= MaxAttempts - 1 + MaxTries + Spent
  BY <1>5, <1>6, <1>7, <1>9, QueueAssumption DEF Bound
<1>11. PushAhead(j)' /\ message'[j].at = "none" /\ ~message'[j].kept =>
          Ahead(j)' <= MaxAttempts - 1 + Spent
  BY <1>4, <1>5, <1>6, <1>8, <1>9, QueueAssumption DEF Bound
<1> QED
  BY <1>1, <1>3, <1>5, <1>10, <1>11 DEF Bound

\* No result expires while a push of its job is ahead.
LEMMA ExpireBound ==
    ASSUME IInv, IInv', BInv, NEW j \in Job, ExpireResult(j)
    PROVE  BInv'
<1>1. /\ message' = [message EXCEPT ![j].kept = FALSE]
      /\ UNCHANGED <<row, session, cron, slot, restarts>>
      /\ ~PushAhead(j)
  BY DEF ExpireResult, PushAhead
<1>2. \A k \in Job : /\ HeldBy(k)' = HeldBy(k) /\ DeliveredOf(k)' = DeliveredOf(k)
                     /\ Ahead(k)' = Ahead(k) /\ PushAhead(k)' = PushAhead(k)
  BY <1>1 DEF HeldBy, DeliveredOf, Ahead, PushAhead
<1>3. /\ message'[j].at = message[j].at /\ message'[j].tries = message[j].tries
      /\ \A k \in Job \ {j} : message'[k] = message[k]
  BY <1>1 DEF IInv, TypeOK, Message
<1>4. Remaining(j)' = Remaining(j) /\ Spent' = Spent
  BY <1>1, <1>3 DEF Remaining, Spent
<1>5. Bound(j)'
  BY <1>1, <1>2, <1>3, <1>4 DEF BInv, Bound
<1>6. ASSUME NEW k \in Job \ {j} PROVE Bound(k)'
  BY <1>1, <1>2, <1>3, <1>6, QuietBound DEF BInv
<1> QED
  BY <1>5, <1>6 DEF BInv

\* A restored message allows at most max_tries deliveries.
LEMMA RedisRestartBound == IInv /\ IInv' /\ BInv /\ RedisRestart => BInv'
<1> SUFFICES ASSUME IInv, IInv', BInv, RedisRestart, NEW j \in Job PROVE Bound(j)'
  BY DEF BInv
<1>1. /\ restarts' = restarts + 1
      /\ message'[j].at \in {"none", "waiting"}
      /\ UNCHANGED <<row, session, cron, slot>>
  BY DEF RedisRestart, Restored
<1>2. /\ HeldBy(j)' = HeldBy(j) /\ DeliveredOf(j)' = DeliveredOf(j)
      /\ Ahead(j)' = Ahead(j)
  BY <1>1 DEF HeldBy, DeliveredOf, Ahead
<1>3. /\ restarts \in Nat /\ Spent \in Nat /\ row[j].attempts \in Nat
      /\ Spent' = Spent + MaxTries
  BY <1>1, SpentFacts, Products, QueueAssumption DEF Spent, IInv, TypeOK, Row
<1>4. Ahead(j) \in Nat
  BY <1>3, TaskCounts DEF Ahead
<1>5. /\ Remaining(j) >= 0 /\ Remaining(j) \in Int
      /\ Remaining(j)' <= MaxTries /\ Remaining(j)' \in Int
  BY QueueAssumption DEF Remaining, IInv, TypeOK, Message
<1>6. Bound(j)
  BY DEF BInv
<1>7. Cardinality(HeldBy(j)) <= restarts + 1
  BY <1>3, <1>6, TaskCounts DEF Bound
<1>8. Ahead(j) <= MaxAttempts - 1 + Spent'
  BY <1>3, <1>4, <1>5, <1>6, QueueAssumption DEF Bound
<1>9. Ahead(j) + Remaining(j)' <= MaxAttempts - 1 + MaxTries + Spent'
  BY <1>3, <1>4, <1>5, <1>8, QueueAssumption
<1>10. Cardinality(HeldBy(j)) <= restarts' + (IF message'[j].at = "taken" THEN 1 ELSE 0)
  BY <1>1, <1>3, <1>7, TaskCounts
<1> QED
  BY <1>2, <1>8, <1>9, <1>10 DEF Bound

LEMMA InitBound == Init => BInv
<1> SUFFICES ASSUME Init, NEW j \in Job PROVE Bound(j)
  BY DEF BInv
<1>1. HeldBy(j) = {} /\ DeliveredOf(j) = {}
  BY QueueAssumption DEF Init, HeldBy, DeliveredOf, Free
<1>2. Cardinality(HeldBy(j)) = 0 /\ Cardinality(DeliveredOf(j)) = 0
  BY <1>1, FS_EmptySet
<1>3. Ahead(j) = 0 /\ Remaining(j) = 0 /\ restarts = 0 /\ Spent = 0 /\ ~PushAhead(j)
  BY <1>2, QueueAssumption DEF Init, Ahead, Remaining, Spent, PushAhead, Idle
<1>4. message[j].at = "none"
  BY DEF Init
<1> QED
  BY <1>2, <1>3, <1>4, QueueAssumption DEF Bound

LEMMA NextBound == IInv /\ IInv' /\ BInv /\ [Next]_vars => BInv'
<1> SUFFICES ASSUME IInv, IInv', BInv, [Next]_vars PROVE BInv'
  OBVIOUS
<1>1. CASE UNCHANGED vars
  <2>1. \A j \in Job : PushAhead(j)' = PushAhead(j)
    BY <1>1 DEF vars, PushAhead
  <2> QED
    BY <1>1, <2>1, WaitingBound DEF vars
<1>2. ASSUME NEW r \in Request, RequestStep(r) PROVE BInv'
  BY <1>2, RequestBound
<1>3. ASSUME NEW w \in Slot, TaskStep(w) PROVE BInv'
  BY <1>3, TaskWritesBound, FinishBound
<1>4. ASSUME NEW w \in Slot, NEW j \in Job, Deliver(w, j) PROVE BInv'
  BY <1>4, DeliverBound
<1>5. ASSUME NEW j \in Job, Age(j) PROVE BInv'
  <2>1. \A k \in Job : /\ row'[k].attempts = row[k].attempts
                       /\ PushAhead(k)' = PushAhead(k)
    BY <1>5 DEF Age, PushAhead, IInv, TypeOK, Row
  <2> QED
    BY <1>5, <2>1, WaitingBound DEF Age
<1>6. ASSUME NEW j \in Job, ExpireResult(j) PROVE BInv'
  BY <1>6, ExpireBound
<1> QED
  BY <1>1, <1>2, <1>3, <1>4, <1>5, <1>6, CronBound, WorkerDiesBound, RedisRestartBound
  DEF Next

LEMMA SpecBound == Spec => []BInv
<1>1. Init => BInv
  BY InitBound
<1>2. IInv /\ IInv' /\ BInv /\ [Next]_vars => BInv'
  BY NextBound
<1> QED
  BY <1>1, <1>2, SpecIInv, PTL DEF Spec

-----------------------------------------------------------------------------
(* Theorems                                                                *)

\* The rows, messages, requests, tasks and the cron task keep their types; in
\* particular no message is delivered more than max_tries times.
THEOREM TypeCorrect == Spec => []TypeOK
<1>1. IInv => TypeOK
  BY DEF IInv
<1> QED
  BY SpecIInv, <1>1, PTL

\* No worker ever takes a message whose row is not committed: the push after
\* the commit holds through requests, cron, redelivery and Redis restarts.
THEOREM RowsAreThere == Spec => []NoTaskMissesItsRow
<1>1. IInv => NoTaskMissesItsRow
  BY DEF IInv, RowsComeFirst, NoTaskMissesItsRow, Held, Exists, Free
<1> QED
  BY SpecIInv, <1>1, PTL

\* Until Redis loses something, two tasks never work on one job.
THEOREM TasksDoNotShareJobs == Spec => []OneTaskPerJob
<1>1. IInv => OneTaskPerJob
  BY QueueAssumption DEF IInv, WellNamed, TasksHoldMessages, OneTaskPerJob, Held, Free
<1> QED
  BY SpecIInv, <1>1, PTL

\* However often requests, the cron task and redelivery take a job up again,
\* its attempts stay below max_attempts plus max_tries for each time Redis held
\* its messages anew.
THEOREM AttemptsAreBounded == Spec => []AttemptsBounded
<1>1. IInv /\ BInv => AttemptsBounded
  <2> SUFFICES ASSUME IInv, BInv, NEW j \in Job
               PROVE  row[j].attempts <= MaxReadings
    BY DEF AttemptsBounded
  <2>1. restarts \in Nat /\ Spent \in Nat /\ row[j].attempts \in Nat
    BY SpentFacts DEF IInv, TypeOK, Row
  <2>2. MaxReadings = MaxAttempts - 1 + (MaxTries + Spent)
    BY <2>1, Products, QueueAssumption DEF MaxReadings, Spent
  <2>3. Remaining(j) >= 0 /\ Remaining(j) \in Int
    BY QueueAssumption DEF Remaining, IInv, TypeOK, Message
  <2>4. Ahead(j) + Remaining(j) <= MaxAttempts - 1 + MaxTries + Spent
    BY DEF BInv, Bound
  <2>5. Ahead(j) >= row[j].attempts /\ Ahead(j) \in Nat
    BY <2>1, TaskCounts DEF Ahead
  <2> QED
    BY <2>1, <2>2, <2>3, <2>4, <2>5, QueueAssumption
<1> QED
  BY SpecIInv, SpecBound, <1>1, PTL
=============================================================================
