# A formal model of Maanak

Maanak is a service for officers who inspect packaged goods: they photograph a
package, a worker reads the label, officers review the readings, rules are
applied, a decision is recorded, a report is issued and frozen, and a case may
follow. This directory holds TLA+ modules translated from the code under
`src/`, TLC configurations that check them on small instances, and TLAPS
proofs. `PROJECT.json` lists the components, the runs, the mutants, the
findings, the hazards, the theorems and, for every definition, the lines it
stands for. Paths below are relative to `src/api/app` unless they begin with
`src/`.

## 1. Inventory

The system is an API (FastAPI, one asynchronous SQLAlchemy session per
request), one worker process (arq), PostgreSQL at READ COMMITTED, Redis (queue
messages, rate limits) and an object store; the web page in `src/web` calls the
API. Several requests and up to two tasks of the worker are at work at once,
and meet only in PostgreSQL and Redis.

| Component | State it keeps | Operations | What is hard, and what makes it correct |
|---|---|---|---|
| Job queue: `services/jobs.py`, `worker/main.py`, `db.py` | `analysis_jobs`, arq keys in Redis, jobs registered on a session | enqueue, push after commit, `mark_running/succeeded/failed`, `requeue_stalled` | Row and message are in two stores; redelivery, death of the worker, restart of Redis. A worker finds its row; a job is in one task's hands; attempts have a limit; stalled and waiting work goes on. |
| Evidence analysis: `services/evidence.py`, `worker/tasks.py` | `evidence.analysis_state`, `declaration_candidates`, `ocr_results` | upload, re-analysis, the task's transactions, advancing the inspection | Tasks, requests and reviews overlap, a failure between transactions. Reviews survive; nothing waits for an analysis that nobody does; the last task looks. |
| Inspection and reports: `services/inspections.py`, `api/v1/inspections.py`, `domain/states.py`, `services/reports`, `api/v1/reports.py` | `inspections`, `findings`, `measurements`, `reports` | review, checks, measurements, decision, issue, withdraw | Guards read other tables before the commit; two issues at once; work in flight when the inspection freezes. |
| Audit trail: `services/audit.py` | `audit_events`, a hash chain | append in the caller's transaction, verify | Interleaved appends, rollback, lock order. One chain without gaps; an altered history is noticed. |
| Rule governance: `services/rules/governance.py`, `api/v1/rules.py` | `rule_versions`, `rule_test_runs`, approvals | create, seed, edit, simulate, endorse, move, supersede | Edits, runs and moves in flight; a bulk update that compares no version. What a finding cites stays what it was. |
| Rule engine: `services/rules/{selection,checks,engine,simulator,seed}.py` | none: functions of what is read | select versions, build inputs, check, adjust, try scenarios | Bounds of bands and windows, rounding, evidence that arrives between runs. |
| Cases and notices: `services/cases.py`, `api/v1/cases.py` | `cases`, `notices` | open, prepare, issue, deliver, answer, withdraw, transitions | Two requests at once; a notice has no version; legal sequences of five endpoints. |
| Complaints: `services/complaints.py`, `api/v1/complaints.py` | `complaints`, the inspections opened from them | submit, triage, assign, convert, move | Two officers take one complaint. |
| Products: `api/v1/products.py` | `products`, `product_identifiers`, the product of an inspection | record, update, add a barcode, merge | A merge moves inspections by one statement, with other requests in flight. |
| Accounts and sessions: `services/accounts.py`, `security/sessions.py`, `src/web/js/api.js` | `users`, `user_sessions`, cookies | bootstrap, sign-in, refresh (rotation), revocation, sign-out | Parallel calls of a page refresh one token; two set-ups at once. |
| Rate limits: `security/ratelimit.py` | a counter in Redis | count, set an expiry, clear | Redis fails between two commands. |
| Permissions and scope: `security/permissions.py`, `deps.py` | an account's jurisdiction | test on a row, filter in a query | Two tests that have to agree. |
| Extraction: `services/extraction/*.py`, `services/gtin.py` | none | units, dates, check digits, labels, ranking | Ambiguity, exactness, labels that overlap. |
| Database schema: `src/api/migrations/versions` | references and triggers | deletes | Cascades in several steps. |
| Imaging, OCR, storage, rendering, reference numbers, plumbing, web pages, scripts | | | not modelled, section 7 |

Interactions. An upload or a re-analysis enqueues a job in its own transaction
and the push follows the commit. The task writes the job, the evidence, the
readings and at last the inspection, which officers' requests write too. Nearly
every handler ends by appending to the one audit chain in its transaction. The
checks read reviews, measurements and the product, and are chosen among the
rule versions in effect; a decision reads the findings, a report all of it. A
case is opened on an inspection whose report is issued; complaints open
inspections and merges of products change theirs.

Concurrency control is of four kinds, and the models keep them apart: an
SQLAlchemy version column (inspection, reading, finding, product, case,
complaint, rule version), which makes a commit fail if the row was updated
since it was read; a unique index (job key, report revision, audit sequence,
rule version); an advisory lock (audit chain, bootstrap); and, for the refresh
of a session, the page, which has one in flight. Rows without any of these
(jobs, evidence, reports, notices, barcodes, sessions) are overwritten.

## 2. Modules

| Module | Stands for |
|---|---|
| `JobQueue` | rows and messages, requests, tasks, cron, failures of the worker and of Redis |
| `EvidenceAnalysis` | extends `JobQueue` with evidence, readings and the inspection's state |
| `InspectionMachine` | abstract: the 13 states and 23 edges that every component promises to move the inspection along |
| `InspectionReport` | review, checks, measurements, decision, report in overlapping handlers |
| `AuditChain` | appends in interleaved transactions, `verify_chain` |
| `RuleGovernance` | the versions of one code, their runs, and what inspections cite |
| `RuleLifecycle` | abstract: the life of a version, which `RuleGovernance` implements |
| `RuleSelection`, `RuleChecks`, `RuleEngine` | operators: scope and choice of versions, the checks, inputs, the outcome, simulator |
| `StarterRules` | the rule set as shipped, with its scenarios |
| `Readings`, `Extraction`, `Jurisdictions`, `Schema` | operators: units, dates, check digits; labels and values on a page; scopes; references between tables |
| `RuleTrial`, `Trials` | state machines that draw inputs for these operators, and the properties of them |
| `Requests` | what a request keeps of a versioned row |
| `Complaints`, `CaseFile`, `Products` | their requests; composed in `Matters` |
| `SessionFamily`, `RateLimit` | sessions and their page; one counter; composed in `Accounts` with bootstrap |
| `MC...` | instances for TLC: symmetry, constants as definitions, a history variable, a state constraint |
| `..._proofs` | proofs, one module per component that is proved about |

### How code becomes actions

A database transaction is one step, taken at its commit, when nothing it read
can have changed in between without its commit failing; otherwise its reads
are one step and its commit another, and what it read is kept in a variable
(`session`, `seen`, `work`, `req`, `handling`, `desk`). `AuditChain`, the merge
of products and the refresh of a session are finer, since there the statements
in between are the subject.

The version column is modelled without numbers. Whoever has read the row holds
a view; each update of the row makes the other views stale (`fresh` in
`EvidenceAnalysis`, `Stale` elsewhere); a commit that updates the row needs a
view that is not stale. A commit that assigns a column the value it read sends
no UPDATE and compares nothing, and the models say where that is the case
(`clears`, `moves`, `writes`, `queued`). Client versions, roles, reasons and
texts decide whether a handler gets past its first reads, and are left out.

**JobQueue.** `Lookup`, `CommitInsert`, `CommitRequeue`, `Rollback` and
`PushPending` are `enqueue`, the commit of the handler and `get_db`.
`Deliver`, `MarkRunning`, `MarkSucceeded`, `Return`, `MarkFailed`,
`EndUnrecorded` and `Finish` are a task from Redis to its end; `EndUnrecorded`
is also the cancellation by `job_timeout`, which `except Exception` does not
catch. `SelectStalled`, `RequeueStalled`, `PushStalled` are the cron task.
`RedisRestart` loses messages or brings consumed ones back: the deployment
keeps snapshots and no append-only file. Two facts about time are guards: a
row is not older than 900 s while a task is at work on it (`job_timeout` is
300 s), and a result key (300 s) does not expire under a request or a cron task
at work on its job.

**EvidenceAnalysis.** A request or a task is a step of `JobQueue` with its
effect on the evidence. The transactions of `_run_analysis` are
`BeginAnalysis`, `StoreResults`, `CountOutstanding`, `AdvanceInspection`; the
progress updates and derivative rows between them, which nothing else reads,
are left out. Evidence has no version, so what a transaction has read of it and
when it commits are two steps wherever it matters. A value equal to the one
that was read is not written: `ReadEvidence` precedes `StoreResults`, which
waits for the audit chain in between; `FindRunning` and `FindFailed` are the
reads after which `BeginAnalysis` and `FailAnalysis` write nothing. A
re-analysis key contains the file and the second of the request: a second
request in that second finds the first one's job (`BeginAgain`), waits for the
audit chain and marks the evidence queued (`CommitAgain`), whatever has become
of the job meanwhile. The model has no clock: that second and that wait may
last.

**InspectionReport.** It begins with the officer's review, since what comes
before is the subject of `EvidenceAnalysis`. Issuing has three steps: the
report in force is looked for in one statement, the highest revision and the
findings are read in later ones. `CommitMeasurements` changes what the checks
read; a run remembers the readings and the measurement it saw.

**AuditChain.** A transaction is a script of locks: rows it updates and the
chain where it appends, in the orders that occur. The hash is an operator
parameter, assumed injective.

**RuleGovernance.** The rows of one code. The bulk update that supersedes
versions compares no `record_version` and raises none, so that it passes
requests in flight. Versions are judged by `RuleSelection` on the days of a
small calendar, and an inspection remembers the text it was judged by. The
accounts of author and reviewers are left out.

**RuleEngine and RuleTrial.** Money is in paise, quantities in thousandths;
products and quotients are exact, in the code to Decimal's 28 digits, and the
results compared do not depend on more of them. `units.to_unit`, which divides
by a factor and rounds, is called by no service and not modelled. Every
registered check is a function of the parameters of a version and of what the
engine gives it; `FindingOutcome` is what the engine makes of the answer. Each
step of `RuleTrial` and `Trials` draws one input (a price, a band, two readings,
a package, a date, a barcode, a starter rule, a page, a scope, a row to delete),
and the properties are about what the functions make of it.

**Extraction.** A page is a sequence of lines of words with at most one value;
which label claims a line, where the value is looked for, the ranking, the
duplicates and the cut are modelled; a parser is the kind of value it finds.

**Schema.** `References` gives for each table its columns that refer to
another table and what a delete does to them; `AfterDelete` follows the
cascades, two references deep, as far as this schema has them, unless a
restriction or a trigger refuses. Deletes are by hand: the application deletes
readings only.

**CaseFile, Complaints, Products.** Requests about versioned rows, by
`Requests`. Withdrawing a notice updates no case and is stopped by nothing;
the generic transition checks the guard of its edge only. `MoveInspections` is
the bulk statement of a merge, taken before its commit.

**SessionFamily.** The token of a session is the index of its row. The page
has calls in the air and one refresh (`MayRefresh`), as `refreshOnce` in
`api.js` has it; a call awaits the refresh in flight and is sent again once. An
answer may be lost, the page reloaded in mid-refresh, the family revoked
elsewhere. One page is modelled: two tabs, which share the cookies and not the
promise, are not (section 6).

## 3. Runs

| Run | Instance | Shows |
|---|---|---|
| `queue` | 1 key, 2 requests, 2 tasks, 3 attempts, 2 deliveries, 1 restart of Redis | no task without its row, one task per job while Redis loses nothing, attempts bounded; waiting messages are consumed and stalled jobs requeued (liveness) |
| `queue_lost` | 1 key, 2 tasks | *violated*: a queued job is taken up in the end |
| `analysis` | 2 jobs, 2 files, 2 matches of one type, 2 tasks (336 thousand states) | evidence in wait keeps a job, but for the two ways that are named; the last task advances; reviews are left alone; refinement of `InspectionMachine` |
| `audit` | 3 transactions, 2 inspections, 2 bodies, 5 events | chain verified, tail held, events enter together, tampering detected |
| `report` | 2 requests, 1 reading, 2 verdicts, 1 measurement, 2 revisions (533 thousand states) | edges, guards at commit, reviews of what was seen, one freezing report that stays true |
| `report_stale` | the same with 1 revision | *violated*: a valid check run rests on the reviews |
| `governance` | 2 versions, the first edited once, 2 days, 2 windows, 2 requests | what is cited stands; approvals rest on the latest run; refinement of `RuleLifecycle` |
| `rule_untested` | the same | *violated*: what is approved was simulated as it stands |
| `calculations` | inputs below (451 thousand states) | the ten properties of `RuleTrial` and `Trials` |
| `absence` | 2 declarations, 2 face states | *violated*: absent evidence is no violation |
| `matters` | 1 complaint, 2 inspections, 2 cases, 2 notices, 3 products, 2 requests of each kind (301 thousand states) | one inspection takes a complaint; one notice is served, and before proceedings; one case opens the matter; inspections follow the merges |
| `accounts` | 2 set-ups, 2 sign-ins, 2 calls, 2 refreshes, 3 sessions, 1 lost answer | one bootstrap; reuse is a replay; one live end; counters expire |

Why the bounds are enough. Each conflict is between two actors over one row, so
two requests, two tasks (the deployment's `max_jobs`), and a third transaction
in `audit`, which may wait behind two, show it. Three attempts and two
deliveries reach first, last and past the limit. Two files are needed for tasks
that count each other, two matches of one type for a reading beside a reviewed
one, three products for merges of merges, two versions for one that supersedes
the other, three sessions for a rotation and a replay. Five events let a first
upload (three appends) and the issue of a report (two) commit. The proofs of
section 5 lift these bounds for every invariant and every action property.

The inputs of `calculations` are chosen at the edges: prices and quantities
whose quotients end on, below and above half a paisa; bands between every pair
of amounts; three declarations with readings in every state of review and each
state of a face; the ends of months in leap and other years, two-digit years;
units of every dimension, aliases and what they consist of; barcodes of four lengths; codes of
up to three symbols with capitals, blanks and separators; pages with a value
beside or below its label, once or twice, with nothing or every label of the
type bare below it; rows of any
subset of six tables emptied and three deletes in a row.

The bounds are guards: `MaxEvents` in `Insert`, `MaxRevision` in
`BuildSnapshot`, `MaxRestarts` in `RedisRestart`, `MaxVersions` and `MaxEdits`
in the creation and editing of versions, `MaxSession` and `MaxLost` in
`SessionFamily`, `MaxCount` in `Increment`, `MaxDeletes` in the deletes.
`matters` has a state constraint as well, `Apart`: the three components write no
common variable, so their interleavings show nothing that each alone does not,
and one at a time goes on; every action of each is taken. The proofs are about
`Matters` without it.

Deadlock is checked in `audit`, where a transaction can always roll back, in
`accounts` and in the trials. It is switched off where the system may be done:
all jobs finished, the inspection archived, the versions withdrawn, the cases
closed.

Fairness (`JobQueue!Fairness`) is used by `queue` and `queue_lost` only:
requests commit, roll back and push; every task goes on; a waiting message is
delivered; rows age and result keys expire; the cron task fires.
`RequeueStalled` is strongly fair, since the worker process runs the cron task:
a worker killed again and again is not killed each time between the same two
statements. No push is assumed to reach Redis and no task to succeed.

Every property has a mutant: a plausible slip in one definition (kept beside
it, "a mutant of ...") under which TLC finds the property violated.

## 4. Where the code does otherwise than its texts say

The violated properties state a sentence of the repository.

* `QueuedJobsAreTakenUp`: `services/jobs.py:8-10` and `185-186` say that
  `requeue_stalled` recovers work whose scheduling was lost; it selects running
  rows only (267), so a queued job whose push failed stays queued.
* `ChecksFollowReviews`: a review loaded before the first check run and
  committed after it leaves the run valid, against the comment at
  `api/v1/inspections.py:1104`.
* `ApprovedAsSimulated`: `api/v1/rules.py:380` says that editing invalidates
  previous simulator runs; the edit clears a column that approval does not
  read, so a version edited after its run is approved.
* `AbsentEvidenceIsNoViolation`: `services/rules/checks.py:7-9` and
  `docs/TESTING.md:99`; the check of the unit sale price does not look at
  whether the evidence is complete.

## 5. Proofs

For every value of the constants that satisfies the named assumptions
(`QueueAssumption`, `AnalysisAssumption`, `ChainAssumption`,
`GovernanceAssumption`, `FamilyAssumption`, `ProductAssumption` and the like:
limits are naturals, "none" is no member of what it is none of, what is counted
or walked through is finite). Those of `RuleTrial` say what parsers and schemas
let through: prices are natural numbers of paise, quantities positive, years
have three or four digits, barcodes are digits, units are in the table;
`ReadingAssumption` leaves out readings in doubt and dates without their month,
for which the checks give other answers. `ShippedAssumption` and
`PageAssumption` say that "none" is none of the values that the starter rules
and the pages contain, `TrialsAssumption` that a page may end with labels of the
table only.

| Module | Theorems |
|---|---|
| `JobQueue_proofs` | `TypeCorrect`, `RowsAreThere` (`NoTaskMissesItsRow`), `TasksDoNotShareJobs` (`OneTaskPerJob`), `AttemptsAreBounded` |
| `EvidenceAnalysis_proofs` | `QueueKeepsItsSpecification` (the composition implements `JobQueue`), `AnalysisTypeCorrect`, `EvidenceIsAttended` (`OnlyLateCommitsLeaveEvidence`), `MovesAreTheMachines` (`FollowsTheMachine`), `DecisionsOnReadingsStand` (`ReviewedTypesAreLeftAlone`), `TheLastTaskLooks` (`LastTaskAdvances`) |
| `InspectionReport_proofs` | `TypeCorrect`, `FrozenOnce`, `ReportStaysTrue`, `EdgesOnly`, `ChecksComeFirst`, `ReviewsSeeTheirReading`: all properties of the run `report` |
| `AuditChain_proofs` | `TypeCorrect`, `ChainAlwaysVerified`, `TailIsHeld`, `TamperingAlwaysDetected`, `OnlyWholeTransactionsEnter` (`TransactionsEnterWhole`): all of the run `audit` |
| `RuleGovernance_proofs` | `TypeCorrect`, `CitationsStand`, `ApprovalsAreTested`, `KeepsThePromise` (refinement of `RuleLifecycle`): all of the run `governance` |
| `Matters_proofs` | `ConvertedOnce`, `ServedOnce`, `ServiceComesFirst`, `OpenedOnce`, `InspectionsAreFollowed` (`InspectionsFollowTheMerges`): all of the run `matters` |
| `Accounts_proofs` | `BootstrappedOnce`, `CountersEnd`, `ReuseIsAReplay`, `EndsAreFew`: all of the run `accounts` |
| `Trials_proofs` | `RoundingIsAccepted`, `BandsMeet`, `EvidenceSettles`, `ContentsHaveOneQuantity`, `DatesAreNotLost`, `MisreadDigitsShow`, `RegistersAgree`, `NoRecordIsTakenAlong`, `StarterSetIsReady`, `PrintedIsShown`: all of the run `calculations` |

**JobQueue.** `NoTaskMissesItsRow` is not inductive: it needs that whatever
speaks of a job, a message, a result key, a raised counter, a request that
pushes, the cron task, comes after the row (`RowsComeFirst`). A Redis restart
keeps this because it only restores messages of jobs that had one.
`OneTaskPerJob` needs that a task holds the one message of its job
(`TasksHoldMessages`), which is where the fixed `_job_id` enters: a push finds
`taken` and is refused. `AttemptsBounded` is a counting argument (`BInv`): the
attempts of a job, with those that its delivered tasks and the deliveries left
to its message may still add, stay below the limit; a requeue below
`max_attempts` starts the message anew, a restart pays for itself.

**EvidenceAnalysis.** Each action is a step of the queue or leaves it alone, so
the queue's invariants carry over. `OnlyLateCommitsLeaveEvidence` needs that the
key of an upload is nobody else's, that a key in use names one file
(`UploadsAreNew`, `KeysNameOneFile`), and that the row of a task that has not
stored its results waits or runs (`RunningRows`, from one task per job); then
the step that ends a job settles its file, unless the task passes over it
(`StepAttended`). `FollowsTheMachine` needs that a
fresh view shows the state as it is (`FreshViews`). The run has one request at
a time; the proof covers any number, duplicates of a key included.

**InspectionReport, RuleGovernance, Matters.** The invariants say of a request
that is going to update a versioned row that what it has read of the row holds
until it commits, since every other update of the row makes it stale; so guards
evaluated early hold at the commit. What escapes the version is argued apart:
the bulk update that supersedes versions only turns active into superseded,
which no request in flight minds; notices have no version, but what a guard has
seen of a notice only grows; the report that freezes updates the inspection, so
no run or decision in flight survives it.

**AuditChain.** A transaction with pending events or a tail read holds the lock
and at most one does; the committed rows with its pending events are verified
and gapless, and the successor of the last event of such a set makes such a set
again. A replaced row would have to have the hash its successor links to, and
injectivity makes the rows equal. That events enter together is a counting
argument: what a transaction has pending are as many events as its script has
appends behind it, and they number on from the committed rows.

**Accounts.** The holder of the advisory lock alone may have found the
workspace empty. A counter without an expiry has a caller that saw it bare. As
long as no answer is lost, the token a refresh carries is the one row of its
family that may be live; and a family's live ends are counted against the
refreshes that nobody hears of any more.

**Products.** What a merge recorded is what the product says (`merges`, `into`),
and a merge in flight still holds the product as it read it. `Reached` is a
recursive function on the naturals. The induction theorems of the library take
an operator and cannot be used, so induction is stated of sets: a set of
naturals that has 0 and with n also n + 1 is all of them (`SetInduction`, from
the least natural outside). With it the function exists and is what its
recursion says; every chain of merges through a finite set of products has
ended after as many steps as there are products, because sets that grow and are
bounded stop growing; and an inspection moved by a merge goes one step along.

**Trials.** The state is one input, so the invariant (`TrialIInv`) says that it
is one that was drawn, and the work is in a lemma about the calculation for
each kind of input:

* prices: `HalfUp` is the quotient or, where it is not exact, one more
  (`HalfUpIsNear`), so what is printed is at most one paisa away, and two paise
  further are two;
* units: the factors of the table agree with what the units consist of
  (`ConsistsFactors`), which is stated apart from the table;
* bands: selection and simulator agree on a record field by field;
* evidence: the outcome of each check of presence is a function of whether
  something was read, was seen on a label, and of the faces (`PresenceOutcome`),
  and each of these can only grow; readings that may stand for one declaration
  are among those accepted, whichever `CHOOSE` picks;
* dates: both orders of two numbers are tried, and a two-digit year expands to
  the one meant (`YearIsExpanded`);
* barcodes: the check digit is a fold over positions, whose unfolding
  (`SumsUnfold`, `SumWithout`) is proved by induction over sets, as above; so a
  changed digit changes the sum by its weight (`ChangedDigit`), zeros on the
  left by nothing (`PaddedSum`), and less than ten times 1 or 3 shows modulo ten;
* scopes: a code is split into segments and joined again by recursive functions
  on positions; by induction along letters, and along segments, no segment holds
  a separator and what was joined is split as it was (`NormaliseTwice`), and a
  normal code does not begin with one, so that an account without a code finds
  nothing beneath it (`NothingIsBeneath`); what remains of the test on a row is
  then the predicate of the query;
* deletes: `NotTakenAlong` is kept by each delete, from what cascades to
  inspections and what restricts them (`TakenAlong`, `GoneAlong`), and holds of
  every database that satisfies the schema (`PopulatedKeeps`);
* starter rules: a rule applies to the packages of its scenarios and asks for
  the four kinds of scenario every rule needs (`StarterScope`); the scenario of
  the day before passes for each (`NotYetPasses`); what is left is, rule by rule,
  what its check says of the payloads as they are shipped, and that the engine's
  adjustment for missing inputs leaves it alone (`RuleIsReady`, `SettledAsItIs`);
* pages: each word of the table tells which types may use it (`Tells`); the words
  of a label are told one by one, and together they leave one type
  (`OnlyItsType`), at least where the label announces free text or a value of the
  same kind. So a label that claims a line of another declaration finds no value
  it can read there (`LabelledByAnother`), and of a declaration's own matches only
  the other amount can rank before the one in question, because a label with
  nothing to read ranks behind (`OwnIsShown`). The proof is of any number of bare
  labels in any order and of any confidence, where the run has none or all of them.

Only model-checked is liveness (`MessagesAreConsumed`, `StalledJobsAreRequeued`),
since fairness needs ENABLED. The four properties of section 4 are violated.

No module declares a RECURSIVE operator.

## 6. Assumptions, and what was seen beside the properties

* SHA-256 is taken as injective. `verify_chain` cannot notice that the last
  events of the chain are missing; `TamperingIsDetected` is of rows that have a
  successor.
* The duration facts of section 2 are assumptions about clocks.
* The sign-in form is taken to be a page of its own, shown while no call is
  under way (`FormIsShown`), and one browser tab is open.
* One inspection at a time in `EvidenceAnalysis` and `InspectionReport`, one
  complaint in the run `matters`, one rule code in `RuleGovernance`.

Behaviours met while translating that no property denies, since no text of the
repository promises otherwise:

* Queue and evidence: a running job whose worker dies in its last attempt stays
  running; a stale version when the task advances the inspection marks a job
  failed whose results are stored; results are stored into frozen inspections;
  an upload in flight is not counted as outstanding. A second re-analysis
  request of one second commits `queued` (`evidence.py:394`) although the job it
  found (`jobs.py:102-116`) may have ended while it waited for the audit chain
  (`audit.py:172`); the officer reads "Analysis queued again", the evidence stays
  outstanding and no job is left to do it. The same is left when a task had read
  the evidence as settled before such a request wrote it: it stores or fails
  without writing. `OnlyLateCommitsLeaveEvidence` says that there is no third way.
* Inspections and reports: recording measurements, faces or product facts
  leaves `checks_executed_at` set; `run_checks` does not refuse pending
  readings; an override in flight when the report is issued commits after it;
  two reissues after a withdrawal both issue; issuing a report locks chain and
  row in the other order than a transition, and PostgreSQL ends one of the two.
* Rules: activation supersedes every active version with an earlier
  `effective_from`, so that days may be left without a rule, and two activations
  at once may leave both active; `author_id` does not follow an edit; the
  simulator leaves out the engine's adjustment for missing inputs;
  `build_check_input` takes one of equally confident readings by unspecified row
  order; confirming an ambiguous date leaves it ambiguous; the check of the
  country of origin ignores labels without a value.
* Cases and complaints: two cases may be open on an inspection that is no
  longer `report_issued`; a notice lists findings by the engine's outcome, a
  case is opened on the officers'; `notice_issued` can be entered by the generic
  transition without issuing; withdrawn notices can be delivered, and an unissued one
  answered; closed complaints can be converted; chains of duplicates may close.
* Products: the target of a merge may be merged itself, or be merged in flight,
  and two crosswise merges swap their inspections; barcodes added to a source in
  flight stay there, two products may come to share one or have two primary
  ones; a product keeps its kind of quantity when its unit changes dimension.
* Accounts: two tabs refreshing at once read as reuse; a refresh in flight when
  its family is revoked leaves a live session; the failure counter and a reset
  token can be used by two requests at once.
* Extraction: `to_unit` says "Exact." (`units.py:365`) and divides at 28 digits,
  so that one piece in dozens is not a twelfth; only the tests and a script call
  it. `नवम्बर` is read as December; `11/31/24` as November 2031; a line
  with a price and a unit price loses the price; duplicates are compared without
  their unit; "Vegetarian" alone is not read.
* Permissions: an inspection's jurisdiction is stored as it is written; one with
  blanks or small letters is covered and in no register.
* Schema: notices, frozen ones too, go with their case; users with audit events
  cannot be deleted.

## 7. Not modelled

Imaging and OCR (numerical, an external engine: the task sees success or
failure and a set of matches); storage (I/O; objects are written before the row
that names them and never updated); rendering of reports and wording; reference
numbers (a database sequence) and canonical form (a serialisation, injective in
`AuditChain`); HTTP plumbing, error formats and metrics; the web pages but for
the refresh of the session; backup and restore scripts, run on a stopped system.

Partly modelled, with what is left out in `PROJECT.json`: the parsers' regular
expressions, dates with months in words and Hindi labels; overrides of findings,
faces, edits of columns that no guard reads; photographs of complaints; hearings
and texts of notices; lockout, MFA and password resets; the columns, checks and
self-references of the schema.

## 8. What could follow

1. MFA, lockout and resets beside `SessionFamily`: their rows have no version,
   so the properties would be about what remains true without one.
2. Overrides of findings as requests of `InspectionReport`.
3. Two pages on one cookie jar in `SessionFamily`.
4. Two inspections that share the audit chain and the queue.
