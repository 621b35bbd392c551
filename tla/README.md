# Verification of the CRM backend

A field-verification CRM: an office creates *cases*, each case has *verification
tasks*, field agents visit addresses with a phone, submit a form, the office
reviews it, and the agent is paid a commission. The backend is one Express
process (or several) over PostgreSQL, Redis and BullMQ queues; nearly all
coordination between concurrent requests goes through the database. This
directory holds the TLA+ model of its core, the TLC runs over small instances,
and the TLAPS proofs that hold for any number of tasks, agents and requests. A KYC
team verifies documents in the office, and completed work is invoiced to the client.

All paths below are relative to `CRM-BACKEND/src/` unless they start elsewhere.

## Inventory

| Component | State | Operations | What is hard about it |
|---|---|---|---|
| Field verification tasks (`controllers/verificationTasksController.ts`, `mobileCaseController.ts`, `mobileFormController.ts`, `routes/verificationTasks.ts`) | rows of `verification_tasks`, `verification_reports`, `task_backend_reviews`, `task_revocations` | create, start (phone, sync queue, web), submit, complete, finalize review, revoke (web, phone), reassign, replace, bulk assign, revisit, update | every handler validates before its transaction; three of them never validate again; a database trigger and a partial unique index are the last guard |
| Case status (`services/caseStatusSyncService.ts`) | `cases.status` | recount inside a transaction, recount after the commit | recounts after the commit are lost with the process; two writers bypass it |
| Case creation and edit (`controllers/cases/`) | `cases` and its tasks | create case, edit case | edits all tasks of a case at once, without a recount |
| Commission (`controllers/commissionManagementController.ts`) | `commission_calculations` | hook after completion | reads, then inserts, after the commit; errors are swallowed |
| Mobile sync (`controllers/mobileSyncController.ts`) | none of its own | queued start, uploaded case changes | arrives late, reordered, repeated |
| Case counters (trigger `update_case_completion`, `acs_db_final_version.sql`) | counters on `cases` | on each task write | counts before it waits for the row lock |
| Idempotency (`middleware/idempotency.ts`) | `mobile_idempotency_keys`, a Redis entry per key | reserve, replay, persist, release, take over, expire | retries racing with a slow first try; a failure answered late; a reservation taken over while its owner still runs |
| Audit log (`queues/auditLogQueue.ts`, `queues/auditLogDeadLetter.ts`) | queue, hash chain, dead-letter file | enqueue, append, dead-letter, recover | at-least-once jobs, crash during the replay |
| KYC verification (`controllers/kycVerificationController.ts`) | rows of `kyc_document_verifications`, their tasks, `kyc_verification_cycles` | verify, start, revoke, assign, recheck, reverify, clone | an assignment is three statements without a transaction; three tables must agree; the endpoints of the field tasks reach a KYC task, too, and know nothing of its document |
| Invoices (`controllers/invoicesController.ts`, `controllers/invoices/access.ts`) | `invoices`, their items, `invoice_item_tasks`, the flag `billed` of a cycle | create, send, cancel, delete, edit | candidates and statuses are read before the transaction that relies on them |
| Sessions (`controllers/authController.ts`, `mobileAuthController.ts`, `utils/refreshTokenIssue.ts`, `middleware/auth.ts`) | `refresh_tokens`, `users.token_version`, a context per worker process | login, refresh, logout, change of password, revoke a session | rotation in flight while the sessions are ended; caches in several processes |
| Connection pool and transactions (`config/db.ts`) | connections, row locks | query, transaction with retry | a handler that holds one connection and waits for a second; transactions that lock rows in different orders |
| Circuit breaker (`utils/circuitBreaker.ts`) | state, failure count | call, reset | calls that end in another state than they began in |
| Reports, notifications, attachments, deduplication, master data, web front end | their tables | CRUD, queries, I/O | see `PROJECT.json` |

How they interact: the handlers share nothing but the database. A transaction
that writes a task holds the row lock of the task and, through the trigger
`update_case_completion`, of the case. Completion calls the commission hook and
several handlers call the rollup after their commit, on another connection.
Phones retry and upload late. A KYC decision completes a cycle, which an invoice
of the same database picks up as a unit to bill; KYC verification never looks
at the flag that a cycle is billed, and what protects the bill is that no operation
reopens a completed cycle. A completed field task is reopened by assigning it again,
invoiced or not. A KYC document has a row of `verification_tasks`, and most endpoints of
the field tasks do not look at the type of a task: assigning, updating, starting,
submitting or completing moves a KYC task like any other, and its document stays as it was.

`PROJECT.json` lists all components with their status and the hazards, each at
its line, with the properties that look for it.

## Modules

| Module | Uses | Models |
|---|---|---|
| `TaskStatus` | | the status vocabulary, the transitions the database trigger allows, the edit lock, the rollup of a case |
| `FieldTaskLifecycle` | `TaskStatus`, `TaskVisit` | the tasks of one case under concurrent requests of the office, the phones and their sync queues |
| `TaskVisit` | | abstract: the life of a task without requests, tables or triggers |
| `KycVerification` | `TaskStatus`, `KycDecisions` | the KYC documents of one case, their tasks and cycles, and what the field endpoints do to them |
| `KycDecisions` | | abstract: when a decision is taken, taken up again and filed, among disturbances that decide nothing |
| `Invoices` | | the invoices of one client over units of completed work, which its environment completes |
| `KycBilling` | `KycVerification`, an instance of `Invoices`, `WorkLedger` | both over one database, with field tasks that are completed and reopened |
| `WorkLedger` | | abstract: which invoice holds which piece of work, and what is done and reopened |
| `TaskTransactions` | | the pool, the row locks, the counting trigger, deadlocks, timeouts and retries under the task handlers |
| `Sessions` | `SignIns` | the refresh tokens, the token version and the cached contexts of one user |
| `SignIns` | | abstract: which tokens are valid, and the epochs that end them |
| `Idempotency` | `OneEffect` | the idempotency middleware, for one key |
| `OneEffect` | | abstract: the one effect of a key and the true answers about it |
| `AuditLog` | `AuditTrail` | the audit queue, the hash chain, the dead letters |
| `AuditTrail` | | abstract: the events the log owes, and the chain it writes |
| `MC...` | its module, `TLC` | the instances for TLC; `Sessions` needs none |
| `..._proofs` | its module, `TLAPS` | its theorems; eight modules |

An abstract module states what a component promises in terms of its users; the component's
own module instantiates it with a refinement mapping, and the abstract specification is a
property of its run and a theorem. Each is over the state a user could observe, so a step of
the component is one move of it or none.

An operator whose line ends in `\* a mutant` is the plausible bug that shows
the definition below it matters; nothing else uses it. `PROJECT.json` maps every
other definition to the lines it models.

### The field tasks

*State.* `task[t]` is a row of `verification_tasks` (status, type, parent,
assignee, whether `started_at` is set, whether and whence `actual_amount` is
set). `caseStatus` is `cases.status`; `report`, `reviewed`, `revocations` and
`paid` are the tables that prove what happened to a task; `reviewOn` is the
system flag for mandatory review. `req[r]` is a request that stands between two
of its steps, with what it remembers: the task it read, on whose behalf, and for
the commission hook whom it is about to pay. Two variables are history:
`drift` says that a change was committed and its recount was bypassed or lost,
`completers` collects the agents a task was completed under.

*Grain.* A step is one transaction, or one statement that commits by itself.
Every write of a task takes the row lock of the task and, through
`update_case_completion`, of its case, until the commit, so the transactions of a
case are serial; what precedes them (`...Read`) and what follows them (`Recount`,
`HookRead`, `HookPay`) is not. The trigger and the partial unique index are in
`Commit`: a step they refuse does not happen, and `GiveUp` ends the request.

*Actions.*

| Action | Code |
|---|---|
| `CreateCase`, `CreateTasks` | `createCase`, `createMultipleTasksForCase` |
| `StartRead`/`StartTx` | the phone's start |
| `SyncStartRead`/`SyncStartTx` | the start a phone queued while offline |
| `WebStartRead`/`WebStartLockCheck`/`WebStartWrite` | the start route, which checks, then goes through the update handler's own check |
| `SubmitRead`/`SubmitTx` | a form from the phone |
| `CompleteRead`/`CompleteTx`, `FinalizeReview` | completion by the office; the backend review |
| `Revoke`, `MobileRevokeRead`/`MobileRevokeTx` | revocation |
| `Reassign`, `Replace` | the assignment handler's two modes |
| `BulkAssign`, `RevisitRead`/`RevisitTx` | bulk assignment; revisit of a completed task |
| `UpdateRead`/`UpdateWrite`, `EditCaseAssign`, `UnassignRead`/`UnassignWrite`, `SyncCaseChange` | the edits that do not follow the workflow |
| `Recount`, `HookRead`, `HookPay` | what a request owes after its commit |
| `GiveUp`, `Die` | a request that ends without effect; one that is lost after its commit |

`TaskVisit` is what all of this promises about a task: it waits, is visited by the
agent who holds it, may be reviewed, is done, is billed once; it changes hands only
while it waits or once it is done, and never comes back from revocation. A step
moves any set of tasks, since one statement may (a bulk assignment). The refinement
mapping reads phase, holder and bill off the row. It is a PROPERTY of `dispatch` and
`billing` and the theorem `WorkflowImplementsVisits`. One thing the mapping brought to
light and `BeginVisit` allows: a web start decided before the form came in takes the task
back out of its review.

### The KYC documents

Each document has a task of its own (`task[t]`), a working row (`doc[t]`) and an
append-only list of cycles, the source of truth for history and billing. The decisions
(`Verify`, `Start`, `Revoke`, `Recheck`, `Reverify`) are transactions that lock
the document and recount the case inside. An assignment is `AssignDoc`,
`AssignTask`, `AssignCycle`, one committed statement each, with anything in between,
and no recount. A recheck by clone looks for an active task (`CloneRead`) before the
transaction that inserts the new one (`CloneTx`); the partial unique index, in
`CommitTasks`, has the last word. `GiveUp` ends a request at any of these points, so
a half-done assignment is a state like any other.

The rest are the *field endpoints* (`FieldStep`), which know nothing of documents:
assignment (`FieldAssign`, which reopens a COMPLETED task), bulk assignment, the general
update, the starts from the phone and its queue, submission, completion, review, PUT
/cases and an uploaded case change. `Endpoints` says which an instance has. Each is one
step, what it read before its transaction being no guard of what it does; the statements
of update, web start and completion that name the row by its id alone are `FieldUpdate`.
Those that recount after their commit leave a request that owes it (`RecountOwed`), and
those that never recount note it (`drift`). Revisit, the office's and the phone's
revocation exclude KYC tasks, and the replacement of a revoked task always fails for want
of a pincode and an area. `moved` holds the tasks a field endpoint moved since the KYC
handlers last did, so that the properties say what holds with and without such a move:
a completed document keeps its outcome in its latest cycle in any case, its task is
COMPLETED exactly when it is while nobody else moved it (`DecisionRecorded`), and the case
is completed when every document is settled: decided or, if its task was moved, with a
task that is done with (`CaseFollowsDocuments`). A document that is decided can thus stand
over an open task in an open case, until a field endpoint completes that task or the
document is taken up and decided again.

Left out are who holds a document or a task, which decides nothing here; `started_at`,
which refuses only edits and reassignments that leave the status as it is; and the report
rows, which decide which of submission and completion a started task may meet, both having
the same effect.

`KycDecisions` is what a reader of the case sees (`DecisionsFollowed`): per document a
decision or none, and the decisions a reverification replaced. The mapping reads the
decision off the document, the history off all cycles but the latest. What others do may
disturb documents; it neither makes nor unmakes a decision. Of the undisturbed documents
one at most waits: a recheck, a reverification and a clone wait until all others are
decided. The code never asks for that, it follows from the unique index on active tasks
and is why `OneWaits` is a guard of every step of the abstraction.

### The invoices, and both together

A *unit* is a completed field task or a completed cycle. An operation is two steps:
what it reads (`CreateRead`, `StatusRead`), then the write (`CreateTx`, `SendTx`,
`CancelTx`, `Delete`, `EditTx`), whose UPDATE and DELETE name the invoice by its id
alone; `clerk[c]` holds what stands between. What keeps two clerks from billing one
unit are the two unique indexes (`Linkable`). `past` is the table of status history.
`KycBilling` makes the cycles of `KycVerification` units of `Invoices`: a step is a step of
one component that leaves the other's variables alone, or a field task of the client is
completed or reopened (`CompleteField`, `ReopenField`), billed or not, between any two
steps of a clerk. What else a visit does is in `FieldTaskLifecycle`.

`WorkLedger` is what the client's books rest on (`LedgerKept`): a completed cycle stays done,
a field task may be reopened. A new invoice takes cycles that are done when it commits,
field tasks that have once been done (they were when the clerk read them, and nothing looks
again: the code bills a task that was reopened meanwhile, and the model has it) and nothing
that an invoice holds; it takes nothing later, and gives back all it holds at once. A
released piece of work is free; that it is also *offered* again is what
`find_deleted_draft` refutes.

### The transactions

A *job* is what a handler does to tasks: which it writes, in which order, whether
they become COMPLETED, whether its update tests the status (the phone's completion
and the bulk assignment do; the web's reads it before, without a lock), whether it
runs in `withTransaction`, and where its recount is. `Write` locks the task, and
in the same statement the trigger counts, on the snapshot of that statement;
`TakeCase` gets the row of the case and so ends the statement. `Commit` publishes the
status and the count. A recount after the commit takes a second connection
(`ConnectSecond`) while the first is held until `finally`. `Deadlocked` is PostgreSQL's
detector: a set of requests that wait for each other. A request that will be tried
again sleeps with the connection of the failed attempt in its hands (`Retry`), because the
`finally` that releases it comes after the backoff. `mixed` is history: the cases
whose last writers overlapped; a transaction that wrote a case alone takes it out.

### The sessions

`rows` is `refresh_tokens` in order of issue; a row also carries, as history, the
version the login of its chain read. Login and refresh are a step per statement
another request can see. A logout revokes rows, then bumps the version, then
invalidates the cached context, three steps; in the other workers the context goes by
a message that may be lost (`Deliver`, `Lose`) or by its time to live (`Expire`), and a load
that read the user before the bump fills it after (`LoadRead`, `LoadFill`).

`SignIns` has epochs instead of versions (`EndedStayEnded`): the end of one ends every token, a
token whose login belongs to an ended epoch is issued ended, and no token becomes valid again.

### The idempotency middleware

One key of one user and scope, any number of requests that carry it. The row is a
reservation until a response is stored in it, and `age` is what the clock has
made of it: *young*, *stale* (five minutes, may be taken over), *expired* (72
hours, invisible to the look-up but still in the way of an insert) or *absent*. A
success is named by the request whose execution produced it, so `answer[r] = q`
reads "r was answered with the response of q". `exec` is the fate of the
handler's transaction, separate from the answer: it can commit after a timeout
was answered, and a failure can be answered after it committed. `after` is the
rest of the finish event, whose two writes are steps of their own. The history
variable `unguarded` is set when an execution is left without its reservation: it
was deleted or expired under it, or the row vanished between the insert that
conflicted and the look-up, and the request runs without one.

`OneEffect` is what a phone may rely on (`EffectPromised`): until a reservation is lost
(`unguarded`) the key has one effect; a request is answered once, with an effect of its own
payload, or with a conflict or a request in progress that is really there, or with a failure, of
which nothing is promised.

### The audit log

A *slot* is one running insertion, of a worker, a request whose enqueue failed,
or the startup sweep. The transaction is two steps: advisory lock and read of
the newest hash, then write and commit; it may fail before, or after its effect. A hash
is named by the position of its row, so "carries the hash of the row before it"
is `rows[i].prev = i - 1`. `job` is the queue: attempts made, stalls, and the slot
that holds a job, which may lose it and not know. The queue itself is BullMQ's
and modelled from how the code configures it: five attempts, one tolerated stall,
and a failed handler that parks by attempts made. Parked events are in `file`; a
start renames it and sweeps `lines`, and a process that dies in between leaves
them in a `.replay` file (`orphaned`). The history variable `dropped` names the
events given up where the code accepts it: a dead-letter file that cannot be
written, a process that dies with a direct insertion or a parking in its hands, a
job failed for its second stall.

`AuditTrail` reduces all this to a debt (`TrailKept`): an emitted event is owed while it is in the
queue, in a slot or in a file; a row is written only for an event that is owed, and an
event stops being owed only when it is in the table or was given up.

## Runs

| Run | Instance | Question |
|---|---|---|
| `dispatch` | 2 tasks of one type, 1 agent, 2 requests | Do double revocations, bulk assignment, late starts, replacements and revisits leave the ledger, the start stamp, the case status and the superseded task right, and does every task live the life of `TaskVisit`? |
| `billing` | 1 task, 2 agents, 2 requests, the review flag moves, fairness | Is the amount taken once, the review never skipped, the commission paid to somebody who completed the task, and paid in the end? Does the case status keep catching up? |
| `edits` | 2 tasks of 2 types, 1 request, requests die | Do the edits outside the workflow leave rows well formed, and the case status wrong only after a bypassed or lost recount? |
| `kyc` | 2 tasks, 1 verifier, 1 outcome, 2 requests, 2 cycles, all field endpoints | Among whatever the field endpoints do, do document, task, latest cycle and case agree as far as they should, is history kept, and are decisions made and taken up again only as `KycDecisions` allows? |
| `kyc_billing` | 1 document, 1 field task, 2 invoices, 2 clerks, 2 cycles | Is no unit billed twice, every link backed by its invoice, a billed cycle never reopened, and does work move as in `WorkLedger`, although the field task is reopened at any time? |
| `transactions` | 3 requests, 2 connections, 2 cases, 3 tasks, 2 attempts, fairness | Does every lock and connection come back, every request end, does a completion hold its rows and what it tested until its commit, and is a counter wrong only after writers that overlapped? |
| `sessions` | 1 device, 2 workers, 2 handlers, 1 bump, 2 tokens, fairness | Does no chain of refreshes outlive a bump, no ended token come back, and no worker keep an older context for ever? |
| `idempotency` | 3 requests, 2 payloads | Does the handler take effect once, is a replayed success true and of the same payload, and is every answer one `OneEffect` allows? |
| `audit` | 2 events, 2 slots, 2 attempts, 2 rows, fairness | Is the chain unbroken, every event somewhere, every job settled, and is a row written only for an event still owed? |

Three runs violate a statement the repository makes about itself; `PROJECT.json`
quotes the statement under "findings":

| Run | What it shows |
|---|---|
| `find_unbilled` | the general update completes a task that was started after the update read it, without an amount |
| `find_deleted_draft` | deleting a draft invoice leaves its KYC cycles flagged as billed, so no later invoice is offered them |
| `find_stale_status` | a status checked before the transaction is acted on after it changed: a cancelled invoice is sent, a sent one deleted |

Other disagreements between the code and its comments came up while modelling; the
models follow the code, no property states the comment, and no run is kept for them:

* An uploaded case change writes `cases.status`, whose single authority is said to be
  the rollup; a case created with assigned tasks stays PENDING. `CaseInSync` allows
  for both by name (`drift`).
* The form of a reopened task, whose resubmission a comment allows, is refused by the
  unique row of its report; a form that was checked against the former agent is filed after
  a hand-over.
* A request may be answered with a failure and its handler commit (the exception of `ExecutedOnce`).
* A KYC task that is COMPLETED is reopened by `POST /verification-tasks/:taskId/assign` (and
  by PUT /cases), and its document stays completed.
* A field task that is reopened between the selection and the insert of an invoice is billed.
* A KYC document that was started cannot be verified, although the comment at
  `kycVerificationController.ts:678` says the legacy IN_PROGRESS is accepted.
* Two assignments of a document that race, or one that dies, leave the document and its task
  with different verifiers.
* Two refreshes with one token of no device both succeed; the comment at
  `authController.ts:1013` says a replay fails.
* An edit of items that raced with a cancellation replaces the items of a cancelled invoice.
* The web's completion reads the status without a lock and updates by id, so it can
  rewrite a task that was completed meanwhile.

### Bounds

* **Two overlapping requests.** Each hazard of the task module is one request
  acting on what it read before another's commit. `Revoke`, `BulkAssign`,
  `SyncCaseChange` and the edits of a case need no slot of `req`, so with
  two slots three or more actors can be under way.
* **Two tasks of one type** give a replacement or revisit its child and let the
  unique index refuse. Two types, in `edits`, let two tasks be active and the
  rollup see a mixture.
* **Two agents** where it matters who holds a task (`billing`); elsewhere one, so that assignment is to that agent.
* **`MaxRevocations` = 2** so that a second ledger row could appear; the invariant
  says it does not. In `edits`, where a revoked task can be revived, 1 keeps the run
  small and only the shape of the counter depends on it.
* **Two KYC tasks, two cycles each**: a clone beside its original, and a
  reverification after a completed cycle; the third document or cycle meets the same
  guards. Two requests let two assignments, or an assignment and a clone, interleave, or a
  recount be owed beside either; one verifier and one outcome, since no guard compares
  them and `None` is the other value; that two outcomes are never mixed up is left to the
  theorems, which have any number. Two uploaded statuses are one that is right in some state
  and one that closes the case; every state is reached with either as a bypass. The VIEW drops
  `caseStatus` where a recount is owed or lost: nothing a step does depends on it, and no property
  looks at it there.
* **`kyc_billing`** has one document, one field task, two invoices and two clerks, so that one
  unit can be wanted twice while the other operation cancels or deletes. KYC requests and the field
  endpoints are left out (`Requests` and `Endpoints` = {}): none of them writes a completed cycle,
  as `kyc` and the proof, which has them all, show. The VIEW drops the verifiers and the outcomes
  of the cycles, which no step and no property of these runs reads.
* **Three requests over two connections, two cases**: all connections held by
  handlers that want a second, a third in the queue; two bulk assignments whose
  arrays name the cases in opposite order deadlock. A bulk assignment of two
  tasks of one case and the phone's completion of its second task deadlock, too, and the completion
  is retried. `MaxAttempts` = 2 (six in the code) has a retry and a last attempt.
* **`sessions`**: two tokens are a login and its refresh, or two logins; one bump has a before and an
  after. The cap on rows stops issuing, not the handlers. The theorem holds for any number of each.
* **Three requests, two payloads**: a first try, a retry that takes its
  reservation over, and a third that meets what they leave behind.
* **`Attempts` = 2** (five in the code) has a first failure that waits and a last
  one that parks.
* **`MaxRows` = 2** counts the rows and every copy of an event that may still
  become one. A step that creates a second copy (`MayDuplicate`: an answer
  lost, a live job taken for stalled) is possible only below the bound, hence
  once the other event was dropped or its file orphaned; a crash that would
  bring the job of a written row back, likewise (`MayCrash`). These two guards
  bound the instance, not the program. The same invariants, without the
  liveness property and with symmetry, also hold with `MaxRows` = 3 (3.2 million
  states), where copies arise while both events are alive, and the theorems hold
  for every bound.

Symmetry is used only in runs without liveness. Deadlock is not checked in the task,
KYC, invoice and session runs, where everybody may simply stop at the bounds (no
document left to decide, no id left to issue); nor in `transactions`, where a request that lacks
a lock always has `LockTimeout`, so `RequestsEnd` is what says that nothing stops for ever. In
`idempotency` and `audit` a crash is always possible, so the check finds nothing either way, and it is left on.

### Fairness

* `FieldTaskLifecycle`: weak fairness of what a request owes after its commit. The
  handler awaits or schedules those calls and nothing keeps them waiting
  forever; nothing obliges a client to send another request, and nothing
  is assumed of a request that has only read. `die` is not enabled in `billing`:
  when the process dies a recount or a commission may be lost for good, which is
  what `CaseInSync` allows for with `drift`.
* `TaskTransactions`: weak fairness of each request's next step. A statement
  answers, waits for a lock until `statement_timeout`, or is chosen by the deadlock
  detector; a wait for a connection ends with one or at `connectionTimeoutMillis`. Nothing obliges a
  client to send a request, and `Fail` has no fairness.
* `Sessions`: weak fairness of the next statement of a handler or of its failure, and of the
  expiry of a context, which has a time to live. The message has none: it may be lost.
* `AuditLog`: weak fairness of each running insertion (the code awaits it to its
  end or its error) and of the stalled-job check on an abandoned job (BullMQ's timer);
  strong fairness of taking a job, because the queue is first in, first
  out while slots are busy again and again. Crashes stay possible forever, but
  not fair. `JobsSettle` needs the bound on stalls and on attempts: without either a
  job could circulate for ever, which its mutants show.

## Proofs

`tlapm` checks every theorem to the last leaf, with no bound on any constant. The
assumptions are those named in the modules: the special values are none of the
model's identities, `Attempts`, `PoolSize`, `MaxAttempts` and `MaxCycles` are positive, the other
bounds natural numbers, tasks and cases (or cycles and field tasks) are different things. No
finiteness of tasks, agents, requests, events or slots is assumed, but in
`TaskTransactions`, which counts: there the requests and the tasks are finite sets.

**Field tasks.** The type invariant is inductive once it says that a request which
stands at a task's step names an existing task (`RequestsNamed`); `TypeCorrect`
follows. `CaseStatusFollows` (`CaseInSync`) is then inductive as it is: every way
a step can treat the case status is one of four (`SyncWays`) and each keeps it.

The other eight hold of the *workflow*, the endpoints without the general update
and the edit of a case, which write a task without regard to it
(`WorkflowOnly`; `find_unbilled` shows why). Their proof has a row abstraction:
whatever the endpoints do, one step does one of six things to a row (`RowStep`:
nothing, birth, begin of the visit, finish, revocation, change of hands), which
`RowSteps` proves action by action, once. The rest is about six cases:

| Theorem | Invariant | Why it needs more than the property |
|---|---|---|
| `RevocationsSettle` | itself | none: from a revoked task only the empty step is possible |
| `StampsFollow` | `StampInv` | besides: a task that is assigned or under review has a holder too, and a row to be inserted has no stamp |
| `FinishedAreBilled`, `AmountsAreFrozen` | `AmountInv` | the finish sets the amount or keeps it; no other step touches it |
| `ReviewIsMandatory` | `TypeInv` | an action property: the only step to COMPLETED is a finish |
| `WorkflowImplementsVisits` | `TypeInv` | a refinement: each row step is a move of `TaskVisit` |
| `CommissionsAreBacked` | `CommissionInv` | the payee a hook has read but not yet paid is among the completers as well, and stays there when the task changes hands |
| `SupersededAreNotFiled` | `SupersededInv` | see below |

`SupersededNotFiled` is not inductive, and no guard of the submission looks at the children
when the form is filed: the request read them before. What stops a late form is its
own task. `SupersededInv` says that a task under review or completed has its
report, that a request about to complete or revisit a task names one with a report, and that the
parent of a task has a report or is revoked. A form is filed for a task in progress, which is not
revoked, and without a report, so it has no child.

**Idempotency.** `ExecutedOnce` and `ReplayIsTrue` are not inductive. `Fresh`: a
request still on its way to the handler has executed nothing. `Backed`: whatever names a success, in
the row, in Redis, in an answer or in a pending finish event, names a committed
execution. `Guarded`: while no reservation was lost, a running or committed
execution is the only one, and the row is its reservation, with its payload.
`MiddlewareKeepsPromise` adds `Asked` (a request that has left its arrival has its payload, and
a row the payload of a request that arrived), which makes a conflict and a request in progress
true answers; each action then makes one of four moves of `OneEffect`, or none.

**Audit log.** The chain needs one fact about the lock: a slot that has read the
newest hash holds the lock, and no row came since (`Held`). `Accounted` needs
an *owner* for every event (`Kept`): a row, a job, a slot that answers for it
itself, a line or a dropped set; a slot with a job does not count, since its
job answers. That takes `Holding` (the holder of a job runs it and has its event,
and holds one), `Written` (past its commit, a slot's event is in a row) and
`Waiting` (no line is left when the next sweep starts, or the rename would lose
them).
`LogKeepsTrail` puts the same facts to use: what a slot in its transaction is about to write is
owed, because the slot answers for the event or its job does; an event that leaves the last
place where it is owed was written before (`Written`) or is dropped by that very step. Besides, only
what was emitted is owed (`OwedWasEmitted`), so no event is emitted twice.

**KYC documents.** Again a row abstraction: a step of the KYC handlers writes the rows of one
task (`OneTask`), one of a field endpoint only statuses of tasks (`FieldKeeps`), and the
inductive invariant says how the three rows agree whoever moves the task (`Agree`): they are
absent together; every cycle but the latest is completed; exactly a completed document has an
outcome, and the latest cycle has it, too. `InStep` is what a task nobody else moved adds: it
is never revoked or in review, and completed exactly when its document is. `CaseInStep` says when the
status is the rollup; the three kinds of steps it survives are `CaseMoves` (a recount, a change
that still owes one, a bypass). Besides, a half-done assignment names a task that exists, and the index
holds. An assignment may come between any two decisions because neither of its later
statements writes a completed row (`ParentOpen`, the test in `AssignCycle`). `Follows` is what
a step may do to cycles, from which `HistoryKept` and the composition follow.
`CasesFollowDocuments` then needs that an unmoved document is decided exactly when its
task is closed (`SettledIsClosed`). `HandlersFollowDecisions` needs one lemma of substance,
`OneWaitsHolds`: an undecided document whose task nobody else moved has an active task
(`InStep`), and the index lets one at most be active. Field steps are `Disturb`, for they leave
outcomes and cycles alone.

**Invoices.** `ChargedOnce` is not inductive; `LinksBacked` and `ChargesLinked` (an invoice
that was never cancelled is the link of all it charges) are, and two such invoices with one
unit would be one link with two values. The theorems of `Invoices_proofs` assume of the
environment that what is finished is a unit (`FinishedUnits`), whatever else it does.

**Both together.** A step of `KycBilling` is a step of one component that leaves the
other's variables alone, or of a field task and leaves both alone, so the two invariants are
kept by their own lemmas, and `ComponentsKept` says that the composition implements each. What
neither has is `BilledDone`: a billed cycle, and one a clerk is about to bill, is completed. It is
kept because a completed cycle stays completed (`Follows`). Of field tasks only `FieldsVisited`
is left: a clerk's candidates have been completed. `Invoices` appears in two instances, the
specification's and the one with the theorems; a lemma shows them equal.
`LedgerIsKept` is the refinement of `WorkLedger` by the composition: `BilledDone` is why the cycles
a creation takes are done when it commits, `FieldsVisited` why its tasks have been, `Linkable` why
both are free, and `Follows` why a done cycle stays done.

**Transactions.** `CountersHeal` says of every case that is not mixed that its counter is exact. It needs
`LoneCounts`: a transaction that was the only writer of a case at its last write is the only one
still, and has counted what its commit will leave; and `WritesLocked`: a request holds the lock
of every task it completed, so nobody else's commit changes it. `NothingLeaks` needs the table of
what a request holds at each step (`Shape`). The pool is a set of
pairs, and its cardinality moves by one at a connect (`PoolOneMore`).
`CompletionsAreExclusive` needs `Exclusive`: between its write and its trigger's a request waits
for one case only, and has those of all its earlier completions; a guarded update found its
task open, and a lock it holds keeps others from completing it (`OthersUndisturbed`, for every
step). This is what lets the task module treat the completing transactions of one case as serial.

**Sessions.** `ChainsEnd` needs that the version of a row is the version its login read, and that a
refresh in flight carries the version of its row (`RefreshingRow`): it compared the two
before, and writes what it compared, not what the user has by then.
`EndedTokensStayEnded` adds `NotAhead`: neither a token nor a handler has a version the user does
not have yet, so the next bump is ahead of all. A step then leaves the tokens or revokes some,
issues one with the version its handler read, or bumps the version (`TokenStep`).

**Only model-checked.** `CaseCatchesUp`, `CommissionArrives`, `JobsSettle`, `RequestsEnd` and
`StaleContextGoes` are liveness under fairness, out of the prover's reach. Every other property of
the passing runs is a theorem. The theorems about the workflow (`WorkflowOnly`) do not speak of
runs in which the general update or the edit of a case is used; `edits` and
`find_unbilled` do. The violated statements have counterexamples, not proofs.

## What is not modelled

`PROJECT.json` lists every component with its status. Within the modelled ones:

* **Abstracted.** Form payloads, attachments, task history, notifications and audit
  entries are written with a task and never decide about it. `completed_at`,
  `saved_at` and the counters follow the status. Rates are reduced to "the
  agent has an active commission assignment" (`Commissioned`, fixed for a run).
  The amount is `estimated` or `given`, for the two sources of the snapshot.
* **Columns the general update may set besides status, assignee and amount**
  (priority, address and the like) have no effect on the properties.
* **Mobile `completeTask`** queries a table the schema does not have
  (`mobile_form_submissions`), so it cannot complete anything; `updateCaseStatus`
  and `revokeCase` have no route.
* **A case with both KYC and field tasks.** `FieldTaskLifecycle` has the field endpoints on
  field tasks and `KycVerification` has them on KYC tasks, each in a case of its own.
* **What the field endpoints leave with a KYC task besides its status**: amount, report, review
  and commission, which are `FieldTaskLifecycle`'s for field tasks.
* **Reopening in `TaskTransactions`.** There a completed task stays so: a handler that
  takes one out of COMPLETED recounts like any other, and the counter follows.
* **The visits in `KycBilling`.** A field task is completed or not; what a reassignment does
  to its amount is in `FieldTaskLifecycle`.
* **The regeneration of an invoice, its prices, taxes and number**, which change neither its
  status nor its units.
* **Signatures, the age of tokens, lockout and the second factor** in `Sessions`: a
  token that does not verify is refused before any state is read.
* **Queries outside transactions**, which hold a connection for one statement.
* **The circuit breaker**, whose calls are best-effort pushes, mails and geocoding that no
  other component reads.
* **The orderly shutdown of the audit worker** and the purge of old rows, which
  nothing under `CRM-BACKEND/src` calls.
* **The content of the audit hash.** A hash names its row; whether the
  verification script recomputes the same bytes from `jsonb` and `inet` columns is a
  question of encoding this model does not ask.
* **PostgreSQL, Redis, BullMQ** are modelled by what the code relies on: row
  locks, unique indexes and the trigger, entries that may vanish, at-least-once jobs.

## Plan

Done: the field tasks, KYC verification, invoices and their composition, the transactions
under the handlers, the sessions, the idempotency middleware and the audit log, each but
the transactions with an abstract specification it implements. What is left, in this order:

1. **The counter and the rollup of one case together**: `TaskTransactions` with
   the recount's reading, so that `CaseInSync` rests on the row locks and not on serial
   transactions.
2. **The orphaned replay file**: a liveness run of `AuditLog` for the statement
   that parked events are replayed by the next start.
3. **A case with both kinds of tasks**, composing `FieldTaskLifecycle` and `KycVerification`
   over one `caseStatus`.
