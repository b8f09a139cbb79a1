# CronQMS: models, checks and proofs

CronQMS is a quality-management web application (FastAPI, SQLAlchemy,
PostgreSQL or SQLite). It keeps regulated records: quality events, CAPAs,
controlled documents, change requests, audits, training and alerts, with an
append-only audit trail. This directory models its rules in TLA+, checks them
with TLC and proves the most important ones with TLAPS.

## How the program runs, and what a step is

* Every handler is an `async def` that calls SQLAlchemy synchronously, so in one
  process a handler body is one uninterrupted run of the event loop. The only
  awaits in handlers that change state are `await file.read()` on an upload;
  starlette answers them at once for a file held in memory and through a thread
  pool for one spooled to disk (over 1 MB), and in the second case any other
  handler may run in between.
* Every request has its own session (`app/database.py`), nothing is locked
  (`SELECT ... FOR UPDATE` occurs nowhere), rows carry no version counter, and
  the ORM's unit of work writes only the columns whose value differs from the
  one loaded. The Dockerfile starts one process; the README of the repository
  speaks of replicas and of more than one instance or worker, and there the
  reads of one handler and its commit are separated by commits of others.

The models make that difference explicit. A module states the single-process
deployment, one action per handler; where handlers of several processes matter,
a second module (documents) or further actions of the same one (alerts, changes
and audits, training, access control) split a handler into the step that loads
and decides and the step that commits.

Most operations have two entry points, a JSON route and a browser form, in
different files. They are separate actions, also where their bodies come out
alike: that two files agree is something to check, and for changes, audits and
training it is a property.

## Inventory

| component | state | operations | what is hard | what makes it correct |
|---|---|---|---|---|
| Document control | documents, versions, review and retention dates | create, edit, delete, upload, submit, review, approve, reject, obsolete | upload suspended between its guard and its insert; lost updates between processes | one version in force, three signatories, clocks that follow what is in force |
| Quality events | status, reporter, investigator, closer | create, edit, set status, close, reopen, delete, comment, attach | two entry points with different fields; a reassignment after a closure | closure passes through investigation and is independent |
| CAPA | status, owner, effectiveness data, linked events | create, edit, set status, verify, reopen, cancel, link | gates read data that can be edited after the gate | a closed CAPA has been verified, by somebody independent |
| Audit trail | append-only history rows written with each change | insert and update hooks | rows of concurrent transactions | the history ends at the value of the column, without a gap |
| Change control | status, impact records, actions | edit, set status, impacts, actions, delete | gate on open actions, actions added afterwards | a closed change has no open action |
| Audit management | status, checklist, findings | edit, set status, findings, delete | gate on open findings, findings reopened afterwards | a closed audit has no open finding |
| Training | employees, courses, records | assign, update, certify, delete, expiry | two ways to reach Trained, expiry as time passes | a trained record has its date, its certifier and the trainee's acknowledgment |
| Alerts | alert, recipients, images, acknowledgements, inbox; assignee groups | issue, acknowledge, close, image upload and delete, expiry; group creation and deletion | several groups answer concurrently; a group is deleted while an alert waits for it; blob and row are not one transaction | acknowledged means that every required group answered |
| Attachments and blob storage | rows and blobs | upload, download | a crash between blob and row | no row without its blob |
| Access control | users, roles, permissions, organizations | login, setup, registration, roles, users | a user carries the name of his role: renamed or deleted while assigned; setup run twice | no dangling role; grants change by decisions only; one setup |
| Rate limiter, session timeout | hit windows; browser timers | hit; activity, countdown | window boundary, racing timers | at most N hits in every window; idle users are signed out |
| Connection pool | sessions of requests in progress | check-out, return | suspended uploads hold connections while the event loop blocks on the pool | every request is answered |
| Reports, navigation, templates, configuration | none of their own | read only | | |

## Modules

A definition carries the name of the function, constant or column it models;
`PROJECT.json` maps each one to its lines.

| module | models | state | actions |
|---|---|---|---|
| `DocumentWorkflow` | `services/document_workflow.py` and the helpers of `routes/documents.py`, as operators on rows and tables | none | none |
| `DocumentTables` | the two tables, their types and how a row is added, for the two modules that follow | `documents`, `versions` | none |
| `DocumentControl` | the handlers of documents in one process | `documents`, `versions`; `uploads`, the requests suspended in `file.read()`; history `spooled` (documents of which an upload has been suspended) | one per handler; an upload is one step (`CreateVersion`) or two (`BeginUpload`, then `FinishUpload` or `FailUpload`) |
| `DocumentRegister` | what document control promises: a register that says which issue of a document is in force and who signed it | the issue in force | issue, withdraw |
| `DocumentReplicas` | the same handlers in several processes | the tables; `handlers`, what each has loaded and will write | one action per handler that loads and decides, then `Commit` or `RollBack`; `CreateHandler` for a document that nobody else can have loaded; a commit writes the columns whose value differs from the one loaded, as the ORM's unit of work does |
| `EventControl` | `services/event_workflow.py` and the handlers of events in `routes/events.py` and `routes/pages.py` | `events`; histories `course` (statuses since the event was last opened) and `bypassed` (events whose status an API client has put) | one per handler |
| `CapaControl` | `services/capa_workflow.py`, `routes/capas.py` | `capas` with their links, `live_events`; history `blanked` (CAPAs of which an edit has blanked a record) | one per handler, and the deletion of an event |
| `AlertControl` | issue, acknowledgement and closing in `routes/alerts.py`, and the assignee groups of `routes/admin_pages.py`, for one process and for several | `assignee_groups`, `alerts`, `answers`, `handlers` in progress; histories `closed`, `overtaken` (closed while an answer that had loaded the alert as open was in progress) and `raced` (answered between the count and the commit of another answer) | one per handler; an answer is one step, two (suspended in its upload) or three (several processes: load, count, commit) |
| `Permissions` | the grants of the built-in roles in `core/permissions.py` | none | none |
| `GatedRecords` | change requests and audits: `routes/changes.py`, `change_pages.py`, `audits.py`, `audit_pages.py`, and the hooks of `core/audit.py` for the status. The four files have one shape, a record with lines (impacts, checklist) and tasks (actions, findings) that closes when its tasks are closed, and repeat each other's rules | `records`, `lines`, `tasks`, `trail`; `deciding` and `adding`, what requests of other processes have read and will write; histories `late`, `raced`, `overtaken` | one per handler of each file; a change of status and a new line also in two steps |
| `Calendar` | `add_months` of `services/document_workflow.py`, with what it has to compute (`IsMonthsAfter`) | none | none |
| `TrainingControl` | `services/training_workflow.py`, `routes/training.py`, `routes/training_pages.py` | `employees`, `courses`, `records`, `certifying`; histories `put` (set to Trained without a certification), `outdated` (the course's period has changed since), `raced` | one per handler of either file; a certification also in two steps, of which the second writes the columns that differ from those loaded |
| `AccessControl` | `routes/users.py`, `admin_roles.py`, the users of `admin_pages.py`, `setup.py`, the registration of `auth.py`, `services/rbac.py` and the resolver of `core/permissions.py` | `organizations`, `roles` (with their permissions), `users`, `deciding`; histories `raced` and `reopened` | one per handler; assignment, edit and deletion of roles and the setup also in two steps |
| `BlobStorage` | the uploads of `routes/attachments.py` and `alerts.py`, `core/storage.py`, sessions and pool of `database.py` | `blobs`; the tables `files` and `images`; `requests` and their phase; `loop`, which request runs in each process; history `failed` | the event loop (`Start`, `Resume`), the pool (`Connect`, `PoolTimeout`), the thread that reads (`Read`), the stages of a handler, `Fail` and `Crash` |

`MC...` modules only add the symmetry and the constants of a run. The
`...Proofs` modules hold the theorems and their lemmas. Operators named
`..._Mutant`, or with another suffix that names a defect, are defective variants
of the operator below them; no specification uses them, they show that the properties notice
the defect.

Histories decide nothing: no guard reads them. They let one specification, in
which everything the code allows may happen, carry properties that hold only as
long as a certain thing has not happened to the row in question, and they make
the condition exact: an invariant about `closed \ overtaken` fails if an alert
is reopened in any other way than the one the history records. Where several
processes overlap without a lock or a version counter some race remains in the
code; the histories (`raced`, `overtaken`, `late`, `stale` requests) say which
one, and that it is the only one.

Abstractions, in all modules: texts, file contents, priorities and other columns
that no decision reads are left out; a date is set or not set, or it is not
there, except in `TrainingControl`, which is about dates. The users of one
organization stand for all requests that passed the permission checks (every
handler looks its rows up within the caller's organization), except in
`GatedRecords`, where the two surfaces ask for different permissions, and in
`AccessControl`, which is about them and has several organizations. A lookup
that fails, a guard that refuses and a validation error change nothing and
appear as an action that is not enabled.

## Runs

A run named after a violation states something the code's documentation says and
TLC shows that the code does otherwise; it is listed as a finding.

| run | question | bounds |
|---|---|---|
| `document_control` | with overlapping uploads of a document: one version in force, three signatories, clocks that follow what is in force, and the register is implemented; without them, also one revision in flight, increasing numbers and no return to an older revision | 1 document, 3 users, 3 versions, 2 suspended uploads |
| `document_two_drafts` | **violation**: two suspended uploads leave two revisions in flight | 2 uploads, 2 versions |
| `document_author` | several processes: nobody signs a version of his own | 3 users, 2 requests, 1 version |
| `document_two_effective` | **violation**: overlapping approvals leave two versions in force | 2 requests, 2 versions |
| `event_control` | closed events were investigated, resolved and approved unless a client put the status, and no reporter approves in any case | 2 events, 3 users, 1 group |
| `event_put_status` | **violation**: a PUT closes an event that was never investigated | 1 event |
| `capa_control` | any edit at any stage: the verification on record belongs to the status, verdicts stand, and every stage has the record its gates ask for unless an edit blanked it | 1 CAPA, 2 users, 2 events |
| `alert_control` | overlapping answers, in one process and in several, and groups that are created and deleted meanwhile: an acknowledged alert has all its answers, none is overlooked and closed alerts stay closed outside of the two races | 1 alert, 3 groups, 2 answers in progress beside answers in one step |
| `gated_records` | whichever surface is used and whatever other process is under way: the gate on closing stands, lines stay in the order in which they were added, the trail ends at the status, what is deleted stays as it was, and the two surfaces enable the same | 1 record of either kind, 2 lines, 2 tasks, 3 statuses of a change and 2 of an audit, 1 request of another process, orders up to 2 |
| `training_control` | certification, edits of the status and of the course's period: evidence is complete, certificates expire by the policy, the API and the browser do the same but for the periods that only the form accepts and the blank acknowledgments that only the API does | 1 employee, user, course and record; 1 acknowledgment and a blank one; days at the end of a leap month; periods 1 (both surfaces), 0 (the form only) and none |
| `access_control` | from the setup on, roles renamed, edited, deleted and assigned: nobody is left with a role that is gone, grants change by decisions only, one setup | 2 organizations, 2 users, 1 custom role, 4 names (one of them custom), 1 request of another process |
| `blob_storage` | uploads, replacements and deletions that fail or crash at any step: rows and blobs match, and every request is answered | 2 processes with 1 connection each, 2 requests, 1 parent, 1 image slot, 3 keys |

Why the bounds are enough to be interesting: three users are the least with
which a version can be signed, and every guard on a person compares at most three
columns; a document's rules relate at most the version in force, the one being
approved and one more; the guards of events, CAPAs and alerts read one row, so a
second row only shows that handlers leave others alone; two suspended requests,
or one beside handlers that run in one step, are what every race above takes.
Two lines or tasks are the least with which one can be added or closed beside
another. One certification after another on the same record shows what an edit
in between leaves behind; the days are those on which the clamp at the end of a
month decides. Two processes with one connection each let a request find the
pool empty and let two uploads replace one image; three keys leave one to be
used again. Events are checked with every assignee, CAPAs with every combination
of recorded and blank fields. `MaxVersions` and `MaxOrder` are the only bounds
on counters; the proofs do without them or treat them as any natural number.

Distinct states of the larger runs: `document_author` 1,413,645,
`document_control` 780,289, `event_control` 394,573, `alert_control` 306,699,
`training_control` 282,861, `access_control` 94,766, `blob_storage` 83,400,
`gated_records` 54,835, `capa_control` 4,033; none takes more than two minutes.

Deletion is final and ids are used once, so a system in which every document,
event, change or course is deleted, or every request has been served, has
nothing left to do: the cfgs of these components switch deadlock checking off
for that reason, those of CAPAs and alerts leave it on. In `BlobStorage` a
request that nobody serves is a violation of `EveryRequestAnswered`, and no
client has to send a further one.

Fairness is assumed in `BlobStorage` alone, and only of what the server does by
itself. A handler on the event loop goes on or fails (`WF` of `Handler \/ Fail`:
it is ordinary synchronous code). The thread pool finishes reading the file it
was given (`WF` of `Read`). A handler that is ready to start or to resume is
ready only between the turns of others, so it needs `SF` (of `Start` and
`Resume`); asyncio runs its callbacks in the order in which they became ready
and passes none over for ever. What happens when the pool is empty is the
point of the property: the query blocks the loop, and with it the handlers that
could return a connection, until SQLAlchemy's `QueuePool` times out. Without the
timeout (`PoolTimeout_Mutant`) the process stands still for good. Nothing is
assumed of clients, and no liveness is stated of the other components: no
request has to come, and a browser may never send what a record waits for.

## Proofs

Each theorem holds for every value of the constants under the assumptions of the
component's module (a NULL that is not an id, a bound that is a number).

* `DocumentProofs`, one process. The inductive invariant is the type invariant
  with the fact that version numbers are bounded, then, for each property, the
  property with what it needs: who has signed a version at each status
  (`DutiesSegregated`), that what is approved supersedes every other effective
  version (`OneEffective`), how both clocks relate to it
  (`ReviewFollowsForce`, `RetentionOnlyOutOfForce`). `ImplementsRegister` maps
  every step to an issue, a withdrawal or a stutter of `DocumentRegister`, by
  the lemmas on approval and supersession. All these hold although the guard
  against two drafts does not. `RevisionsStayInOrder` and `NeverBackToOlder` are
  about documents whose uploads were never suspended: `OrderInv` says that what
  is in flight is the last row, that numbers increase, that what comes into
  force is newer than what was, and that uploads suspended now are of documents
  in `spooled`; a lemma for a row that changes and one for a row that is
  appended carry it over every handler. `RetirementRetains` follows from what an
  approval supersedes.
* `DocumentProofs`, several processes. Nobody signs a version of his own in any
  number of processes (`AuthorNeverSignsAnywhere`): the author of a row is
  written once, so what a handler has loaded agrees with the table about it, and
  what it will write as reviewer or approver was compared with that.
  The other theorems say when several processes are as good as one.
  `DecisionsInv` is the invariant they rest on: what a handler in progress will
  write is what the handler of one process would do, in one step, to the tables
  as it has loaded them. A commit merges that with the tables as they are, and
  `CommitMerges` and `DecisionsAreLocal` show that the merge is the same decision
  on the stored tables if the rows of its document are as they were loaded,
  whatever has happened to the others. So such a commit is a step of
  `DocumentControl` (`OnlyTheSameDocumentConflicts`), the whole system
  implements `DocumentControl` while the requests in progress are about different
  documents (`DocumentsApartAsOne`), and at most one version is then in force
  (`OneEffectiveApart`). `DocumentsApart` is a condition on the clients, which
  the code does not enforce, and `document_two_effective` shows what follows
  without it: the conflict that loses an approval is the only kind there is. (A
  handler that changes nothing, such as an edit with the values that are stored,
  may be counted as one about any document.) These theorems are about handlers
  without a suspended upload, which `DocumentReplicas` does not have.
* `EventControlProofs`. `ReporterIndependence` is inductive with the types: no
  handler writes the reporter and only closing writes an approver.
  `InvestigationFirst` and `ClosedMeansApproved` need `ClosureInv`, which says
  for every status what the history contains and whether an approver is on
  record. They speak of the events whose status no client has put, and
  `event_put_status` shows that they fail for the others.
* `CapaControlProofs`. Every handler is shown to be one of five changes of a
  row; the properties follow from lemmas on those. `RecordOfStages` is
  about the CAPAs of which no edit has blanked a record: an edit that blanks
  nothing preserves what a gate has asked for.
* `AlertControlProofs`. `AcknowledgedMeansAnswered` holds in one process and in
  several, because what a handler has counted stays in the table until it
  commits (`HandlersSound`). `EveryAnswerCounts` needs that the count of a
  handler is complete unless it was raced, that what it has loaded as not open
  is not open (`HandlersUpToDate`), and that nobody has answered an alert before
  it was issued. `ClosureLasts` needs that a handler that has loaded a closed
  alert as open was in progress at its closure (`OvertakenByClosure`). With the
  facts that a handler answers for a group there was and that what is closed was
  closed by somebody (`Known`), the invariant also shows that a commit which was neither raced nor overtaken by a closure is
  `AcknowledgeAlert` in one step (`AnswersActAtOnce`), so that while there is no
  such interference the handlers that await files implement the module without
  them (`AnswersAsOne`).
* `GatedRecordsProofs`. Types with the fact that lines and tasks belong to
  records (`ChildrenOfRecords`) come first. `ClosureGate` needs that a decision
  to close in progress has found no open task that is not recorded as late
  (`ClosureInv`); `TrailEndsAtStatus` that a decision that was not raced has
  loaded the status the record has (`TrailInv`); `LinesKeepOrder`, by which lines
  are added at the end and stay where they are, that the order computed for a
  line is behind those of all others until one is added (`OrderIsLast`), from
  which `LinesHavePlaces` follows: no two lines of a record have the same order. `SurfacesAgreeAlways` matches every
  handler of the browser with one of the API under the permissions of
  `Permissions`. `StandingDecisions` needs that somebody has the rights to
  each decision under way (`Rightful`; grants do not change in this module): if
  neither the status, the record nor an open task has come in between, the
  commit is `ApiStatus`, with its guards and its histories. It is a theorem on
  steps and not of the whole system: `late` counts from the decision, which one
  process does not have, and it leaves out lines, because a line numbered before
  the last one was deleted keeps a free number that is no longer the next.
* `TrainingControlProofs`. `AddMonthsCorrect` is about all dates and all numbers
  of months that stay within the calendar. `ExpiryByPolicy` needs what
  a certification in progress will write, and which columns it leaves
  (`PolicyInv`); `EvidenceComplete` that it writes trainer, date and acknowledgment
  together (`EvidenceInv`). `SurfacesNeverDrift` matches every handler of the
  browser with one of the API, and the other way around; of the two exceptions
  it makes, each is about the step that sets the period or writes the
  acknowledgment, so a step that works on what it left behind has none. `CertificatesWhole` is stronger than both for what
  was not overtaken: the few columns a certification writes are still the ones
  in which the record differs from its certificate (`WritesWhole`), so the row
  after the commit is that certificate and no mixture of two.
* `AccessControlProofs`. The invariant is that names are unique in an
  organization (`Unique`), that users, roles and requests belong to
  organizations that exist, that a request which is not stale has read what the
  tables still say (`Fresh`), and `RolesResolve` itself. `GrantsFollowAlways` is
  the action property from it: a lemma for each of the changes of a role or
  a user shows whose grants it leaves alone. `SetupOnlyOnce` needs that an
  administrator exists as long as nothing has taken the last one away. Three
  parts of the invariant are theorems of their own, and none of them depends on
  whether requests have overlapped: the role Admin is locked
  (`AdminStaysLocked`), names of roles are unique (`RoleNamesUnique`), and no
  step touches the users or roles of two organizations or moves one between
  them (`OrganizationsApart`; a request that was overtaken still writes to the
  organization for which it was allowed, because users and roles never leave
  theirs). `AllEntitled` says that a request which is not stale would still
  be let through: hence its commit is a step of one process
  (`UndisturbedActsAtOnce`), and without stale requests several processes
  implement one (`UndisturbedAsOne`). A registration makes nothing stale in the
  model, so these two also say that it disturbs no request under way.
* `BlobStorageProofs`. The proof follows the life of a key: it is chosen fresh
  by a request and belongs to that request alone until a row that names it is
  committed (`KeysOwn`), no image slot shares its key with another row
  (`NamesUnique`), and the key that a replacement has loaded is out of the store
  already and named at most by the slot it was loaded from (`LoadedReplaced`).
  `KeysNeverShared` states the three together: no request commits or deletes the
  blob of another. `StoreMatches` follows from them and from what a handler has
  done at each of its stages: every row has its blob and every blob its row,
  but for the requests that failed between the two or replaced one image at the
  same time. `LoopRunsOne` (the loop of a process runs one handler at a time) is
  what makes a stage of a handler a step, and `PoolBound` says that the handlers
  of a process, those that await their files included, never hold more
  connections than its pool has.

Assumptions on constants are few and named: NULLs are not ids, a form submits
permissions that exist, the seeded roles have ids of their own, a period the
API accepts is one of its schema.

Every safety property of the passing runs is a theorem. Only model-checked are
the liveness property `EveryRequestAnswered`, because liveness under fairness
and `ENABLED` are out of the provers' reach, and of course what the runs that
expect a violation show. Nothing here needs induction over data, which is out
of reach too: the models use sets and functions, and that a table has a greatest
version number or order follows from the well-foundedness of the natural
numbers.

## Not modelled

`PROJECT.json` lists every component with its status.

* Notifications, the inbox and the membership of groups decide only who is told
  of an alert; the pages that list alerts, and the expiry they show, read.
* The rate limiter is one synchronous function on one queue per key, which no
  other request can interrupt; the idle logout lives in one page of the browser.
  Neither touches the records.
* Users may be deactivated and passwords changed; `is_active` of a user is read
  only to list the trainees of a form, so the models leave both out. Tokens, hashing and the
  JSON Web Token library are external.
* Comments are rows that nothing reads; edits that change only texts, dates or
  owners are left out of changes, audits and training.
* Whether a training certificate has expired is computed when it is shown.
* Reports, the dashboard, service-level targets, settings, navigation,
  templates, schemas, migrations and start-up keep no state of their own or only
  validate. One setting that a handler reads is the constant
  `StandaloneEnabled`.
* The audit trail is modelled for the status of changes and audits; the hooks
  treat other audited columns alike. CAPAs, events and their attachments are
  modelled in one process.

Worth knowing, and visible in the models. The files say that behavior "can't
drift" between the API and the browser, and they differ in three places, which
the properties `NoDrift` and `SurfacesAgree` name as their only exceptions: the
form takes any number as the period of a course where the API's schema asks for
1 to 600; the API strips the trainee's acknowledgment after it has checked its
length, and so stores a blank one, which the form refuses; only the browser asks
for `audit:close` when an audit is closed. Where processes overlap, two
certifications of one record may leave the columns of both, and two setups make
two organizations. A deleted group is still waited for by the alerts it was
sent.

## Plan

Modelled and checked: documents, events, CAPAs, alerts with their images and
groups, changes, audits, training, access control, blobs and the pool. Proved:
every safety property of the passing runs, that one process implements the
register of documents, and when several processes implement one (documents,
answers to alerts, users and roles) or a single commit does (certifications,
changes of status).

Left, in the order in which it would add most:

1. CAPAs and events in several processes, as documents are;
2. notifications and the inbox, composed with `AlertControl`;
3. `RateLimiter` over a discrete clock and `IdleLogout` with its three timers.
