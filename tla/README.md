# Notification platform: TLA+ verification project

TLA+ models of the notification platform, TLC runs on small instances of them and TLAPS proofs for
every instance. Paths below are relative to `src/notification-core-api/internal/` (core API) or, when
they name a `.ts` or `.tsx` file, to `src/notification-admin-ui/src/` (admin UI), unless they start with `src/`.

## 1. The system

| Component | State it keeps | Operations | Hard part | What makes it correct | Module |
|---|---|---|---|---|---|
| Send (`notifications/service.go`) | `notifications`, `notification_deliveries`, `scheduled_jobs` | admission checks, transaction, one publish per channel, commit | publishes before it commits; holds one pooled connection and takes another | no delivery without a row or a job | DeliveryPipeline |
| Queue client (`queue/queue.go`) | RabbitMQ queues, one AMQP channel per process | `Publish`, `Consume` | no publisher confirms, no reconnect | jobs are not lost while the channel is open | DeliveryPipeline |
| Queue controls (`queue/control.go`, `UpdateQueueControl`) | `tenant_queue_controls` | ensure, read, update | read once before each delivery | paused jobs are kept, stopped ones are blocked | DeliveryPipeline, StatusPages |
| Channel worker (`delivery/worker.go`) | row status, `delivery_attempts` | `Run`, `applyQueueControl`, `handle` | a crash between any two statements, redelivered copies, replicas | a sent row was accepted, nothing is stranded | DeliveryPipeline |
| Retry and dead-letter workers (`retry/service.go`) | job attempt number, `retry_count` | `RetryLoop`, `RetryDeadLetters` | publish then acknowledge; two increments | bounded retries, dead only after retries | DeliveryPipeline |
| Scheduler (`RouteDueScheduled`, `worker/runtime.go`) | `scheduled_jobs.status` | one pass per tick | unlocked selection, separate commits, several processes | due jobs are queued, queued jobs are published | Scheduler |
| Rate limiter (`ratelimit/service.go`) | Redis counters, limit cache | `Allow`, `AllowKey`, `loadLimits` | INCR and EXPIRE are two commands | no more admissions than the limit, every window ends | RateLimiter |
| Sessions (`auth/auth.go`, `api/client.ts`, `auth/AuthContext.tsx`) | `auth_sessions`, localStorage, React state per tab | login, refresh, logout, page load | several tabs, late answers, select-then-update | no logout without a cause, no live page with a dead token | AdminSession |
| Send page (`pages/notifications/SendNotificationPage.tsx`) | form, four lists, loads under way | choose, edit, submit | loads of several tenants answered in any order | what is submitted fits its tenant | SendForm |
| Roles and Users pages (`pages/roles`, `pages/users`), `http/handlers/rbac.go`, user handlers | role, permission, user and assignment tables, two pages | create, edit, delete, assign | saves of two requests, late details, a page deleting what the other assigns | assignments fit, saves end, success means stored | AccessPages |
| Tenants, Tenant Detail and Provider Settings pages, provisioning and provider handlers | tenant features, channels, templates, provider rows, three pages | provision, switch, save, rotate | statements without a transaction, late answers | a tenant keeps its own data | TenantConfig |
| Campaigns, Tenants and Queue Controls lists (`usePagination`, `TablePagination`, `DataTableQuery`) | rows, filter, page, lists on their way | filter, page, change status, create | nothing cancels an older request; handlers do not look at the status | the list becomes current; the buttons send only approved campaigns | StatusPages |
| WebSocket hub, in-app notifications | client sets, send buffers | register, broadcast, sync | buffers closed by one goroutine and filled by others | no send on a closed buffer | not modelled |
| Connection pool under Send, password reset, contacts, groups, API keys | their tables | one handler each | read-modify-write | no lost update | not modelled |
| Providers, metrics, audit, configuration | none that the others depend on | | external I/O | | not modelled |

How they interact: API handlers call Send; Send and the workers share PostgreSQL rows and RabbitMQ
queues; the scheduler publishes the same jobs as Send; the retry worker feeds the channel queues and
the dead queue; the administrator changes the control a worker reads. The admin UI's pages share
nothing but the API: each shows a list that may be out of date, and each save is one or two requests
whose answers it applies whatever happened meanwhile. Nowhere are there locks, and no transaction
spans two stores or two requests. `PROJECT.json` lists every component, also those left out, and under
`hazards` where the code is exposed.

## 2. Modules

| Module | Role |
|---|---|
| `DeliveryPipeline` | Send for instant notifications, channel, retry and dead-letter workers, queue controls, faults |
| `DeliveryLifecycle` | abstract specification: what a reader of the rows who counts provider calls sees |
| `Scheduler` | scheduled notifications and the passes of any number of schedulers |
| `RateLimiter` | Send's admission loop and the Redis counters |
| `AdminSession` | browser tabs, localStorage and the refresh of tokens, with the API's session table |
| `SendForm` | the Send Notification page |
| `AccessPages` | the Roles and the Users page over the tables they share |
| `TenantConfig` | three pages that configure a tenant, over the tables they share |
| `StatusPages` | the filtered, paged lists whose rows change status |
| `MC...` | values of the constants for TLC |
| `...Proofs` | theorems about the eight components above, one module for each |

In the state modules, an operator whose comment begins with "Mutant" is a wrong version of the
definition that follows it. No specification uses it; it documents which mistake each property detects.
Variables commented as history record facts about the past that a property refers to; no guard reads them.

### DeliveryPipeline

A step is one SQL statement, one provider call, one publish or one acknowledgement; a process may stop
between any two. `row`, `retryCount`, `attempts` and `control` are the tables, `queue` counts the ready
copies of each job, and for each consumer `pc` is the place in its loop, `held` its message, `result`
the status variable of `handle`, and `open` says whose AMQP channel is open. `sends`, `accepted`,
`missed` and `lost` are history.

- `SendBegin`, `SendChannel`, `SendCommit`, `SendAbort`: the transaction. The row appears at the
  commit, the job in the channel loop before it. An abort discards rows and not jobs.
- `Receive`, `CheckControl`, `MarkPaused`, `MarkStopped`, `MarkSending`, `ProviderSend`,
  `RecordStatus`, `RecordAttempt`, `PublishRetry`, `Ack`: the channel worker. An `UPDATE` of an
  uncommitted row succeeds and changes nothing (`missed`); an `INSERT` that refers to it fails.
- `RouteDead`, `RouteAgain`, `CountRetry`: the retry worker; its backoff is the time it may stay at
  `route`. `MarkDead`: the dead-letter worker.
- `UpdateQueueControl`: the administrator.
- `Crash`, `LoseChannel`, `BrokerDrop` and the failing branch of every statement are faults.

Abstractions. A request lists each channel once. A missing control row is created as `active` at
first use, so a lane always has a status; the initial status is free. Without a prefetch limit the
broker pushes messages into the client's buffer; a buffered message counts as ready, because the
client drops the buffer when the channel closes and the broker requeues it. `Publish` fails exactly
when the AMQP channel is closed. A commit whose answer is lost but that took effect is not
distinguished from a commit. Attempt numbers are capped at `AttemptCap` only to make the set of jobs
finite; `AttemptDiscipline` shows that the cap is never reached.

### Scheduler

`job` is `scheduled_jobs.status`, `batch`, `current`, `todo` and `at` are a pass's position, `rows` and
`published` count delivery rows and published jobs per notification and channel. `StartPass` takes a
snapshot of the due jobs with the least `due_at`, up to `BatchLimit`; `NextJob`, `InsertDelivery`,
`PublishJob`, `MarkQueued` are the statements of `RouteDueScheduled`. Any error ends the pass
(`PassFails`), and a publish on a closed channel does so without rolling back the row. A pass that
selects nothing is a stuttering step. `overlap` records jobs that two passes had in hand at once.

### RateLimiter

`counter` and `ttl` are the Redis keys, `second` and `day` the clock, and for each request `pc`, `todo`,
`chan`, `rate`, `quota`, `key` its place in the loop over channels. `Incr` and `Expire` are the two
commands of `AllowKey`. The limits that `loadLimits` returns are a free choice among those a channel
may have, which covers the cache, concurrent settings changes and the defaults of a failed query.
Whether a tenant, feature or channel setting refuses the request is free (`EndChecks`). `ReadDay` is the
`time.Now()` of `Allow` and `today` the day it gave; the INCR of the daily key, `IncrDaily`, is a later step, and
a request may stall in between, over midnight too. It then uses the key of the day it read. When that key
was used up and has expired meanwhile, the INCR makes it again and grants beyond the quota of its day: such
keys are in `late` (history), and the daily half of `LimitRespected` is about the others. Because the mutex of the limit
cache is copied with the service value, concurrent requests may stop the process; that outcome is `Crash`.

### AdminSession

`stored` is localStorage, shared by the tabs; `tab` the AuthProvider state of each; `req` the requests,
each in a slot of its tab; `calls` the refreshes in flight; `session`, `owner`, `issued`, `expired` the
API's side. One synchronous run of JavaScript is one step, and a handler is split where it awaits:
sending, the API's work, and what the answer does are three steps, so that two requests share a
`refreshRequest`, a person logs out while one is out, or another tab refreshes with the same token.
Refresh is two steps in the API, because `auth.go` selects the session and then updates it by id
whatever became of it. A page load drops the tab's requests (`Gone`), not what the API does with them.
Access tokens expire at any time; a request may fail at any point. Lockout, password reset and e-mail
verification are left out.

### SendForm

`form` is the page's fields, `lists` the tenant whose contacts, groups, templates and channels each list
of the page holds, `loads` every load started with the requests still out. `Effects` is the component's
effects in the order in which React runs them, for the dependencies that changed; a handler and its
effects are one step. `LoadArrives` and `LoadFails` are the answers, in any order; the last answer of any
load ends the loading state. `Submit` is `handleSubmit` with all its checks. The six direct recipient
modes are one, and texts are empty, blank or not. `filled` are the names of the variables that have a value: the
page keeps a value for the variable of the same name when the template or the tenant changes, so
`ValuesFitTemplate` says which names are sent, not for which template a value was typed.

### AccessPages

`stored` and `accounts` are the tables; `rp` and `up` the two pages; `details` the role details on their
way to the edit form. A save is a task with two requests: create or rename the role, then replace its
permissions; create or update the user, then assign the role. A request that changes something is two steps:
the API carries it out (`RoleStep1`, `RoleStep2`, `UserStep1`, `UserStep2`, `RoleDeleted`, ...; `done` in the
task) and the page goes on when the answer arrives (`RoleAnswered`, `UserAnswered`, `DeleteRoleAnswered`,
`StatusAnswered`), so that a deletion or another save may come between. Each may fail, with or without effect,
and each may meet what the other page has deleted; `gone` (history) marks a save whose role was deleted meanwhile,
the one case in which a save is reported as done and its role is not stored (`SuccessMeansStored`). Deletion cascades to grants and assignments as the
schema does. The page offers a user's deletion, for which the API has no route: the request fails.

### TenantConfig

`tenants` and `configs` are the tables. The Tenants page's form (`editing`, `form`, `opens`) is open for
one tenant while answers for an earlier one may still come, and everything in it may be edited: slug, features,
channels, default providers and templates. `task` is the provisioning request, which runs its statements
one after the other without a transaction (a loop of inserts is one statement), so that the other two pages,
and other requests, see and change what is in between. `detail` is the Tenant Detail page with the switch
that is being confirmed; the switch is carried out (`Toggle`) before its answer changes the overview
(`ToggleAnswered`). `listed`, `requests`, `saving` are the Provider Settings page. A provider's settings
are a set of fields, those of its type; `UpdateProviderConfig` stores the provider type of the form and replaces
the whole set by the fields filled in, or keeps the old one when none is. A template is its key, channel and text, so an
edited one is another; all templates of the form become active. The dialog that creates a tenant shares the form's state and is
left out here (StatusPages has the creation).

`had` are the slugs a tenant has had, of which the list behind the form may show any. History: in a form, the tenant whose data
fills it, whether the slug was typed and which templates were touched; `saved` what the forms saved for a tenant
held in these terms; `stale` that the overview missed a change; `partial` the rows left without a required setting
by an edit. They are the named exceptions of the properties.

### StatusPages

A behaviour is about one of three pages (`kind`). `rows`, `status` are the table; `page` the page with its
query, the query its list answers, the list, the loading state and the row being saved; `loads` and
`updates` the requests under way. `Rendered` is `usePagination`: a new filter is first loaded with the
old page number and then with page 1. An answer is shown whatever the query is by then; a status change
is followed by the `load()` of the render in which it was asked for. `Answer` is `DataTableQuery` on the
stored rows. `OtherChanges` are the changes that other administrators make with the buttons of a list of any age;
`OtherWrites` is a request made without the page, which may write any status: `UpdateCampaign` stores the one in its
body, and the other handlers do not compare the one they store with the one there.
The history variables are the exceptions that the properties name: `disorder` and `foreign` (`ListIsCurrent`), `shrunk`, a row left the
filter, and `strayed`, a page was turned by the total of a list that was out of order or about to be replaced
(`PageInRange`), and `direct`, rows set to `sending` without the page (`OnlyApprovedSent`).

## 3. Runs

| Run | Instance | Shows |
|---|---|---|
| `delivery_replicas` | one delivery, two replicas of the channel worker (symmetric), retry and dead-letter worker, three tries, any control changes, one fault | `AttemptDiscipline`, `DeadAfterRetries`, `NotStranded`, `SentIsAccounted`, `NoDuplicateSend`, `FinalStatusStable`, and `ImplementsLifecycle` |
| `delivery_liveness` | one worker of each kind, fair, control changes, one fault | `Settles` |
| `scheduler` | two schedulers, two notifications, two channels, batch limit one, one fault | `QueuedMeansPublished`, `NoDuplicateJob`, `RowsHaveJobs`, `DueIsQueued` |
| `rate_limits` | three requests, two at a time, two channels with different limits, two days of two seconds, one fault | `LimitRespected`, `CountersExpire` |
| `admin_session` | two tabs, one with two concurrent requests, two accounts, three token pairs, three steps of the person, one fault | `LogoutHasCause`, `StoredPairAlive`, `IdentityMatches`, `RequestsSettle` |
| `send_form` | two tenants that share a template key, two loads, five edits, one fault | `SelectedAreOffered`, `ValuesFitTemplate`, `TemplateHasEvent`, `SubmissionFitsTenant`, `LoadingEnds` |
| `access_pages` | a platform, a default and a tenant role, two tenants, one address, five steps, one fault | `EditShowsOwnRole`, `AssignmentFitsRole`, `AccountsAreComplete`, `SuccessMeansStored`, `SavesEnd` |
| `tenant_config` | two tenants with a template each, three slugs, a feature, a channel with two provider types (two required settings, none), two provider rows; five steps on the Tenants page alone, two to four on the three pages together; one fault | `OwnDataOnly`, `TemplatesKept`, `OverviewIsStored`, `ConfigsAreComplete`, `SavesEnd` |
| `status_pages` | two rows and a third to be created, page sizes one and two, three steps, one fault | `ListIsCurrent`, `PageInRange`, `OnlyApprovedSent`, `PagesSettle` |
| `doc_*` | see Findings | violations of what the documentation says |

`AdminSession`, `AccessPages` and `TenantConfig` are also checked for `TypeOK`. All type invariants and all
the safety properties of the table are proved (section 4); the runs check them first, and the liveness
properties only here.

Why the bounds are enough for what they check. Three tries are the default and the least number for
which a delivery is retried, fails again and dies. Two replicas are the least that race; a fault
duplicates a job, so one fault already gives two concurrent copies. Two schedulers overlap, and with a
batch limit of one a job that never leaves the head of the order would starve the other; rows are
counted up to three. Limits of one and two with three requests exceed every limit; a day of two seconds
lets a per-second window end within it, and the second day lets a request stall over midnight until the key of
the first has expired. In the pages the number of the person's steps is the bound:
three steps open, change and act in two tabs or lists; five edits choose a tenant, a template and a
recipient and submit, and a load answered late needs two loads; five steps open the forms of two tenants, correct the
slug that a late answer brought and save, or edit a template in between. One fault reaches each failing branch
and what follows it.
Deadlock is checked in the delivery runs. It is not checked where the instance may stop: the clock or the
person at the bound and everything answered.

Fairness. DeliveryPipeline: a started Send and a worker's loop wait on no other process, so each has
weak fairness; a ready message is pushed to a consumer of its queue and taken from its buffer in turn,
which is strong fairness of receiving that delivery's job, since the requeueing of a paused tenant's jobs
enables and disables it without end. Scheduler: the ticker starts passes for ever, and a pass waits on no
other process. Admin UI modules: every request is answered or fails (the browser ends a request whose
connection is lost) and its continuation runs: weak fairness of the answers and continuations of a page,
or in AdminSession of all tabs together. There is no fairness for persons, administrators, faults, or the
expiry of tokens. The liveness properties name the exceptions the code has: a dropped job, a job handled
before the commit, a worker on a closed channel (nothing reconnects).

## 4. Proofs

All proofs are by TLAPS, for every value of the constants that satisfies the named assumptions
(`PipelineAssumption`, `SchedulerAssumption`, `RateLimiterAssumption`, `SessionConstants`,
`SendFormConstants`, `AccessConstants`, `TenantConfigConstants`, `StatusPagesConstants`: the types of the
constants, positive limits, a finite set of schedulers, and that the "nothing" values are not jobs, channels,
tenants or keys; `Markers` and `TenantConfigMarkers`: that they are not one of the records they stand beside
either). `PROJECT.json` lists the theorems. Every safety invariant and action property that a passing run checks is one of them.

**DeliveryProofs.** `TypeCorrect`, `AttemptsInPlace`, `DeadOnlyAfterRetries`, `NoDeliveryStranded` and
`PipelineRefinesLifecycle`. None of the properties is inductive alone. The invariant `IndInv` adds:
`ConsumersOK` (which step a consumer of which queue may be at, and that it holds a job there),
`SendsCover` (a job with attempt number `a`, in any queue or held by a worker, has at least `a / 2` provider
calls behind it, so it cannot reach the dead queue sooner), `ResultOK` (a `sent` result was accepted),
`RowsOK` (a row that says sent or dead has its cause) and `TransactionOK` (a delivery of a notification
that is not committed has no row). `Invariance` proves it action by action; the theorems follow, and
refinement uses it to map every step to a step of DeliveryLifecycle or to a stutter. `NoDeliveryStranded`
rests on its own argument: each action that removes a job finishes the delivery, adds another job, lets
the consumer carry it on, or records it in `lost` or `missed`.
`SentAccounted`, `SentOnce` and `FinalIsStable` need to know how many copies of a job there are. `CopyInv` adds
to `IndInv` that a published channel is the only source of copies (`CopiesPublished`) and, as long as there
was no fault and the delivery was not handled before its commit, that it has one live copy at most and
that a delivery in a final status has none, except in the worker that is recording it (`Orderly`). Every action
then either leaves the copies of a delivery and its row alone (`Kept`) or is a step of the one consumer that
holds the copy.

**SchedulerProofs.** `SchedulerTypeCorrect` and `QueuedJobsArePublished`: a pass that has a job in hand has
published every channel of it that is no longer in `todo` (`PassesOK`), so `MarkQueued`, which waits for an
empty `todo`, preserves `QueuedMeansPublished`, also when another pass has routed the same job.
`JobsPublishedOnce`: without a fault a job that no two passes had together is in one pass's hands at most,
pending there, and what that pass still has to publish was never published (`RoutedOnce`); `Orderly` adds that
without a fault every AMQP channel is open, so no pass stops halfway. `RowsMatchJobs` counts on top of that:
an insertion adds a process to those about to publish (`Publishing`), a publication takes it out, and their
number and the published jobs make up the rows, which the model counts up to `RowCap` and no further.

**RateLimiterProofs.** `LimiterTypeCorrect`, `LimitsHold` and `CountersHaveExpiry`. The strengthening is that
a key waiting for its EXPIRE exists, has no expiry and has one creator (`PendingOK`), and that a count
covers the grants under it: a daily key's remaining life is never shorter than the rest of its day, the day a
request has read is not later than the clock's, and a key that was made again after it expired is in `late` (`CountersOK`).

**SendFormProofs.** `FormTypeCorrect`, `OnlyOfferedSelected`, `OnlyOwnValues`, `EventFilled` and
`SubmissionsFit`. The first four follow from what the effects do (`EffectsFacts`: they leave a form that
fits the lists, provided the parts they do not look at fitted before). `SubmissionsFit` needs to know
whose lists the page holds: `ListsOK` says that, as long as no answer overtook that of a later load, each
list belongs to the newest load that has received it, and `TenantOK` that the newest load is for the
tenant selected; when nothing is under way the lists are therefore the tenant's (`SettledLists`).

**StatusPagesProofs.** `StatusTypeCorrect` and `SentOnlyAfterApproval`. The API does not look at a campaign's
status, so the invariant follows what the page can ask for: every status in a list, shown or on its
way, is one its row has had (`ListsOK`), every change under way was offered for such a status (`UpdatesOK`),
and only "approved" offers "sending" (`OfferedFacts`); a row set to `sending` without the page is in `direct` and
offers nothing (`HistoryOK`); `CreationOK` keeps room for the one row being created.
`ListShowsStored` and `PageStaysInRange` speak of a settled page; their invariant `ShownInv` says the same of
one that is not: as long as nothing came out of order, the newest list request, or the list when none is under
way, is for the query on the screen and was read after the last own change (`CurrentOK`), and unless a row
left the filter or a page was turned on a wrong list (`Kept`) the page number is one that the stored rows and that answer fill (`RangeOK`).

**AdminSessionProofs.** `SessionTypeCorrect`, `LogoutsAreCaused`, `StoredPairIsAlive` and `IdentityIsShared`.
The invariant follows a token pair through its life: pairs in use were issued (`IssuedOK`), an answer holds
what its reader takes from it (`AnswersOK`), a pair on its way to a tab is active and in one answer only
(`FreshOK`), without a cause the refreshes under way present different, active pairs and none is refused
(`CauseOK`), and until a login crosses another session everything signed in, stored or about to
arrive belongs to one account (`AccountOK`).

**AccessPagesProofs.** `AccessTypeCorrect`, `FormShowsOwnRole`, `AssignmentsFit`, `AccountsComplete` and
`SuccessIsStored`. The invariant has a part for each page. Roles: the detail on its way, or the one shown, is
that of the role being edited as long as none crossed (`DetailOK`). Users: the role chosen in the form or in a
save under way fits the tenant chosen with it (`FormOK`, `TaskOK`) and is stored as long as none is deleted
(`ExistOK`), so the assignment it ends in fits (`FitsOK`); whoever is listed or changed has an account
(`KnownOK`); an incomplete account is the one whose second request is outstanding (`CompleteOK`). `SuccessIsStored` looks
at the step that ends a save with a reload; `SaveOK` says what a request that was carried out has left in the table while its
answer is on its way: what it wrote, unless the role was deleted since.

**TenantConfigProofs.** `ConfigTypeCorrect`, `ProvisionedWithOwnData`, `TemplatesSurvive`,
`OverviewFollowsTables` and `ConfigsStayComplete`. Wherever a form is held (on the screen, in an answer, in a save),
its slug is one that its source has had unless it was typed, and its templates are the source's but for the
named cases (`FormsFit`). The first statement of a save refuses the slug of another tenant, so past it the slug is no
other tenant's (`OwnSlug`), and past the second the history knows what the form holds (`Noted`): another tenant's data
therefore needs a typed slug, or a tenant that was renamed. Templates are missing from the table
only between the statements that delete and insert them (`TemplatesOK`). A request that creates a provider
row is complete (`NewRowsComplete`); the rows of the detail page's overview are stored or deleted (`RowsKnown`), and
between the commit of a switch and its answer the overview is what is stored once the answer is applied (`OverviewFollowing`).

Only model-checked: the liveness properties (`Settles`, `DueIsQueued`, `RequestsSettle`, `LoadingEnds`,
`SavesEnd`, `PagesSettle`), since liveness under fairness is outside what the prover does.

## 5. Findings

- `doc_stored_before_send`: a provider call for a delivery whose row is not committed
  (`src/docs/architecture.md:15`).
- `doc_fixed_window`: a failure between INCR and EXPIRE leaves a counter that never expires
  (`src/docs/security-review.md:86`).
- `doc_blank_keeps_secret`: saving a provider with one secret rotated erases the secrets left blank
  (`src/docs/tenant-integration-guide.md:127`).

The passing properties also say where the code has no protection, as the excuse they grant: a duplicate
send or an overwritten final status needs a fault or a job that overtook its commit; a duplicate
scheduled job needs a fault or overlapping passes; a self-inflicted logout needs a failure or two pages
with one refresh token; a submission for the wrong tenant needs answers out of order or a contact
chosen before the tenant was changed; a request that stalls over midnight may exceed the quota of the day it
read; a saved role that is not stored needs a deletion during the save; a tenant gets another's
data when a form filled by a late answer is saved with the slug corrected; it loses its templates when
its form is saved before its data arrived or the insertion fails; a provider configuration is incomplete after an
edit that changes the type or fills in some of the secrets; a page beyond the end needs a row that left the
filter or Next pressed on a wrong list; a campaign is sent without an approval by a request that writes the
status itself, and a cancelled one from an old list; a list out of date needs a repeated old query, a failure or another administrator.

Met while modelling and not given a run, because one reading settles them:

- Worker and retry loop both increment the attempt, so with `MAX_DELIVERY_ATTEMPTS = 3` the provider is
  called twice (`src/docs/implementation-status.md:240`); `DeadAfterRetries` states what the code does.
- The exported `notifications_retried_total` goes down when a delivery is retried no more
  (`src/docs/monitoring.md:13`).
- The per-second limit of a channel is counted per tenant, so other channels use it up
  (`src/docs/security-review.md:87`).
- `UsersPage.tsx:105` deletes users by a route the API does not have (`src/docs/final-gap-analysis.md:60`).
- A platform administrator's campaign has no tenant and `campaigns.tenant_id` is NOT NULL; the status
  `sent` of campaigns (`src/docs/monitoring.md:17`) is never set.

## 6. Plan

1. Proofs: further refinements, such as the rows and jobs of Scheduler as an abstract outbox.
2. `WebSocketHub` with in-app notifications: registration, broadcast, bounded buffers, unread sync,
   disconnect. As routed today the upgrade is refused, because `statusWriter`
   (`http/middleware/middleware.go:134`) hides the connection; the module will have this as a parameter.
3. `SendPool`: the connection pool under Send, and when concurrent sends wait for each other for ever.
4. Password reset and lockout, settings read-modify-write (`http/handlers/handlers.go:1955`).
5. Composition of `Scheduler` with `DeliveryPipeline`, so that scheduled deliveries settle.

## 7. Not modelled

Provider adapters, the audit log, redaction and encryption, configuration, logging and start-up, CORS and
panic recovery, migrations, and the pages that only show data (integration guide, dashboards, logs):
external I/O, string and cryptographic functions, or code without state the others depend on. The templates,
contacts and groups pages repeat the list-and-save pattern of the modelled ones. The WebSocket hub and the
connection pool are in the plan. `PROJECT.json` gives the reason for each.
