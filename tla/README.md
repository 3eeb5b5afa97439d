# A verification of the IT asset management backend

TLA+ models of the parts of this backend where several requests, jobs or
processes work on the same documents, the TLC runs that check them on small
instances, and proofs of the safety of the central ones for every instance.

The backend is a Node/TypeScript server over MongoDB. Requests run concurrently,
on several processes. A handler is a chain of database calls, and between any two
of them other requests run. What keeps the data consistent is a handful of
means: transactions that conflict and retry, unique partial indexes, updates
with a condition, leases and locks with an expiry, an outbox written with the
state change. What endangers it is what is read before those and used after them.
Every model here is therefore cut at the database calls: one call (or one
transaction) is one step.

Paths below are relative to `src/src/` unless they begin with `docs/` or `README`.

## 1. Inventory

| Component | State | Operations | Works with | Hard because | Module |
|---|---|---|---|---|---|
| Job queue `core/jobs/jobQueue.ts` | `jobs` | add, claim, the writes of a result, drain, close | every background job | leases lapse under live handlers; processes die; writes fail | `JobQueue` |
| Schedules `core/jobs/schedule.ts`, `jobs.ts` | `scheduleruns` | claimSchedule, runDueSchedules | job queue | claims, then enqueues; late clocks | `Schedules` |
| Locks `core/locks/lock.ts` | `locks` | acquire, release | imports | re-entry by holder, expiry | `Imports` |
| Outbox `core/events/eventBus.ts` | `outboxevents` | emit, flushOutbox, dispatchPending, deliver | every service; the subscribers | copies of rows without a lock | `Outbox` |
| Subscribers `modules/timeline`, `modules/auditlog` | `assetevents`, `auditlogs` | handle | outbox | redelivery | `Outbox` |
| Email `modules/email` | `emailmessages`, suppressions | send, deliver, recordDeliveryEvent | job queue | retries that overlap or lose their answer; reports of the provider in any order | `Mail` |
| Notifications, scans `modules/notifications`, `modules/reports/scans.service.ts` | `notifications` | notify, mark read, warranty and licence scans | schedules, email | many organisations, one failure; dedupe keys | `Notices` |
| Rate limiter `core/http/middleware` | `ratelimits` | increment | every route | windows counted by several containers | `RateLimit` |
| Assignments `modules/assignments/assignment.service.ts` | `assignments`, `assets.currentAssignment` | assign, return, transfer | assets, people | checks outside the transaction | `Custody` |
| Assets `modules/assets` | `assets`, counters | create, update, transition, delete, restore | assignments, lifecycle, usage | the same | `Custody`, `Usage` |
| Lifecycle workflows `modules/catalog/lifecycle.service.ts` | `lifecycleworkflows` | planTransition | assets | planned on a stale read | `Custody` |
| People, offboarding `modules/people`, `modules/reports/offboarding.service.ts` | `people` | create, deactivate, delete, restore, start and complete offboarding | assignments, licences | checks, then writes | `Custody` |
| Recycle bin `modules/recycleBin` | `deletedAt` of all of these | restore, purge | all of these | a record in the bin is invisible to every other operation | in each |
| Reconciliation `modules/reports/reconciliation.service.ts` | none of its own | nightly repair, recount | assets, assignments, usage | reads, then writes without looking again | `Reconciliation`, `Usage` |
| Imports `modules/imports` | `importjobs`, `importrows` | stage, map, validate, queue, cancel, commit | job queue, lock, assets, people | long runs that die and are retried beside requests | `Imports`, `ImportFiles` |
| Licences `modules/licences` | `licences.seatsUsed`, `licenceseats` | allocate, revoke, revokeAll, update, delete | people, recycle bin | a count beside the records it counts | `Licences` |
| Identity `modules/identity` | `users`, `refreshtokens` | sign-in, rotate, sign-out, change and reset a password | email | reads and saves without a condition | `Sessions` |
| Registration `identity/auth.controller.ts`, `modules/tenants`, `modules/roles`, `catalog.service.ts` | `tenants` and what every organisation starts with | register, add a starter setup | all of these | a dozen writes and no transaction | `Registration` |
| Memberships, invitations `modules/memberships` | `memberships`, `invitations` | invite, accept, resend, revoke, change roles, suspend | usage, identity | last owner; seats | `Memberships` |
| Documents `modules/documents`, `core/storage` | `documents`, objects stored | presign, confirm, delete, purge, sweep | usage | two-phase uploads; two stores | `Documents` |
| Maintenance `modules/maintenance` | `maintenancerecords`, asset state | schedule, start, complete, cancel | assets | finished twice; moves between reads and writes | `Maintenance` |
| Receipts `modules/assignments/receipts.service.ts` | `assignments.acknowledgement` | request, remind, confirm | assignments, email | a mail and a row for one token | `Receipts` |
| Organisation units `modules/structure`, `people/hierarchy.ts` | units with `path[]` | create, move, delete, restore, place | people | paths rewritten row by row | `Hierarchy` |
| Manager chain `people/people.service.ts` | `managerId` | updatePerson, delete, restore | people | a walk of reads, then a write | `ReportingLines` |
| Usage and plans `modules/subscriptions` | `tenantusages` | assertWithinLimit, incrementUsage | assets, people, fields, documents, memberships | check-then-act; counted after the commit | `Usage` |
| Custom fields `modules/catalog/customField*.ts` | definitions, values on records | create, edit options, archive, restore, save values | assets, people | merged over a read | `CustomFields` |
| Lists `asset`, `person`, `licence`, `maintenance`, `vendor` repositories | none of their own | a page by cursor | the rows of each | rows move between two pages | `Listing` |
| File parsers, exports, reports, roles, HTTP, configuration, telemetry | | | | little or no shared state | none |

What makes each correct is the "shows" column of section 3. `PROJECT.json` lists
the hazards, at the line where each bites, with the properties that would catch
it or the reason none does.

## 2. Modules

Background work:

| Module | Variables and what they stand for |
|---|---|
| `JobRegister` | abstract: jobs that are durable, retried, deduplicated and dead-lettered (`core/jobs/job.model.ts`, header): `state`, `key`, `spent`, `succeeded` |
| `JobQueue` | `job` the collection; `loop` what each poll or drain loop does; `runner` the processes; histories `handled`, `holder` |
| `Outbox` | `row` the collection; `worker` each deliverer with its copies; `records` the entries the subscribers wrote |
| `Schedules` | `now`; `lastRunAt` the schedule's row; `tick` the callers; `outstanding` its queued job; history `claims` |
| `Mail` | `message` the log; `suppressed`; `sender` callers; `mailJob` the jobs; `delivery` the attempts; `provider` what it accepted |
| `RateLimit` | `instant`; `hits` the documents by window; `counting` each container; histories `admitted`, `ceded` |
| `Notices` | `daysLeft`; `notices` by dedupe key; `emailed`; `scan` each runner; history `broken` |

Custody and imports:

| Module | Variables and what they stand for |
|---|---|
| `CustodyRegister` | abstract: who holds what (`docs/02-architecture.md` 7.3): `holder`, `listed` |
| `Custody` | `asset`, `assignment`, `person` the collections; `request` what each request carries from its checks to its transaction |
| `Reconciliation` (extends `Custody`) | `job`: what the nightly run has read and has left to write |
| `Imports` | `import`, `row`, `lock`, `task` the collections; `made` entities created; `user`, `run` the requests and runs with their copies; history `open` |

Requests:

| Module | Variables and what they stand for |
|---|---|
| `Licences` | `licence`, `seat` the collections; `request` as in `Custody` |
| `Sessions` | `account` one user; `refresh` the tokens; `signed`; `task` the requests; histories `spent`, `forked` |
| `Registration` | `user`, `organisation` (by slug, with all it starts with); `registrar` the requests; histories `overlapped`, `stopped` |
| `Memberships` | `membership`, `invitation`, `seatsUsed`; `call`; history `slipped` |
| `Documents` | `row` the collection, `object` the bucket, `storageBytes`; `docTask`; history `docSlipped` |
| `Maintenance` | `work` the records of one asset, `assetState`; `visit` the requests |
| `Receipts` | `receipt` one assignment; `reminders`, `mailed`, `blocked` the email log; `errand` the requests |
| `Hierarchy` | `unit` with parent and path, `home` of people; `edit`; histories `orgSlipped`, `staleRestore` |
| `ReportingLines` | `managerOf`, `gone`; `walk` each request's way up; history `linesSlipped` |
| `Usage` | `entry` rows of one resource, `usage` its counter; `order` the requests, `recount` the nightly one; histories `drifted`, `crowded` |
| `CustomFields` | `field` definitions, `cf` values of one record; `ask` the requests; history `fieldSlipped` |
| `Listing` | `listed` the rows; `reader` one client with limit, cursor and what it has been given; history `stayed` |
| `ImportFiles` | pure: `suggestMapping`, `missingRequired`, `parseMoneyMinor`, `parseDate` as operators; `file` is what was uploaded, `result` what was made of it |

The theorems and their proofs:

| Module | Proves about |
|---|---|
| `ImportsProofs`, `HierarchyProofs` | the module of that name |
| `CustodyProofs` | `Custody`, its refinement of `CustodyRegister`, `Reconciliation` |
| `QuotaProofs` | what is counted against a limit: `Licences`, `Memberships`, `Usage`, `Documents` |
| `RecordProofs` | what requests do to records: `Sessions`, `Receipts`, `CustomFields`, `Maintenance`, `ReportingLines`, `Registration` |
| `BackgroundProofs` | what runs beside the requests: `JobQueue` and its refinement of `JobRegister`, `Outbox`, `Schedules`, `Mail`, `Notices`, `RateLimit`; their composition in `MCBackground` |
| `RequestsProofs` | what requests read: `Listing`, `ImportFiles`; the composition of the thirteen modules in `MCRequests` |
| `TotalsProofs` | `Totals`: the sum of integers over a finite set, a difference of two cardinalities, by which `Documents` and `RateLimit` count what is stored and what was let through; induction over the naturals, and that a recursive function has the values its equation says |

`MC<X>` gives model values, and the cfg
files the bounds. Definitions marked "Mutant:" are not part of a specification:
each is a plausible bug of the definition beside it, and `PROJECT.json` says which
property finds it.

**How code becomes actions.** In most modules every database call is an action,
and what a request or a process holds between two calls is in its record: a job
as it was claimed, a row as it was read. In `Custody` and `Licences` a handler is a
`Start...` action (all it reads and checks before its transaction) and a `Commit...`
action (the transaction: what it reloads, checks again and writes). Two
transactions that write the same document conflict and one is retried
(`core/db/transaction.ts`), so a transaction is one step. Any request may end at
any point, for a refusal, a timeout or a crash (`GiveUp`, `RequestFails`,
`OrderEnds`, `RegistrationFails` and the like); nothing depends on a request
getting through. A unique index is a guard of the write it would refuse. The
soft-delete plugin is the guard of whatever it makes miss. `document.save()` of
mongoose sends only fields that differ from what was read: `Saved...` operators do
the same, and the interesting cases come from there.

**Histories.** Some code has no protection against a particular overlap, and says
so or leaves it to the nightly repair. There a history variable records that this
very overlap, or a death between two writes that belong together, has happened,
and the property speaks of every behaviour where it has not. So `OrganisationInOrder`,
`LedgerAgrees`, `PathsAgree`, `LinesLeadUp`, `UsageAgrees`, `ValuesAreKept`,
`OneLivePerFamily`, `EveryoneWasTold`, `AtMostTwiceTheLimit` and
`OrganisationsOpenWhole` say two things at once: that the checks are complete, and
that nothing but what the history names can break them. Each history is set in the
action where the overlap takes effect, with the narrowest condition that holds.

**Composition.** Components that share state are composed by extension
(`Reconciliation` on `Custody`; the queue as an import sees it in `Imports`; bin and
plan limits inside each module). The components that share none are checked
together: in `MCRequests` and `MCBackground` the variable `scenario` says which
component a behaviour follows, and the others keep their initial values. The
reachable states are the sum of those of the components, not the product, and one
symmetry set serves all because they name the same actors and records.
`BackgroundFairSpec` conjoins the fairness of the queue and of the outbox; in a
behaviour that follows another component none of their actions is ever enabled, so
that it asks for nothing.

**Abstractions.** Times are reduced to the comparisons the code makes (`due`,
`lapsed`), except in `Schedules`, `RateLimit` and `Notices`, whose subject they are.
Names and payloads are identities, subscribers what they write. Assignments are to
people only: locations and other assets follow the same code without the checks of
a person's status. `on_leave` is `active`, since no check tells them apart. In
`Imports` an import is staged already; a row with errors in its data is never
committed and is left out. `Registration` follows organisations of one name, which
compete for its slugs. `Receipts` and `Maintenance` follow one assignment and one
asset, `CustomFields` and `Sessions` one record and one account: no operation there
touches two.

## 3. Runs

All systems here may stop: requests are optional, faults and requests are
bounded and jobs come to an end. So the cfg files say `CHECK_DEADLOCK FALSE`.

| Run | What it follows | States |
|---|---|---|
| `MCRequests` | the thirteen modules of requests, safety | 524,000 |
| `MCBackground` | the six modules of background work, safety | 1,560,000 |
| `MCBackgroundLive` | the queue and the outbox under fairness, and the refinement of `JobRegister` | 81,000 |
| `MCCustody` | two requests on one asset, and the refinement of `CustodyRegister` | 904,000 |
| `MCReconciliation` | the nightly repair from any wrong pointer, fair, beside a request | 31,000 |
| `MCImports` | two imports under one lock, fair | 241,000 |
| `MCJobQueueCrashLoop`, `MCOutboxDead`, `MCSevenDay`, `MCRestoredPaths`, `MCImportsTwice`, `MCCustodyFinal` | one finding each; TLC finds the violation | |

What the properties of the passing runs show, beside the types of every module:

| Module | Property | Says |
|---|---|---|
| `JobQueue` | `OneOutstandingPerKey` | one live job for a dedupe key |
| | `DeadLetterEarned` | a job is dead for the attempts it has had, not for what a late copy says |
| | `SettledIsFinal`, `OnlyHolderSettles` | a result is written once; a process changes nothing of a job that another process has claimed since (a sibling loop of the same process may) |
| | `ImplementsJobRegister` | it implements `JobRegister`: a queued job is outstanding until a run has succeeded or its attempts are spent, and is settled once |
| | `EveryJobSettles` | every job is done or dead in the end, through crashes and lapsed leases |
| `Outbox` | `DoneMeansDelivered`, `CompletionsAreKept` | nothing is marked done, or forgotten, by a late save of an old copy |
| | `EveryEventDelivered` | every committed event reaches its subscribers |
| `Schedules` | `OncePerPeriod` | no two claims are closer than an interval, however late a caller claims |
| `Mail` | `MailGoesOutWhole` | no attempt sends a mail whose single-use link was erased |
| `RateLimit` | `AtMostTwiceTheLimit` | a fixed window lets at most twice its limit through in any span of its length |
| `Notices` | `EveryoneWasTold` | a finished scan has told every member of every organisation that did not fail, with its mail |
| `Custody` | `PointerAgrees`, `ChainOfCustody`, `HistoryIsKept`, `ImplementsRegister` | the pointer names the one active assignment, the records form a chain, nothing of it is rewritten, and together they implement the register |
| `Reconciliation` | `QuietRunRepairs`, `DriftEnds` | an undisturbed run repairs everything; drift ends although runs and requests overlap |
| `Imports` | `OneImportAtATime`, `CreatedAsOffered`, `CommitEnds` | exclusion, no second creation by a retry or a crash, every commit ends |
| `Licences` | `NoOverAllocation`, `CountCovers` | never more seats than were bought; the count is never too low |
| `Sessions` | `OneLivePerFamily`, `SpentLinksStaySpent` | one usable token of a family; a reset link works once |
| `Registration` | `OrganisationsOpenWhole` | whoever can enter an organisation finds all it should start with; setups added again double nothing |
| `Memberships` | `OrganisationInOrder` | an owner who can sign in, and a seat for every member and every open invitation |
| `Documents` | `NoOrphanObjects`, `LedgerAgrees` | every object has a row; the bytes counted are those that can be downloaded |
| `Maintenance` | `OneFollowUp` | recurring work is one series, whoever finishes, reopens or cancels it |
| `Receipts` | `ALinkStaysGood` | once a person has a good link, a reminder that fails half way leaves them one |
| `Hierarchy` | `PathsAgree` | paths are those of the tree |
| `ReportingLines` | `LinesLeadUp` | no cycle of managers that is no longer than a walk, no missing manager |
| `Usage` | `UsageAgrees` | the counter is the number of rows, and the rows stay within the limit |
| `CustomFields` | `ValuesAreKept` | a value changes only by an edit that names it |
| `Listing` | `EachRowOnce` | a list read page by page gives each row that stayed, once, in order |
| `ImportFiles` | `NothingMisread` | an amount is read as it was meant or reported, but for the form `1,200`, which is read as 1.20; a date in the declared order is read as meant; the best column wins |

**Bounds.** Each of these protocols goes wrong, when it does, between two actors
on one document, so two actors and one to three documents are the instances that
matter; where there is a proof it covers the rest. The bounds by name:

- *Queue*: `MaxAttempts` 2 tells a retry from a dead letter; `MaxFaults` 1 is one slow
  handler or failed write, which can interrupt any step. Two processes, one with two
  loops under its one runner id. Crashes are bounded by the processes: `OtherUp` keeps one
  alive and stands for all that is started later. Without fairness attempts are not
  bounded by anything else.
- *Outbox*: `DeadAfter` 2, `Limit` 2, `MaxOutboxFaults` 1; one request and one sweep, a
  subscriber that is idempotent and one that is not. Attempts are counted up to
  `DeadAfter` only, which is what the code compares.
- *Schedules*: `Interval` 2, `Horizon` 5: two full periods and a part, three callers.
- *Mail*: `MaxSends` 2, two messages that may share a key, two deliveries at once.
- *Rate limiter*: `WindowLength` 2, `LastInstant` 4: three windows; `HitLimit` 1 and
  `MaxHits` 4, so that twice the limit can be reached and passed.
- *Notices*: two thresholds, `FirstDays` 4: days before, at, between and inside them;
  two organisations, so that one can fail; two scanners.
- *Custody*: three records hold an assignment, its transfer and another one; a
  workflow of four states has each kind of guard and a final state.
- *Imports*: `MaxRequests` 4, `MaxFaults` 1, `MaxAttempts` 2. Import B has no rows: what
  matters of it is its runs and the lock.
- *Licences*: three seat records against sizes 1 and 2, so a third seat is one too many.
- *Sessions*: `MaxFailures` 1 (the next failure locks), `MaxVersion` 1 password write.
- *Registration*: `MaxBegun` 3 requests: two registrations and a setup, or one and two
  setups; two slugs, one name that a setup may bring of each kind.
- *Memberships*: `SeatLimit` 2, two users, one invitation, `MaxEdits` 1 change of role each.
- *Documents*: one document, files of 1 and 2 bytes against `MaxFileSize` and
  `StorageLimit` 2; the counter is followed from `-MaxCounted` to `MaxCounted` (2).
- *Maintenance*: `MaxVisits` 4 requests and bookings: a visit, its follow-up, and two
  requests that finish or reopen either.
- *Receipts*: `LastDay` 1, three tokens: the first and two reminders on different days.
- *Hierarchy*: three units, `MaxUnitEdits` 5 requests (6 with one editor in
  `MCRestoredPaths`): enough to build a chain, move its top and race the move; the proof
  covers any number.
- *Reporting lines*: three people and `MaxWalk` 2 levels, where the code walks 50: a cycle
  of two has to be refused, and one of three is saved unseen and then takes part in what
  follows.
- *Usage*: `PlanLimit` 2, three rows, `MaxOrders` 4 requests.
- *Custom fields*: `MaxFields` 2 keys for one label, `MaxAsks` 4 requests, two options.
- *Listing*: four rows over two instants (`RowIds`, `Ticks`), so that any ties occur;
  pages of one and two rows (`PageSizes`).
- *Import files*: three columns and two fields with every likeness between them
  (`Columns`, `Targets`, `Needed`); amounts with and without groups (`Wholes`).

**Fairness** is given to what the deployment runs again and again, and to nothing
else: requests and users owe nothing.
Clocks advance (`BecomeDue`, `LeaseLapses`, `LockLapses`: weak). A loop, deliverer
or run that has begun a step goes on unless its process dies (weak). Claims are
strongly fair for each job: they are sorted by `runAt`, so only finitely many jobs are ever
ahead of one. A handler that is run for ever does not defer for ever, and a
subscriber that is called for ever does not throw for ever: without this no queue
could promise anything. A deferring import finds the lock free in the end
(strong), because runs are finite. The reconciliation is run every night and its
process does not die each night at the same step (strong).
`EveryJobSettles` is checked for processes of one loop and without keys, which its
statement does not involve; so is `ImplementsJobRegister`, which the theorem extends to
both.

**What the failing runs say.** Each is described in `PROJECT.json` with the sentence
it contradicts.
- *A job that crashes its runner is run for ever.* Attempts are compared with their
  maximum only in the catch block that a dead process never reaches.
- *Dead letters are retried.* `dispatchPending` selects `failed` rows as well.
- *The seven-day notice is never sent.* The scan takes the first threshold of
  `[30, 7]` that is not below the days left, which is always 30.
- *A restored unit has the wrong path.* A move rewrites live rows only, and a
  restoration repairs a path only if its parent has gone.
- *A row can create two entities.* `validateImport` has no guard on the status of
  the import. While it runs beside a commit, or is begun during it, rows that were
  created are found valid again. `CreatedAsOffered` is the true part: nothing else,
  no retry and no crash, makes a row create again.
- *A final state can be left.* `transitionAsset` plans outside its transaction and
  writes the plan inside it, whatever happened in between.

**Met while modelling**, without a run of its own: `register()` says that an account
without an organisation "is not reachable" (`identity/auth.controller.ts:51`), and a
lost race for a slug leaves one; `applyPreset()` calls itself idempotent, and two side
by side may double a category; `tenantUsage.model.ts:7` says its counters move in the
transaction of the entity, and they move after it; the nightly recount sets only the
counters of people and assets; the audit log and the assignment lists report `hasMore`
and give no cursor (`auditlog.controller.ts:62`, `assignment.controller.ts:61`);
`updateDefinition` drops options left out of an edit, where
`docs/06-edge-cases.md:33` says they are archived; passes 1 and 2 of `suggestMapping`
are alike, so that an alias ties with an exact label; a cancelled import goes on
committing the rows it holds; the assignee is checked outside the transaction that
assigns; the offboarding checklist passes over deleted assets; `parseMoneyMinor` promises to
reject what it cannot read "rather than storing a plausible-looking wrong number"
(`rowValidation.ts:70`), and reads `1,200` as 1.20; "completing checks `lockedBy`"
(`job.model.ts`, header) keeps late writes out between processes and not between the loops of
one; `createsManagerCycle` misses a cycle of more than 50; a sweep between the reading of an
upload (`document.service.ts:113`) and its save (131) leaves a document that is ready and has
no file; a cursor with an invalid date is answered with page one (`asset.repository.ts:107`) and
fails the list of people, whose own `decodeCursor` does not look (`people.service.ts:101`).

## 4. Proofs

For every value of the constants that satisfies the named `ASSUME` of the module
(sets of any size; no process, key or record has the name of a null value). The
lemmas go step by step: one for each action, a part of the invariant at a time.

**Job queue.** `IInv` adds to the properties what makes them inductive: a running job is leased to the
runner of the loop that claimed it last and has been counted at least once
(`LeaseInv`), so a deferral's decrement stays in `Nat`; the count in a
loop's copy never exceeds what the job will have when it next runs (`SeenInv`),
so that a dead letter decided on the copy is earned in the collection;
a loop about to write a success has had one (`SuccessInv`); live jobs have
different keys (`IndexInv`). Theorems: types, `OneOutstandingPerKey`,
`LiveIffOutstanding`, `DeadLetterEarned`, `DoneMeansHandled`, `SettledIsFinal`,
`ImplementsJobRegister` and `OnlyHolderSettles`, which is about processes: the lease carries
the id of the process, of which every loop is one of several (`jobQueue.ts:287`). A late
loop can settle what its own sibling has claimed since: the hazard at `jobQueue.ts:192`. The
refinement shows what that costs the register: nothing, since the late loop settles the
job by a success of its own or by a count that is not above the collection's. A claim is
a step that spends an attempt, also of a job whose runner has died; time, retries, crashes and writes that
match nothing are stutters.

**Outbox.** The invariant says of the copies what the properties say of the rows: a
subscriber that a deliverer would skip has recorded the event
(`CopiesAreRecorded`, and `CompletedMeansRecorded` of the rows), and what it will push
is in its copy (`PushedInCopy`). Then no order of saves can put a subscriber into a
row, or a row into `done`, before its entry. Theorems: types, `DoneMeansDelivered`,
`CompletedMeansRecorded`, `OneTimelineEntry`, `CompletionsAreKept`.

**Schedules.** A caller claims with the instant it read when it began, which may be
past. `LastIsLatest` says that the row holds the latest instant any claim was won
with; a claim must be an interval later than the row, and so than every other.

**Mail.** What a delivery carries from the log to the provider was whole when it was
read and is not touched while it is carried (`CopiesAreWhole`); every job, delivery
and acceptance belongs to a row that was logged (`NamesLogged`), so a row that is new
has nothing of an older one.

**Sessions.** A rotation marks the old token in one call and saves the new one in
another. In between, nobody holds a live token of the family and no other rotation
does the same, unless the family is forked (`PendingIsAlone`); families and the tokens
in a request's hands were issued (`FamiliesIssued`, `TasksIssued`). That a spent link
stays spent is inductive with the types alone: no step but the sending of a new link
puts one into the account, and `save()` sends only what it changed.

**Custody.** `PointerAgrees` and `ChainOfCustody` need that a pending request carries
what its commit uses (`RequestsCarry`), that records in use name an asset and a
holder (`RecordsName`), and that what was never created points at nothing
(`UncreatedFree`). Theorems: types, `PointerAgrees`, `ChainOfCustody`,
`HistoryIsKept`, and the refinement `Spec => Register!Spec`: the holder is read off
the assignments, `HolderFacts` shows that it is the one the pointer names, and each
commit is then a step of the register or a stutter.

**Licences.** The count covers the live seats (`CountCovers`) and stays within the
seats bought (`WithinSize`); together no licence is over-allocated. The proof is
about cardinalities: an allocation adds one to both, a revocation takes one seat and
at most one from the count, and a revocation in the bin leaves the count too high,
which is safe.

**Imports.** A worker inside the lock also holds its job's lease (`Claimed`), which
no second worker of the same import can have, and neither runs out under a live
run (`Locked`): so re-entry by holder never lets two in. The rows of a committing
run are all offered, but for the one it is about to save (`Offered`). The
assumption behind it is the code's own (`import.queue.ts:26-30`): the lock and the
lease outlast any run.

**Reconciliation.** The runs start from pointers that are wrong in any way, so
`PointerAgrees` is not there to lean on. What drift cannot touch is enough: types,
what requests carry, and that no asset has two active assignments (`OneActive`, which
the partial index keeps). On that the invariant says what an undisturbed run has
found and still has to write (`RunKnows`): every live asset agrees already or is among
the repairs, and each repair is the active assignment or none. Theorem:
`QuietRunRepairs`.

**Memberships.** `SeatsCounted` accounts for each seat: members, open invitations and
the requests that have still to give a seat back are no more than the counter together with
the requests that have still to count one and those that accept (whose member and
invitation both stand for the moment). `SeatsWereFree` says of a request that passed
the check what it was told; as long as nothing was written from a read another
request had overtaken (`slipped`), that is still so when it writes. `OthersStay` does the same
for the last owner. Theorems: `OrganisationInOrder` and the types.

**Usage.** The counter is the number of rows, less what requests have still to count
up, plus what they have to count down (`CounterBalanced`), unless one died between its
two writes or a recount overlapped it (`drifted`). The rows fit under the limit, and so does the one
a request is about to add, unless two requests were let in beside each other
(`RoomLeft`, `crowded`). A recount that no request overlapped has counted what is
there (`QuietRecount`). Theorem: `UsageAgrees`.

**Documents.** An object outlives no row because the row stays in the bin longer than any
link that could bring the object back (`BinAges`), and what a purge is to remove was
reserved by it, with its links dead and its objects removed but for those left
(`PurgesKeepOff`). The bytes counted and the bytes that requests have still to count
(`BytesToCount`, negative for those that left) are the bytes of the rows that can be downloaded
(`LedgerInv`). Theorems: `NoOrphanObjects`, `LedgerAgrees` and the types.

**Receipts.** A link in the row was mailed or is being mailed (`SavesWereMailed`).
`ALinkStaysGood` is then a property of each step. Theorems: that, and the types.

**Custom fields.** A save writes the values its request read, but for the one key it
parsed (`SavesCarry`); with that, only an edit that names a key changes it. Theorems:
`ValuesAreKept` and the types.

**Maintenance.** Naming goes both ways: what a record names as the next visit names it
as the previous one, and is there (`Series`). A booking writes both ends, so two
visits cannot follow one. Theorems: `OneFollowUp` and the types.

**Organisation units.** While a move is under way the paths below the unit are wrong, in
a way its request knows. Once the unit is saved, the paths of its children, and only
those, are as its old path has them (`Moved`). The rows the request then lists lead to
paths that agree (`Agreed`, over `NewPath`: the row still to be written, or the path
there is), and each row that is written leaves those new paths as they were. That what
is left below the old path moves along (`RowsAgree`) is a fact about sequences: a
child's tail is empty, and one level down it is one unit longer. Only one request is mid
move, unless a write fell into another's (`MovesSettle`). Theorems: `PathsAgree` and the
types. The proof found what the bounds of the run are too small for: with eight
requests, one that found the unit's parent gone can restore it after others have brought
both back and put a unit below it. The exception for overtaken reads (`orgSlipped`)
now names that case too.

**Manager chain.** What a request knows when it has walked some levels up from a new
manager, with the managers as they were when it began: the people it went past are
one line up to where it is now, and the person it edits is not among them
(`WalkHolds`, `OneLine`). Unless a write slipped in, no group of people that is no larger
than a walk is long manages itself (`NoShortCycle`), which speaks of cycles without a word
about paths. The walk stops at 50 levels (`people.service.ts:265`), and there may be any
number of people: a longer chain is saved unseen and may close a longer cycle, and the
theorem `LinesStayUp` says that this is the only way. A walk that went its whole length
went past as many people as such a group can have, and none was the person; one that
stopped at the top saw everybody above.

**Registration.** A dozen writes without a transaction, each of which may be the last.
`FarEnough` says how far the organisation has come for each call a request can
make next; `OpenersDiffer`, that by the unique indexes on slugs and addresses each
organisation has one opener; so nobody else works for one that has no owner, and when the
owner enters it has everything. `AloneAdding` says that a name a request is about to
add is not there and nobody else has any of that kind left to add, unless their
looks overlapped. Theorems: `OrganisationsOpenWhole` and the types.

**Notices.** Whoever a scan went past has the notice, or the scan is about to make it,
or the organisation failed (`ScanTells`); a notice has its mail asked for by the runner
that made it, unless that one died (`MailFollows`). Theorems: `EveryoneWasTold` and the types.

**Rate limiter.** A window lets through no more than its document counts up to the limit
(`WindowsHold`, a sum over containers); a span of a window's length meets two windows at
most (`TwoWindows`). Theorem: `AtMostTwiceTheLimit`, for every limit, length and number
of containers, and the types.

**Lists.** `Sorted` chooses an order, and an order to choose must be there: a finite set of
rows has one, by taking its oldest away until nothing is left (`OrderExists`), for `Newest`
is total because ids break the ties of `createdAt`. A page is then the newest rows
behind the cursor (`PageIs`). The invariant (`ListingInv`) says that what was given
runs from newest to oldest down to the cursor and that every row that stayed in the list
and lies before the cursor is among it; rows that come, go or come back in between change
what lies behind the cursor and never its key, because `createdAt` and `_id` are not
edited. Theorems: `EachRowOnce` and the types.

**Import files.** The definitions compute, by recursion over digits, groups of three,
characters and headers. For each the proof shows that it has the values its equation says
(`WorkedOut`), then what they are: digits are worth their number whatever is in front of
them, groups are worth it once their marks are taken out, and a text has as many marks as
the number has groups. `parseMoneyMinor` looks at the last mark of each kind, so the
argument goes by cases: decimals behind the other mark are read; one group alone is the
ambiguous form; two groups alone leave a text with two points, which is no number. For
the columns, a pass leaves no field free that a header without one is like
(`Completes`), and gives none that is taken; so once the passes for equal headers are over, a
likeness of words cannot take what an equal one would have. Theorems: `NothingMisread`,
for every amount, number of columns and likeness, and the types.

**Composition.** A step of `MCRequests` or `MCBackground` is a step of each of its
modules or leaves that module's variables alone (`RequestsSteps`, `BackgroundSteps`). So a behaviour of
the whole is a behaviour of every module (`RequestsComposed`, `BackgroundComposed`): what the
theorems say of each holds in the runs, and `RequestsTypeOK` and `BackgroundTypeOK`
are the types of all of them.

**Induction.** The library's induction theorems cannot be used here, because they take the
predicate as a parameter. `TotalsProofs` states induction about a set of naturals
instead: a set of naturals that is not empty has a least element (`LeastNatural`), so a set that holds 0
and with each number the next holds all (`AllNaturals`), also when a number may lean on
all that are smaller (`AllNaturalsFromSmaller`). `WorkedOut` goes from there to recursive
functions: for a given step and start there is one function that satisfies
the equation, so `CHOOSE` finds it.

Sets that are counted or put in order are assumed finite (`Users`, `Invitations`,
`Callers`, `Countables`, `Clerks`, `Docs`, `DocRequests`, `Containers`, `Staff`, `RowIds`), as they
are in a database; the `No...Assumption`s and their like say that a null is not a record, a row or a
field; `ScenariosAssumption`, that the scenarios of a run are among those there are.

**Only model-checked**: liveness (`EveryJobSettles`, `EveryEventDelivered`, `CommitEnds`,
`DriftEnds`), which is out of the prover's reach. Every other property of a passing run is a
theorem, for every value of the constants. The failing runs are counterexamples and need no proof.

## 5. Not modelled, and why

- *Without shared state*: file parsers, CSV and other exports, e-mail templates and
  rendering, the HTTP layer, configuration, entry points, health, logging, telemetry,
  errors. They convert or wire; a run would follow one value through one function.
- *Read only*: reports, attention, metrics, the audit log's lists, job statistics. No
  decision depends on them.
- *Records edited one at a time*: vendors, saved views, tenant settings, roles (a
  lookup at each request; system roles are seeded), categories and asset types (an asset
  type is archived and has no route that deletes it), costs and renewal dates, costs of
  maintenance, profiles of people. An edit of maintenance work is modelled for its
  recurrence only.
- *Refined away*: backoff times; the limits of a page of a scan or list (25, 100,
  500), which no property tells apart; the cool-down of reset mails; `permVersion`, which
  only hastens a new token; onboarding state; the rate limiter's store in memory, which one
  process has to itself; the inline queue of tests and the refusal of mail in
  development.
- *Out of TLC's reach*: the deadline that answers a request whose transaction still
  commits (`core/db/transaction.ts`) would add a late step to every commit; tenant
  scoping is one filter on every query, and every module but `Notices` and
  `Registration` is one organisation.

Open for later work: assignments to
locations and other assets; a composition of `Custody` with `Maintenance`, whose asset
states the two move independently.
