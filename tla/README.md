# SJMS 2.5 in TLA+

SJMS 2.5 is a student-journey management system: an Express server over
PostgreSQL (through Prisma) and Redis, a React client, Keycloak for signing in,
n8n workflows that consume the server's events, and scripts that set an
installation up.  This directory models the parts that keep rules between
calls, checks them with TLC and proves the central ones with TLAPS.

## 1. How the system behaves

The browser obtains a token from Keycloak and sends it with every request.  The
server counts the request (rate limiter, in Redis), judges the token, asks the
guard of the route for a role and often for the caller's own record (data scope,
with an identity cache), validates the body with zod and calls a *service*.  A
service reads rows, decides, writes rows, writes an audit row and emits an
event.  Four facts make this hard:

* **Every Prisma and Redis call is awaited.**  Requests interleave at each
  `await`, and no service holds a lock or opens a transaction around *read,
  check, write*.  What a guard judged may be gone when the write happens.
* **A handler may stop anywhere.**  An awaited call throws or the process ends,
  and what was written stays.
* **Work outlives its request.**  Events are delivered by a chain of attempts in
  the memory of the process; attendance is evaluated by a call nobody awaits; a
  lookup fills the cache after its answer may have become old.
* **Lists kept by hand must agree**: roles in routes, data scope, Keycloak and
  the client; allow-lists of sortable fields and repositories; the order in
  which a seed empties tables and the references of the schema.

So every module has one action per awaited step: a request is a slot with a
program counter and the values its handler holds, and everything between two
awaits is one atomic action.  Where work is cut off at an `await` differs:

* one request, by an exception or the end of the process: `Abort` (`Admissions`,
  `Conversion`), `AbortRegistrar` and `AbortUpdate` (`Registrations`),
  `AbortRequest` (`Assessment`);
* an evaluation: `FailEvaluation` (`Attendance`), also for a process that ends
  after a record is written and before its evaluation has begun.  A PATCH that is
  cut off before its write has written nothing; it is one that never goes on;
* everything at once: `Stop` (`Delivery`, `Records`), `BreakDown` (a script);
* in `Access` and `Paging` nothing is cut off: the server's half keeps no state
  between calls but the Redis counter, whose second call may fail (`MaxFaults`),
  and a page that is not answered is asked for again.

### Components

| Component | State | Operations | What makes it correct |
|---|---|---|---|
| Applications (`api/applications`) | status, decision stamp, `deletedAt` | create, update behind a transition graph, remove | graph followed, decided implies stamped, events true |
| Offer conditions (`api/offers`) | conditions of an application | create, update, remove, each followed by a fail-soft evaluation that may promote the application | no promotion missed, none unjustified, it happens |
| Conversion (`convertToStudent`) | students, enrolments | find or create a student and its number, find or create an enrolment | no duplicate, conflicts only by races, safe to retry |
| Module registrations, enrolments | registrations, credits, status | create, update, remove behind prerequisites and a credit limit; the cascade of an enrolment | limit kept, no prerequisite bypassed, cascade misses nothing |
| Events (`utils/webhooks.ts`) | chains of attempts | emit, time out, back off, record the failure | duplicates bounded, no silent loss, every chain ends |
| Attendance (`api/attendance`) | records, alerts | record, change, remove; a detached evaluation of thresholds | the alert that is due is there, none is groundless, duplicates are races |
| Marks, module results | attempts and results with graphs | create, update with grading, release and ratification, remove | graphs followed, released and ratified once, ratified over no open attempt |
| 39 record services (cases, finance, accommodation, reference data, ...) | rows, audit trail, events | create, read-then-update, remove | trail and events tell the row, removed is out of reach, graphs followed |
| Scripts (`prisma/seed.ts`, `server/prisma/seed.ts`, `scripts/*`) | what they have made | every call, in order; break off, start again | never trip over their own rows, complete or say so, converge |
| Signing in, requests of the client | token, refresh queue, address | start, time-out, retry, sign out, refresh | one refresh for all, nobody left in the queue |
| Limiter, identity cache, routes, roles | Redis counter, cache entry; tables | count and expire; look up and remember | let go again, bounded staleness, guards agree |
| Paging (`utils/pagination.ts`, list functions, list pages) | cursor | next page, new search, new order | a row that stays is shown once, unless it ties with a cursor |

Components interact through shared tables (a condition's service calls the
application's; an enrolment's service writes registrations; a registration's
rules read module results; a conversion writes two foreign tables), through the
middleware every request passes, and through events.  `PROJECT.json` lists every
component with its source files, and every hazard of the code at its line.

## 2. The modules

| Module | Models | Composes or refines |
|---|---|---|
| `Lifecycle` | what any guarded status promises: create in an initial state, move along a graph | abstract |
| `Admissions` | applications, conditions, the auto-promotion backstop, the events | implements `Lifecycle` when requests do not overlap on an application |
| `Conversion` | `convertToStudent` with the services whose rows it writes | |
| `Registrations` | module registrations and the cascade of an enrolment | two services on one table |
| `Outbox` | what the emitter promises: outcomes are final, at most `Limit` processings | abstract |
| `Delivery` | `emitEvent` and `fireWithRetry` with the consumer and the network | implements `Outbox` |
| `Attendance` | the records of one student and the evaluations that outlive their requests | |
| `Assessment` | attempts and module results, the gate of a ratification | two services on each other's tables; implements `Lifecycle` for rows without a stale write |
| `Services`, `Records` | one descriptor per record service; the shape they share | `Records` runs any descriptor; implements `Lifecycle` when requests do not overlap |
| `Scripts`, `RootSeed`, `ServerSeed`, `RealmSetup`, `WorkflowSetup`, `Provisioning` | steps and references; each script as data; an operator who runs and repeats them | `Provisioning` INSTANCEs the scripts |
| `Roles`, `Routes`, `Access` | groups of roles; the guards of every router; a browser, the limiter, the token, the guards and the cache | `Access` composes five components |
| `Lists`, `Paging` | allow-lists and list functions as data; a walk through a list while rows change | |
| `MC*` | instances for TLC | |
| `*Proofs` | theorems and proofs about the module of the same name; `RecordsProofs` also about `Paging` | |

### Admissions

`status`, `stamped`, `removed` and `condition` are the columns that the rules
read; `req` is the requests in progress.  A PATCH is `PatchApplication` (read and
guard), `WriteApplication` (the unconditional write) and `Announce` (events
computed from the *old* read and the written row).  A condition's mutation
continues with `Evaluate`, and, if every live condition is satisfied, `Promote`
(the second read and guard inside `update()`) and `WriteApplication`.  Three
details of the source are kept: `getById` of an application also finds deleted
rows; `updateSchema` keeps the default `PENDING` of `createSchema`, so a body
without a status resets a condition (`ParsedStatus`); and a condition that is
moved is evaluated for its new application only.  `announced` and `offersMade`
are what a consumer knows.  The rest is history.  `excused` holds the reasons the
code itself gives for an application to stay unpromoted; `unannounced` the
applications whose last event is lost or crossed; `crossed`, `overtaken` and
`reverted` the exact races: an application written by a request that another had
overtaken, a request whose application was moved since it read or evaluated it,
one whose conditions were written since it evaluated them.
`Missing` is a row that was not created.  The applicant, documents, interviews
and references of an application take no part in its rules.

### Conversion

A student row is named by its person because `personId` is unique; a deleted row
keeps both unique keys (`Free`).  `enrolled` counts the live enrolments of a
person on a journey (programme and academic year), because no unique key limits
them.  `NextNumber` is `STU-<year>-<live students + 1>`, taken from a count, so
two requests can compute the same number.  `outrun` is history: the conversions
that found no enrolment where one was created since.  The enrolment and its first history
row are one transaction in the source and one action here.  Staff operations on
the same rows (`StaffOps`) are switched on per run.  POST `/students` cannot
create a row (its schema has no `studentNumber`, which is mandatory), and
`createWithPerson` is called by nothing.

### Registrations

`Register` is the prerequisite check, `CheckCredits` the sum of the credits,
`WriteRegistration` the insert or update by id.  A PATCH is checked again only
for what `update()` looks at: `NewModule` sees a module given as a relation
(`connect`, the form of the service's interface and its unit test) and not the
scalar `moduleId`, the form the HTTP schema lets through.  Bodies of both forms
are in the run.  `unqualified` and `uncounted` are the registrations that were
written past one of the rules in a way the code allows: by fields `update()` does
not look at, by a request whose row was written since it read it (`crossed`), or
on a sum that another write has made old (`outsummed`, credits only).  An update of an enrolment
is `PatchEnrolment`, `WriteEnrolment`, `FindActive` and one `CascadeOne` per
registration.  `results` stands for the marks behind `getPassMark` and
`PASSING_GRADES`.  The status of an enrolment is an input of the service (as its
unit tests use it); the present HTTP schema of enrolments does not carry it.

### Delivery

A chain is unsent, posting attempt *k*, backing off, writing its failure record,
or ended (confirmed, reported, lost).  `wire` holds POSTs that are under way,
also after their attempt timed out: the consumer may still `Process` them.  A
stop ends every chain in progress at once; POSTs that have left stay on the wire.

### Attendance

`rows` is the records of a student in the year of the current enrolment, deleted
ones included, since neither count looks at `deletedAt`, and those a PATCH moves:
the `place` of a record is what its `studentId` and `moduleRegistrationId` make
of it (here, in another year of this student, somebody else's), and a body may
name another.  A write that changes
the presence `Starts` an evaluation: a process of its own that finds the
enrolment, counts twice (in either order), reads the rules, looks for an open
alert and creates one.  The rate is rounded as `toFixed(1)` does.  `DueNow` is
the documented rule in one moment, written without the operators of the
evaluation.  `fresh` marks an evaluation under which nothing has changed;
`explained` and `excused` are history.  A PATCH that moves a record from or to the
student without evaluating this student sets `excused`.

### Assessment

An attempt holds its status, mark and grade; a result its status; `home` is the
registration of either.  A PATCH is a read with its guards and an unconditional
write, which may move the row to another registration (`Lands`); an attempt that a PATCH makes
complete is released by the request that saw it incomplete, a result that a PATCH
confirms is ratified by the request that saw it unconfirmed.  The confirmation
counts open attempts first, in a call of its own, at the registration the result
had when it was read.  `AbortRequest` ends a request at any of these points, also
between the write of a mark and its release.  `stale`, `late`, `lost` and
`bornComplete` are history: rows overwritten by a request that had read an older
version, attempts opened or moved there since a count, releases that ended with
their request, and attempts that a POST created complete.

### Services and Records

A descriptor says what tells one service from another: the values of the column
with rules, what POST and PATCH bodies may carry after zod, the value zod fills
into a PATCH without one, the graph, the moves that are announced, whether
`getById` hides removed rows and what `remove()` does.  `Records` models one row
of any service: the read, the write by id (removed or not), the audit row whose
failure is swallowed, the event, the stop of the process.  `trail` and `mirror`
are what a reader of the audit log and a consumer of the events believe; `carries`
says whether the event of a creation has the value in it, which that of a document
has not, so its consumer knows only that the row is there (`Told`).
Cases, finance, accommodation, HESA notifications, webhook subscriptions,
templates and all reference data are descriptors.

### Provisioning

A script is a sequence of calls; `Scripts` gives each kind of call its meaning
(a deletion that must succeed, one whose failure nobody notices, a creation that
is content with what exists, ...) and holds the references of the schema.
Foreign keys block a `wipe` while a table refers to it, or empty the table that
refers (`Doomed`), as `onDelete` says.  The operator starts a script from the
top; a call may fail before or after its effect; the application adds rows.
`failed` is the set of calls of this run that failed without stopping it; whether
the run has warned, skipped something or failed without a word follows from their
kinds.  A call that fails softly may have had its effect (the workflow was
created, the answer was lost), and what depends on it is left out all the same.
The activation of a workflow is a call of kind `ignore`: its failure is caught,
nothing is printed and the exit code is 0.
`CallFits` is the rule the order of the calls has to obey, from which the
theorems about the scripts follow.

### Access

One browser.  `page`, `search` and `hash` are the start of the client with its
time-out and the late answer of Keycloak; `Queued` and `Refreshing` are a request
in `failedQueue` and the one that refreshes.  On the server a request is `Sent`,
counted by `Hit`, perhaps `Expiring` (the second call to Redis), judged by the
guard of a route, looked up and remembered.  `redis` is the counter of a window;
`entry` the entry of the identity cache; `directory` the tables it mirrors.
Which guard a request meets is a choice among all guards of `Routes`, which is
the routers of `api/` as data.  Time is a tick; of each answer of the directory
only how long ago it was true is kept.

### Paging

`Lists` has one record per list function of the repositories: its allow-list, its
default and how a row leaves the list.  `Paging` walks through any of them in any
order the list accepts, asks for `limit + 1` rows after the cursor as
the list functions do, and lets others create, update, hide and erase rows
meanwhile.  `Sooner` compares the one field `safeOrderBy` returns and nothing else.
How ties come is a choice in each query: a page is one of the sets some order of
the ties puts first (`Firsts`), its cursor one of the rows some order puts last
(`Lasts`), and of the rows that tie with the cursor any may follow it (`Ties`).
Lists sorted by `id` have no ties.

What Prisma does with a cursor is outside `src/`, and these are the assumptions:
rows strictly after the cursor follow it, rows before it do not (`From`); `skip: 1`
drops the cursor row; an erased cursor has nothing after it; and a *hidden* cursor
(one the `where` of the list no longer lets through) has either the rows after it
less one, as if it were found in the table and `skip` dropped another row, or
nothing, as if it were looked for among the filtered rows (`Following`).  Both
outcomes are in the model, and the property depends on neither.

### Abstractions shared by all modules

* One Prisma call, its `include`s and the constraints the database enforces are
  one step; reads see every earlier write.
* Audit rows are state only in `Records` (the trail) and `Delivery` (the failure
  record, the only trace of an undelivered event); nothing else decides on them.
* Emission is one step; what happens to the event afterwards is `Delivery`.
* Authentication, roles and ownership come before the first action of a service;
  they are `Access`.

## 3. What is checked

| Run | Instance | Shows |
|---|---|---|
| `admissions_concurrent` | 1 application, 2 conditions, 2 overlapping requests; PATCHes to review and to each offer or without a status, conditions met and reset | decided implies stamped, no promotion missed, no event untrue and no promotion unjustified but by the races named, under every interleaving and abort |
| `admissions_serial` | the same rows, 1 request, every status, fairness | the table implements `Lifecycle`; an owed promotion happens |
| `conversion_retry` | 2 people, 2 requests, 2 aborts, manual enrolments, retrying clients | what is announced exists, conflicts are races, retries succeed |
| `conversion_overlap` | 1 person with 2 applications for one journey, 2 requests, 2 aborts, new year, enrolments by hand, withdrawals, deletions | a second enrolment only over one that appeared after the look-up |
| `registrations` | 2 registrars, 2 registrations, 2 modules of 60 and 80 credits, the second with the first as prerequisite; PATCHes to the second in both forms of the body; 1 enrolment suspended and resumed | credit limit and prerequisites passed only by fields nobody looks at or in a race; the cascade misses nothing and ends |
| `delivery` | 2 events, 3 retries, 1 stop | implements `Outbox`; duplicates bounded; no silent loss; every chain settles |
| `attendance` | 2 records, 1 PATCH (a mark, a move away, a move here), 2 evaluations, 1 mishap | alerts due are there, those there were due, duplicates are races |
| `assessment` | 1 attempt, 1 result, 2 registrations between which they move, 2 requests that may end anywhere | only stale writes leave the graphs; released and ratified once, released at all unless the request ends; a result that stays is ratified over no attempt that was open when counted |
| `records` | all 39 services, HTTP and code callers, 2 requests | trail and events end with the row; removed is out of reach; graphs followed |
| `provisioning` | 4 scripts, 2 faults, appeals and submissions added by the application | every call comes where the references allow it; scripts never trip over their own rows, end complete but for what failed without a word, converge |
| `access` | 2 requests, a student and a personal tutor, every guard, 1 fault of Redis | one refresh; a bound on staleness; guards and data scope agree; the limiter lets go |
| `paging` | every list, 3 rows, 2 values, ties in any order in each query, pages of 1, 2 writes | rows that stay are shown once, unless they tie with a cursor; all of them, unless the cursor had left the list |

Each property has a mutant in `PROJECT.json`: a plausible bug of a mapped
definition (`Mutant...`, next to the definition it replaces) under which TLC
finds the property violated.

### Bounds, and why they are enough

* **Two requests** (two registrars, two conversions of one journey): the races here
  are between a read and a write of one request and a write of another; a third
  request adds no new pair.  Theorems hold for any number.
* **One row per table** in `assessment` and `records`: services write one row by
  its id, and no rule relates two rows of one table.  `admissions_*` have two
  conditions because an evaluation quantifies over them: the last blocker and
  another one.
* **`MaxAborts`** 2: one per conversion, or two for one.  **`MaxEnrolments`** 2:
  a second enrolment is what the property is about; the count saturates, as
  `offersMade` does at 2.  **`MaxYear`** 1: a number is taken in one year and used
  in the next.
* **Two registrations, credits 60 and 80 of 120**: the first module fits twice,
  the second only once, and never beside the first, so two registrars who read
  the same sum exceed the limit.  One enrolment update at a time: two that overlap
  skip a cascade (section 5), which no property says they do not.
* **`MaxStops`** 1; **`MaxRetries`** 3 is the code's value.
* **`MinSample`** 2 of 2 records, where the code has 5: below and at the sample,
  with rates of 0, 1/2 and 1 on both sides of the default thresholds; the setting
  50 makes a rate equal its threshold.  Moves and deletions change what is counted
  without changing the table.  Each kind of mishap is a new independent excuse, so
  one is enough; that the visa ends is one of them, so both types of alert are met.
* **`MaxRequests`** 2 after the creation: one request that is overtaken and the
  one that overtakes it.
* **`MaxFaults`** 2 in `provisioning`: one answer may be lost and what depends on it
  fail as well, or the next run break off too; a third starts from a state the
  first two have made arbitrary already.  `Appeal` stands for the tables that no
  `cleanup()` deletes, `Submission` for those it does.
* **`TTL`** 0, **`MaxLookup`** 1, **`Horizon`** 2, **`Window`** 1, **`Max`** 1: an
  entry lives through the tick it was made in, a query may take one more, and
  the second request of a window is limited.  **`User`**: one who owns records and
  one who teaches; the other roles differ in the guards they pass, not in what
  happens behind them.  **`Portal`** one: the choice is stored and read as is.
* **Three rows, pages of one, two writes**: a cursor row, one before and one after,
  with equal and different keys; longer pages only move the cursor less often.  Two
  writes hide the cursor and change another row; the theorem has no bound.
* Statuses bodies carry are narrowed per run (`PatchedTo`, `ConditionTo`,
  `EnrolmentTo`, `Body`, `AttemptBodies`, `ResultBodies`, `Marks`, `Bodies`,
  `Visas`) to one of each kind; `admissions_serial` uses every application status.
* Symmetry is used only in runs without liveness (`admissions_concurrent`,
  `assessment`, `attendance`, `records`).
* The deadlock check is off where the system may stop: all events settled
  (`delivery`), all bounded changes made and nothing running (`attendance`,
  `assessment`, `records`, `paging`, `access`).

### Fairness

* `WF(Continue(r))`, `WF(ContinueUpdate(u))`: Node runs the continuation of every
  settled promise.  `Abort` remains possible, so no property promises that a
  request completes; they promise that what is owed is done or excused.
* `SF(Retry(a))` in `Conversion`: a client repeats a conversion that has not
  succeeded.  Strong, because its slot may be busy again and again.  The
  endpoint's documentation invites it.
* `WF(Timeout / Retry / LogFailure)` in `Delivery`: timers fire and awaited
  writes end.  Nothing is assumed of the consumer.
* `WF(Perform \/ LeaveOut \/ Refuse)` and `WF(Start)` until done in
  `Provisioning`: a script that runs goes on, and the operator repeats one that
  did not end well.  Nothing is assumed of the application; `Converges` has the
  premise that it stops adding rows that stay.
* `WF(Tick)` and `WF(Hit \/ SetExpiry \/ Remember)` per request in `Access`: time
  passes, Node goes on with what Redis and the database answered.  That anybody
  keeps asking is the premise of `BlockedIsReleased`.

## 4. What is proved

For every value of the constants, from the assumptions named in the modules, all
of which TLC evaluates.  `TypeOK` of `Conversion`, `Delivery`, `Attendance`,
`Assessment`, `Records` and `Access` is proved and not checked by a run.

| Theorem | Says | Invariant it rests on |
|---|---|---|
| `AdmissionsProofs!TypeCorrect` | `TypeOK` | with `RowsExist`: what a request or condition refers to exists |
| `AlwaysStamped` | `DecisionStamped` | `WritersKnow`: a request about to write knows that the decided status it read was stamped. A stamp is never taken back, so a stale read is harmless here |
| `NeverMissesPromotion` | `NoMissedPromotion` | with `AutoIsPromotion`; every step that can make an application satisfied leaves its own evaluation owed, and every step that discharges one has seen all conditions |
| `ApartImplementsLifecycle` | `Spec => FollowsGraph` if no two requests update one application at once | `ApartInv`, with `UpdatersKnow`: the row still has the status its writer read (the hypothesis is used only between that read and the end of the handler) |
| `EventsAreTrue` | `EventsTellTheTruth`, however requests overlap | `EventsInv`: a request nobody has overtaken still has the row it read and wrote (`UpdatersKnow`); an offer is announced once and, of an application no overtaken request wrote, never taken back to a status before it (`OffersCounted`); a status nobody was told of has its event on the way, lost or crossed (`ChangesPending`) |
| `PromotionsAreJustified` | `Spec => PromotionsJustified`, with nothing assumed of who writes in between | `PromotersKnow`: of a request no other has reverted, the conditions evaluated are satisfied still; with `UpdatersKnow` for the status |
| `ConversionProofs!TypeCorrect` | `TypeOK` | live students number at most the people, so a generated number is in range |
| `ConflictsAreRaces` | `ConflictMeansRace` if students are never deleted | `NumbersInv`: numbers in use are at most the count, the one a request holds is above what it saw |
| `AnnouncedIsThere` | `ConvertedIsEnrolled` if nothing is deleted | `ProgressInv`: what a later step relies on was established and stays |
| `SecondsAreRaces` | `Spec => SecondEnrolmentIsRace`, for any overlap, abort and staff operation | `SawNoneInv`: a request about to create still sees no enrolment, or has been outrun |
| `DeliveryProofs!TypeCorrect`, `DuplicationIsBounded`, `LossIsExcused` | `TypeOK`, `BoundedDuplication`, `NoSilentLoss` | `IInv`: processed plus under way is at most the POSTs made, whose numbers are all below the next one |
| `ImplementsOutbox` | `Spec => KeepsPromise` | the same, under the mapping `outcome`; a stop maps to `Lose` of a set |
| `RegistrationsProofs!TypeCorrect` | `TypeOK` | `WritesAreWhole`: a request on a row that does not exist yet names every field |
| `CascadeMissesNothing` | `NoMissedCascade` if no enrolment is updated between the read and the write of another update of it | `FreshRead`: the status an update compares with is the one it overwrites |
| `CreditCapHolds` | `CreditCap`, for any bodies and any overlap | `WritesFit`: once counted, and until another request writes to the enrolment, the other registrations of the place leave room for the one that will be written; a deletion or a cascade only takes credits away |
| `PrerequisitesHold` | `PrerequisitesPassed`, for any bodies and any overlap | `HeldAlone`, `WritesAreQualified`: a request that still sees its row and looks at all it writes (`Sees`) has judged the module against the enrolment the row will have |
| `AttendanceProofs!TypeCorrect` | `TypeOK` | `Filled`: a record that is there has a mark, and a PATCH is about one that is there |
| `Duplicates` | `DuplicatesAreRaces` | `Room`: alerts plus evaluations about to create one are no more than evaluations, because an evaluation goes on only while there is no alert |
| `Groundless`, `Missed` | `AlertsWereDue`, `NoMissedAlert` with fewer than 20 records | `Informed`: what a fresh evaluation holds are the values of now (`Consistent`), what is due is remembered (`Justified`), and somebody fresh is on the way or the alert is there (`Answered`). `RoundingIsExact` needs the 20, see section 5 |
| `AssessmentProofs!TypeCorrect` | `TypeOK` | with `Exists`: a request writes only rows that exist |
| `RatificationSafe` | `RatifiedHadNoOpenAttempt` | `Ratifiable`: what is open at the registration that was counted is what became open there since, wherever the result itself will land |
| `Completion` | `CompletedIsReleased`, though requests may end anywhere | `ReleaseInv`: the columns of a row only fill up, so what a request read is still there (`ReadsOld`) |
| `Moves` | `Spec => MovesFollowGraph` | `Passed`: what a request is about to write was let through by the guard for the version it read |
| `Announcements` | `AnnouncedOnce` | `AnnounceInv`: of a row no stale write touched, who announces it is the only one and nobody has |
| `MarksImplementLifecycle`, `ResultsImplementLifecycle` | `Spec /\ [](stale \cap E = {}) => Marks(E)!Spec`: the marks (results) of a set E that no stale write touches implement `Lifecycle`, whatever happens to the others | `Passed`, with the mapping `MarkStates`; a removed row keeps its state |
| `RecordsProofs!TypeCorrect`, `MovesFollow`, `Removal` | `TypeOK`, `Spec => MovesFollowGraph`, `Spec => RemovedIsOutOfReach` | `Admitted`: what a request holds was found and passed the graph when it was read |
| `Trail`, `Mirror` | `TrailEndsAtRow`, `MirrorEndsAtRow` | `Believable`: without overlap at most one request is past its write (`Alone`), and until it has told its result the belief is that of the row before; who has heard only of a creation that carries no value knows none |
| `RowsImplementLifecycle` | `Spec /\ svc = s /\ caller = c /\ []~overlapped => Served(s, c, G)!Spec`: a row of any service implements `Lifecycle` with a last state G for removal | `Admitted` and `Alone`: whoever writes had read the row as it is. From the descriptor s follow the first states (`BornAs`) and the moves (`MovesOf`): G has a way out only if `getById` finds removed rows and removal is a value |
| `AccessProofs!TypeCorrect` | `TypeOK`, and who is signed in has a token | with `SignedIn` |
| `OneRefresh` | `OneRefreshForAll` | `RefreshInv`: `isRefreshing` is set exactly while a request refreshes |
| `CacheIsRecent` | `EntryIsRecent` | `RecentInv`: an entry is not older than its age and one query, and neither is an answer on its way |
| `GuardsKnowTheScope` | `KnownToScope` | `PuzzledInv`: only the guard of a route answers that its caller is unknown, and only to a role for which it may (`Heard`, computed from `Roles` and `Routes`). `OnlyTutorsAreUnknown` says which role that is |
| `StayersAreSeen` in `RecordsProofs` | `PagingSpec => []StayersSeenOnce`, for any number of rows, keys and writes, any order of ties in each query and any size of page | `WalkInv`: the cursor is a row (`CursorIsRow`), and of the rows that stay and tie with no cursor none ahead of it was shown and, unless a page was asked for from a hidden row, each behind it was shown once (`WalkSound`) |
| `ScriptsNeverBlockThemselves`, `WellEndedIsComplete` in `RecordsProofs` | `OwnRowsNeverBlock`, `DoneIsComplete` if the calls are in order (`OrderFits`), for any tables of the application and any number of failures and lost answers | `ProvisioningInv` with `Prepared`: what is there is something a script of the family creates; what this run has deleted is there only if it has created it since, unless a call failed without a word; what its demanding calls made is there, and what the lenient ones should have made is there or a warning or a skip is |

Where the code lets a race or an unchecked field break a rule, the property names
that exception by a history variable that is set by the very step, and the theorem
assumes nothing: `EventsAreTrue`, `PromotionsAreJustified`, `SecondsAreRaces`,
`CreditCapHolds`, `PrerequisitesHold`, `RatificationSafe`, `Completion`.
They say that there is no *other* way; section 5 has the counterexamples, which a
run finds when the exception is taken out.

The others have a hypothesis.  `ApartImplementsLifecycle`, `CascadeMissesNothing`,
and the refinements of `AssessmentProofs` and `RecordsProofs` are about behaviours
in which no other update of the same row comes between the read and the write of
one (`UpdatesApart`, `stale`, `overlapped`): that is when a table *is* a lifecycle,
and no state can say afterwards which edge was skipped.  Everything else
interleaves freely there.  `ConflictsAreRaces` and `AnnouncedIsThere` exclude
deletions by staff, `Groundless` and `Missed` twenty records, where rounding
begins to matter.

`OrderFits` is of another kind: it has no variable and says of the four plans,
call by call, what `CallFits` says: a script deletes before it creates, empties
a table after the tables that keep it, and makes what a call refers to before
that call.  It is true of the plans of this code, and the run `provisioning`
checks all of it, at every call of every script (`CallIsInOrder`; a `cleanup()`
that forgets a table violates it).  The provers cannot take sequences of ninety calls
apart, so it is a hypothesis there.  What the proof adds is the part no list of
calls shows: that the order suffices, however often and wherever runs of either
seed were broken off before.  `Prepared` speaks of one call and the next, so
there is one lemma per thing that can happen to a call (`PerformPrepares`,
`LeaveOutPrepares`, `FailurePrepares`); that the two seeds are a family, and may
find what the other left, is in `Leftovers`.

The credits of a place are a sum, defined by a fold.  `SumIsCount` shows it to be
the number of points of a finite set, one point per credit of each registration,
from which it follows that a sum is monotonic and splits where sets do; no
induction over the fold is needed.

The proof about `Paging` never fixes an order of ties.  `FirstsAre` and `PageIs` say
all it needs of a page: it is a subset, nothing left out comes sooner than
something on it, and without a next page nothing is left out; that is true of every
set some order of the ties puts first.  `FollowingIs` is the heart: seen from a row
that ties with no cursor, what may follow the cursor contains the row if the walk
has still to come to it, and does not if it has come past it.

Only model-checked: the liveness properties (liveness under fairness and
`ENABLED` are outside what the prover does), and `CallIsInOrder`, which is about
the concrete plans: the instance TLC explores there is the system itself and not
a sample of it.

## 5. Where the code and its words differ

Found while modelling.  Each row of the table has a counterexample in the models;
the properties above hold because they name the exception, or because their run
leaves the case out.  In brackets: how to see it, where "without" means to take the
named excuse out of the property.

| Where | What happens |
|---|---|
| `applications.service.ts:154`, comment at `:18` | a PATCH that read `SUBMITTED` overwrites a `WITHDRAWN` written in between: terminal states are not final [`FollowsGraph` in `AdmissionsConcurrent.cfg` with `PatchedTo <- AnyPatch`, no symmetry]. The same holds of attempts, results and records [`MovesFollowGraph` without `stale`, in `Records` without the line of `previous`] |
| `applications.service.ts:294-313`, comment at `:269-271` | somebody promotes the application between the two reads of the backstop; its own `update()` then moves nothing, and `application.offer_conditions_met` is announced for a decision made by hand [`EventsTellTheTruth` without `overtaken`] |
| `applications.service.ts:294`, comment at `:272-274` | a condition reverted between the evaluation and its write does not stop the promotion [`PromotionsJustified` without `reverted`] |
| `applications.service.ts:155-230` | two overlapping updates: the offer of one that another had overtaken is announced again, or the last event to go out is not that of the last write [`EventsTellTheTruth` without `crossed`, `unannounced`] |
| `offers.service.ts:118`, comment at `:112-117` | moving the last blocking condition away leaves the old application satisfied and unpromoted [`NoMissedPromotion` without `excused`] |
| `applications.service.ts:443`, `:320-323` | two overlapping conversions for one journey create two enrolments [`SecondEnrolmentIsRace` without `outrun`] |
| `applications.service.ts:423`, `docs/KNOWN_ISSUES.md:32` | after a student row is soft-deleted, its person can never be converted again [`RetriesSucceed` in `ConversionRetry.cfg` with `StaffOps = {"remove_student"}`] |
| `module-registrations.service.ts:118-126`, schema `:24-30` | a PATCH with a scalar `moduleId`, the only form HTTP lets through, is judged neither for prerequisites nor for credits, which the comment says it is [`PrerequisitesPassed` without `unqualified`, `CreditCap` without `uncounted`] |
| `module-registrations.service.ts:95` | two overlapping creations both read the old sum and together exceed the credit limit [`CreditCap` without the part of `outsummed` in `uncounted`] |
| `enrolments.service.ts:68` | two overlapping updates of one enrolment both read before either writes, and the cascade of the second is skipped [`NoMissedCascade` with two `EnrolmentRequest`s] |
| `module-results.service.ts:129`, `:134` | a PATCH that names another registration and `CONFIRMED` counts the attempts of the old one and ratifies over open attempts of the new, with no race at all [`RatifiedHadNoOpenAttempt` without the line with `Lands`] |
| `marks.service.ts:178-227` | a request that ends between the write that completes a mark and the release: nothing releases the mark later [`CompletedIsReleased` without `lost`] |
| `attendance.service.ts:212-214`, `attendance.schema.ts:22` | a PATCH that names another student or registration with the status the record has changes two rates, and nothing is evaluated: the comment thinks of "cosmetic" fields only.  One that also changes the status evaluates the new student and never the old [`NoMissedAlert` without `excused`] |
| `pagination.ts:82` | `orderBy` is one field, mostly not unique, without a tie-breaker.  If ties come in another order in the next query, a row that stays is skipped or shown twice and the walk may never end, with no write by anybody [`StayersSeenOnce` without `tied`] |
| `pagination.ts:44` | the cursor row is hidden between two pages: `skip: 1` drops a row nobody saw, or the page is empty and the walk over, depending on how Prisma looks for the cursor [`StayersSeenOnce` without `slipped`] |
| `provision-n8n-workflows.ts:99-107` | an activation that fails is caught and returns false: no warning, exit code 0, and the workflow stays inactive [`DoneIsComplete` without `unheard`] |
| `client/src/lib/auth.ts:217-221`, `AuthContext.tsx:78` | the portal chosen before signing in is removed from the address before it is read, so the choice is lost [`Cleaned` before `Chosen` in `KeycloakAnswers`] |

Others are in the definitions as the code has them:

* `updateSchema = createSchema.partial()` keeps defaults, so a PATCH without a
  status sets it back (conditions, attendance, and the services whose descriptor
  has a `fill`); the schemas of appeals, claims, documents, finance, support and
  enrolments strip the status, so over HTTP it never moves.
* `document.uploaded` (`documents.service.ts:36-47`) carries no
  `verificationStatus`, though code may create a document with any: a consumer
  knows the status of a document only from the first change.
* A removed webhook subscription comes back by a PATCH that leaves its flag out;
  UKVI's `getById` finds deleted rows.
* The attendance rate is compared after rounding to a tenth of a percent.  From 20
  records on a rate just below a threshold can be rounded onto it, and no alert
  follows (17 of 21 is 81.0, not below 81; with the default thresholds it takes
  hundreds); that is why two theorems speak of fewer than 20.
* Two seeds create the same rows, and neither deletes appeals, claims or awards: an
  installation that has them cannot be seeded again.  The answer to the Keycloak
  mapper is not looked at.
* Of the rate limiters only `apiLimiter` stands before a route with a handler.
* `StudentList` sorts by a field the allow-list does not have and gets
  `createdAt`; pages that show one page at a time keep their cursor when the
  order changes.
* `admissions_tutor`, and of all roles only this one, passes guards whose data
  scope does not know it.
* The identity cache drops an entry only when its user returns, so its size has
  no bound.
* A PATCH of a mark to `MARKED` on a `PENDING` attempt is refused with 422.

## 6. Not modelled

* **Students, enrolments**: a PATCH that names another person, programme or year.
* **Communications**: sending is a placeholder that always succeeds; nothing says
  what should happen to a log row that stays `PENDING`.  Templates and
  notifications are descriptors of `Records`.
* **Authentication**: the cryptography of a token, the key of the internal
  service.
* **Paging**: totals, filters, NULL keys, and what Prisma does beyond the
  assumptions of section 2.
* **HESA snapshots**: called by nothing; a trigger protects the rows.
* **Order of events**: a retried event can overtake a later one.  The code promises
  no order, and the repository has no consumer to check against.
* **Reports, dashboards, calendar, timetable**: read-only.  **Request plumbing,
  server start**: no state.
* **Pages of the client** other than signing in, requests and lists: they render
  what the API returns and decide nothing the server does not decide again.
* **n8n workflows**: JSON run outside this repository; the consumer of `Delivery`
  stands for them.  **Database schema**: its enums, keys and defaults are in the
  definitions that use them.

## 7. What could follow

The theorems of `Conversion` with deletions of rows allowed (`ConflictMeansRace`
needs what a deletion does to the count as a history); `OneRefreshForAll`
over several tabs, once the client shares a token between them; the order of
events, once a consumer is in the repository.
