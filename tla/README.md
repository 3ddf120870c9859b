# A verification project for PayrollCheck / PeopleOps

TLA+ models of the parts of the backend where order matters: the background
queue that validates a payroll month and the history of runs it writes, the
findings those runs report and the sign-off of the month, the digests that say
whether a run is still current, and the services around them that drain queues,
deliver events, keep dated versions, check pay over several months or let people
in. TLC checks the models on small instances; TLAPS proves the central theorems
for every instance (section 4 lists them).

Paths below are relative to `src/backend/app/` unless they start with `docs/`.

## 1. The system

A company (entity) uploads a salary register for a month and has it validated.
Validation is a job in a table, taken by a worker thread or process; it writes a
run, and the run's findings move the rows people work from. When the month is
ready somebody submits it and somebody else signs it. Registers and masters also
arrive through Integration Studio, whose imports, syncs and workflows are a second
queue drained by the same workers; what happens there is told to other systems
through an outbox.

| Component | State | Operations | Interacts with |
|---|---|---|---|
| Validation queue (`services/validation_jobs.py`) | `validation_jobs` | enqueue, claim, heartbeat, succeed, fail, request_cancel, mark_cancelled, submit_for_period | worker, API |
| Validation worker (`services/validation_worker.py`) | its session | run_once, execute, loop | queue, run history, engines |
| Run history (`services/finding_store.py`, `models/findings.py`) | `validation_runs` | record_run, current_run | worker, synchronous endpoint, sign-off |
| Finding lifecycle (`services/finding_store.py`, `services/issues.py`, `routers/findings.py`) | `finding_states`, `finding_state_events`, `finding_records` | _reconcile_states, set_state, decide, expire_waivers, worklist, bulk | record_run, people, sign-off |
| Sign-off (`services/signoff.py`, `services/approvals.py`, `routers/signoff.py`) | `period_signoffs`, `signoff_events`, the approval policy | submit, sign, reopen, readiness, set_policy | run history, findings, input digests |
| Input digests (`services/run_inputs.py`, `services/input_revisions.py`) | `input_revisions`, `input_digest_cache` | input_digests, run_freshness, the flush hooks that move the tokens | every writer of an input, worker, sign-off |
| Synchronous validation (`routers/payroll.py`) | none of its own | validate_payroll | run history, input digests |
| Report jobs (`services/report_jobs.py`, `routers/report_builder.py`) | `report_jobs`, schedules | enqueue, claim, run_once, schedule_due, cancel, retry, cleanup | API |
| Studio runs, imports, syncs (`services/studio/runs.py`, `imports.py`, `sync.py`, `worker.py`) | `studio_runs`, records, rejections, checkpoint | create, claim, process, finish, request_cancel, retry_rejected, reset_checkpoint | ingest, outbox, workflows |
| Studio workflows (`services/studio/workflows.py`) | workflow runs, steps, fires | fire, on_event, start_manual, process, _fail, cancel | syncs, validation queue, outbox |
| Events and webhooks (`services/studio/events.py`, `webhooks.py`) | outbox, webhooks and their secrets, deliveries, inbound endpoints and receipts | emit, fan_out, deliver_due, replay, update, rotate_secret, receive | remote receivers and senders, workflows, imports |
| Service accounts and keys (`services/studio/credentials.py`, `integration/deps.py`) | accounts, keys | create_account, update_account, issue, rotate, revoke, authenticate | every call of the integration API |
| Idempotency (`services/studio/idempotency.py`) | reserved keys | begin, finish, abandon, purge_expired | every write of the integration API |
| Releases and mappings (`services/studio/profiles.py`, `releases.py`) | mapping versions, releases | draft, publish, retire, submit, decide, promote, rollback | imports |
| Support access (`services/support_access.py`) | policy, grants | set_policy, open_grant, approve, end, active_grant | staff requests |
| Invitations and membership (`services/invitations.py`, `services/tenancy.py`, `routers/org.py`, `deps.py`) | invitations, memberships, roles for single companies, each member's default company | create, resend, revoke, accept, change_role, remove_member, update_member, update_company_role, select, default_entity | every request |
| Sessions (`routers/auth.py`, `services/auth_security.py`) | users' session version, refresh tokens, reset links, recovery codes | login, second factor, refresh, logout, end sessions, change or reset a password, enable or disable a factor | every request |
| Migrations (`migrations.py`, `database.py`) | the schema, legacy users and their rows | apply_column_patches, run_migrations | every boot of the API and the workers |
| Company rules (`services/validation_matrix.py`, `routers/validation_matrix.py`) | dated rule versions | draft, submit, publish, retire, published_for, conflicts, outcome | engines |
| Statutory configuration (`routers/statutory_config.py`, `services/config_service.py`) | the base row and its tax years, dated versions | save, reset, upsert and delete of a tax year; create, update, publish, withdraw, version_in_force | engines, run history |
| Validation engines (`services/validation.py`, `increments.py`, `pf_engine.py`, `esic_engine.py`, …) | read-only, over registers, masters and months back | validate_employees and the checks it calls | worker, synchronous endpoint |
| Coverage (`services/coverage.py`) | read-only | employee_outcomes | run history |
| Costing and analytics (`services/costing_store.py`, `cost_model.py`, `analytics.py`) | stored costings | build, look up; six pages | registers, statutory configuration |
| Retention and erasure (`services/data_protection.py`) | policies, passes, erasures | run a pass, erase a person | everything personal |
| Rule packs and connections | one row each | switch, seal | API |
| Parsing, reports' contents, frontend | none | pure functions, rendering | |

What makes it hard:

* **Nothing is locked across a handler.** Production is PostgreSQL at READ
  COMMITTED; a session's UPDATE writes the columns that differ from what it read
  (SQLAlchemy's unit of work), and no row carries a version. Two sessions that
  read the same row can each write half of what they meant.
* **The lease is not a lock.** A worker that is silent for its lease is
  presumed dead. If it is only slow, two workers run one job. This holds for all
  three queues, each with a claim of its own.
* **Some steps commit early.** `persist_salary_register` commits inside the
  transaction of the import that called it; an event is emitted with the work
  and dispatched after it; a remote receiver hears before the row says so.
* **Several writers of one history.** Workers, a second holder of the same job
  and the synchronous endpoint all write `validation_runs`; partial unique
  indexes are the only arbiter.
* **Months out of order.** A finding has one row across months, and months are
  validated, and validated again, in any order; rules and configurations are
  looked up by the month, not by the day.
* **A request reads the month several times** before its one commit.
* **A cache whose answer must never be old.** Digests are filed under a revision
  read before the rows, from a session that does not see what others have open.

What makes each component correct, in words: a month has one live job and one
answer; no run is lost, and a job and its runs agree; a finished job stays
finished; every job ends; a finding that is still there stays on the worklist, a
waived one is waived on the record and not for ever; what was signed is what was
ready and is kept; a run that counts as current was made of the inputs as they
are; a checkpoint never runs ahead of what was stored; a workflow's step takes effect
once, and its run ends; an event reaches whoever asked for it, at least once and
not for ever; a retried write takes effect once; a closed door stays closed; an
organization keeps an owner; an old month keeps the rule that applied then; whoever
was paid less than was due is in a finding; a check that passed was made; six pages tell
one story; what is erased stays erased.

## 2. The modules

| Module | Models | State |
|---|---|---|
| `RunLedger` | The abstract promise of the run history: each month has at most one answer; a new run replaces it and it becomes history. | `answer`, `history` |
| `ValidationQueue` | Queue, worker and the run rows, composed: they share transactions, so they share a module. Implements `RunLedger`. | `job` (`validation_jobs`), `runs` (`validation_runs`), `wk` (each worker's place in `run_once`/`execute` and what its session read), `cancelling` (cancel requests between check and UPDATE), `sync` (synchronous validations between read and commit), `crashes` |
| `FindingLifecycle` | Findings across months; requests read first and write later. Each run has one session, so they do not overlap there. | `row`, `events`, `observed`, `current`, `today`, `ses` |
| `SignOff` | One month's sign-off while the month changes. | `inputs`, `run`, `finding`, `policy`, `row`, `events`, `req` |
| `InputDigests` | One input: writers that flush, run bulk statements, commit and roll back; the tokens they move; sessions that fill and read the cache; runs and pages. | `content`, `token`, `drawn`, `tx`, `cache`, `ss`, `runs` |
| `StudioImports` | The studio queue, its workers, imports, registers, syncs that read their source page by page while it changes, retries of rejected records, and the checkpoint. | `run`, what is stored and rejected, the checkpoint, `wk`, cancel requests, `slipped` (history) |
| `StudioWorkflows` | One workflow run, step by step, with the sync or validation a step waits for. | `run`, `child`, `wk`, the effects of the steps |
| `StudioAutomation` | The outbox, the dispatchers in their transactions, and the workflows events start, which cause events. | `event`, `run`, `fires`, `inputs`, `tx` |
| `StudioDeliveries` | Deliveries to a webhook: batches, attempts, failed queue, replay; its secret under rotation and the receiver that checks it; calls at an inbound endpoint. | `delivery`, `wk`, `heard`; `hook`, `read`, `receiver`; `call`, `receipt`, `taken`, `answered` |
| `StudioRequests` | Idempotency keys under overlapping retries. | `record`, `rq`, `made`, `today` |
| `StudioReleases` | Mapping versions of a company and the releases that carry them. | `version`, `rel`, `later` |
| `ReportJobs` | The report queue, its schedule, and the expiry of files. | `job`, `wk`, `asked`, `access`, `schedule`, `crashes` |
| `PayRevisions` | Revisions of pay, the months paid meanwhile and their arrears, and what a validation says of them. | `ctc`, `register`, `run` |
| `ProvidentFund` | The month the PF ceiling changes, its blend by days and its recovery a month later. | `settings`, `register`, `found` |
| `EsicPeriods` | Who is covered over an ESIC contribution period, told by earlier registers. | `register`, `newest`, `run`, `again` |
| `CheckRegistry`, `CheckCoverage` | What each check needs before the engine makes it, and the outcomes coverage derives from the registry's list of the same. | `rule`, `off`, `seen`, `facts`, `emitted`, `outcome` |
| `StateSlabs` | Dated slabs of PT and LWF, as saved, and as validation, cost and seeds look them up, each in the state it takes an employee to be in. | `scheme`, `rows`, `listed` |
| `CostBooks` | Stored costings and the digest they are filed under, while its ingredients change. | `made`, `published`, `turns`, `book`, `req`, `worked` |
| `PayAnalytics` | Six pages that add up the same registers. | `register`, `uploads` |
| `DataProtection` | What is held and for how long; a retention pass, an erasure, an import and a validation that overlap. | `holds`, `job`, `import`, `report`, `erasure`, `policy`, `pass`, … |
| `WorkflowDefinitions` | One workflow's working copy and the version in force, under overlapping requests and releases. | `wf`, `reqs`, `published`, … |
| `Membership` | Seats, roles and companies of an organization's members under overlapping requests; which company a request means, remembered aside and at the request's commit. | `seat`, `override`, `active`, `archived`, `data`, `rq`, `raced` |
| `Sessions` | One person's session version, refresh tokens, links and codes, under overlapping requests. | `user`, `tokens`, `links`, `reqs`, `spent`, … |
| `Migrations` | Two processes of a new release booting on an older database, while the older release still writes. | `schema`, `users`, `orgs`, `rows`, `config`, `boot` |
| `StudioKeys` | A service account, its keys and what they let in, under overlapping requests, while companies change. | `company`, `account`, `key`, `rq`, `call`, `now`, … |
| `SupportAccess` | The policy for staff sessions and the sessions, with overlapping requests. | `policy`, `grant`, `rq`, `raced`, `closed` |
| `Invitations` | Invitations of one address and the seat they lead to, with overlapping requests. | `inv`, `seat`, `drawn`, `rq` |
| `RuleVersions` | Dated versions of a company's own rules, and what may be published beside what. | `rule`, `extended` |
| `RuleEvaluation` | What such a rule concludes for an employee, in three-valued logic, while inputs arrive. | `rule`, `row` |
| `ConfigVersions` | The base configuration under overlapping saves, and what they put on record; dated versions and the months a change makes stale. | `base`, `rq`, `onRecord`; `version`, `validated`, `told` |
| `MCMonth`, `MCAfterwards`, `MCServices`, `MCAccess` | Components that share no state, side by side: a behaviour is a behaviour of one of them. The component whose properties are asked by its own names is EXTENDed, the others are instances. | `part` and theirs |
| other `MC*` | Finite instances for TLC. | |
| `ValidationQueueProofs`, `SignOffProofs`, `StudioWorkflowsProofs`, `StudioImportsProofs` | Theorems about the module each is named for. | |
| `MonthProofs`, `AfterwardsProofs`, `AccessProofs`, `ServicesProofs` | Theorems about `MCMonth`, `MCAfterwards`, `MCAccess` and `MCServices`, and their parts. | |

**A step is one transaction, or the reads between two.** In `ValidationQueue`
the worker's actions follow the commits of the code: `ClaimSelect` and
`ClaimUpdate` (the select and the guarded UPDATE of `claim`, apart because SQLite
has no SKIP LOCKED; on PostgreSQL the row lock makes them one, which is one of
the interleavings checked), `Begin` (commit `loading`), `Load` (commit
`validating`), `Progress`/`LastProgress` (each call of the progress callback
commits a heartbeat and re-reads the job), `ReadRuns` and `Record` (`record_run`
reads, then one commit holds the run, the findings and the job's success),
`Throw` (any exception), `Reread` and `Close` (the handler of `run_once`),
`Crash`. `Flush` is the unit of work: the columns that changed over what the row
holds by then. `IndexRefuses` and `RunRefused` are the two partial unique
indexes.

The other modules follow the same rule. `FindingLifecycle`, `SupportAccess` and
`Invitations` split each request into its reads and its commit; `Seen`, `Unseen`
and `New` are the three branches of `_reconcile_states`. `SignOff` splits a request at
each point where it reads the month again. `InputDigests` splits a computed
digest into reading the revision, reading the rows and writing the cache aside, and a
writer into its flushes and its commit. `StudioImports` splits a run at its
claim, at each page a sync asks its source for, at each look for a cancel, at the
register's early commit and at its final one. `StudioAutomation` keeps each dispatcher's transaction as uncommitted
rows, and makes a second writer of a fire key wait for the first.
`StudioDeliveries` separates the send, which the receiver hears, from the commit that
records it, and an inbound call at its look for a receipt, at the insertion of its own,
which waits for one that is not committed, and at its commit. `Membership`, `Sessions`,
`StudioKeys`, `WorkflowDefinitions` and the base of `ConfigVersions` split each request
into what it read and the columns it writes. `Migrations` has one statement, with its
transaction, per step. Where the model has one request at a time (`RuleVersions`,
the versions of `ConfigVersions`, `StudioReleases`), its header says so.

Data is abstracted to what the properties tell apart: a heartbeat is fresh or
stale, a register's content is a set of findings, a snapshot is an identity, the
run it shows and whether a blocking finding was outstanding; an input is the
number of transactions that changed it, and a digest the content it is of; a
record of a source system is an employee and a version; a mapping, a webhook or
a configuration is an identity. The engines appear as "any findings, or an
exception".

**Not in the models, on purpose.**

* Deleting a register or a company (which takes its jobs with it), the engine
  version as a cause of staleness, assignment, comments and attachments of
  findings, waivers stored before waivers had to end, and the number of suppressed
  rules (folded into whether a run blocks).
* In `InputDigests`: content that changes while a run reads it and is changed back
  before its digest is taken.
* In `StudioImports`: full syncs and the deletions they report, dry runs, purged
  payloads, and sources that break the protocol: every record is on some page while it does
  not change, and a change has a newer mark than all before it. In `StudioWorkflows`: conditions that skip a step. In `StudioDeliveries`:
  what a signature is computed of (a secret is an identity), and the clock's tolerance.
* Overlapping requests on rule, mapping and dated configuration versions, and two
  overlapping requests on one sign-off.
* In the engines: amounts of tax, bonus and gratuity, attendance arithmetic, labour
  codes, formulas and one-time inputs. In `Migrations`, two additive steps stand for
  nine. In `Membership`: names, plans and settings of an organization, and a company that loses
  its last register. In `StateSlabs`: an employee's state is the same in the master and on the
  register and is spelt alike, though validation asks the master first and takes any spelling while
  the cost takes the register's own row.
* Parsing, the mapping language, the contents of reports, connections, rule packs and the frontend: pure functions over one row, rendering or
  one-row updates, where examples reach what matters. They are a large part of the
  code by lines.

## 3. What the runs check

| Run | Instance | Shows |
|---|---|---|
| `queue_slow` | 2 workers, 1 month, 2 jobs, 2 attempts, slow workers, 1 synchronous validation | `OneActivePerPeriod`, `RunHistoryIsAChain`, `JobPointsAtItsNewestRun`, and refinement of `RunLedger` (`KeepsTheLedger`) |
| `queue_prompt` | 2 workers, 2 months, 2 jobs, 1 crash, fairness | `OneHolder`, `RunsOnlyFromSuccess`, `TerminalIsFinal`, and the liveness property `EveryJobEnds` |
| `workflows` | 2 workers, sync then notify then validate, 1 retry, 2 attempts, 2 children, 1 crash, fairness | `EachStepTakesEffectOnce`, `NoOrphanChild`, and the liveness property `EveryRunEnds` |
| `services` | nine components or halves of one, one at a time | the properties of the first table below |
| `month` | imports, four checks of one employee, coverage, sign-off, one at a time | the second table |
| `afterwards` | digests, findings, costings, pages, retention, slabs, one at a time | the third table |
| `access` | membership, sessions, keys, invitations, support, migrations, workflow definitions, one at a time | the fourth table |
| `lifecycle_signer` (`FindingLifecycle` itself) | 1 finding, 3 months, 4 days, 1 session | *violated*: an earlier month validated after a later one hides the finding both report from its signer |
| `signoff_signed` (`SignOff` itself) | 2 people, 1 request, 2 digests, 2 runs, 4 events | *violated*: submitting a signed month overwrites what was signed |
| `imports_cancelled` (`StudioImports` itself) | one register, one worker, one cancel | *violated*: a register cancelled while it runs stays stored under a run that says nothing was |
| `digests_endpoint` (`InputDigests` itself) | 2 writers, 2 sessions, with the synchronous endpoint, which digests last | *violated*: inputs that change between its reading and its digests count as read |
| `months_stale` | full months, a period of 3 | *violated*: a register of months back uploaded again changes what a current run would find |

| Part of `services` | Instance | Shows |
|---|---|---|
| Report jobs | 2 workers, 2 jobs, 2 attempts, 3 claims, 1 crash, 1 due schedule, prompt workers | `GeneratedFilesStay`; its share of `NothingWaitsForEver` (liveness) |
| Outbox and workflows | 2 dispatchers, 2 workflows that feed each other, depth 2, 2 inputs, 3 events, 1 rollback | `ChainsEndAndFireOnce`; its share of `NothingWaitsForEver` |
| Deliveries | 2 workers, 2 deliveries, 2 attempts, 1 crash, a webhook switched off and on | `HeardAtLeastOnceAndNotForEver`; its share of `NothingWaitsForEver` |
| Secrets and incoming calls | 3 secrets, 2 rotations at a time; 3 calls with one event, 2 at a time | the rest of `HeardAtLeastOnceAndNotForEver`: `SignedForItsReceiver`, `TakenOnce` |
| Idempotency | 3 requests under one key, 2 bodies | `AtMostOncePerKey` |
| Releases | 2 mappings, 3 versions, 1 release, 1 rollback | `RollbackRestores` |
| Rule versions | 2 keys, 2 demands, 2 months, 3 versions | `MonthsKeepOneRule` |
| Verdicts | rules of every kind of operand, comparison, group and scope | `DecidedStaysDecided` |
| Configuration versions | 3 months, 3 versions | `AffectedAreWhatChanges` |
| Base configuration | 2 requests of 2, 2 columns of 2 fields and 1, 2 tax years | the rest of `AffectedAreWhatChanges`: `UntouchedStaysAsWritten`, `RecordsAddUp`, `PreferredYearIsThere`, `OtherYearsStay` |

| Part of `month` | Instance | Shows |
|---|---|---|
| Imports | 1 worker, 2 employees, 2 runs (import, sync or register), 2 changes at the source, 2 attempts, 2 claims | `SyncsLoseNothing`: the checkpoint stays behind the data but for what slips between two pages, ends are announced, a retry of what was rejected removes nobody |
| Takeovers | 2 workers, 1 employee, 2 runs (import or sync), 2 changes at the source, 2 attempts, 2 claims | the same |
| Revisions of pay | months of 2 days, 3 rates, 3 months, 2 revisions | `WhatIsOwedIsReported` |
| Provident fund | months of 2 days, the ceiling goes from 4 to 8 on the third, a company's own 6, 10 or none, wages 3, 5 and 9, 4 months | `WhatIsOwedIsReported` |
| ESIC periods | a period of 3 months of 2 days, ceiling 4, 6 kinds of row, 4 months, 1 uploaded again | `WhatIsOwedIsReported` |
| Outcomes | every check of the registry with every combination of what it needs, and an input that arrives in between | `PassedMeansChecked` |
| Sign-off | 2 people, 1 request, 2 digests, 2 runs, 4 events | `TrailIsAChain`, `SnapshotIsNoOlderThanItsReadiness` |

| Part of `afterwards` | Instance | Shows |
|---|---|---|
| Digests | 2 writers, one session after another, tokens up to 3, digests taken before the reading | `DigestsAreOfTheirTime`, `NeverCallsAStaleRunCurrent` |
| Findings | 1 finding, 2 months, 4 days, 1 session | `NothingGoesUncounted`, `WaivedIsOnRecord`, `RunsResolveOnlyWhatStopped` |
| Costings | 2 requests, each ingredient changes once, 2 versions that come and go, 2 stored books | `BooksAreOfTheirTime` |
| Pages | 2 employees, February to April, 3 kinds of pay, 2 uploads | `PagesAgree` |
| Retention | 2 months, periods of 1 and 2, 3 further events | `DataIsKeptAsAgreed` |
| Slabs | 5 drafts, 3 months, wages 0, 3 and 5; 2 slabs of the product's and 2 of the reference (all in `MCAfterwards`) | `DuesFollowTheirSchedule` |

| Part of `access` | Instance | Shows |
|---|---|---|
| Membership | 2 people, 2 companies, owners and managers, 2 requests at a time, 4 changes | `AlwaysAnOwner`, `DefaultsStay` |
| Sessions | 2 requests at a time of 5, 3 pairs of tokens, 1 link | `SessionsEndForGood` |
| Invitations, support | 2 requests, 3 invitations, 3 tokens; 2 staff sessions | `ClosedStaysClosed` |
| Keys | 1 scope, 3 keys, 4 requests, lives of 1, 1 change of a company | the rest of `SessionsEndForGood` (`EndedKeysStayEnded`, `CallsStayInTheirEnvironment`) and of `ClosedStaysClosed` (`NeverWiderThanItsMaker`, `OneSuccessor`) |
| Migrations | 2 processes, 1 crash, 1 row of the older release, both dialects | `UpgradesLoseNothing` |
| Definitions | 3 definitions, 3 requests, two at a time | `FlowsAreAsPublished` |

**The violated properties** each quote a sentence of the repository; PROJECT.json
names the line that disagrees. They are disagreements between what the code says
and what it does; whether the code or the sentence should change is for its
owners. Others were met on the way and have no run of their own:

* Queues: with slow workers a finished job can be queued again by a worker that
  lost its lease (`models/validation_job.py:53` calls terminal states final); a job
  whose worker dies each time is taken over past `max_attempts`
  (`docs/BACKGROUND_JOBS.md:429`).
* Findings: validating an earlier month again counts it twice
  (`models/findings.py:260`); two overlapping decisions can leave a waiver without
  an end.
* Imports: a record that changes on a page a sync has read, while it reads on, falls behind
  the newest mark of the later pages, and no incremental sync fetches it before it changes again
  ("the checkpoint can never get ahead of the data it describes", `services/studio/sync.py:333`;
  pages are separate requests, `services/studio/connections.py:404-455`). A sync in flight writes over
  a checkpoint that was reset meanwhile.
* Checks: of the 118 checks a validation makes, the coverage registry's entries for 69 ask for
  less than the engine goes by, so that they pass on some employee they were never made of
  (`CheckCoverage` names the other 49, `Complete`); of two
  revisions recorded at once only the newer is compared; a company's own PF ceiling
  between the statute's two is never asked for the recovery; the cost of a month looks
  the slab up by its first day, the validation by its last, and where the list of states leaves an
  employee's state out, or none is known, the cost takes the first that is listed
  (`cost_model.py:351-352`, `398-402`) and the validation her own or none; an
  import of minimum wages updates the last of duplicate rows while the lookup takes the
  first (`services/minimum_wage.py:139`).
* Migrations: two boots that overlap may give one legacy user two organizations; on SQLite
  a re-keying cut short is not repeated (`migrations.py:12`), and orphan rows make
  every boot fail (`migrations.py:428`).
* Membership and sessions: a choice of a company that is made while a request of the same person
  lands is overwritten by it, aside or at its commit (`services/tenancy.py:190-195`; "a choice they
  made never moves", `models/org.py:145`); two owners who step down at once leave nobody; removing a
  member leaves her roles for single companies; two overlapping ends of all
  sessions raise the version once.
* Studio: a release leaves the next run of a workflow as it was, so a promoted
  schedule on an active workflow never comes due (`services/studio/workflows.py:57`);
  overlapping edits may put one person's name on another's definition; a
  publication that overlaps an edit may leave a changed draft marked unchanged.
* Keys: `_check_companies` asks for the management of every company an account names, so once
  one of them is archived nobody can revoke its keys, though "revocation is immediate"
  (`services/studio/credentials.py:18`); two rotations that overlap can lengthen a key's
  life and leave a successor that no row names.
* Webhooks: two rotations that overlap leave one of the secrets shown once signing nothing; a
  second rotation within an overlap ends the first; a webhook that is switched off is
  still sent what was queued.
* Configuration: a draft edited while it is published changes a published version
  (`models/statutory_config.py:58`); a save of one section neither keeps the stored
  form of what it did not change nor records its change (`routers/statutory_config.py:72-95`);
  of two overlapping saves of one column the earlier is lost though both are on record.

**Exceptions inside properties.** Where overlapping requests are known to break
a promise the property names them instead of forbidding them: a staff session opened by a
request that overlapped the closing (`OffMeansOff`), an invitation by a request that
overlapped a later one (`LaterSupersedesEarlier`), a retirement that moves an end
date later and so brings two rules together that were published apart
(`NoMonthContradictsItself`), requests that overlapped when an owner's role was
taken away (`AlwaysAnOwner`), a choice that is made while a request of the same person is
landing (`DefaultsStay`), a record that changes on a page already read while a sync reads on
(`SyncsLoseNothing`), the kinds of request that race for one column of a
workflow (`FlowsAreAsPublished`), requests that overlap what ends the sessions
(`SessionsEndForGood`). `DuesFollowTheirSchedule` compares the cost of a month with its
validation where the settings plainly set the state (`PlainlySet`), `PassedMeansChecked` is asked of the checks in
`Complete`. `GeneratedFilesStay` is asked of prompt workers only: a
build slower than its lease is done twice, and the second file replaces the first.

**Bounds.** Bounds named `...Bound` cap counters in guards. Two workers and two jobs are enough
for every pair that the queue's hazards are about: two holders of one job, a
retry racing a submission, a worker's run racing the synchronous one (which needs
only one month, since months share nothing but the order of claims). `queue_prompt`
has two months so that one month's job can starve another's, and `ClaimBound` 3
is above the claims that `MaxAttempts` and one crash allow, so the bound never
stands in for progress. Three months let a month be validated before, between and
after two others; four days with months of two days let a waiver lapse inside a month, at
its end and after it. Two runs and four events let a month be submitted, signed,
reopened and submitted again with a run between any two steps. Two studio runs are
an import and the retry of what it rejected, or two syncs of one stream under two
workers; two changes at the source are one that a sync sees and one it is late
for. Three tokens let a cache entry be
filed under the one before, between or after two changes, by a session that is over when
the next one reads it; `digests_endpoint` has two sessions at once. Three events and depth 2 close the loop of two workflows that start each other
once more than the code allows. Months of two days have a first and a second half,
which is all that a weighting by days can tell apart; three months of a
contribution period have a first, one that is neither first nor last, and a last one.
Amounts are small numbers chosen on both sides of each ceiling.

**Deadlock** is not checked: every counter is bounded, so each instance may come
to rest.

**Fairness.** Only the liveness properties need it. `ValidationQueue`: `Work(w)` is
weakly fair because `loop` polls for ever and a killed process is restarted by the
platform; leases lapse because time passes (`LeaseLapse`). `ReportJobs` (`Claim`,
`Process`), `StudioDeliveries` (`Works`) and `StudioWorkflows` (`Claim`, `Process`)
are driven by the same loop, `StudioAutomation` by the dispatcher at its end
(`FanOut`); time passes for what waits for a date (`TimePasses`). Nothing is asked
of people, of cancel requests, of the synchronous endpoint, of failures, of the
receivers, or of the syncs and validations a workflow waits for: a step's timeout
must do.

**Mutants.** Beside each operator that a property depends on stands a mutant of it, a plausible
bug in the same lines (a missing index, an unguarded UPDATE, a write of every
column, a cache filed under the revision of the day). Each property is violated
when its operator is replaced by its mutant.

## 4. What is proved

Each theorem holds for every value of the constants: any sets of workers, people, requests
or months, and any bounds. Only what is said below is assumed of them. Counters are bounded
in the guards of the models, but no proof uses that they are.

**The queue** (`ValidationQueueProofs`), from
`QueueAssumption` (bounds are naturals, `MaxAttempts` positive), slow workers or not:

1. **`TypeCorrect`**: `Spec => []TypeOK`. `TypeOK` is inductive as it stands,
   because it carries what the types depend on: a busy worker's job exists, its
   copy of the job has the job's month, and what was read of the runs are rows of
   the table.
2. **`OneActive`**: `Spec => []OneActivePerPeriod`. Every step either makes no
   job live that was not (`NoNewLiveJob`), or passes the index (`IndexKeepsOne`).
3. **`ChainHolds`**, **`RunHistory`**: `Spec => []RunHistoryIsAChain`. The chain
   is not inductive alone: what a writer does depends on what it read
   earlier. `ChainInvariant` adds `NumbersRise`, and `ReadingsHold`: everyone about to write
   has read the month as it still is, or has missed a run, and then the index
   will refuse the write (`RunRefused`). `RecordedChain` shows that a faithful
   reader's run is the next link, `RecordedFaithful` that it makes every other
   reader of the month refusable.
4. **`LedgerIsKept`**: `Spec => KeepsTheLedger`. With the chain, a month's
   current runs are the last run or none (`AnswerIsTheLast`), so each step that
   changes the table is one `Ledger!Answer` and every other step stutters.
5. **`PointsAtItsNewest`**: `Spec => []JobPointsAtItsNewestRun`. `PointerInvariant` adds that
   runs name jobs that exist, and that the run a session has read in its copy of the job is a
   run of the table: a flush writes that column only if it differs from the copy, and then
   with the run just recorded, which is the newest of all.

Where no live worker outlasts its lease (`~SlowWorkers`; whether that holds is a matter of the
lease, the heartbeats between a run's phases and the machine, and `queue_slow` shows
what it costs when it does not):

6. **`LeaseIsALock`**: `Spec => []OneHolder`. `LeaseInvariant`: whoever is past its claim owns a
   running job with a fresh heartbeat, and whoever is recording or closing has read it
   running. A takeover needs a stale one, which is then a dead worker's. Each of the queue's own
   writes is guarded by a state no live holder's job is in.
7. **`TerminalForGood`**: `Spec => TerminalIsFinal`. A row is written by its holder, whose job is
   running, or by a request that requires a live state: never from an end.
8. **`OneRunEach`**: `Spec => []RunsOnlyFromSuccess`. The run and the success are one commit, and
   the holder that makes it is the only one that could have made another.

**What a month leaves behind** (`AfterwardsProofs`), from `DigestAssumption` and
`AfterwardsAssumption`. The module is about the composition `MCAfterwards`; its bounds and
sets of months are constants given in its cfg. Of its digests:

9. **`TypeCorrect`**: `Spec => []TypeOK`.
10. **`DigestsInTime`**: `Spec => []DigestsAreOfTheirTime`. What a session is given is the
   content at some moment since it began. It cannot be inductive alone, since an
   entry of the cache may have been computed by another session long ago. `IInv`
   adds that a content that no one has changed since a revision was read is filed
   under it: a revision is read before the rows it describes, a token is never used
   twice (a rolled back one included), and a writer's token commits with its rows.
   So an entry under today's token is of today's content, or of a later one that
   the reader would also have been right to report.
11. **`NeverStale`**: where digests are taken before the reading (`"endpoint"` is not
   a purpose of the instance), `Spec => []NeverCallsAStaleRunCurrent`
   (`CurrentMeansCurrent`): a run's digest is no younger than what it read, and
   the page's no older than the page, so they agree only if nothing changed.
   **`DigestsAreAPart`** carries 10 and 11 over to `AfterwardsSpec`.

Of its findings, costings and what is kept, each by an invariant of its own, kept by the steps of
its own module (`PartsHold`):

12. **`FindingsAreCounted`**, **`WaiversHold`**, **`RunsResolveRightly`**:
   `AfterwardsSpec => []NothingGoesUncounted`, `=> WaivedIsOnRecord` (an invariant and an action
   property) and `=> RunsResolveOnlyWhatStopped` (an action property), for any fingerprints and
   months. `FindingsInvariant`: the one session has the rows as they are
   (`ReadAsItStands`), so that what it writes is what it meant (`FlushOwn`); a finding's last
   month is one it was reported in and none is later (`CountedIn`), which a run of
   an earlier month keeps because it takes the later of the two; a row is waived when its
   trail ends so (`OnRecord`). `RowReconciled` says what a run makes of one row, in each of the
   four cases. The instance has one session; with several the three are false, and the hazards say where.
13. **`CostingsAreOfTheirTime`**: `AfterwardsSpec => []BooksAreOfTheirTime`, for any requests. The stored
   figures were worked out of what their basis says, or of later rows, or are torn (`Bears`);
   and what a request goes by is no older than its beginning (`Reads`), so figures whose basis is the
   request's are not either.
14. **`DataIsKept`**: `AfterwardsSpec => DataIsKeptAsAgreed`, two invariants and an action property.
   `ProtectionInvariant`: where an erasure has looked, whatever still names the person
   is found by it or excused (`FoundOrExcused`), and a validation that names her late has
   started late (`JobsAreLate`), because an erasure is refused while one is under way.
15. **`DuesFollow`**: `AfterwardsSpec => DuesFollowTheirSchedule`, two invariants and an action
   property, for any drafts, wages, months and tolerance. Of the rows that can come about the first two need
   only that they are whole rows with a period (`SlabsStart`, `SlabsStep`). That cost and validation agree
   rests on their taking the same state where it is plainly set (`OneState`), though one goes by the list
   and the other by the list and the slabs. The third says what a later schedule leaves alone, and the proof
   found its condition: the slabs that stay must be found in the order they were in
   (`OrderStays`). Where slabs of one schedule overlap, which the check of a save lets through when one
   of them ends earlier, saving them again with a new one sorts them anew, and an import puts others
   beside them; then an old month's amount may come from the other slab.

**The sign-off** (`SignOffProofs`), from `SignOffAssumption`:

16. **`TypeCorrect`**: `Spec => []Typed`. The rows and requests as the other two use them.
17. **`SignedIsAsNewAsJudged`**: `Spec => []SnapshotIsNoOlderThanItsReadiness`, for any number of
   requests at once. `SnapshotInvariant` follows a snapshot from the reads of one
   request, over the row (where another request may read it or replace it) to the
   trail. It needs that whoever signs or reopens has read a row that exists, because what they
   copy is what they read.
18. **`TrailHolds`**: `Spec => []TrailIsAChain` where requests on one month do not overlap
   (`OneAtATime`: there is one request session, used again and again; the month itself
   changes between any two of its steps). `TrailInvariant` adds that the request
   under way has the row as it is. With two the claim is false, and the reason is a hazard in
   PROJECT.json.

**Workflow runs** (`StudioWorkflowsProofs`), from `WorkflowAssumption`:

19. **`TypeCorrect`**: `Spec => []Typed`.
20. **`OnceEach`**: `Spec => []EachStepTakesEffectOnce`. `StepInvariant`: a run has one worker
   (the claim takes queued runs, or running ones whose worker died: this module has no
   worker that outlasts its lease, `StudioImports` has); what a run has
   announced lies behind its cursor, its failure branch at its end; and what a
   session is about to announce lies between its run's committed cursor and its own. An
   exception rolls both back together, and a crash does.
21. **`NoneLost`**: `Spec => []NoOrphanChild`. `ChildInvariant`: a live child that a run started
   is the one the row waits for and the one the session at the step waits for, since the
   child and the cursor that names it are committed together, and a run that goes on leaves a step
   only when its child has ended.

**Access** (`AccessProofs`), from `AccessAssumption`. The module is about the composition
`MCAccess`, whose bounds are constants given in its cfg, so the theorems are about what the run
checks, for every value of those. Of its seats:

22. **`OwnersStand`**: `Spec => []AlwaysAnOwner` (an owner, unless two requests that count owners
   overlapped). `OwnersInvariant` adds what a request has read: whoever takes the role of an owner
   saw another one. Nothing is assumed of the number of people.
23. **`DefaultsHold`**: `Spec => DefaultsStay`, an action property: what is settled (a company that is
   chosen or has data, with no request of the person landing) stays settled, until she chooses again
   or can no longer open it. A default moves only with somebody who comes, goes, chooses or lands,
   and nobody begins to land while her default stands (`WhoMoves`). A choice made while a
   request is landing is not settled. **`SeatsAreAPart`** carries both over to `AccessSpec`.

Of its invitations, support sessions, keys and workflow definitions, each by an invariant of its
own, kept by the steps of its own module (`PartsHold`):

24. **`ClosedHolds`**: `AccessSpec => []ClosedStaysClosed`. `InvitationsInvariant`: an invitation is
   settled when one that was asked for after it is made, because the request settles
   all it read, and whatever was made meanwhile knows of neither. `SupportInvariant`: what a
   request read of grants and policy still counts, or the request was overlapped and its grant is
   among those excepted. `KeysInvariant`: a request's new account names companies
   that its maker managed, and a key of which no two rotations overlapped is named by the
   key it names, by no other, and by none if it names none.
25. **`FlowsAreHeldTo`**: `AccessSpec => []FlowsAreAsPublished`. `FlowsInvariant` has four parts: what
   each kind of request makes of the row it read (`Makes`); which columns are still as
   they were read, by the kinds of requests committed since (`StillAsRead`), which is why writing only
   the columns that differ is enough; that whoever publishes alone has not prepared what it
   read; and that version numbers in force only rise. Each of the four properties
   needs only that the kinds of requests it names did not overlap, and the proof uses no more.

Of one person's sign-ins and keys, and of the upgrades of a database, in the same way:

26. **`SessionsEnd`**: `AccessSpec => SessionsEndForGood`, invariants and an action property.
   `PairsInvariant`: a pair that was exchanged is not live again, whether what it was exchanged for is
   issued or still to be. `VersionsInvariant`: what a request has seen of the user is no newer than the
   user, and of the same version it has seen the second step on if it is. `CodesInvariant`:
   what was accepted is behind what counts now (a step that is past, a recovery code that is gone), under
   a secret that was ever the person's. `LinksInvariant`: a link for a password there was is used up.
   Of keys, `KeysEnd`: what a rotation writes as a key's end is no later than the end it read.
   The proof found the third way two requests spoil each other's codes: a second step that is taken off
   and put on again has its step and codes back as they were, and a request that read the
   earlier secret would write over it. So `CodesRacedBy` compares the secret too, as well as the step and
   the codes, and the exception of `CodesWorkOnce` covers any two requests that write the second step.
27. **`UpgradesKeep`**: `AccessSpec => UpgradesLoseNothing`, invariants and an action property, for at least
   one process (with none, nothing would ever be up). `UpgradesInvariant` says how far each process
   has come and what there is since (`Progress`), whatever the others did or left half done: what its
   steps were to add is in the schema; once past the second step, whoever had rows when it started has a
   company; once past the third, these rows are in it; and while it looks, what it found is enough
   for what is still missing. A row that names a company names its author's first (`RowsInvariant`),
   so that it does not matter which process files it, and a company without its marks has a
   process to come (`OrgsToCome`). Rows that the older release writes once no process is to start any more
   are excepted by the property itself.

**The services** (`ServicesProofs`), from `ServicesAssumption`. The module is about the composition
`MCServices`, whose bounds, flows and triggers are constants given in its cfg; each part has an
invariant of its own, kept by the steps of its own module (`EachByItself`, `ServicesHold`):

28. **`OncePerKey`**: `ServicesSpec => []AtMostOncePerKey`. The effects of a day are counted by request,
   and the row of the key is deleted, expired and inserted again meanwhile. `KeyInvariant`: row
   numbers are their makers' own (so a late `abandon` or `finish` cannot touch a successor's row);
   whoever is at work holds the row in the table; a row read as expired is expired or gone; what is
   stored fits who asked; and nothing has been done while nobody holds the key, but for
   what failed after its commit.
29. **`DeliveriesAreHeard`**: `ServicesSpec => []HeardAtLeastOnceAndNotForEver`, of three parts.
   `SendingInvariant`: what was heard was counted, or is in flight, or its worker died, so `heard`
   exceeds `attempts + crashes` by one at most and only in flight (`HeardIsCounted`). It holds because a
   delivery in a batch is put off (`BatchesArePutOff`) and in no other batch (`BatchesAreApart`),
   so nobody else sends or counts it meanwhile. `SigningInvariant`: however rotations overlap, what the
   receiver was told last is what signs now, since each rotation tells and stores in one commit.
   `InboundInvariant`: at most one call holds an uncommitted receipt of an event, and only while
   there is no committed one (`OneHolds`): that is the unique index. **`DeliveriesKeepTypes`** is
   `ServicesSpec => []D!TypeOK`.
30. **`ChainsEnd`**: `ServicesSpec => []ChainsEndAndFireOnce`, for any flows and triggers, finitely many. That
   chains end is not inductive without what carries their length: a run is as deep as its chain is
   long and an event's cause is that of the run that emitted it (`ChainsSound`), through a transaction
   that flushed a fire and commits it later. That nothing fires twice rests on the index:
   what a run started on is on record as a fire, and no transaction has flushed what is on record, or
   what another has flushed (`FiresKept`). `BatchHandled` and `BatchCommitted` are the two steps
   that matter.
31. **`FilesStay`**: `ServicesSpec => GeneratedFilesStay`, an action property, while no worker outlasts
   its lease (the instance is of prompt workers). `ReportsInvariant`: no two workers have one
   report, and whatever is still to be built, or is in some worker's hands, has no file and had
   none.
32. **`ReleasesRollBack`**: `ServicesSpec => RollbackRestores`, an action property. `ReleasesInvariant`
   follows what a release found in force to the release that takes it back (`CarriesBack`), over
   versions that retire and dates that come meanwhile, and says that where nothing was in force only
   what the release made is now (`AloneInForce`).
33. **`MonthsKeepTheirRule`**: `ServicesSpec => MonthsKeepOneRule`, an action property and an invariant.
   `RulesInvariant`: no two dated versions contradict one another unless a retirement was extended;
   `LeadersDoGovern` says which version governs a month by its rivals, so that a step that changes it is
   seen to bring a rival or to end it.
34. **`ChangesAreTold`**: `ServicesSpec => AffectedAreWhatChanges`, action properties and invariants, of a
   configuration's versions and of its base. `DatedInvariant`: no two published versions start in one
   month, so that the one in force is determined; `OneMoreVersion` says in which months one version more
   makes a difference, which is the publication read forwards and the withdrawal read backwards.
   `BaseInvariant`: what a request is to write differs from what it read exactly as the
   record says (`RequestSound`), whatever was committed in between. That there is a last financial
   year is why `ConfigAssumption` asks for finitely many and at least one, as `default_income_tax_config` seeds them.

**Imports and syncs** (`StudioImportsProofs`), from `ImportsAssumption`; nothing is assumed of leases,
so any number of workers may be at one run:

35. **`CheckpointHolds`**: `Spec => []CheckpointBehindData`. `CheckpointInvariant`: whatever
   a worker at a sync has not fetched is on a page still to be read (`ToBeRead`), is accounted for, has
   slipped, or has changed since, to a mark beyond all that it fetched (`FetchedTheRest`), because no
   mark that anyone holds is ahead of the source (`NoneAhead`), and a change is newer than the source
   (`ChangesAreNewest`). A change on a page that was read, while the worker reads on, slips
   (`ChangesSlip`): the history variable `slipped` holds just these. What is accounted for stays so: landed records are never taken back, and a retry or a refused batch marks a rejection
   (`AnswersStay`). So the commit that moves the checkpoint to its newest mark leaves nothing
   behind (`CheckpointMoves`), even if another worker has moved it meanwhile.
36. **`EndsAnnounced`**: `Spec => []EndedRunsAreAnnounced`; inductive with the types.
37. **`RetriesKeep`**: `Spec => RetryKeepsWhatWasStored`, an action property. A record leaves the
   master only with a commit in mode "replace", a retry is made as an upsert
   (`RetriesAdd`), and what a run is for does not change once it is made (`RowsStay`).
   **`NothingLost`** is the three together, as the run checks them; **`TypeCorrect`** is
   `Spec => []TypeOK`.

**The month** (`MonthProofs`), from `MonthAssumption`. The module is about the composition `MCMonth`, whose
bounds are constants given in its cfg:

38. **`MonthLosesNothing`**: `MonthSpec => SyncsLoseNothing`, the property that the run checks, in both of
   the parts that import: the checkpoint is ahead of the data by no more than what slipped. What section "Imports and syncs" proves is cited of the two instances.
39. **`PeriodsCover`**: the part of `WhatIsOwedIsReported` about ESIC:
   `MonthSpec => [](part = "periods" => P!CleanMeansCovered)`, for any period, ceiling, rows and months. It
   needs only that registers are rows (`RegistersAreRows`): where every month of a period so far is clean, the first
   month that covers the employee makes every later one expect what is due (`CleanPeriodsCover`).
   The first such month exists because the naturals are well founded (`HasFirst`).
40. **`MonthIsSigned`**: `MonthSpec => []SnapshotIsNoOlderThanItsReadiness`, and `=> []TrailIsAChain`
   where requests do not overlap: a behaviour of the month is one of its sign-off.

Lemmas worth reusing: `Appended`, `Replaced`, `Joined`, `HasGreatest` and `HasLeast` of `ServicesProofs`
(sequences that grow and change, extreme elements of sets of integers), `RecordedRows` and `RecordedMonths` (what `record_run` leaves), `SaidOnce`
(counters raised by a commit), `AnswersKept` (requests that go on from where they are).

**Only model-checked.** Liveness under fairness (`EveryJobEnds`, `EveryRunEnds`,
`NothingWaitsForEver`) and whatever speaks of ENABLED is out of the prover's reach.
`DecidedStaysDecided` is about conditions that nest, which a recursive function evaluates,
and `PagesAgree` and what `WhatIsOwedIsReported` says of revisions and the provident fund
are about sums over months and employees, folds of the community modules. What a recursive definition
yields for every input needs an induction over its data; the library's theorems for it
take an operator, and no installed prover can instantiate that. `PassedMeansChecked` is about
the registry as it stands in the code, with every combination of inputs: `CheckCoverage`
has no constants, so that TLC's run is exhaustive and a theorem would say no more.
The violated properties are false, so they have
counterexamples and no theorem.

## 5. Plan

Done: the modules of section 2, the theorems of section 4.

Next, in order:

1. Overlapping requests in `SignOff` (beyond theorem 17), `RuleVersions` and
   `ConfigVersions`; assignment in `FindingLifecycle`.

Not planned: the contents of reports and exports, and the frontend. They are read-only queries and
rendering over one company's rows.
