# TLS Audit: a TLA+ model of the scanning service

TLS Audit checks the TLS configuration of public hosts. People submit a host on
the web page; subscribers get a weekly report and alerts by mail. The service is
an API process, a scheduler process and any number of worker processes, which
share one Redis and one PostgreSQL database. None of the processes talks to
another directly. What makes the program hard is therefore the order in which
they read and write the same keys and rows, and what is left behind when one of
them stops half way. The report itself is made from dozens of independent probes, any of
which may fail.

This directory holds TLA+ modules translated from the source, the configurations
that check them with TLC, and proofs for TLAPS. `PROJECT.json` lists the parts
of the system, the runs, the source lines behind every definition, the hazards,
and the theorems.

## 1. The system

| component | state it keeps | operations | what makes it correct |
|---|---|---|---|
| Submission (`services/api/app/main.py`) | none | `create_check`, `get_check` | a refused request leaves nothing behind; an accepted one can be looked up until it ends |
| Job store (`shared/tls_audit/jobs.py`) | `tls-audit:job:<id>` in Redis | create, get, save, update, delete | no update is lost or resurrects a job that matters |
| Target guard (`traffic_control.py`) | an active and a cooldown key per target, both with a TTL | reserve, release | at most one scan per target; no lock held forever |
| Scan list (`queue.py`) | a Redis list | RPUSH, LLEN, BLPOP | a job is delivered at most once; bounded depth |
| Worker (`services/worker/worker.py`) | its current job | `handle_job` | every job it takes ends and gives its lock back |
| Archive (`archive.py`, `schema.sql`) | `scans`, `reports`, `findings`, `site_counters` | create_scan, update_scan, save_report, cleanup | never ahead of the job record; a report has its scan row |
| Monitored domains and history (`monitoring_store.py`, `monitoring.py`) | `monitored_domains`, snapshots, events | upsert, due, mark_scan_scheduled, save_snapshot, diff | a change is reported once, against the right baseline |
| Subscriptions (`subscription_store.py`, `main.py`) | `monitor_subscriptions` and the delivery tables | upsert_pending, confirm, disable, ownership, due, mark_sent | mail only to confirmed addresses; Pro reports only for owned hosts; plan limits |
| Scheduler (`services/scheduler/scheduler.py`) | a heartbeat | reconcile, schedule due domains, process subscriptions | every due subscription is served |
| Admission (`main.py`, `validation.py`, `denylist.py`) | the resolved addresses in a job | parse, deny, resolve, validate again in the worker | every stage reads the same target; a scan connects only to public addresses that were checked |
| Rate limiter (`traffic_control.py`) | a sorted set per client | check | at most `limit` accepted calls in a window while it lasts, in whatever order concurrent threads arrive |
| Billing (`billing_store.py`) | `billing_accounts` | checkout, activate | the plan follows the payment |
| Scanner, adapter, testssl parser, scoring, Russian trust check (`tls_guard/`, `adapter.py`, `testssl.py`, `scoring.py`, `russian_trust.py`) | the report being made | probe, evaluate, merge, score twice | the grade follows from what was seen, however many probes failed |
| Mails (`worker.py`, `email_sender.py`) | delivery tables, cooldowns | weekly report, alert, digest, failure | nobody is mailed twice or kept silent for a mail that was not sent |
| Pages, exports, recommendations | none | formatting | out of scope |

How they interact: the API and the scheduler call the guard and the stores and
push a job on the list; a worker pops it, writes its progress to Redis and
PostgreSQL, records the monitoring history, sends the mails, and releases the
guard. The API's polling endpoint reads Redis first and PostgreSQL second.

The hard behaviours are: several API handlers (FastAPI runs `def` endpoints in
threads), the scheduler, the maintenance commands and the workers interleave
between any two round trips; keys expire; a push may be applied although its
caller saw an error; a worker that dies has already removed its job from the
list; `docker-compose.yml` restarts a process that exits. Section 6 of this file
and `hazards` in `PROJECT.json` name them line by line.

## 2. Modules

| module | what it is |
|---|---|
| `ScanPipeline` | the life of a scan job from the request to the release of its target |
| `ScanAdmission` | what the target guard promises, without keys, processes or messages |
| `MCScanPipeline` | `ScanPipeline` with the symmetry its runs use |
| `ScanAdmissionProofs` | its promise, proved of its own steps |
| `ScanPipelineProofs` | the theorems about `ScanPipeline`: jobs, locks, the list's limit |
| `ScanRecordsProofs` (extends it) | those about its records, archive rows and released locks, and the refinement of `ScanAdmission` |
| `Subscriptions` | subscribing, confirming, ownership, unsubscribing, the scheduler's tick and whom is mailed |
| `MCSubscriptions` | `Subscriptions` with the owners and the symmetry its runs use |
| `SubscriptionsProofs` | the theorems about `Subscriptions` |
| `TargetAdmission` | a target from the client's text to the addresses both scanners connect to; the rate limiter |
| `MCTargetAdmission`, `TargetAdmissionProofs` | its instance and its theorems |
| `Scoring` | score and grade as functions of the findings |
| `BaselineScan` (extends `Scoring`) | what the probes of the baseline scanner see of an endpoint, and its findings |
| `DeepScan` (extends `BaselineScan`) | the rows of testssl.sh and the findings made of them |
| `RussianTrust` (extends `DeepScan`) | the compatibility block |
| `ScanReport` (extends `RussianTrust`) | one scan as a state machine: probes that fail, merge, second scoring |
| `MCScanReport` | the endpoints its run scans |
| `ScanReportProofs` | the theorems about scores and about reports |
| `MonitoringDiff` (extends `Scoring`) | the difference of two snapshots, its events, and which of them are mailed how |
| `Delivery` (extends `MonitoringDiff`) | snapshots, events, mails, their records and cooldowns, for one domain |
| `MCDelivery` | the reports and subscriptions its runs use |
| `DeliveryProofs` | the theorems about `Delivery` |
| `DomainSchedule` | the order in which the scheduler serves due domains and due subscriptions, in batches |
| `MCDomainSchedule`, `DomainScheduleProofs` | the targets and subscriptions its run uses, and its theorems |

The state machines meet at the job. `TargetAdmission` ends where `ScanPipeline`
begins (a job is queued) and goes on inside the worker's step that scans; `ScanReport`
is that step; `Delivery` is what the worker does between the scan and the release of
the lock. Each takes from its neighbours only what it needs and says so: `ScanPipeline`
lets a scan raise at any point, `Delivery` lets any report come back and two jobs of
one domain overlap only when the lock lapsed, `Subscriptions` decides who may be
mailed and `Delivery` what is; `DomainSchedule` takes a job from its reservation to its
mail in one step and asks which job is next.

### ScanPipeline

One action is one round trip to Redis or PostgreSQL, which is where another
process can run in between.

| state | in the program |
|---|---|
| `status[j]` | `status` in the job's Redis record; "none" without a record |
| `active[t]`, `cooldown[t]` | the two keys of `TargetScanGuard` for target `t`, holding a job id |
| `queue` | the list `SCAN_QUEUE_NAME` |
| `archive[j]` | `scans.status`; "none" without a row |
| `pc[s]`, `sjob[s]` | where handler `s` is in `create_check` or `schedule_domain_scan`, and with which job |
| `phase[w]`, `step[w]`, `wjob[w]` | where worker `w` is in `handle_job` |
| `record[w]` | the status in the copy of the record that worker `w` has read and changed, and is about to write to Redis and to the archive |
| `target[j]` | the target the job was created for (it is in the payload and in the record) |
| `exposed`, `faults` | history: jobs that were in flight when the lock stopped being theirs; faults so far |

Submission: `CheckDepth`, `CreateJob`, `CheckCooldown` and `SetActive` (the two
halves of `_reserve_redis`), `DeleteDenied`, `ArchiveCreate`, `Enqueue`; after a
push that raised, `UndoDelete`, `UndoGet`, `UndoDel`, `MarkRejected` in the order
of the caller's `except` clause: the API releases first and then marks the job,
the scheduler deletes the job first and then releases. `EnqueueRefused` is a push
that was not applied, `EnqueueReplyLost` one that was. `SubmitterFails` is any
call outside a `try`, or a process that dies.

Worker: `PopJob` is BLPOP; `StoreGet`, `StoreSave` and `ArchiveUpdate` are the
three round trips of `mark_running`, the first `update_progress`,
`save_resolved_addresses`, the `update_progress` of the scan, and `mark_done` or
`mark_failed` (the phases "start", "checking", "addresses", "progress", "done" and
"error"). `StatusOf` is the status each writes: `save_resolved_addresses` gives none, so
the status it has read goes back to Redis and on to the archive. `ScanRaises` is the `except` clause; `ReleaseGet`, `ReleaseDel` and
`SetCooldown` are `release_target`; `RowMissingRaises` is the foreign key violation
that leaves the loop; `WorkerFails` is a crash, a store that cannot be reached
outside the `try`, or an exception swallowed in `release_target`.

Time is not counted. A cooldown may expire at any moment. A lock may expire at
any moment once its job is no longer in flight, and while it is in flight only
in the runs that set `TtlMayLapse` (the TTL is 900 seconds by default and a scan
takes a few minutes, but the wait in the list is counted too).

The job's progress, the report, the addresses and the mails are data. The many
progress updates that the scan itself makes all write "running", and are one
update; the one before the scan and the one that saves the addresses are updates
of their own.

### ScanAdmission

Per target the set of scans in flight, and which of them were exposed. `Admit`
needs a target whose scans are all exposed; `Leave` ends a scan; `Expose` is a
lapsed TTL or an ambiguous push; `Displace` is an exposed scan that deletes the
lock of the scan admitted after it. `ScanPipeline` implements it
(`ImplementsAdmission`): the guard's GET-then-DEL and the separate TTL add no
behaviour beyond these four.

### Subscriptions

One action is one statement on PostgreSQL. The API's threads, the scheduler and
the worker run between any two of them; the timer's clean-up and the
administrator run at any moment.

| state | in the program |
|---|---|
| `sub[<<e, t>>]` | the row of `monitor_subscriptions`: `id`, `token` of its links (`link`), `enabled`, `confirmed`, `plan`, `ownership_token` (`token`), `ownership_verified_at` (`verified`); id 0 without a row |
| `domain[t]` | the row of `monitored_domains`: `enabled`, and whose `notes` they are |
| `links`, `challenges` | the link tokens and ownership tokens issued so far; a token is its number |
| `published`, `clicked` | the world outside: tokens found at their hosts, links whose confirmation succeeded |
| `pc[a]`, `key[a]`, `seen[a]`, `copy[a]` | where thread `a` is in its handler, and the subscription and domain rows it has read |
| `listed`, `due` | what is left of the lists that the scheduler read in this tick |
| `jobs`, `sending` | subscription jobs whose scan has not ended, and the finished one that mails are being sent for |
| `mail` | the mail sent last |

Requests: `CheckPlanLimit` and `UpsertPending` are `create_monitor_subscription`;
`Confirm`, `CleanupUnconfirmed` and `BeginChallenge` are one statement each;
`ReadChallenge`, `CheckChallenge`, `MarkVerified` are
`verify_subscription_ownership`, with the lookup at the host in the middle;
`Disable`, `CheckOrphan`, `FindDomain`, `LoadDomain`, `DisableDomain` are
unsubscribe and delete; `LoadPatch`, `PatchDomain` and `AdminUpsert` are the
administrator's; `RunNow`, `UpsertDomain`, `ScheduleScan` are
`run_subscription_now`. A tick is `StartTick`, `Reconcile` (which goes on with
`LoadDomain` and `DisableDomain`), `ReadDue`, `TakeDue` (which goes on with
`UpsertDomain` and `ScheduleScan`) and `EndTick`. The worker's side is
`GateReport`, `SendReport`, `GateAlert`, `SendAlert` and `SendFailure`; the scan in
front of them is `ScanPipeline`'s subject and takes any time here. `Fail` ends a
request or a tick between two statements.

What is abstracted. Tokens are never guessed and owner tokens are always valid,
so a request stands for anyone who may make it. The age of a link and of an
unconfirmed row is not counted: a link may always still be valid, and an
unconfirmed row may always be old enough to be deleted, which is more than the
program does. Rows of one clean-up are deleted one by one. `due` picks any of the
rows it may pick, which covers the order and the LIMIT that `DomainSchedule` models. The limits of 1000
domains and the rate limits are left out. The billed limit of an account may be
below the plan's; `ProLimit` is its maximum. A mail job is taken for one sending
slot: the mails of two workers differ only in their order.

### TargetAdmission

| state | in the program |
|---|---|
| `dns[n]` | what a resolver would answer for name `n` now |
| `clock`, `hits[c]`, `passed[c]` | time, the limiter's sorted set of client `c` (members are a time and a UUID), and the calls it let through (history) |
| `pending[h]` | the call of API thread `h` that has its time and UUID and is on its way to Redis |
| `registered` | targets in `monitored_domains` and `monitor_subscriptions` |
| `phase[j]`, `origin[j]`, `target[j]` | how far job `j` is, who queued it, its host and port |
| `queued[j]`, `validated[j]`, `pinned[j]` | `resolved_addresses` in the payload, those the worker resolved, `connect_target` of the baseline scanner |
| `contacts[j]` | addresses that a scanner connected to (history) |

A host is a spelling with a normal form: capitals, a final dot and IDNA are what
`Canonical` makes equal. `ParseHostAccepts` is `parse_host`, `Readable` what it and the
scanner's `parse_target` have in common, `TargetText` the string `run_basic_scan` hands
to the scanner (it leaves out port 443). `POST /api/check` is `AskLimiter` (the client denylist, then `_check_redis` up to the
clock it reads) and `CreateCheck` (its pipeline of ZREMRANGEBYSCORE, ZADD and ZCARD, the
decision, and up to the push: parsing, target denylist, and parsing and resolving
again); between the two other threads come and go and time passes. `LimiterFails` is a
pipeline whose reply is lost, applied or not, and `ExpireBucket` the key's expiry.
There is one clock, which does not go back; a limit of 0, which switches the limiter
off, is not modelled. `Register` does not meet the target denylist; `ScheduleScan` resolves what was
registered. `ValidateJob` is `validate_worker_target`; `ResolveAgain`, `ScanBaseline` and
`ScanDeep` are the scanners. `ChangeAnswer` changes the zone between any two of them.
`ResolvesPublic` refuses an answer with one private address; the scanner's
`Pinnable` only drops it.

### Scoring, BaselineScan, DeepScan, RussianTrust, ScanReport

An endpoint is the configuration of a server as far as a probe can tell: its
certificate, versions, the suite each version negotiates, the weak suites it accepts,
headers, and what testssl.sh would print. `CertificateSeen`, `VersionsSeen`,
`CiphersAccepted` and `HeadersSeen` say what the scanner learns of it when some of its
probes fail, which is report data in this program and not an error. `Evaluate` and
`DeepFindings` are the rules, one line per finding. Ciphers are classes, because
`classify_cipher_finding` looks for name parts; a finding keeps what `penalty_key`
tells apart.

| state | in the program |
|---|---|
| `stage` | where `scan_host` and `run_full_scan` are |
| `certificate`, `supported`, `accepted`, `headers` | the result objects of `tls_guard/models.py` |
| `findings`, `score`, `grade`, `russian` | the report of `report.py` |
| `deep`, `rows` | `testssl_status`, and the versions read as enabled |
| `baseline` | score and grade before the deep scan (history) |

`FetchCertificate`, `CheckProtocols`, `CheckCiphers`, `FetchHeaders` are the stages of
`scan_host`, the last one with evaluation, conversion and scoring; `DeadlinePasses` is
`ensure_deadline`. `MergeDeepScan`, `DeepScanMissing` (not installed, timed out, no
result) and `DeepScanBreaks` (a result that is no JSON) are the outcomes of testssl.sh.
Rows can be absent or say that a version was not tested.

### MonitoringDiff and Delivery

| state | in the program |
|---|---|
| `worker[w]` | job, snapshot id, report, baseline and place of worker `w` after the scan; `todo` are the records it still has to write for a mail it sent |
| `jobs` | the subscription in the payload of every job so far (`NoSub`: an administrator's or a scheduled scan) |
| `scans[j]` | the row of `scans` that the job's snapshot and events refer to: its status, or "gone" once it is deleted |
| `lastId` | the sequence behind the BIGSERIAL id of `monitoring_snapshots` |
| `snapshots`, `events` | `monitoring_snapshots` as far as it is committed, and `monitoring_events` |
| `delivered` | `subscription_report_deliveries` |
| `marks` | `subscription_alert_deliveries` with their keys, and `last_sent_at` |
| `lost` | history: snapshots that went with their scan |
| `mails`, `troubled`, `overlapped`, `blurred` | history: mails that arrived; jobs with a failure; jobs beside another; jobs handled twice, cut off before their events, inserted while another was not committed, or deleted with the archive |

`ScanSucceeds` is a scan and its `mark_done`. The statements of `record_monitoring_report` are
`InsertSnapshot`, which takes the next number of the sequence (or finds the row of a job
that is handled again, which keeps its number), `CommitSnapshot`, from which on others
see the row, `ReadBaseline` and `SaveEvents`. An INSERT waits for an uncommitted row of the
same scan only, so a later number may be committed first and compared with what came
before both. `ScanFails` and `SaveFailure` are `mark_failed` and `record_monitoring_failure`.
`SendReport`, `SendAlert`, `SendDigest` and `SendFailure` are the four mails with
their conditions; `MarkDelivered` and `Record` write one record each, `RecordFails` is one that
raises (the rest of the list is skipped), `Refused` a mail that raised and may have
arrived. `Take` is the next job under the target's lock, `TakeUnlocked` one after the lock
lapsed, `TakeAgain` one that was delivered twice, `Crash` a dead worker.

Two clean-ups run beside them. `CleanupHistory` deletes snapshots and events by their age.
`CleanupArchive` is `cleanup` of the archive: it deletes failed scans, and finished ones that
have no snapshot, by the age of the scan, and the schema takes the snapshots of a
deleted scan along, and with a snapshot its events (`Cascade`). A snapshot goes that way
when its job was handled twice and failed the second time, or when the DELETE looked
for it before it was committed (`Deletable`). A worker whose scan or snapshot is gone meets
a foreign key violation (`RowMissing`), which is not caught.

What is abstracted. Time is in ticks that are long beside what a worker does once a
scan is over, so the clock stands still while mails are sent; the order of the
cooldowns (batch at most a day) is kept, their lengths are not. A scan's age is counted
from the start of the clock, because it may have waited in the list; the archive's
clean-up takes the jobs up to any one, in their order. A DELETE that waited for the
commit of a snapshot goes on while the worker is still comparing it. The scans row of a
job exists until it is deleted (`pipeline_noarchive` is about a job that has none), and all
jobs are of the one monitored domain. SMTP is configured,
or every mail is refused. Ownership and confirmation do not change
(`Subscriptions` has those). One domain: nothing in these tables is shared by two. The
digest lists its first rows only, which stand for all.

### DomainSchedule

| state | in the program |
|---|---|
| `notes[t]`, `enabled` | the row of `monitored_domains`: whether there is one, and whose it is by its `notes`; the column `enabled` |
| `lapsed` | the administrator's rows whose `next_scan_at` is in the past, by that column |
| `late` | the subscriptions whose `next_run_at` is in the past; all that wait since one Monday are one set |
| `lock[t]` | the active lock or the cooldown of the target, with the subscription when it is its job |
| `stage`, `todo` | the list that the tick serves, and what is left of it |
| `met` | subscribed targets that a tick of this week found free |

`StartTick` is `due_domains`, `ServeDomain` one round of `schedule_due_scans`, `ReadDue` is `due`, and
`ServeSubscription` one round of `process_subscriptions`: the upsert, which takes the row over from
an administrator, and then the scan, queued or skipped. Only a queued scan moves a row
(`ScheduleDomainScan`), only a sent report moves a subscription (`MarkSent`). `ScanFallsDue` and
`NewWeek` are time. `PushFails`, `TickFails`, `MarkFails`, `ScanFails` and `WorkerLost` are failures, the
rest requests beside the schedule, all counted by `MaxUpsets`.

A query is answered by any list of `Lists`: at most a batch of those who are due, and
nobody who is left out waits longer than one that is taken; those of one Monday tie. The
place in `lapsed`, or the week in `late`, is what stands for the column.

What is abstracted. A reservation, its push and the mark are one step, and so are the
end of a scan, its mail and its release: `ScanPipeline` and `Delivery` have the steps between.
A report that is skipped for its cooldown is a `ScanFails`: the subscription stays due. Where
`next_scan_at` of a subscription's row stands matters only when an administrator takes the row
back, and is then any place in the order. A week is two thousand ticks, so `NewWeek` waits
until each subscribed target was found free at the start of some tick (`met`). Without that
the run finds an address that is never served because the cooldown always ends just
between its turn and the turn of another subscriber who is due again within the same
few minutes, week after week.

## 3. Runs

| run | instance | question |
|---|---|---|
| `pipeline_safety` | an API handler, the scheduler, 1 target, 2 workers, 3 jobs, lapsing TTLs, no cooldown, 1 fault | do lock, list, record and archive stay consistent, is every step one of the abstract guard's, and a final answer final? |
| `pipeline_liveness` | 3 targets, 2 handlers, a list limit of 1, 1 worker, no fault | how far is the limit overrun, and does every queued job end? |
| `pipeline_healing` | an API handler, the scheduler and the maintenance command, 1 fault | is every lock freed whatever fails? |
| `pipeline_noarchive` | the maintenance command | *violated*: a finished scan without an archive row |
| `subscriptions_limits` | 1 address, 4 hosts, 2 threads, limits 1 and 2, subscribe and unsubscribe | how far is the limit of a plan overrun? |
| `subscriptions_ownership` | 2 addresses, one of them the owner, 1 host, 2 links, 2 challenges, 1 job in flight | is only the owner ever verified, every confirmation for the latest request, every mail covered by consent and ownership, and no host scheduled unasked? |
| `subscriptions_orphans` | 1 address, 1 host, the administrator, 1 fault | are targets of nobody switched off? |
| `target_scan` | 1 name, 1 IPv6 literal, 7 texts, 5 answers, 2 clients (1 denied), 2 API threads, 1 job, a limit of 2 in a window of 1, 2 ticks | do both scanners stay within the validated addresses, do all parsers agree, does the limiter hold its window? |
| `report_scan` | 49 endpoints, all list states, up to 3 failed probes or rows | are grade, score, findings and compatibility block consistent whatever fails? |
| `delivery` | 2 workers, a Pro subscription and scans without one, 2 jobs, 3 ticks, 2 reports, both clean-ups, 1 fault | are changes announced, mails spaced, and records true? |
| `delivery_quiet` | 1 worker, a Pro subscription, 3 jobs, 1 tick, 3 reports, no fault | *violated*: a weekly mail calls a week quiet that was not |
| `schedule` | 3 targets, 1 of them dead, 3 subscriptions, 1 of them refused, 2 on one target, batches of 2, 1 failure or request | is every due domain scanned and every due report mailed, and does everybody keep his place? |

Why the bounds of the pipeline are enough. The interesting interleavings need two
submitters for one target and a worker releasing it; three jobs contain them: one
in release, one admitted after a lapsed TTL, one arriving. Two workers are needed
for a job that is delivered twice. Targets are independent except for the list and
the workers, so one target suffices for safety, and three, with two handlers, for
the list and its limit. One fault per behaviour shows what a single failure leaves
behind; the proofs below hold for any number. `pipeline_safety` leaves the cooldown
out: none of its properties speaks of it, it only keeps jobs apart for a time that may be
over at any moment, and the states it adds take the run beyond its time. The
theorems hold with it and without, and `pipeline_healing` has it. A job id is used once, as a UUID is,
and an id whose reservation was refused is free again, so denials can be repeated
without bound. The number of ids is finite, so a run may come to an end with
everything idle: deadlock is not checked.

Why the bounds of the subscriptions are enough. Rows meet only through a shared
address (the limit) or a shared host (ownership, the domain), so the runs have one
address and several hosts, or two addresses and one host. Two links are a
request and its renewal, or one of each address; two challenges are one replaced
while it is checked, or one of each address. The theorems of section 4 hold for any
number. Four
hosts are one more than two threads can reach with a limit of two, so that the
bound is met and could be broken. `Operations` names the requests that an instance
leaves out, so that each question is asked of the operations it is about. Links,
challenges, queued jobs and failures are bounded by `MaxLinks`, `MaxChallenges`,
`MaxJobs` and `MaxFaults`; when they are used up a run may stop, so deadlock is not
checked.

Why the bounds of `target_scan` are enough. A job is checked against its own answers only,
so one name whose answer may be empty, one or two public addresses, or mixed shows
every way an answer can change; the literal is the one kind of host that does not
resolve, and the texts are each a way to be accepted or refused. The limiter needs two
threads that hold calls of one client: with a limit of two and a window of one, four
calls and two ticks have room for a window that is full, for a thread that read its
clock in that window and arrives when it is over, and for one of a later time that
arrived before it and has pruned the set. This is the case in which one call more than
the limit has its time in the window.

Why the bounds of `report_scan` are enough. The rules look at one part of an endpoint
each, so the endpoints differ from a sound one in one part, and in the two or three
that meet in a grade. Three failures reach every pair of probes that back each other
up, with one more; the theorems hold for any endpoints and any number of failures.

Why the bounds of `delivery` are enough. A mail is decided by the current report, the
one before it and the marks of its subscription; the two jobs it takes, a third
handling by `TakeAgain`, two reports that each have findings the other has not (so a
change of the server both adds and resolves; the same report twice is the quiet case)
and the ticks before, at and after each cooldown and each retention cover what one decision sees.
Two jobs with a lapsed lock show both orders of inserting and committing. A snapshot that is
deleted between two that stay needs a third job, and is left to the proof.
`delivery_quiet` adds a sound server. A second subscription would share the snapshots and
nothing else. One fault per
behaviour, as in the pipeline. Both runs are safety only: whether a scan or a mail ever
comes is `ScanPipeline`'s question, and a run that has used its jobs stops, so deadlock
is not checked there, nor for a scan, which ends.

Why the bounds of `schedule` are enough. A batch of two with one row that never moves leaves
one place for two that compete, and both rows of a shared target are in the
competition; with batches of one, or with the refused address on the shared target, the
hypotheses of the two properties fail and so do their conclusions, as runs with those
values show. One upset per behaviour, at any step.

Fairness of the schedule. The ticks go on (`run_loop` catches, the process is restarted),
workers finish jobs, and Redis expires locks and cooldowns. When a row falls due, weeks,
failures and requests are not fair; none of them has to happen.

Fairness of the pipeline. Handlers and workers are weakly fair in the steps they
make when no call fails: they are threads and processes that block on nothing but a
reply. Redis expires keys, so the expiry actions are weakly fair; the expiry of a
lock in flight is only possible where `TtlMayLapse` says so. New requests,
exceptions of the scan and faults are not fair. `BLPOP` serves a worker whenever the
list is not empty.

Fairness of the subscriptions. A request that was begun goes on (each thread is
weakly fair), and the scheduler ticks forever: `run_loop` catches what a tick raises
and sleeps, and the process is restarted by `docker-compose.yml`. Requests, clicks,
mails and failures are not fair. Failures are finitely many (`MaxFaults`): a database
that is never reachable for a whole tick would keep a target switched on.

## 4. Proofs

`ScanPipelineProofs` proves, for all values of the constants that satisfy
`PipelineAssumption`:

* `TypeCorrect`: `Spec => []TypeOK`;
* `PlacesCorrect`: `Spec => [](TypeOK /\ Places)`;
* `DeliveryTheorem`: `Spec => []DeliveredOnce`;
* `LockTheorem`: `Spec => []LockHeldInFlight`;
* `OneScanTheorem`: `Spec => []OneScanPerTarget`;

and, from `ClientsFinite` as well (the API's thread pool is bounded),

* `QueueLimitTheorem`: `Spec => []QueueOvershootBounded`.

The argument. `LockHeldInFlight` says that a job in flight owns its target's lock
unless it was exposed. It is not inductive alone: a step of one actor changes
whether a job is in flight, and whether the job is still with another actor
depends on the job being in one place only. `Places` says so: `Owners` (every busy
actor has a job that is in use), `Undelivered` (a submitter that has not pushed its
job is the only one to have it, and it is neither in the list nor with a worker)
and `DeliveredOnce` (no duplicates in the list, no job in the list and with a
worker, none with two workers). `TypeOK /\ Places` is inductive
(`PlacesInductive`), one step per action, with `PushedJob` and `PoppedJob` for what
Append and Tail do to the list. `LockInductive` then needs only that a lock is
overwritten when it is free, and that every deletion adds its victims to `exposed`.
`OneScanPerTarget` follows: two jobs that both own the one lock are equal. For the
list's limit, the API's jobs in the list are counted together with the handlers that
have passed the check of the depth and not pushed yet: a handler that passes finds
fewer than the limit in the list, and each of the others adds one at most.

`PipelineAssumption` says that the ids of API and scheduled jobs are disjoint, that
`NoJob` and `NoTarget` are no ids, and that the flags are Booleans. Nothing is
assumed about the number of processes, targets, jobs or faults.

`ScanRecordsProofs` goes on from `Places`, from the same assumptions:

* `RecordsCorrect`: `Spec => []Records`, the invariant of the others;
* `StoreLeadsTheorem`: `Spec => []StoreLeadsArchive`;
* `QueuedRecordTheorem`: `Spec => []QueuedJobIsRecorded`;
* `FinalAnswerTheorem`: `Spec => TerminalIsFinal`;
* `NoLeakTheorem`: `Spec => []NoLeakedLock`;
* `RefinementTheorem`: `Spec => ImplementsAdmission`.

`Records` says, for each place a job can be in and each statement its holder is at,
how far the record and the archive row of the job have come. The three properties on
records say little of a state in itself; they hold because the record is written
before the push, only the worker that popped the job writes it afterwards, and it
writes the record before the row. What the API writes after an ambiguous push is the
exception: `Handled` says at which statements the record may hold that error, and from
where on the archive may: `save_resolved_addresses` carries it there, and the next
update sets the record to "running" and leaves the row behind it at "error". `CalledOff`
names such a job, and `RejectedYetRunning` is all that is left of it in
`StoreLeadsArchive`. `NoLeakedLock` speaks of behaviours without faults;
given `Places` and `Records` it is inductive, because a holder that leaves a job behind has
released its lock first. The refinement maps the abstract guard's `scans` to the jobs in flight
on each target and `exposed` to itself; each action of the pipeline is shown to be one of
the guard's steps or to leave both alone. It needs no lock keys: `LockHeldInFlight` is
what makes a reservation an `Admit`.

`ScanAdmissionProofs` proves, for any targets and jobs, what the abstract guard promises
from its own steps: `AdmissionPromise`, `AdmissionSpec => []OneProtectedJob`. By
`RefinementTheorem` the pipeline keeps it too, which is `OneScanPerTarget` seen from
outside.

`SubscriptionsProofs` proves, from `SubscriptionsAssumption`:

* `SubscriptionTypes`: `Spec => []TypeOK`;
* `OwnershipTheorem`: `Spec => []OnlyOwnersVerified`;
* `SupportReportsTheorem`: `Spec => []SupportReportsOnlyToOwners`;
* `ConfirmationTheorem`: `Spec => []ConfirmedByItsOwnLink`;
* `ConsentTheorem`: `Spec => []OnlyAfterConsent`;

and, from `HandlersFinite` as well (the API's thread pool is bounded),

* `PlanLimitTheorem`: `Spec => []PlanLimitOvershoot`.

The argument is one inductive invariant, `Inv`, a conjunction of named parts.
`Busy` says which actors have a subscription in hand. `Tokens` is why ownership is
sound although the row is marked by id, long after its token was read: no
challenge belongs to two subscriptions, nor to one and to a thread that checks it
for another, so a token that was found at a host was put there by that
subscription's address. `Ownership` follows for threads that have found the token
and for verified rows, and `Gated` for the job that passed the worker's check.
`Consent` is about every carrier of a subscription on its way to a mail: a row that
is confirmed, a thread or a list entry that read it confirmed, a queued job, the
job being mailed; each of them comes from a click, which is remembered although
the row may be renewed or deleted. `OnlyAfterConsent` also speaks of the rows of
`monitored_domains`, which are written back from a thread's copy: `DomainsAsked`, inductive on
top of `Inv`, adds the copies (`DomainsInductive`), and it is proved with the administrator and
the scheduler's ticks, which the run leaves out. `Limited` counts, for each address, the hosts
that are enabled together with those that threads were admitted for: fewer than
`ProLimit` and the threads together. `ShrinksTaken`,
`UpsertTaken` and `AdmitLimited` are what the statements do to that set.

`TargetAdmissionProofs` proves, from `ConstantsAssumption` and `LimitsAssumption`,
`JobsAreTyped`, `ScansStayPinned` (`Spec => []ContactsPinned`), `ScansFollowTheQueue`
(`ScanFollowsQueuedAnswer`) and `TargetsReparse` (`QueuedTargetReparses`), for any hosts,
answers, rules, clients and jobs. `IInv` adds to the types what each phase knows: from
"queued" on, the target is one its own text parses back to (`TargetTextReparses` is why
the shortened text of port 443 does); from "validated" on, the worker's answer is public
and meets the queued one; from "connecting" on, the pinned address is in it. Changing
answers disturb none of these, because each names an address that was stored.

The limiter has an invariant of its own, `LimiterInv`, for `AdmissionTypes` (`TypeOK`) and
`WindowsAreHeld` (`RateWindowHeld`). A call is let through on what its bucket holds, which
looks back from the time that its thread had read, while the promise is about every window
wherever it starts, and other threads' pipelines have run in between. `WindowInv` connects
the two, for each window. Either its calls that were let through are still counted in the
bucket and no more than the limit (`StillCounted`): that is so while the window lasts, because nothing
that arrives then is late enough to prune it (`PipelineWhileItLasts`). Or it is over
(`Over`): then only threads that had read their clock in it can add to it, one call
each, so those it has beyond the limit and the threads still on their way are together
no more than there are threads (`PipelineWhenOver`).

`ScanReportProofs` first proves of every finite set of findings that the public score is between
40 and 100 (`ScoreInRange`), that a report with more findings has no better score
(`ScoreNeverGrows`) and no better grade (`GradeNeverImproves`), and that the grade is no
better than any cap (`GradeRespectsCaps`). `WorstIsGreatest` is what `CHOOSE` returns.

The theorems about reports rest on these. From the assumptions on what an endpoint is
(`ChainAssumption`: a chain that verifies has its leaf) and `BoundAssumption` the module
proves `OldVersionsCountOnce` (`LegacyCountsOnce`), `VerdictsAgree` (`BrowserVerdictAgrees`)
and `DeepScanOnlyAdds` (`DeepScanNeverImproves`), for any endpoints and any number of failed
probes. The invariant says that the findings are finite and well formed, that score and
grade are theirs, and when the findings contain `legacy_tls` and `certificate_trust`; one
lemma per group of findings says which codes the group can contain.

A second invariant, `Typing /\ Observed`, is about scans in which no probe failed: each
stage leaves exactly what the endpoint shows, and the findings of both scanners are
kept to the end. With `APlusHasNoSerious` (an A+ leaves room for one low finding and none
that weighs more) it gives `APlusTheorem` (`APlusIsDeserved`): each demand of the
methodology would otherwise have left a finding. `ReportTypes` is `TypeOK`, and
`Lucky13Theorem` (`Lucky13NoteNeedsModernTls`) holds because a version that the server has
never has a row that says no, whatever rows are missing.

`DeliveryProofs` proves, from `ReportsAssumption` (reports have finitely many findings) and
`BoundsAssumption` (the digest's cooldown, a day, is not zero):

* `WellFormedTheorem`: `Spec => []WellFormed`, and from it `DeliveryTypes` (`TypeOK`);
* `SilencedTheorem`: `Spec => []SilencedOnlyAfterMail`;
* `RecordedTheorem`: `Spec => [](Overlaps /\ Recorded /\ DigestsDated)`;
* `ReportsSpacedTheorem`: `Spec => []ReportsSpaced`;
* `DigestTheorem`: `Spec => []DigestNeverRepeats`;
* `CriticalTheorem`: `Spec => []CriticalAnsweredByMail`;
* `AnnouncedTheorem`: `Spec => []AddedFindingsAnnounced`;

for any number of workers, subscriptions, jobs, reports, faults and ticks.
`WellFormed` is what every one of them needs: rows are typed and of the past, a
subscription has one mark for a key, the snapshots are a series by id, those that wait
for their commit have numbers and jobs of their own (`Pending`), and a worker
knows what its statement needs. On top of it each has its own strengthening:

* A mark is written statements after its mail. `MarksTold` therefore speaks of the keys
  a worker has still to write as well: behind each is a mail of this very instant.
* `Recorded` is its converse for the mails of jobs that were neither cut short nor
  overlapped: a report or a digest has its mark, or a worker that is about to write it.
  `Overlaps` (workers that run beside each other have their jobs in `overlapped`) keeps a
  second worker out of that gap. A later mail then meets the mark and has to be a
  cooldown away. `DigestsDated` lets that distance separate the rows of two digests.
* `Answered` is `CriticalAnsweredByMail` for a worker that has passed the alert, not only for
  one that is done. Its hard case is the alert itself: events that are not mailed are
  in their cooldown, and `MarksTold` gives the mail behind the mark.
* `AddedFindingsAnnounced` is about any two snapshots, the code compares neighbours.
  `StepsAnnounced` says it of neighbours; `HandledOnce` and `Compared` are why: the worker
  that compares still holds the snapshot it saved and the one before it, unless the
  job is handled twice. `Raced` is what keeps another from coming between the two
  (`SpanKept`): a row that is committed below a snapshot that is there already was inserted
  while that one waited, so both jobs are in `blurred`. A snapshot that the archive's
  clean-up takes stays in the order as a lost one (`Taken`), so its neighbours do not
  become a pair that nobody compared. `StepsSpan` then takes the first snapshot of the span that has
  the finding, which exists because the order of the naturals is well founded
  (`Least`), and its predecessor, which has not (`Greatest`). The clean-up of the history
  deletes old snapshots and old events by the same age, and both cascades take an event
  only with its snapshot; an event is dated like its snapshot, so the event of a
  snapshot that remains stays with it.

`DomainScheduleProofs` proves, from `DomainScheduleAssumption` (finitely many targets and
subscriptions, a batch of at least one):

* `ScheduleTypes`: `Spec => []TypeOK`;
* `NobodyOvertakesTheorem`: `Spec => NobodyOvertakes`;
* `TicksCanReadTheorem`: `Spec => []TicksCanRead`;

for any of them and any number of failures and requests. The types are inductive as
they stand; what takes work is what the steps do to the two queues. `RemoveAtIs` and
`InsertAtIs` give the elements of the lists that `RemoveAt` and `InsertAt` of the
community modules return, and `RemoveFirstIs`, `AppendIs` and `InsertIs` say what that means for the
order of a queue without duplicates: who was in front of whom stays there, and only the
row that is moved is new in front of anybody. `ReportMarked` and `WeekBegins` say it of the
weeks. An action property follows step by step (`StepKeepsPlaces`).

`NobodyOvertakes` has a second half, on the two queries. `ListReaches` is the pigeonhole:
a list that is shorter than a batch holds everybody who waits; a full one holds a batch
of different rows, of which fewer than a batch never move, so one of them can be
served, and a row that was left out waits no longer than any that was taken. Both halves
together are the safety part of `DueDomainsScanned` and `DueReportsCome`: what is in front of a
waiting row only shrinks, and what a tick serves comes from there. That a tick comes,
finds the target free and goes through is fairness, and TLC's. `ListExists` shows that
each query has an answer, by a least number of rows for which it had none: without
that the statement about lists could hold because `StartTick` and `ReadDue` never happen.

All these invariants were model-checked with the run's bounds before they were proved.

Only model-checked:

* the liveness properties of `ScanPipeline`, `Subscriptions` and `DomainSchedule`: fairness and
  `ENABLED` are out of the prover's reach. Every invariant and every action property of
  the passing runs is proved;
* that the bounds of the instances are met, which is what the mutants of the model and
  the two violated runs show.

## 5. What is not modelled

The in-memory stores and the file queue of local development; sockets, handshakes and
the output of `openssl` and `testssl.sh` as text; pages, exports, recommendations and mail
wording; the comparison of two reports on a page; health checks, billing accounts and
owner tokens, which are planned; the deployment. `PROJECT.json` gives the reason for
each component. `frontend.py`, a quarter of the source, is HTML, CSS and browser code
without state on the server.

## 6. Where the code and its documents differ

Shown by a run:

* *Scheduling without an archive* (`pipeline_noarchive`). `docs/v0.2-status.md` calls the
  missing scan row fixed; `maintenance monitor-schedule` still creates none, and the
  worker that runs the job fails on the foreign key and restarts.
* *Quiet weeks* (`delivery_quiet`). The weekly mail to a Pro owner says that no new
  vulnerability was found in the last week (`worker.py:299`). It looks at the difference to
  the last snapshot only: when somebody else had the domain scanned in between, the new
  finding is in that snapshot, and the owner is told of a quiet week.

Read off the models, without a run of their own:

* *Failure mails*. `docs/v0.2-acceptance-checklist.md:26` says Pro delivery is blocked without
  ownership. The mail about a failed scan has no such check (`SendFailure`), and neither has
  run-now (`RunNow`).
* *Weekly reports*. `docs/pro-plan.md:15` promises one. A subscription that can never be mailed
  stays due, is scanned again at every tick that finds its target free, and keeps its place
  in front: it keeps others of the same host from their scan, and a batch of such
  subscriptions keeps everybody (the hypotheses of `DueReportsCome`).
* *Active lock*. `docs/work-plan.md:73` promises a lock per target. Its TTL is not renewed and
  counts the wait in the list, so under load a second scan of the target is admitted;
  `OneScanPerTarget` says that nothing else admits one.
* *Lost jobs*. `docs/v0.2-acceptance-checklist.md:9` says the status progresses until done or
  error. A job whose worker dies after BLPOP stays where it is: `QueuedScanEnds` holds
  without faults only.
* *Free plan*. `docs/pro-plan.md:15` gives the free plan one domain. The limit is not applied
  to a host that is already subscribed, on whatever plan: two support subscriptions can
  be turned into two free ones.
* *A+*. The methodology page asks for HSTS with a sufficient max-age (`frontend.py:362`). A
  short one costs 5 points without a cap, and 95 points are still A+. The scanner's own
  grade, which asks for a strong header, is discarded by the adapter.
* *Target denylist*. Scheduled scans, run-now and scan-now do not meet it (`Register`,
  `ScheduleScan`); `docs/work-plan.md:119` lists it for the service.
* *Mixed answers*. `docs/work-plan.md:64` refuses them; `scan_host` on its own drops the private
  addresses and scans the rest. The service always validates first (`ContactsPinned`).
* *Second critical finding*. `docs/pro-plan.md:43` promises an alert for new critical findings.
  The cooldown is kept per code, and SSL 2.0 and 3.0 share one: the second of them within
  a day is not mailed, which is why `CriticalAnsweredByMail` speaks of codes.
* *Alerts in the batch cooldown* are dropped, and an event that comes in the digest's
  cooldown is told only if another follows within the day.
* *One failed handshake* of the verifying context is reported as an untrusted
  certificate, with a missing SAN and without HSTS, because all three come from it.
* *A broken result file* of testssl.sh fails the job although the baseline report exists
  (`DeepScanBreaks`); a missing one does not.
* *IPv6 literals* can be registered by the administrator, and are then refused at every
  schedule, because they are stored without their brackets.
* *An answer called off*. After a push whose reply was lost the API answers with an error
  (`main.py:714`) and the job runs all the same. `save_resolved_addresses` (`worker.py:119`) may
  carry that error into the archive, where it stands while the record runs on, until the
  next update reaches the archive (`RejectedYetRunning`).
* *Snapshots that race*. When the lock lapsed, two workers may take the numbers of their
  snapshots in one order and commit them in the other (`monitoring_store.py:412`). A
  finding that the lower number has lost and the higher one has again is then compared
  with a baseline that already had it, and no event tells of it (`blurred`).
* *Snapshots that go with their scan*. A job handled twice whose second handling fails has
  its scan deleted by the age of failed scans (`archive.py:276`), and with it the snapshot and events
  of the first.
* *The limit of a window that is over*. Threads read the clock before their pipeline
  runs (`traffic_control.py:71`): each may be let through once beyond the limit, with a
  time in a window that has passed in the meantime (`RateWindowHeld`).
* *Retry-After*. Refused calls are counted, so a client that returns on time may be
  refused again.

Races that heal by themselves:

* `_reserve_redis` reads the cooldown before it sets the lock, and `_release_redis`
  deletes the lock before it sets the cooldown: a reservation between the halves
  starts a scan in the cooldown.
* A job that is queued when its address unsubscribes is still scanned and mailed.
* The scheduler serves the due list it has read: a subscription deleted meanwhile is
  scanned once more, and its target is switched on until the next reconciliation.
* A subscription that becomes active between the check and the update of a
  reconciliation has its target switched off until it is due again.

## 7. Plan

Done: the pipeline, the subscriptions, admission, the report, the mails, the schedule. Left, in this
order:

1. The columns of `monitored_domains` that upserts and updates overwrite: whose survive two
   writers.
2. `Heartbeats`, `Billing` and `OwnerToken`: small modules for the health checks, the account's
   status beside the plan limit, and the expiry and scope of signed tokens.
