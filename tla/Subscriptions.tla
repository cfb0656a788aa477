---------------------------- MODULE Subscriptions ----------------------------
(***************************************************************************)
(* Monitoring subscriptions: subscribing, confirming, proving ownership of *)
(* the host, running a scan now, unsubscribing, and the scheduler that     *)
(* disables orphaned targets and serves the subscriptions that are due.    *)
(* Every step is one statement on PostgreSQL, so that other API threads,   *)
(* the scheduler and the worker run between any two.  What the worker does *)
(* with a job is reduced to the mail that it sends for it.                 *)
(***************************************************************************)
EXTENDS Naturals, FiniteSets

CONSTANTS
  Emails,         \* normalised addresses
  Targets,        \* host:port pairs that pass validation
  Owners,         \* the <<email, target>> pairs whose email controls the host
  Handlers,       \* API threads
  Scheduler,      \* the scheduler process
  NoKey,          \* "no subscription"
  FreeLimit,      \* domains per email on the free plan (1)
  ProLimit,       \* domains per email on the support plan (10)
  Operations,     \* the operations that happen: an instance may leave some out
  MaxLinks,       \* bound on the mail links ever issued
  MaxChallenges,  \* bound on the ownership challenges ever issued
  MaxJobs,        \* bound on the jobs queued at a time
  MaxFaults       \* bound on the requests and ticks that fail half-way

Keys == Emails \X Targets   \* the unique index on (email, host, port)
Actors == Handlers \union {Scheduler}

ASSUME SubscriptionsAssumption ==
  /\ Owners \subseteq Keys
  /\ Scheduler \notin Handlers
  /\ NoKey \notin Keys
  /\ FreeLimit \in Nat \ {0}
  /\ ProLimit \in Nat /\ FreeLimit <= ProLimit
  /\ Operations \subseteq {"subscribe", "confirm", "verify", "unsubscribe", "run",
                     "tick", "admin"}
  /\ MaxLinks \in Nat
  /\ MaxChallenges \in Nat
  /\ MaxJobs \in Nat
  /\ MaxFaults \in Nat

\* The pool of the API's threads is bounded.
ASSUME HandlersFinite == IsFiniteSet(Handlers)

VARIABLES
  \* PostgreSQL
  sub,         \* monitor_subscriptions, by key
  domain,      \* monitored_domains, by target
  \* ids and tokens handed out so far
  links,       \* tokens of confirmation and unsubscribe links
  challenges,  \* ownership tokens
  \* the world outside
  published,   \* the ownership tokens found at their hosts
  clicked,     \* the links whose confirmation succeeded, with their subscription
  \* what each thread of the API and the scheduler remembers between statements
  pc, key, seen, copy,
  listed,      \* targets that the scheduler still has to reconcile
  due,         \* subscriptions that it still has to serve
  jobs,        \* scan jobs of subscriptions
  sending,     \* the finished job that the worker sends mails for
  mail,        \* the mail sent last
  faults

tables == <<sub, domain>>
issued == <<links, challenges>>
world  == <<published, clicked>>
local  == <<key, seen, copy>>
ticks  == <<listed, due>>
work   == <<jobs, sending, mail>>
vars == <<tables, issued, world, pc, local, ticks, work, faults>>

Plans == {"free", "support"}

\* A subscription row.  id 0 stands for "no row"; token 0 for no challenge.
Row == [id : 0 .. MaxLinks, link : 0 .. MaxLinks, enabled : BOOLEAN,
        confirmed : BOOLEAN, plan : Plans, token : 0 .. MaxChallenges,
        verified : BOOLEAN]
NoRow == [id |-> 0, link |-> 0, enabled |-> FALSE, confirmed |-> FALSE,
          plan |-> "free", token |-> 0, verified |-> FALSE]

\* A monitored domain belongs to the administrator or, by the prefix of its
\* notes, to the subscriptions.
Domain == [enabled : BOOLEAN, notes : {"none", "own", "subscription"}]
NoDomain == [enabled |-> FALSE, notes |-> "none"]

Job  == [key : Keys, id : 0 .. MaxLinks, plan : Plans]
Mail == [key : Keys, plan : Plans, kind : {"report", "alert", "failure"}]
NoMail == [key |-> NoKey, plan |-> "free", kind |-> "report"]
\* What the worker does next for a finished job.
Stages == {"report", "gating", "alert"}
Sending == [key : Keys, id : 0 .. MaxLinks, plan : Plans, stage : Stages]
Nothing == [key |-> NoKey, id |-> 0, plan |-> "free", stage |-> "report"]
At(j, stage) == [key |-> j.key, id |-> j.id, plan |-> j.plan, stage |-> stage]
MailFor(j, kind) == [key |-> j.key, plan |-> j.plan, kind |-> kind]

Pcs == {"idle", "admitted", "disabled", "listing", "loading", "disabling", "patching",
        "checking", "proved", "upserting", "scheduling", "reconciling", "processing"}

TypeOK ==
  /\ sub \in [Keys -> Row]
  /\ domain \in [Targets -> Domain]
  /\ links \in 0 .. MaxLinks
  /\ challenges \in 0 .. MaxChallenges
  /\ published \in SUBSET (1 .. MaxChallenges)
  /\ clicked \in SUBSET (Keys \X (1 .. MaxLinks))
  /\ pc \in [Actors -> Pcs]
  /\ key \in [Actors -> Keys \union {NoKey}]
  /\ seen \in [Actors -> Row]
  /\ copy \in [Actors -> Domain]
  /\ listed \in SUBSET Targets
  /\ due \in SUBSET Job
  /\ jobs \in SUBSET Job
  /\ sending \in Sending \union {Nothing}
  /\ mail \in Mail \union {NoMail}
  /\ faults \in 0 .. MaxFaults

Init ==
  /\ sub = [k \in Keys |-> NoRow]
  /\ domain = [t \in Targets |-> NoDomain]
  /\ links = 0
  /\ challenges = 0
  /\ published = {}
  /\ clicked = {}
  /\ pc = [a \in Actors |-> "idle"]
  /\ key = [a \in Actors |-> NoKey]
  /\ seen = [a \in Actors |-> NoRow]
  /\ copy = [a \in Actors |-> NoDomain]
  /\ listed = {}
  /\ due = {}
  /\ jobs = {}
  /\ sending = Nothing
  /\ mail = NoMail
  /\ faults = 0

-----------------------------------------------------------------------------
Exists(k) == sub[k].id # 0
Active(k) == sub[k].enabled /\ sub[k].confirmed
\* Mutant: a request that is never confirmed counts.
ActiveForTargetUnconfirmed(t) == \E e \in Emails : sub[<<e, t>>].enabled
ActiveForTarget(t) == \E e \in Emails : Active(<<e, t>>)
EnabledOf(e) == {t \in Targets : sub[<<e, t>>].enabled}
PlanLimit(plan) == IF plan = "free" THEN FreeLimit ELSE ProLimit
TargetOf(k) == k[2]
JobOf(k) == [key |-> k, id |-> sub[k].id, plan |-> sub[k].plan]

Goto(a, from, to) == pc[a] = from /\ pc' = [pc EXCEPT ![a] = to]
\* A request ends; the scheduler goes on with its list.
Done(a) ==
  /\ pc' = [pc EXCEPT ![a] = IF a # Scheduler THEN "idle"
                             ELSE IF pc[a] \in {"upserting", "scheduling"}
                                  THEN "processing" ELSE "reconciling"]
  /\ key' = [key EXCEPT ![a] = NoKey]
  /\ seen' = [seen EXCEPT ![a] = NoRow]
  /\ copy' = [copy EXCEPT ![a] = NoDomain]

-----------------------------------------------------------------------------
(***************************************************************************)
(* Subscribing and confirming.                                             *)
(***************************************************************************)
\* Mutant: one more than the limit.
CheckPlanLimitOffByOne(a, k, plan) ==
  LET existing == EnabledOf(k[1]) IN
  /\ a \in Handlers
  /\ Goto(a, "idle", "admitted")
  /\ links < MaxLinks
  /\ Cardinality(existing) <= PlanLimit(plan) \/ TargetOf(k) \in existing
  /\ key' = [key EXCEPT ![a] = k]
  /\ seen' = [seen EXCEPT ![a].plan = plan]
  /\ UNCHANGED <<tables, issued, world, copy, ticks, work, faults>>

\* find_by_email and the plan limit.  A refused request ends with 409 and
\* changes nothing.
CheckPlanLimit(a, k, plan) ==
  LET existing == EnabledOf(k[1]) IN
  /\ a \in Handlers
  /\ Goto(a, "idle", "admitted")
  /\ links < MaxLinks
  /\ Cardinality(existing) < PlanLimit(plan) \/ TargetOf(k) \in existing
  /\ key' = [key EXCEPT ![a] = k]
  /\ seen' = [seen EXCEPT ![a].plan = plan]
  /\ UNCHANGED <<tables, issued, world, copy, ticks, work, faults>>

\* Mutant: a renewed request keeps the old confirmation.
UpsertPendingConfirmed(a) ==
  LET k == key[a]
      plan == seen[a].plan
  IN
  /\ pc[a] = "admitted"
  /\ links < MaxLinks
  /\ links' = links + 1
  /\ sub' = [sub EXCEPT ![k] =
       [id |-> IF Exists(k) THEN @.id ELSE links', link |-> links',
        enabled |-> TRUE, confirmed |-> @.confirmed, plan |-> plan, token |-> 0,
        verified |-> plan = "support" /\ @.verified]]
  /\ Done(a)
  /\ UNCHANGED <<domain, challenges, world, ticks, work, faults>>

\* upsert_pending: a new row, or the old one with a new link, unconfirmed
\* again.  Ownership proved earlier is kept on the support plan.  The link
\* goes to the address by mail; a mail that fails is a link never used.
UpsertPending(a) ==
  LET k == key[a]
      plan == seen[a].plan
  IN
  /\ pc[a] = "admitted"
  /\ links < MaxLinks
  /\ links' = links + 1
  /\ sub' = [sub EXCEPT ![k] =
       [id |-> IF Exists(k) THEN @.id ELSE links', link |-> links',
        enabled |-> TRUE, confirmed |-> FALSE, plan |-> plan, token |-> 0,
        verified |-> plan = "support" /\ @.verified]]
  /\ Done(a)
  /\ UNCHANGED <<domain, challenges, world, ticks, work, faults>>

\* The owner of the mailbox opens a link that has not expired.
Confirm(k, link) ==
  /\ link > 0
  /\ sub[k].link = link
  /\ sub[k].enabled
  /\ sub' = [sub EXCEPT ![k].confirmed = TRUE]
  /\ clicked' = clicked \union {<<k, link>>}
  /\ UNCHANGED <<domain, issued, published, pc, local, ticks, work, faults>>

\* cleanup_unconfirmed, 48 hours later; the timer runs it beside everything.
CleanupUnconfirmed(k) ==
  /\ Exists(k)
  /\ ~sub[k].confirmed
  /\ sub' = [sub EXCEPT ![k] = NoRow]
  /\ UNCHANGED <<domain, issued, world, pc, local, ticks, work, faults>>

-----------------------------------------------------------------------------
(***************************************************************************)
(* Ownership of the host.                                                  *)
(***************************************************************************)
\* Mutant: the address is not part of the challenge.
BeginChallengePerHost(k) ==
  /\ Exists(k)
  /\ challenges < MaxChallenges
  /\ challenges' = challenges + 1
  /\ sub' = [sub EXCEPT ![k].token = 1, ![k].verified = FALSE]
  /\ UNCHANGED <<domain, links, world, pc, local, ticks, work, faults>>

\* begin_ownership_verification: a new challenge revokes what was proved.
BeginChallenge(k) ==
  /\ Exists(k)
  /\ challenges < MaxChallenges
  /\ challenges' = challenges + 1
  /\ sub' = [sub EXCEPT ![k].token = challenges', ![k].verified = FALSE]
  /\ UNCHANGED <<domain, links, world, pc, local, ticks, work, faults>>

\* Someone who controls the host publishes the challenge they were given.
Publish(k) ==
  /\ k \in Owners
  /\ sub[k].token > 0
  /\ published' = published \union {sub[k].token}
  /\ UNCHANGED <<tables, issued, clicked, pc, local, ticks, work, faults>>

\* verify_subscription_ownership reads the row; on the free plan, verified
\* already, or without a challenge it ends here.
ReadChallenge(a, k) ==
  /\ a \in Handlers
  /\ Goto(a, "idle", "checking")
  /\ Exists(k)
  /\ sub[k].plan = "support"
  /\ ~sub[k].verified
  /\ sub[k].token > 0
  /\ key' = [key EXCEPT ![a] = k]
  /\ seen' = [seen EXCEPT ![a] = sub[k]]
  /\ UNCHANGED <<tables, issued, world, copy, ticks, work, faults>>

\* The DNS or HTTPS lookup of the token that was read.
CheckChallenge(a) ==
  /\ pc[a] = "checking"
  /\ \/ /\ seen[a].token \in published
        /\ pc' = [pc EXCEPT ![a] = "proved"]
        /\ UNCHANGED local
     \/ Done(a)
  /\ UNCHANGED <<tables, issued, world, ticks, work, faults>>

\* mark_ownership_verified, by id, whatever became of the row meanwhile.
MarkVerified(a) ==
  LET k == key[a] IN
  /\ pc[a] = "proved"
  /\ sub' = IF sub[k].id = seen[a].id THEN [sub EXCEPT ![k].verified = TRUE] ELSE sub
  /\ Done(a)
  /\ UNCHANGED <<domain, issued, world, ticks, work, faults>>

-----------------------------------------------------------------------------
(***************************************************************************)
(* Unsubscribing, by link or by the owner's token, and update_domain.      *)
(***************************************************************************)
Disable(a, k) ==
  /\ a \in Handlers
  /\ Goto(a, "idle", "disabled")
  /\ Exists(k)
  /\ sub' = [sub EXCEPT ![k].enabled = FALSE]
  /\ key' = [key EXCEPT ![a] = k]
  /\ UNCHANGED <<domain, issued, world, seen, copy, ticks, work, faults>>

\* Mutant: a thread lost between two statements.
CheckOrphanLost(a) ==
  /\ pc[a] = "disabled"
  /\ pc' = [pc EXCEPT ![a] = "orphan"]
  /\ UNCHANGED <<tables, issued, world, local, ticks, work, faults>>

\* disable_orphaned_subscription_target: active_for_target ...
CheckOrphan(a) ==
  /\ pc[a] = "disabled"
  /\ IF ActiveForTarget(TargetOf(key[a])) THEN Done(a)
     ELSE pc' = [pc EXCEPT ![a] = "listing"] /\ UNCHANGED local
  /\ UNCHANGED <<tables, issued, world, ticks, work, faults>>

\* ... list_domains and its notes ...
FindDomain(a) ==
  /\ pc[a] = "listing"
  /\ IF domain[TargetOf(key[a])].notes = "subscription"
     THEN pc' = [pc EXCEPT ![a] = "loading"] /\ UNCHANGED local
     ELSE Done(a)
  /\ UNCHANGED <<tables, issued, world, ticks, work, faults>>

\* ... and update_domain, which first reads the row ...
LoadDomain(a) ==
  /\ Goto(a, "loading", "disabling")
  /\ copy' = [copy EXCEPT ![a] = domain[TargetOf(key[a])]]
  /\ UNCHANGED <<tables, issued, world, key, seen, ticks, work, faults>>

\* ... and then writes all its columns.
DisableDomain(a) ==
  /\ pc[a] = "disabling"
  /\ domain' = [domain EXCEPT ![TargetOf(key[a])] = [copy[a] EXCEPT !.enabled = FALSE]]
  /\ Done(a)
  /\ UNCHANGED <<sub, issued, world, ticks, work, faults>>

\* POST /api/monitor/domains and the monitor-add command.
AdminUpsert(t, enabled) ==
  /\ domain' = [domain EXCEPT ![t] = [enabled |-> enabled, notes |-> "own"]]
  /\ UNCHANGED <<sub, issued, world, pc, local, ticks, work, faults>>

\* PATCH /api/monitor/domains: update_domain with a request's columns.
LoadPatch(a, k) ==
  /\ a \in Handlers
  /\ Goto(a, "idle", "patching")
  /\ domain[TargetOf(k)].notes # "none"
  /\ key' = [key EXCEPT ![a] = k]
  /\ copy' = [copy EXCEPT ![a] = domain[TargetOf(k)]]
  /\ UNCHANGED <<tables, issued, world, seen, ticks, work, faults>>

PatchDomain(a) ==
  /\ pc[a] = "patching"
  /\ \E enabled \in BOOLEAN, notes \in {copy[a].notes, "own"} :
       domain' = [domain EXCEPT ![TargetOf(key[a])] = [enabled |-> enabled, notes |-> notes]]
  /\ Done(a)
  /\ UNCHANGED <<sub, issued, world, ticks, work, faults>>

-----------------------------------------------------------------------------
(***************************************************************************)
(* Serving a subscription: run_subscription_now and process_subscriptions. *)
(***************************************************************************)
\* Mutant: confirmation is not asked for.
RunNowUnconfirmed(a, k) ==
  /\ a \in Handlers
  /\ Goto(a, "idle", "upserting")
  /\ Exists(k)
  /\ sub[k].enabled
  /\ key' = [key EXCEPT ![a] = k]
  /\ seen' = [seen EXCEPT ![a] = sub[k]]
  /\ UNCHANGED <<tables, issued, world, copy, ticks, work, faults>>

\* run_subscription_now reads the row; on any plan, proven or not.
RunNow(a, k) ==
  /\ a \in Handlers
  /\ Goto(a, "idle", "upserting")
  /\ Exists(k)
  /\ Active(k)
  /\ key' = [key EXCEPT ![a] = k]
  /\ seen' = [seen EXCEPT ![a] = sub[k]]
  /\ UNCHANGED <<tables, issued, world, copy, ticks, work, faults>>

\* upsert_domain: the target is enabled and belongs to the subscriptions now.
UpsertDomain(a) ==
  /\ Goto(a, "upserting", "scheduling")
  /\ domain' = [domain EXCEPT ![TargetOf(key[a])] =
                  [enabled |-> TRUE, notes |-> "subscription"]]
  /\ UNCHANGED <<sub, issued, world, local, ticks, work, faults>>

\* schedule_domain_scan queues a job, or skips the target.  The job carries
\* the subscription as it was read.
ScheduleScan(a) ==
  /\ pc[a] = "scheduling"
  /\ \/ /\ Cardinality(jobs) < MaxJobs
        /\ jobs' = jobs \union {[key |-> key[a], id |-> seen[a].id, plan |-> seen[a].plan]}
     \/ UNCHANGED jobs
  /\ Done(a)
  /\ UNCHANGED <<tables, issued, world, ticks, sending, mail, faults>>

-----------------------------------------------------------------------------
(***************************************************************************)
(* A tick of the scheduler.                                                *)
(***************************************************************************)
\* reconcile_subscription_domains lists the domains ...
StartTick ==
  /\ Goto(Scheduler, "idle", "reconciling")
  /\ listed' = {t \in Targets : domain[t].notes = "subscription" /\ domain[t].enabled}
  /\ UNCHANGED <<tables, issued, world, local, due, work, faults>>

\* ... and disables those without an active subscription.
Reconcile(t) ==
  /\ pc[Scheduler] = "reconciling"
  /\ t \in listed
  /\ listed' = listed \ {t}
  /\ IF ActiveForTarget(t) THEN UNCHANGED <<pc, key>>
     ELSE /\ pc' = [pc EXCEPT ![Scheduler] = "loading"]
          /\ \E e \in Emails : key' = [key EXCEPT ![Scheduler] = <<e, t>>]
  /\ UNCHANGED <<tables, issued, world, seen, copy, due, work, faults>>

Serviceable(k) ==
  Active(k) /\ (sub[k].plan = "free" \/ (sub[k].plan = "support" /\ sub[k].verified))

\* due(): of the serviceable rows, those whose next_run_at has come.
ReadDue ==
  /\ listed = {}
  /\ Goto(Scheduler, "reconciling", "processing")
  /\ \E ks \in SUBSET {k \in Keys : Serviceable(k)} : due' = {JobOf(k) : k \in ks}
  /\ UNCHANGED <<tables, issued, world, local, listed, work, faults>>

TakeDue(j) ==
  /\ j \in due
  /\ Goto(Scheduler, "processing", "upserting")
  /\ due' = due \ {j}
  /\ key' = [key EXCEPT ![Scheduler] = j.key]
  /\ seen' = [seen EXCEPT ![Scheduler].id = j.id, ![Scheduler].plan = j.plan]
  /\ UNCHANGED <<tables, issued, world, copy, listed, work, faults>>

EndTick ==
  /\ due = {}
  /\ Goto(Scheduler, "processing", "idle")
  /\ UNCHANGED <<tables, issued, world, local, ticks, work, faults>>

-----------------------------------------------------------------------------
(***************************************************************************)
(* The worker's mails.                                                     *)
(***************************************************************************)
Verified(j) == sub[j.key].id = j.id /\ sub[j.key].verified

\* Mutant: ownership is not asked for again.
GateReportUngated(j) ==
  /\ j \in jobs
  /\ sending = Nothing
  /\ jobs' = jobs \ {j}
  /\ sending' = At(j, "report")
  /\ UNCHANGED <<tables, issued, world, pc, local, ticks, mail, faults>>

\* The scan is done.  Its report is skipped when the ownership of a support
\* subscription is not proved, and by the cooldown or without SMTP.
GateReport(j) ==
  /\ j \in jobs
  /\ sending = Nothing
  /\ jobs' = jobs \ {j}
  /\ \/ /\ j.plan = "free" \/ Verified(j)
        /\ sending' = At(j, "report")
     \/ sending' = At(j, "gating")
  /\ UNCHANGED <<tables, issued, world, pc, local, ticks, mail, faults>>

SendReport ==
  /\ sending.key # NoKey
  /\ sending.stage = "report"
  /\ \/ mail' = MailFor(sending, "report")
     \/ UNCHANGED mail
  /\ sending' = [sending EXCEPT !.stage = "gating"]
  /\ UNCHANGED <<tables, issued, world, pc, local, ticks, jobs, faults>>

\* Then the alerts, on the support plan, when there are events to tell.
GateAlert ==
  /\ sending.stage = "gating"
  /\ \/ /\ sending.plan = "support" /\ Verified(sending)
        /\ sending' = [sending EXCEPT !.stage = "alert"]
     \/ sending' = Nothing
  /\ UNCHANGED <<tables, issued, world, pc, local, ticks, jobs, mail, faults>>

SendAlert ==
  /\ sending.stage = "alert"
  /\ \/ mail' = MailFor(sending, "alert")
     \/ UNCHANGED mail
  /\ sending' = Nothing
  /\ UNCHANGED <<tables, issued, world, pc, local, ticks, jobs, faults>>

\* The scan failed: a failure mail on any plan, unless one was sent lately.
SendFailure(j) ==
  /\ j \in jobs
  /\ sending = Nothing
  /\ jobs' = jobs \ {j}
  /\ \/ mail' = MailFor(j, "failure")
     \/ UNCHANGED mail
  /\ UNCHANGED <<tables, issued, world, pc, local, ticks, sending, faults>>

-----------------------------------------------------------------------------
\* A request or a tick, once begun, goes on.
ActorStep(a) ==
  \/ UpsertPending(a) \/ CheckChallenge(a) \/ MarkVerified(a)
  \/ CheckOrphan(a) \/ FindDomain(a) \/ LoadDomain(a) \/ DisableDomain(a)
  \/ UpsertDomain(a) \/ ScheduleScan(a) \/ PatchDomain(a)

\* A statement fails, or the process restarts: a request ends half-way, and a
\* tick of the scheduler with all that it had still to do.
Fail(a) ==
  /\ pc[a] # "idle"
  /\ faults < MaxFaults
  /\ faults' = faults + 1
  /\ pc' = [pc EXCEPT ![a] = "idle"]
  /\ key' = [key EXCEPT ![a] = NoKey]
  /\ seen' = [seen EXCEPT ![a] = NoRow]
  /\ copy' = [copy EXCEPT ![a] = NoDomain]
  /\ IF a = Scheduler THEN listed' = {} /\ due' = {} ELSE UNCHANGED ticks
  /\ UNCHANGED <<tables, issued, world, work>>

TickStep ==
  \/ "tick" \in Operations /\ StartTick
  \/ ReadDue \/ EndTick
  \/ \E t \in Targets : Reconcile(t)
  \/ \E j \in due : TakeDue(j)

Request(a, k) ==
  \/ "subscribe" \in Operations /\ \E plan \in Plans : CheckPlanLimit(a, k, plan)
  \/ "verify" \in Operations /\ ReadChallenge(a, k)
  \/ "unsubscribe" \in Operations /\ Disable(a, k)
  \/ "run" \in Operations /\ RunNow(a, k)
  \/ "admin" \in Operations /\ LoadPatch(a, k)

Next ==
  \/ \E a \in Actors : ActorStep(a) \/ Fail(a)
  \/ \E a \in Handlers, k \in Keys : Request(a, k)
  \/ \E k \in Keys : \/ "confirm" \in Operations /\ \E link \in 1 .. links : Confirm(k, link)
                     \/ CleanupUnconfirmed(k)
                     \/ "verify" \in Operations /\ BeginChallenge(k)
                     \/ Publish(k)
  \/ "admin" \in Operations /\ \E t \in Targets, enabled \in BOOLEAN : AdminUpsert(t, enabled)
  \/ TickStep
  \/ \E j \in jobs : GateReport(j) \/ SendFailure(j)
  \/ SendReport \/ GateAlert \/ SendAlert

\* Requests that were begun end, and the scheduler ticks forever.
Fairness ==
  /\ \A a \in Actors : WF_vars(ActorStep(a))
  /\ WF_vars(TickStep)

Spec == Init /\ [][Next]_vars /\ Fairness

-----------------------------------------------------------------------------
(***************************************************************************)
(* What must hold.                                                         *)
(***************************************************************************)
\* A subscription is confirmed only by the link of its latest request: asking
\* again, on another plan or after unsubscribing, needs a new click.
ConfirmedByItsOwnLink ==
  \A k \in Keys : sub[k].confirmed => <<k, sub[k].link>> \in clicked

\* Nothing is done for a subscription that nobody asked for.  No mail about a host
\* ever goes to an address that did not confirm one: not a report, an alert or the
\* news of a failed scan, by whatever path the job came.  And no host is on the
\* schedule for subscriptions, or in a job of one, unless it was confirmed, although
\* threads read, renew, delete, disable and write back rows in between.
OnlyAfterConsent ==
  /\ mail # NoMail => \E link \in 1 .. links : <<mail.key, link>> \in clicked
  /\ \A j \in jobs : \E link \in 1 .. links : <<j.key, link>> \in clicked
  /\ \A t \in Targets : domain[t].notes = "subscription" =>
       \E k \in Keys, link \in 1 .. links : TargetOf(k) = t /\ <<k, link>> \in clicked

\* Ownership is recorded only for an address that controls the host, whatever
\* other addresses prove for the same host and however challenges, checks,
\* renewed requests and clean-ups interleave.
OnlyOwnersVerified == \A k \in Keys : sub[k].verified => k \in Owners

\* Reports and alerts of the support plan go to proven owners only.
SupportReportsOnlyToOwners ==
  mail.plan = "support" /\ mail.kind # "failure" => mail.key \in Owners

\* The limit of a plan is checked before the row is written, so that requests
\* in flight together may overrun it: by fewer domains than there are handlers.
PlanLimitOvershoot ==
  \A e \in Emails : Cardinality(EnabledOf(e)) < ProLimit + Cardinality(Handlers)

\* A target switched on for a subscription that is gone is switched off again,
\* even when the request that should have done it failed half-way.
OrphansAreDisabled ==
  \A t \in Targets :
    (domain[t].enabled /\ domain[t].notes = "subscription") ~>
      \/ ~domain[t].enabled
      \/ domain[t].notes # "subscription"
      \/ \E e \in Emails : sub[<<e, t>>].enabled /\ sub[<<e, t>>].confirmed

=============================================================================
