--------------------------- MODULE DomainSchedule ---------------------------
(***************************************************************************)
(* Who is served when: the queues behind the scheduler's ticks.  A tick    *)
(* reads the monitored domains whose next_scan_at has passed and then the  *)
(* subscriptions whose next_run_at has, the longest waiting first and at   *)
(* most a batch of each.  A row moves back only when its scan was queued   *)
(* (mark_scan_scheduled), a subscription only when its report was mailed   *)
(* (mark_sent); one that is skipped keeps its place.  Times are abstracted *)
(* to the order in which they pass.  What a job does on its way is         *)
(* ScanPipeline's subject: here it locks its target, ends, and leaves a    *)
(* cooldown.  How subscriptions come and go, and the reconciliation at the *)
(* start of a tick, are in Subscriptions: here every one stays enabled.    *)
(***************************************************************************)
EXTENDS Naturals, FiniteSets, SequencesExt

CONSTANTS
  Targets,        \* host:port pairs
  Monitored,      \* those that an administrator has registered at first
  Dead,           \* those that fail validation whenever they are resolved
  Subs,           \* subscriptions that are confirmed and allowed reports
  TargetOf,       \* the target of each
  Undeliverable,  \* those whose scan fails or whose report is refused, always
  Batch,          \* SCHEDULER_BATCH_SIZE
  MaxUpsets       \* bound on failures and on requests beside the schedule

ASSUME DomainScheduleAssumption ==
  /\ IsFiniteSet(Targets) /\ IsFiniteSet(Subs)
  /\ Monitored \subseteq Targets /\ Dead \subseteq Targets
  /\ TargetOf \in [Subs -> Targets]
  /\ Undeliverable \subseteq Subs
  /\ Subs \intersect {"free", "taken"} = {}
  /\ Batch \in Nat \ {0}
  /\ MaxUpsets \in Nat

VARIABLES
  enabled, notes,  \* columns of monitored_domains; notes name who owns the row
  lapsed,          \* the administrator's rows whose next_scan_at has passed,
                   \* oldest first
  late,            \* the subscriptions whose next_run_at has passed, by week
  lock,            \* by target: free, taken by the job of a subscription, or
                   \* taken by another job or a cooldown
  stage, todo,     \* where the tick is, and what it has read and not served
  met,             \* subscribed targets that a tick of this week found free
  upsets

rows == <<enabled, notes, lapsed>>
tick == <<stage, todo, met>>
vars == <<enabled, notes, lapsed, late, lock, stage, todo, met, upsets>>

Subscribed == {TargetOf[s] : s \in Subs} \ Dead
Owners == {"none", "administrator", "subscription"}   \* "none": no row
Late == UNION {late[i] : i \in DOMAIN late}
Week(s) == CHOOSE i \in DOMAIN late : s \in late[i]
Place(t) == CHOOSE i \in DOMAIN lapsed : lapsed[i] = t

TypeOK ==
  /\ enabled \subseteq Targets
  /\ notes \in [Targets -> Owners]
  /\ lapsed \in Seq({t \in Targets : notes[t] = "administrator"}) /\ IsInjective(lapsed)
  /\ late \in Seq((SUBSET Subs) \ {{}})
  /\ \A i, j \in DOMAIN late : i /= j => late[i] \intersect late[j] = {}
  /\ lock \in [Targets -> {"free", "taken"} \union Subs]
  /\ stage \in {"domains", "subscriptions"}
  /\ todo \in Seq(IF stage = "subscriptions" THEN Subs ELSE Targets)
  /\ Len(todo) <= Batch
  /\ met \subseteq Subscribed
  /\ upsets \in 0..MaxUpsets

Init ==
  /\ notes = [t \in Targets |->
                IF t \in Monitored THEN "administrator" ELSE "none"]
  /\ enabled = Monitored
  /\ lapsed = <<>> /\ late = <<>>
  /\ lock = [t \in Targets |-> "free"]
  /\ stage = "subscriptions" /\ todo = <<>> /\ met = {}
  /\ upsets = 0

-----------------------------------------------------------------------------
(* Rows and jobs.                                                          *)

\* The lists that "ORDER BY ... LIMIT" may give: rows that tie come in any order.
Lists(due, place, limit) ==
  LET n == IF Cardinality(due) < limit THEN Cardinality(due) ELSE limit
  IN {seq \in [1..n -> due] :
        /\ IsInjective(seq)
        /\ \A i \in 1..n, x \in due :
             place[x] < place[seq[i]] => \E j \in 1..(i - 1) : seq[j] = x}

IsDue(t) == t \in enabled /\ notes[t] = "administrator"
Waiting == {t \in Range(lapsed) : IsDue(t)}
DueDomainsUnlimited ==
  Lists(Waiting, [t \in Waiting |-> Place(t)], Cardinality(Waiting))
DueDomainsNewestFirst ==
  Lists(Waiting, [t \in Waiting |-> Len(lapsed) - Place(t)], Batch)
DueDomains == Lists(Waiting, [t \in Waiting |-> Place(t)], Batch)

UpsertDomain(t, owner) ==
  /\ enabled' = enabled \union {t}
  /\ notes' = [notes EXCEPT ![t] = owner]

\* schedule_domain_scan: validate, reserve, queue, mark_scan_scheduled.
CanScan(t) == t \notin Dead /\ lock[t] = "free"
ScheduleDomainScan(t) ==
  IF CanScan(t)
  THEN lock' = [lock EXCEPT ![t] = "taken"] /\ lapsed' = RemoveFirst(lapsed, t)
  ELSE UNCHANGED <<lock, lapsed>>

-----------------------------------------------------------------------------
(* The scheduler.                                                          *)

\* The tick before is over: read the due domains.
StartTick ==
  /\ stage = "subscriptions" /\ todo = <<>>
  /\ stage' = "domains" /\ todo' \in DueDomains
  /\ met' = met \union {t \in Subscribed : lock[t] = "free"}
  /\ UNCHANGED <<rows, late, lock, upsets>>

ServeDomain ==
  /\ stage = "domains" /\ todo /= <<>>
  /\ ScheduleDomainScan(Head(todo))
  /\ todo' = Tail(todo)
  /\ UNCHANGED <<enabled, notes, late, stage, met, upsets>>

\* The weekly instants are all the same: those of a week tie.
DueNewestFirst == Lists(Late, [s \in Late |-> Len(late) - Week(s)], Batch)
Due == Lists(Late, [s \in Late |-> Week(s)], Batch)

ReadDue ==
  /\ stage = "domains" /\ todo = <<>>
  /\ stage' = "subscriptions" /\ todo' \in Due
  /\ UNCHANGED <<rows, late, lock, met, upsets>>

\* The subscription takes the row over, whoever owned it.  Nobody looks at its
\* next_scan_at any more.
TakeOver(s) ==
  /\ UpsertDomain(TargetOf[s], "subscription")
  /\ lapsed' = RemoveFirst(lapsed, TargetOf[s])

\* ... and then its scan is queued or skipped.
RunSubscription(s) ==
  /\ TakeOver(s)
  /\ IF CanScan(TargetOf[s])
     THEN lock' = [lock EXCEPT ![TargetOf[s]] = s]
     ELSE UNCHANGED lock

ServeSubscription ==
  /\ stage = "subscriptions" /\ todo /= <<>>
  /\ RunSubscription(Head(todo))
  /\ todo' = Tail(todo)
  /\ UNCHANGED <<late, stage, met, upsets>>

SchedulerStep == StartTick \/ ServeDomain \/ ReadDue \/ ServeSubscription

-----------------------------------------------------------------------------
(* Jobs, mails and time.                                                   *)

\* mark_sent: the next run is on the Monday to come.
MarkSent(s) ==
  late' = IF s \notin Late THEN late
          ELSE IF late[Week(s)] = {s} THEN RemoveAt(late, Week(s))
          ELSE [late EXCEPT ![Week(s)] = @ \ {s}]

\* The worker mails the report and gives the lock back, with a cooldown.
ReportedScanEnds(t) ==
  /\ lock[t] \in Subs /\ lock' = [lock EXCEPT ![t] = "taken"]
  /\ IF lock[t] \in Undeliverable THEN UNCHANGED late ELSE MarkSent(lock[t])
  /\ UNCHANGED <<rows, tick, upsets>>

\* A job that reports to nobody has ended, and the cooldown is over.
TargetFreed(t) ==
  /\ lock[t] = "taken" /\ lock' = [lock EXCEPT ![t] = "free"]
  /\ UNCHANGED <<rows, late, tick, upsets>>

\* next_scan_at passes, whether the row is enabled or not.
ScanFallsDue(t) ==
  /\ notes[t] = "administrator" /\ ~Contains(lapsed, t)
  /\ lapsed' = Append(lapsed, t)
  /\ UNCHANGED <<enabled, notes, late, lock, tick, upsets>>

\* Monday 05:00: every next_run_at that has not passed yet passes.  A week is
\* long beside ticks, scans and cooldowns: there was a tick for each target in
\* which it was free.
NewWeek ==
  /\ met = Subscribed /\ met' = {}
  /\ Subs \ Late /= {}
  /\ late' = Append(late, Subs \ Late)
  /\ UNCHANGED <<rows, lock, stage, todo, upsets>>

-----------------------------------------------------------------------------
(* Failures, and requests beside the schedule.                             *)

Upset == upsets < MaxUpsets /\ upsets' = upsets + 1

Served == IF stage = "domains" THEN Head(todo) ELSE TargetOf[Head(todo)]

\* The push of a due domain or subscription fails: it is skipped.
PushFails ==
  /\ Upset
  /\ todo /= <<>> /\ CanScan(Served) /\ todo' = Tail(todo)
  /\ IF stage = "domains" THEN UNCHANGED rows ELSE TakeOver(Head(todo))
  /\ UNCHANGED <<late, lock, stage, met>>

\* A statement raises, or the scheduler is restarted, and the rest of the tick is
\* lost: between two rows, ...
TickFails ==
  /\ Upset
  /\ stage' = "subscriptions" /\ todo' = <<>>
  /\ UNCHANGED <<rows, late, lock, met>>

\* ... or after a push and before mark_scan_scheduled.
MarkFails ==
  /\ Upset
  /\ todo /= <<>> /\ CanScan(Served)
  /\ IF stage = "domains"
     THEN lock' = [lock EXCEPT ![Served] = "taken"] /\ UNCHANGED rows
     ELSE RunSubscription(Head(todo))
  /\ stage' = "subscriptions" /\ todo' = <<>>
  /\ UNCHANGED <<late, met>>

\* The scan fails, or its mail does, or the report is skipped for its cooldown.
ScanFails(t) ==
  /\ Upset
  /\ lock[t] \in Subs /\ lock' = [lock EXCEPT ![t] = "taken"]
  /\ UNCHANGED <<rows, late, tick>>

\* The worker dies, and the lock's TTL runs out.
WorkerLost(t) ==
  /\ Upset
  /\ lock[t] /= "free" /\ lock' = [lock EXCEPT ![t] = "free"]
  /\ UNCHANGED <<rows, late, tick>>

VisitorScans(t) ==
  /\ Upset
  /\ CanScan(t) /\ lock' = [lock EXCEPT ![t] = "taken"]
  /\ UNCHANGED <<rows, late, tick>>

\* A new row is due at once; another keeps its next_scan_at, and when that passed
\* is not known of a row that was a subscription's.
AdministratorSaves(t) ==
  /\ Upset
  /\ UpsertDomain(t, "administrator")
  /\ CASE notes[t] = "none" -> lapsed' = Append(lapsed, t)
       [] notes[t] = "administrator" -> UNCHANGED lapsed
       [] notes[t] = "subscription" ->
            \/ UNCHANGED lapsed
            \/ \E i \in 1..(Len(lapsed) + 1) : lapsed' = InsertAt(lapsed, i, t)
  /\ UNCHANGED <<late, lock, tick>>

AdministratorDisables(t) ==
  /\ Upset
  /\ t \in enabled /\ enabled' = enabled \ {t}
  /\ UNCHANGED <<notes, lapsed, late, lock, tick>>

AdministratorScansNow(t) ==
  /\ Upset
  /\ notes[t] /= "none" /\ ScheduleDomainScan(t)
  /\ UNCHANGED <<enabled, notes, late, tick>>

RunSubscriptionNow(s) ==
  /\ Upset
  /\ RunSubscription(s)
  /\ UNCHANGED <<late, tick>>

-----------------------------------------------------------------------------
TargetStep(t) ==
  \/ ReportedScanEnds(t) \/ TargetFreed(t) \/ ScanFallsDue(t)
  \/ ScanFails(t) \/ WorkerLost(t) \/ VisitorScans(t)
  \/ AdministratorSaves(t) \/ AdministratorDisables(t) \/ AdministratorScansNow(t)

Next ==
  \/ SchedulerStep \/ NewWeek \/ PushFails \/ TickFails \/ MarkFails
  \/ \E t \in Targets : TargetStep(t)
  \/ \E s \in Subs : RunSubscriptionNow(s)

\* The ticks go on, jobs end, and cooldowns run out.
Fairness ==
  /\ WF_vars(SchedulerStep)
  /\ \A t \in Targets : WF_vars(ReportedScanEnds(t)) /\ WF_vars(TargetFreed(t))

Spec == Init /\ [][Next]_vars /\ Fairness

-----------------------------------------------------------------------------
(* Properties.                                                             *)

Stuck == Undeliverable \union {s \in Subs : TargetOf[s] \in Dead}

\* Those that are served no later than t, or than s.
UpToDomain(t) == {u \in Range(lapsed) : Place(u) <= Place(t)}
UpToSub(s) == {m \in Late : Week(m) <= Week(s)}

\* Nobody loses ground to one who comes due later, however often a row is skipped
\* or comes due again, but to a row that the administrator takes back from a
\* subscription: its next_scan_at may be old (upsert_domain).
KeepsPlaces ==
  /\ \A t \in Range(lapsed) \intersect Range(lapsed') :
       \A u \in UpToDomain(t)' \ UpToDomain(t) : notes[u] = "subscription"
  /\ \A s \in Late \intersect Late' : UpToSub(s)' \subseteq UpToSub(s)

\* As long as fewer rows than a batch never move, a list has, for everyone who
\* waits, somebody who can be served and waits no less long (due_domains, due).
ReachesTheLive ==
  /\ StartTick /\ Cardinality(Dead) < Batch =>
       \A t \in Waiting \ Dead : \E u \in Range(todo') \ Dead : Place(u) <= Place(t)
  /\ ReadDue /\ Cardinality(Stuck) < Batch =>
       \A s \in Late \ Stuck : \E m \in Range(todo') \ Stuck : Week(m) <= Week(s)

\* Why nobody starves: what is in front of a waiting row only shrinks, and what a
\* tick serves comes from there.
NobodyOvertakes == [][KeepsPlaces /\ ReachesTheLive]_vars

Awaited(t) == t \in Waiting

\* A due domain is scanned, however often the others come due again, as long as
\* fewer hosts than a batch never validate: those keep their place in front.
DueDomainsScanned ==
  Cardinality(Dead) < Batch =>
    \A t \in Targets \ Dead : Awaited(t) ~> ~Awaited(t)

\* A weekly report that is due is mailed, if fewer subscriptions than a batch can
\* never have theirs, and none of those shares the target: it would be served
\* first at each tick and leave the target locked for the other.
DueReportsCome ==
  Cardinality(Stuck) < Batch =>
    \A s \in Subs \ Stuck :
      (\A m \in Stuck : TargetOf[m] /= TargetOf[s]) => (s \in Late ~> s \notin Late)
=============================================================================
