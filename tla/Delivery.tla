------------------------------ MODULE Delivery ------------------------------
(***************************************************************************)
(* What the worker does with a finished scan of a monitored domain         *)
(* (handle_job in worker.py after the scan, monitoring_pipeline.py):       *)
(* the snapshot is saved, compared with the one before it, the events are  *)
(* saved, the weekly report, the alert and the digest are mailed, and      *)
(* every delivery is recorded so that its cooldown starts.  Each of these  *)
(* is a statement or a call of its own.                                    *)
(*                                                                         *)
(* There is one domain, shared by its subscriptions and by the scans that  *)
(* an administrator starts.  What a job carries never changes: the         *)
(* subscription, its plan and address.  Whether a Pro subscription has     *)
(* proved ownership does not change here (Subscriptions models that), and  *)
(* the scan itself is ScanReport's: any of Reports may come back.  Jobs    *)
(* for the domain follow one another, because the target lock is held      *)
(* until the mails are out (ScanPipeline); when the lock lapses, or a job  *)
(* is delivered twice, they may overlap or repeat.                         *)
(*                                                                         *)
(* Snapshots hang on the scans table of the archive: a snapshot needs the  *)
(* row of its scan and is deleted with it, and an event with its snapshot. *)
(***************************************************************************)
EXTENDS MonitoringDiff, Sequences

CONSTANTS
  Subs,            \* confirmed subscriptions of the domain
  Pro,             \* those with the plan "support"
  Owned,           \* those whose ownership is verified
  NoSub,           \* the job of an administrator's run-now or of the schedule
  Workers,
  Reports,         \* reports a scan may return
  ReportCooldown,  \* REPORT_COOLDOWN_SECONDS, 12 hours
  BatchCooldown,   \* ALERT_BATCH_COOLDOWN_SECONDS, 30 minutes
  DayCooldown,     \* the other cooldowns and the digest window, 24 hours
  Retention,       \* retention_days of cleanup_history
  ScanRetention,   \* retention_days of cleanup of the archive
  ErrorRetention,  \* error_retention_days of the same
  MaxJobs, MaxTime, MaxFaults   \* bounds on jobs, clock and faults

ASSUME SubsAssumption == Pro \subseteq Subs /\ Owned \subseteq Subs /\ NoSub \notin Subs

ASSUME ReportsAssumption ==
  /\ NoReport \notin Reports
  /\ \A r \in Reports :
       /\ r.findings \subseteq [severity : Severities, code : STRING,
                                title : STRING, cap : Grades \union {NoCap}]
       /\ IsFiniteSet(r.findings)
       /\ r = Report(r.findings, r.days, r.protocols, r.hsts)

ASSUME BoundsAssumption ==
  /\ {ReportCooldown, BatchCooldown, DayCooldown, Retention,
      ScanRetention, ErrorRetention, MaxJobs, MaxTime, MaxFaults} \subseteq Nat
  /\ BatchCooldown <= DayCooldown
  /\ DayCooldown > 0
  /\ DayCooldown <= Retention

VARIABLES
  now,         \* the clock, in ticks
  jobs,        \* the subscription of every job so far
  worker,      \* what each worker is at
  scans,       \* the status of every job's row in scans
  lastId,      \* the sequence that numbers the snapshots
  snapshots,   \* monitoring_snapshots, as committed
  lost,        \* snapshots that were deleted with their scans (history)
  events,      \* monitoring_events
  delivered,   \* subscription_report_deliveries
  marks,       \* subscription_alert_deliveries and last_sent_at
  mails,       \* mails that arrived, in order (history)
  faults,      \* faults so far
  troubled,    \* jobs with a crash, a refused mail or a failed record (history)
  overlapped,  \* jobs that ran beside another (history)
  blurred      \* jobs handled twice, stopped before their events, inserted
               \* beside another, or cleaned up with the archive (history)

vars == <<now, jobs, worker, scans, lastId, snapshots, lost, events, delivered,
          marks, mails, faults, troubled, overlapped, blurred>>
stores == <<scans, lastId, snapshots, lost, events, delivered, marks>>
history == <<mails, faults, troubled, overlapped, blurred>>

Phases == {"idle", "scan", "snapshot", "inserted", "baseline", "events",
           "report", "reported", "record", "alert", "digest",
           "failing", "failed", "done"}
Statuses == {"running", "done", "error", "gone"}

Idle == [phase |-> "idle", job |-> 0, id |-> 0, report |-> NoReport,
         base |-> NoReport, todo |-> <<>>, then |-> "idle"]

Init ==
  /\ now = 0
  /\ jobs = <<>>
  /\ worker = [w \in Workers |-> Idle]
  /\ scans = <<>> /\ lastId = 0
  /\ snapshots = {} /\ lost = {} /\ events = {} /\ delivered = {} /\ marks = {}
  /\ mails = <<>>
  /\ faults = 0 /\ troubled = {} /\ overlapped = {} /\ blurred = {}

---------------------------------------------------------------------------
(* Reading                                                                 *)

At(w, phase) == worker[w].phase = phase
Sub(w) == jobs[worker[w].job]
Goto(w, phase) == worker' = [worker EXCEPT ![w].phase = phase]

Busy(w) == worker[w].phase /= "idle"

\* The snapshot is committed, the events are still to be saved.
Comparing(w) == worker[w].phase \in {"baseline", "events"}

\* should_send_alert says no.
Cooling(s, key, cooldown) ==
  \E m \in marks : m.sub = s /\ m.key = key /\ now - m.at < cooldown

\* What this scan has found to be new.
Found(w) == EventsOf(Diff(worker[w].report, worker[w].base))

\* latest_snapshot with before_snapshot_id.
Latest(S) == CHOOSE x \in S : \A y \in S : y.id <= x.id

\* Mutant: the latest of all, which is the snapshot just saved.
LatestOfAll(id) == IF snapshots = {} THEN NoReport ELSE Latest(snapshots).report
LatestBefore(id) ==
  LET earlier == {x \in snapshots : x.id < id}
  IN IF earlier = {} THEN NoReport ELSE Latest(earlier).report

\* The snapshots of a job, which are one at most.
Own(job) == {x \in snapshots : x.job = job}

\* An update of a job's row in scans, which has no effect once it is deleted.
Status(job, status) ==
  [scans EXCEPT ![job] = IF @ = "gone" THEN @ ELSE status]

\* Snapshots are deleted together with the events that refer to them; the
\* event of a failed scan refers to none.
Cascade(S) == {x \in events : x.event /= ScanFailed /\ \E y \in S : y.job = x.job}

Gone(job) == scans[job] = "gone"

Rows(job, E) == {[job |-> job, at |-> now, event |-> e] : e \in E}

---------------------------------------------------------------------------
(* The scan and its snapshot                                               *)

Overlapping(w) == {worker[v].job : v \in {u \in Workers \ {w} : Busy(u)}}

Start(w, job) ==
  /\ worker' = [worker EXCEPT ![w] = [Idle EXCEPT !.phase = "scan", !.job = job]]
  /\ UNCHANGED <<now, lastId, snapshots, lost, events, delivered, marks, mails,
                 troubled>>

\* The next job of the queue, under the target lock.
Take(w, s) ==
  /\ ~Busy(w)
  /\ Len(jobs) < MaxJobs
  /\ Overlapping(w) = {}
  /\ jobs' = Append(jobs, s)
  /\ scans' = Append(scans, "running")
  /\ Start(w, Len(jobs) + 1)
  /\ UNCHANGED <<faults, overlapped, blurred>>

\* The same after the lock has lapsed under a running job.
TakeUnlocked(w, s) ==
  /\ ~Busy(w)
  /\ Len(jobs) < MaxJobs
  /\ Overlapping(w) /= {}
  /\ faults < MaxFaults
  /\ faults' = faults + 1
  /\ jobs' = Append(jobs, s)
  /\ scans' = Append(scans, "running")
  /\ Start(w, Len(jobs) + 1)
  /\ overlapped' = overlapped \union Overlapping(w) \union {Len(jobs) + 1}
  /\ UNCHANGED blurred

\* A job that was pushed to the queue twice is handled again.
TakeAgain(w, job) ==
  /\ ~Busy(w)
  /\ faults < MaxFaults
  /\ faults' = faults + 1
  /\ Start(w, job)
  /\ scans' = Status(job, "running")
  /\ overlapped' = IF Overlapping(w) = {} THEN overlapped
                   ELSE overlapped \union Overlapping(w) \union {job}
  /\ blurred' = blurred \union {job}
  /\ UNCHANGED jobs

\* run_full_scan returned and mark_done is over.
ScanSucceeds(w, r) ==
  /\ At(w, "scan")
  /\ ~Gone(worker[w].job)
  /\ scans' = Status(worker[w].job, "done")
  /\ worker' = [worker EXCEPT ![w].phase = "snapshot", ![w].report = r]
  /\ UNCHANGED <<now, jobs, lastId, snapshots, lost, events, delivered, marks,
                 history>>

\* The scan failed: mark_failed.
ScanFails(w) ==
  /\ At(w, "scan")
  /\ scans' = Status(worker[w].job, "error")
  /\ Goto(w, "failing")
  /\ UNCHANGED <<now, jobs, lastId, snapshots, lost, events, delivered, marks,
                 history>>

\* record_monitoring_failure: an event that has no snapshot.
SaveFailure(w) ==
  /\ At(w, "failing")
  /\ ~Gone(worker[w].job)
  /\ events' = events \union Rows(worker[w].job, {ScanFailed})
  /\ Goto(w, "failed")
  /\ UNCHANGED <<now, jobs, scans, lastId, snapshots, lost, delivered, marks,
                 history>>

Inserting(w) == {v \in Workers \ {w} : At(v, "inserted")}

\* The INSERT of save_snapshot takes the next number of the sequence.  Where
\* the job has a snapshot already, that row keeps its number and is updated.
\* The row of another worker that has not committed is not seen, unless it is
\* of the same scan: then the statement waits for it.
InsertSnapshot(w) ==
  /\ At(w, "snapshot")
  /\ ~Gone(worker[w].job)
  /\ \A v \in Inserting(w) : worker[v].job /= worker[w].job
  /\ lastId' = lastId + 1
  /\ LET own == Own(worker[w].job)
     IN worker' = [worker EXCEPT
          ![w].phase = "inserted",
          ![w].id = IF own = {} THEN lastId + 1 ELSE Latest(own).id]
  /\ blurred' = IF Inserting(w) = {} THEN blurred
                ELSE blurred \union {worker[v].job : v \in Inserting(w) \union {w}}
  /\ UNCHANGED <<now, jobs, scans, snapshots, lost, events, delivered, marks,
                 mails, faults, troubled, overlapped>>

\* The row becomes visible; one that was there keeps its created_at.
CommitSnapshot(w) ==
  /\ At(w, "inserted")
  /\ LET id == worker[w].id
         own == {x \in snapshots : x.id = id}
         row == [id |-> id, job |-> worker[w].job, report |-> worker[w].report,
                 at |-> IF own = {} THEN now ELSE Latest(own).at]
     IN snapshots' = (snapshots \ own) \union {row}
  /\ Goto(w, "baseline")
  /\ UNCHANGED <<now, jobs, scans, lastId, lost, events, delivered, marks, history>>

ReadBaseline(w) ==
  /\ At(w, "baseline")
  /\ worker' = [worker EXCEPT ![w].phase = "events",
                              ![w].base = LatestBefore(worker[w].id)]
  /\ UNCHANGED <<now, jobs, stores, history>>

\* The snapshot that the events refer to is still there.
Referable(w) == \E x \in snapshots : x.id = worker[w].id

SaveEvents(w) ==
  /\ At(w, "events")
  /\ Found(w) = {} \/ Referable(w)
  /\ events' = events \union Rows(worker[w].job, Found(w))
  /\ Goto(w, "report")
  /\ UNCHANGED <<now, jobs, scans, lastId, snapshots, lost, delivered, marks,
                 history>>

---------------------------------------------------------------------------
(* Mails                                                                   *)

Mail(kind, w, quiet, rows) ==
  [kind |-> kind, sub |-> Sub(w), job |-> worker[w].job, at |-> now,
   quiet |-> quiet, rows |-> rows]

Skip(w, phase) ==
  /\ Goto(w, phase)
  /\ UNCHANGED <<now, jobs, stores, history>>

\* send_email returned: then todo is written down, one statement each.
Mailed(w, mail, phase, todo, then) ==
  /\ mails' = Append(mails, mail)
  /\ worker' = [worker EXCEPT ![w].phase = phase, ![w].todo = todo,
                              ![w].then = then]
  /\ UNCHANGED <<now, jobs, stores, faults, troubled, overlapped, blurred>>

\* send_email raised, and the mail may have arrived all the same.
Refused(w, mail, phase) ==
  /\ faults < MaxFaults
  /\ faults' = faults + 1
  /\ troubled' = troubled \union {worker[w].job}
  /\ mails' \in {mails, Append(mails, mail)}
  /\ Goto(w, phase)
  /\ UNCHANGED <<now, jobs, stores, overlapped, blurred>>

\* Mutant: the weekly cooldown is not looked at.
ReportDueOnce(w) == <<Sub(w), worker[w].job>> \notin delivered
ReportDue(w) ==
  /\ <<Sub(w), worker[w].job>> \notin delivered
  /\ ~Cooling(Sub(w), Key("weekly_report"), ReportCooldown)

Receives(w) == Sub(w) \in Subs /\ (Sub(w) \in Pro => Sub(w) \in Owned)

\* send_subscription_report
SendReport(w) ==
  /\ At(w, "report")
  /\ LET mail == Mail("report", w,
                      Sub(w) \in Pro /\ Quiet(Diff(worker[w].report, worker[w].base)),
                      {})
     IN IF Receives(w) /\ ReportDue(w)
        THEN \/ Mailed(w, mail, "reported",
                       <<Key("last_sent"), Key("weekly_report")>>, "alert")
             \/ Refused(w, mail, "alert")
        ELSE Skip(w, "alert")

\* mark_report_sent, before mark_sent and mark_alert_sent.
MarkDelivered(w) ==
  /\ At(w, "reported")
  /\ delivered' = delivered \union {<<Sub(w), worker[w].job>>}
  /\ Goto(w, "record")
  /\ UNCHANGED <<now, jobs, scans, lastId, snapshots, lost, events, marks, history>>

\* Mutant: a second mark does not replace the first.
MarkInserted(s, key) == marks \union {[sub |-> s, key |-> key, at |-> now]}
Mark(s, key) ==
  {m \in marks : m.sub /= s \/ m.key /= key}
    \union {[sub |-> s, key |-> key, at |-> now]}

\* mark_sent, or mark_alert_sent, for the next of the list.
Record(w) ==
  /\ At(w, "record")
  /\ marks' = Mark(Sub(w), Head(worker[w].todo))
  /\ worker' = [worker EXCEPT
       ![w].todo = Tail(@),
       ![w].phase = IF Len(worker[w].todo) = 1 THEN worker[w].then ELSE @]
  /\ UNCHANGED <<now, jobs, scans, lastId, snapshots, lost, events, delivered,
                 history>>

\* One of these statements raised: the rest of the list is not written.
RecordFails(w) ==
  /\ worker[w].phase \in {"reported", "record"}
  /\ faults < MaxFaults
  /\ faults' = faults + 1
  /\ troubled' = troubled \union {worker[w].job}
  /\ worker' = [worker EXCEPT ![w].phase = worker[w].then, ![w].todo = <<>>]
  /\ UNCHANGED <<now, jobs, stores, mails, overlapped, blurred>>

\* The immediate events whose cooldown is over, one for each key.
Alerting(w) ==
  LET fresh == {e \in Immediate(Found(w)) :
                  ~Cooling(Sub(w), AlertKey(e), DayCooldown)}
  IN {CHOOSE e \in fresh : AlertKey(e) = k : k \in {AlertKey(e) : e \in fresh}}

AlertKeys(w) == {AlertKey(e) : e \in Alerting(w)}

\* The keys of a batch, written in any order.
Orders(S) == {f \in [1 .. Cardinality(S) -> S] : \A k \in S : \E i \in DOMAIN f : f[i] = k}

MayAlert(w) ==
  /\ Sub(w) \in Pro \intersect Owned
  /\ \E e \in Found(w) : e.type \in Interesting
  /\ ~Cooling(Sub(w), Key("alert_batch"), BatchCooldown)

\* send_subscription_alert_report, the immediate events.
\* Mutant: all interesting events are written down, mailed or not.
BatchMarksAll(w) == {AlertKey(e) : e \in {x \in Found(w) : x.type \in Interesting}}
BatchMarks(w) == AlertKeys(w)
SendAlert(w) ==
  /\ At(w, "alert")
  /\ LET mail == Mail("alert", w, FALSE, Rows(worker[w].job, Alerting(w)))
     IN IF ~MayAlert(w) THEN Skip(w, "done")
        ELSE IF Alerting(w) = {} THEN Skip(w, "digest")
        ELSE \/ \E order \in Orders(BatchMarks(w)) :
                  Mailed(w, mail, "record", <<Key("alert_batch")>> \o order,
                         "digest")
             \/ Refused(w, mail, "digest")

\* Mutant: the window is longer than the cooldown of the digest.
RecentEver(w) == {x \in events : ForDigest({x.event}) /= {}}
\* collect_recent_noncritical_events: those of the domain in the last day,
\* or else those of this scan; the mail's first rows stand for all of them.
\* An event is older than the mail of its scan, so that the edge of the
\* window, which the code includes, is past when the next digest may go.
Recent(w) ==
  LET rows == {x \in events : /\ ForDigest({x.event}) /= {}
                              /\ now - x.at < DayCooldown}
  IN IF rows = {} THEN Rows(worker[w].job, ForDigest(Found(w))) ELSE rows

\* The rest of send_subscription_alert_report: the digest.
SendDigest(w) ==
  /\ At(w, "digest")
  /\ LET mail == Mail("digest", w, FALSE, Recent(w))
     IN IF \/ ForDigest(Found(w)) = {}
           \/ Cooling(Sub(w), Key("noncritical_digest"), DayCooldown)
        THEN Skip(w, "done")
        ELSE \/ Mailed(w, mail, "record", <<Key("noncritical_digest")>>, "done")
             \/ Refused(w, mail, "done")

\* send_subscription_failure_report
SendFailure(w) ==
  /\ At(w, "failed")
  /\ LET mail == Mail("failure", w, FALSE, {})
     IN IF \/ Sub(w) \notin Subs
           \/ Cooling(Sub(w), Key("scan_failed"), DayCooldown)
        THEN Skip(w, "done")
        ELSE \/ Mailed(w, mail, "record", <<Key("scan_failed")>>, "done")
             \/ Refused(w, mail, "done")

\* release_target
Finish(w) ==
  /\ At(w, "done")
  /\ worker' = [worker EXCEPT ![w] = Idle]
  /\ UNCHANGED <<now, jobs, stores, history>>

---------------------------------------------------------------------------
(* The rest of the system                                                  *)

\* The handling of the job ends half-way.
Dies(w) ==
  /\ troubled' = troubled \union {worker[w].job}
  /\ blurred' = IF Comparing(w) THEN blurred \union {worker[w].job} ELSE blurred
  /\ worker' = [worker EXCEPT ![w] = Idle]
  /\ UNCHANGED <<now, jobs, stores, mails, overlapped>>

\* The worker dies, also of an exception of the store outside the mails.
Crash(w) ==
  /\ Busy(w)
  /\ faults < MaxFaults
  /\ faults' = faults + 1
  /\ Dies(w)

\* A statement refers to a row that a cleanup has deleted, and raises.
RowMissing(w) ==
  /\ \/ /\ worker[w].phase \in {"scan", "failing", "snapshot"}
        /\ Gone(worker[w].job)
     \/ At(w, "events") /\ Found(w) /= {} /\ ~Referable(w)
  /\ Dies(w)
  /\ UNCHANGED faults

\* cleanup_history, one transaction.  It waits for an update of a snapshot
\* that it is to delete.
CleanupHistory ==
  LET old == {x \in snapshots : now - x.at > Retention}
  IN /\ \E x \in snapshots \union events : now - x.at > Retention
     /\ \A w \in Workers, x \in old : At(w, "inserted") => worker[w].id /= x.id
     /\ events' = {x \in events : now - x.at <= Retention} \ Cascade(old)
     /\ snapshots' = snapshots \ old
     /\ lost' = {x \in lost : now - x.at <= Retention}
     /\ UNCHANGED <<now, jobs, worker, scans, lastId, delivered, marks, history>>

\* Scans that cleanup of the archive deletes: failed ones, and finished ones
\* without a snapshot.  A job may have waited in the queue since the clock
\* started.  The statement may have looked for the snapshot before it was
\* committed, and have waited for that: then it goes on at once.
Deletable ==
  {j \in DOMAIN jobs :
     \/ scans[j] = "error" /\ now > ErrorRetention
     \/ /\ scans[j] = "done" /\ now > ScanRetention
        /\ \A x \in Own(j) : \E w \in Workers :
             Comparing(w) /\ worker[w].job = j /\ worker[w].id = x.id}

\* cleanup of the archive, when the scans up to the last are old enough.  It
\* waits for a snapshot that is being inserted, and takes the committed ones
\* and their events along.
CleanupArchive(last) ==
  LET dead == {j \in Deletable : j <= last}
      cut == UNION {Own(j) : j \in dead}
  IN /\ dead /= {}
     /\ \A w \in Workers : At(w, "inserted") => worker[w].job \notin dead
     /\ scans' = [j \in DOMAIN scans |-> IF j \in dead THEN "gone" ELSE scans[j]]
     /\ snapshots' = snapshots \ cut
     /\ lost' = lost \union cut
     /\ events' = events \ Cascade(cut)
     /\ blurred' = blurred \union {x.job : x \in cut}
     /\ UNCHANGED <<now, jobs, worker, lastId, delivered, marks, mails,
                    faults, troubled, overlapped>>

\* A tick is long beside what a worker does once the scan is over.
Tick ==
  /\ now < MaxTime
  /\ \A w \in Workers : worker[w].phase \in {"idle", "scan"}
  /\ now' = now + 1
  /\ UNCHANGED <<jobs, worker, stores, history>>

Next ==
  \/ \E w \in Workers :
       \/ \E s \in Subs \union {NoSub} : Take(w, s) \/ TakeUnlocked(w, s)
       \/ \E job \in DOMAIN jobs : TakeAgain(w, job)
       \/ \E r \in Reports : ScanSucceeds(w, r)
       \/ ScanFails(w) \/ SaveFailure(w)
       \/ InsertSnapshot(w) \/ CommitSnapshot(w)
       \/ ReadBaseline(w) \/ SaveEvents(w)
       \/ SendReport(w) \/ MarkDelivered(w)
       \/ SendAlert(w) \/ SendDigest(w) \/ SendFailure(w)
       \/ Record(w) \/ RecordFails(w)
       \/ Finish(w) \/ Crash(w) \/ RowMissing(w)
  \/ CleanupHistory
  \/ \E last \in DOMAIN jobs : CleanupArchive(last)
  \/ Tick

Spec == Init /\ [][Next]_vars

---------------------------------------------------------------------------
(* Properties                                                              *)

Kinds == {"report", "alert", "digest", "failure"}

\* The stores hold what their columns hold; a recording worker has a list.
TypeOK ==
  /\ now \in 0 .. MaxTime
  /\ jobs \in Seq(Subs \union {NoSub})
  /\ \A w \in Workers :
       /\ worker[w].phase \in Phases
       /\ worker[w].phase /= "idle" => worker[w].job \in DOMAIN jobs
       /\ worker[w].phase = "record" => worker[w].todo /= <<>>
       /\ worker[w].phase \in {"reported", "record"} => Sub(w) \in Subs
  /\ scans \in Seq(Statuses) /\ Len(scans) = Len(jobs)
  /\ \A x, y \in snapshots : x.id = y.id \/ x.job = y.job => x = y
  /\ \A x \in snapshots \union lost : x.id <= lastId
  /\ \A x \in snapshots \union lost \union events : x.job \in DOMAIN jobs /\ x.at <= now
  /\ delivered \subseteq Subs \X DOMAIN jobs
  /\ \A m, n \in marks :
       /\ m.sub \in Subs /\ m.at <= now
       /\ m.sub = n.sub /\ m.key = n.key => m = n
  /\ \A i \in DOMAIN mails : mails[i].kind \in Kinds /\ mails[i].sub \in Subs
  /\ faults \in 0 .. MaxFaults

\* Serious findings do not slip in between two scans: whatever the later of
\* two snapshots has and the earlier has not is announced by an event of a
\* scan after the earlier, whoever started the scans, unless one of those
\* from the earlier to the later was handled twice, cut off before its events
\* were saved, inserted while another was not committed, or deleted with the
\* archive.
AddedFindingsAnnounced ==
  \A x, y \in snapshots :
    LET span == {z \in snapshots \union lost : y.id < z.id /\ z.id <= x.id}
        announced == {row.event.finding : row \in {e \in events :
                        /\ e.event.type \in {"critical_added", "high_added"}
                        /\ \E z \in span : z.job = e.job}}
        clear(z) == /\ z.job \notin blurred
                    /\ \A w \in Workers : Comparing(w) => worker[w].job /= z.job
    IN y.id < x.id /\ clear(y) /\ (\A z \in span : clear(z)) =>
         Serious(x.report.findings) \ y.report.findings \subseteq announced

Sent(kind, i, j) ==
  /\ i < j
  /\ mails[i].kind = kind /\ mails[j].kind = kind
  /\ mails[i].sub = mails[j].sub
  /\ mails[i].job \notin troubled \union overlapped
  /\ mails[j].job \notin overlapped

\* However many scans of a domain end, its subscriber gets weekly reports no
\* closer than the cooldown, and none twice on one scan, even when its job is
\* handled again later, as long as the first was recorded.
ReportsSpaced ==
  \A i, j \in DOMAIN mails :
    Sent("report", i, j) =>
      /\ mails[j].at - mails[i].at >= ReportCooldown
      /\ mails[i].job /= mails[j].job

Told(mail, key) ==
  \/ key \in {Key("last_sent"), Key("weekly_report")} /\ mail.kind = "report"
  \/ key = Key("noncritical_digest") /\ mail.kind = "digest"
  \/ key = Key("scan_failed") /\ mail.kind = "failure"
  \/ key = Key("alert_batch") /\ mail.kind = "alert"
  \/ mail.kind = "alert" /\ \E row \in mail.rows : AlertKey(row.event) = key

\* A cooldown silences only those who were told: behind every mark is a mail
\* that did reach the subscriber and that said what the mark stands for.
SilencedOnlyAfterMail ==
  \A m \in marks :
    \E i \in DOMAIN mails :
      mails[i].sub = m.sub /\ mails[i].at <= m.at /\ Told(mails[i], m.key)

\* A digest does not repeat what an earlier digest said: its window and the
\* cooldown of the digest are equally long.
DigestNeverRepeats ==
  \A i, j \in DOMAIN mails :
    Sent("digest", i, j) => mails[i].rows \intersect mails[j].rows = {}

SameCode(e, f) == e.type = f.type /\ e.finding.code = f.finding.code

\* The owner learns of a critical finding of a scan of theirs: when the
\* worker is done, an alert named its code within the day, or the alerts
\* were held back because one went out within the batch cooldown.
CriticalAnsweredByMail ==
  \A w \in Workers :
    /\ At(w, "done") /\ worker[w].report /= NoReport
    /\ Sub(w) \in Pro \intersect Owned
    /\ worker[w].job \notin troubled \union overlapped
    => \A x \in events :
         x.job = worker[w].job /\ x.event \in Of(Found(w), "critical") =>
           \E i \in DOMAIN mails :
             /\ mails[i].sub = Sub(w) /\ mails[i].kind = "alert"
             /\ \/ x.at - mails[i].at < BatchCooldown
                \/ /\ x.at - mails[i].at < DayCooldown
                   /\ \E y \in mails[i].rows : SameCode(y.event, x.event)

\* The weekly mail of a Pro subscription that reports no new vulnerability
\* over the last week is right about the scans of that week (a model run is
\* shorter than a week).
QuietWeekWasQuiet ==
  \A i \in DOMAIN mails :
    mails[i].quiet =>
      ~\E x \in events, y, z \in snapshots :
         /\ x.event.type \in {"critical_added", "high_added"}
         /\ y.id < z.id /\ z.job = x.job /\ z.job < mails[i].job

=============================================================================
