---------------------------- MODULE ScanPipeline ----------------------------
(***************************************************************************)
(* The life of a scan job: an API request or a scheduler tick creates the  *)
(* job record, reserves the target, writes the archive row and pushes the  *)
(* job on the Redis list; a worker pops it, runs the scan, stores the      *)
(* result and releases the target.  Every step below is one round trip to  *)
(* Redis or PostgreSQL, so that other processes run between any two.       *)
(***************************************************************************)
EXTENDS Naturals, Sequences, FiniteSets

CONSTANTS
  Targets,        \* host:port pairs that pass validation and the denylist
  ApiJobs,        \* ids of jobs created by POST /api/check
  MonitorJobs,    \* ids of jobs created by schedule_domain_scan
  ApiClients,     \* concurrent POST /api/check handlers
  Schedulers,     \* concurrent callers of schedule_domain_scan
  Unarchived,     \* the schedulers that run with archive_store=None
  Workers,        \* worker processes
  NoJob,          \* "no job"
  NoTarget,       \* the target of an id that is not in use
  MaxQueueDepth,  \* settings.max_queue_depth; 0 disables the guard
  CooldownOn,     \* TARGET_COOLDOWN_SECONDS > 0
  TtlMayLapse,    \* may ACTIVE_SCAN_TTL_SECONDS run out on a job in flight?
  MaxFaults       \* bound on crashes and failed calls in one behaviour

Jobs == ApiJobs \union MonitorJobs
Submitters == ApiClients \union Schedulers

ASSUME PipelineAssumption ==
  /\ ApiJobs \intersect MonitorJobs = {}
  /\ ApiClients \intersect Schedulers = {}
  /\ Unarchived \subseteq Schedulers
  /\ NoJob \notin Jobs
  /\ NoTarget \notin Targets
  /\ MaxQueueDepth \in Nat
  /\ CooldownOn \in BOOLEAN
  /\ TtlMayLapse \in BOOLEAN
  /\ MaxFaults \in Nat

\* The pool of the API's threads is bounded.
ASSUME ClientsFinite == IsFiniteSet(ApiClients)

VARIABLES
  \* Redis
  status,    \* status[j]: JobRecord.status, "none" when there is no record
  active,    \* active[t]: the value of the target's lock key
  cooldown,  \* cooldown[t]: the value of the target's cooldown key
  queue,     \* the list SCAN_QUEUE_NAME
  \* PostgreSQL
  archive,   \* archive[j]: scans.status, "none" when there is no row
  \* the submitting processes
  pc,        \* pc[s]: what submitter s does next
  sjob,      \* sjob[s]: the job it is submitting
  \* the workers
  phase,     \* phase[w]: the part of handle_job that w is in
  step,      \* step[w]: the round trip it is about to make there
  wjob,      \* wjob[w]: the job popped from the list
  record,    \* record[w]: the status in the record it is about to write
  \* history and bounds
  target,    \* target[j]: the target job j was created for
  exposed,   \* jobs that were in flight when the lock stopped being theirs
  faults     \* crashes and failed calls so far

redisVars  == <<status, active, cooldown, queue>>
submitVars == <<pc, sjob>>
workerVars == <<phase, step, wjob, record>>
ghostVars  == <<target, exposed>>
vars == <<redisVars, archive, submitVars, workerVars, ghostVars, faults>>

Statuses == {"none", "queued", "running", "done", "error"}
Terminal == {"done", "error"}

SubmitPcs ==
  {"idle", "sized", "created", "cleared", "denied", "reserved", "archived",
   "delete", "undo", "unset", "reject"}
Phases ==
  {"idle", "start", "checking", "addresses", "progress", "done", "error", "release"}
Steps  == {"get", "save", "archive", "del", "cool"}

TypeOK ==
  /\ status   \in [Jobs -> Statuses]
  /\ active   \in [Targets -> Jobs \union {NoJob}]
  /\ cooldown \in [Targets -> Jobs \union {NoJob}]
  /\ queue    \in Seq(Jobs)
  /\ archive  \in [Jobs -> Statuses]
  /\ pc       \in [Submitters -> SubmitPcs]
  /\ sjob     \in [Submitters -> Jobs \union {NoJob}]
  /\ phase    \in [Workers -> Phases]
  /\ step     \in [Workers -> Steps]
  /\ wjob     \in [Workers -> Jobs \union {NoJob}]
  /\ record   \in [Workers -> Statuses]
  /\ target   \in [Jobs -> Targets \union {NoTarget}]
  /\ exposed  \in SUBSET Jobs
  /\ faults   \in 0 .. MaxFaults

Init ==
  /\ status   = [j \in Jobs |-> "none"]
  /\ active   = [t \in Targets |-> NoJob]
  /\ cooldown = [t \in Targets |-> NoJob]
  /\ queue    = <<>>
  /\ archive  = [j \in Jobs |-> "none"]
  /\ pc       = [s \in Submitters |-> "idle"]
  /\ sjob     = [s \in Submitters |-> NoJob]
  /\ phase    = [w \in Workers |-> "idle"]
  /\ step     = [w \in Workers |-> "get"]
  /\ wjob     = [w \in Workers |-> NoJob]
  /\ record   = [w \in Workers |-> "none"]
  /\ target   = [j \in Jobs |-> NoTarget]
  /\ exposed  = {}
  /\ faults   = 0

-----------------------------------------------------------------------------
(***************************************************************************)
(* Where a job is.  It is in flight from the moment its submitter has set  *)
(* the lock until the lock has been given back on its behalf.              *)
(***************************************************************************)
HoldingPcs == {"reserved", "archived", "delete", "undo", "unset"}

WithSubmitter(j) == \E s \in Submitters : pc[s] \in HoldingPcs /\ sjob[s] = j
InQueue(j) == \E i \in DOMAIN queue : queue[i] = j
WithWorker(j) ==
  \E w \in Workers : /\ phase[w] # "idle"
                     /\ wjob[w] = j
                     /\ ~(phase[w] = "release" /\ step[w] = "cool")

InFlight(j) == WithSubmitter(j) \/ InQueue(j) \/ WithWorker(j)

\* The holder of t's lock, if it is a job other than j still in flight.
Victims(t, j) == {k \in Jobs \ {j} : active[t] = k /\ InFlight(k)}

\* What GET /api/check/{id} reports: the job record, else the archive row.
Visible(j) == IF status[j] # "none" THEN status[j] ELSE archive[j]

Fault == faults < MaxFaults /\ faults' = faults + 1

-----------------------------------------------------------------------------
(***************************************************************************)
(* Submitting a job: create_check and schedule_domain_scan.                *)
(***************************************************************************)
Goto(s, from, to) == pc[s] = from /\ pc' = [pc EXCEPT ![s] = to]
Leave(s) == pc' = [pc EXCEPT ![s] = "idle"] /\ sjob' = [sjob EXCEPT ![s] = NoJob]

\* Mutant: the guard lets one more request through.
CheckDepthOffByOne(s) ==
  /\ s \in ApiClients
  /\ Goto(s, "idle", "sized")
  /\ MaxQueueDepth = 0 \/ Len(queue) <= MaxQueueDepth
  /\ UNCHANGED <<redisVars, archive, sjob, workerVars, ghostVars, faults>>

\* LLEN and the depth guard, before the API creates anything.  When the
\* queue is full the request ends here with 503 and changes nothing.
CheckDepth(s) ==
  /\ s \in ApiClients
  /\ Goto(s, "idle", "sized")
  /\ MaxQueueDepth = 0 \/ Len(queue) < MaxQueueDepth
  /\ UNCHANGED <<redisVars, archive, sjob, workerVars, ghostVars, faults>>

\* job_store.create: a new record, status "queued", under a fresh id.
CreateJob(s) ==
  /\ pc[s] = IF s \in ApiClients THEN "sized" ELSE "idle"
  /\ \E j \in (IF s \in ApiClients THEN ApiJobs ELSE MonitorJobs), t \in Targets :
       /\ target[j] = NoTarget
       /\ target' = [target EXCEPT ![j] = t]
       /\ status' = [status EXCEPT ![j] = "queued"]
       /\ sjob' = [sjob EXCEPT ![s] = j]
  /\ pc' = [pc EXCEPT ![s] = "created"]
  /\ UNCHANGED <<active, cooldown, queue, archive, workerVars, exposed, faults>>

\* First half of _reserve_redis: the TTL of the cooldown key.
CheckCooldown(s) ==
  /\ pc[s] = "created"
  /\ pc' = [pc EXCEPT ![s] =
              IF cooldown[target[sjob[s]]] = NoJob THEN "cleared" ELSE "denied"]
  /\ UNCHANGED <<redisVars, archive, sjob, workerVars, ghostVars, faults>>

\* Mutant: SET without NX.
SetActiveWithoutNx(s) ==
  /\ pc[s] = "cleared"
  /\ active' = [active EXCEPT ![target[sjob[s]]] = sjob[s]]
  /\ pc' = [pc EXCEPT ![s] = "reserved"]
  /\ UNCHANGED <<status, cooldown, queue, archive, sjob, workerVars, ghostVars,
                 faults>>

\* Second half of _reserve_redis: SET active NX EX.
SetActive(s) ==
  LET t == target[sjob[s]] IN
  /\ pc[s] = "cleared"
  /\ \/ /\ active[t] = NoJob
        /\ active' = [active EXCEPT ![t] = sjob[s]]
        /\ pc' = [pc EXCEPT ![s] = "reserved"]
     \/ /\ active[t] # NoJob
        /\ pc' = [pc EXCEPT ![s] = "denied"]
        /\ UNCHANGED active
  /\ UNCHANGED <<status, cooldown, queue, archive, sjob, workerVars, ghostVars,
                 faults>>

\* A refused reservation deletes the record just created; the id is forgotten.
DeleteDenied(s) ==
  /\ pc[s] = "denied"
  /\ status' = [status EXCEPT ![sjob[s]] = "none"]
  /\ target' = [target EXCEPT ![sjob[s]] = NoTarget]
  /\ Leave(s)
  /\ UNCHANGED <<active, cooldown, queue, archive, workerVars, exposed, faults>>

\* Mutant: the scheduler does not write the archive row.
ArchiveCreateApiOnly(s) ==
  /\ Goto(s, "reserved", "archived")
  /\ archive' = IF s \in Schedulers THEN archive
                ELSE [archive EXCEPT ![sjob[s]] = "queued"]
  /\ UNCHANGED <<redisVars, sjob, workerVars, ghostVars, faults>>

\* archive_store.create_scan, skipped when the caller passed no archive.
ArchiveCreate(s) ==
  /\ Goto(s, "reserved", "archived")
  /\ archive' = IF s \in Unarchived THEN archive
                ELSE [archive EXCEPT ![sjob[s]] = "queued"]
  /\ UNCHANGED <<redisVars, sjob, workerVars, ghostVars, faults>>

\* RPUSH succeeds and the submission is over.
Enqueue(s) ==
  /\ pc[s] = "archived"
  /\ queue' = Append(queue, sjob[s])
  /\ Leave(s)
  /\ UNCHANGED <<status, active, cooldown, archive, workerVars, ghostVars, faults>>

\* The API gives the lock back first; the scheduler deletes the record first.
FirstUndo(s) == IF s \in ApiClients THEN "undo" ELSE "delete"

\* enqueue_scan_job raises and nothing was pushed.
EnqueueRefused(s) ==
  /\ Goto(s, "archived", FirstUndo(s))
  /\ Fault
  /\ UNCHANGED <<redisVars, archive, sjob, workerVars, ghostVars>>

\* enqueue_scan_job raises although Redis applied the push (reply lost).
EnqueueReplyLost(s) ==
  /\ Goto(s, "archived", FirstUndo(s))
  /\ Fault
  /\ queue' = Append(queue, sjob[s])
  /\ exposed' = exposed \union {sjob[s]}
  /\ UNCHANGED <<status, active, cooldown, archive, sjob, workerVars, target>>

\* job_store.delete after a failed push (scheduler only).
UndoDelete(s) ==
  /\ Goto(s, "delete", "undo")
  /\ status' = [status EXCEPT ![sjob[s]] = "none"]
  /\ UNCHANGED <<active, cooldown, queue, archive, sjob, workerVars, ghostVars,
                 faults>>

\* What remains once the lock has been dealt with: the API marks the record.
AfterUnlock(s) ==
  IF s \in ApiClients
  THEN pc' = [pc EXCEPT ![s] = "reject"] /\ UNCHANGED sjob
  ELSE Leave(s)

\* _release_redis: GET active ...
UndoGet(s) ==
  /\ pc[s] = "undo"
  /\ IF active[target[sjob[s]]] = sjob[s]
     THEN pc' = [pc EXCEPT ![s] = "unset"] /\ UNCHANGED sjob
     ELSE AfterUnlock(s)
  /\ UNCHANGED <<redisVars, archive, workerVars, ghostVars, faults>>

\* ... then DEL active, whoever holds it by now; no cooldown is set.
UndoDel(s) ==
  LET t == target[sjob[s]] IN
  /\ pc[s] = "unset"
  /\ active' = [active EXCEPT ![t] = NoJob]
  /\ exposed' = exposed \union Victims(t, sjob[s])
  /\ AfterUnlock(s)
  /\ UNCHANGED <<status, cooldown, queue, archive, workerVars, target, faults>>

\* job_store.update(status="error") after a failed push (API only).  Only
\* the submitter deletes its job's record, so the record is there, and the
\* save that ends the update decides the status.
MarkRejected(s) ==
  /\ pc[s] = "reject"
  /\ status' = [status EXCEPT ![sjob[s]] = "error"]
  /\ Leave(s)
  /\ UNCHANGED <<active, cooldown, queue, archive, workerVars, ghostVars, faults>>

\* A call outside the handler's try raises, or the process dies: whatever
\* was done stays done and nothing is undone.
SubmitterFails(s) ==
  /\ pc[s] # "idle"
  /\ Fault
  /\ Leave(s)
  /\ UNCHANGED <<redisVars, archive, workerVars, ghostVars>>

-----------------------------------------------------------------------------
(***************************************************************************)
(* The worker: run_redis_worker and handle_job.  Each of the phases from   *)
(* "start" to "error" makes one job_store.update (get, then save) followed *)
(* by the write to the archive: mark_running, the first update_progress,   *)
(* save_resolved_addresses, the updates of the scan, and mark_done or      *)
(* mark_failed.  A scan updates its progress many times, always to         *)
(* "running"; one such update stands for all of them.                      *)
(***************************************************************************)
Enter(w, p, st) ==
  /\ phase' = [phase EXCEPT ![w] = p]
  /\ step' = [step EXCEPT ![w] = st]

\* The next phase begins, without a record in hand.
Begin(w, p) == Enter(w, p, "get") /\ record' = [record EXCEPT ![w] = "none"]

\* The worker forgets its job: it goes back to BLPOP or restarts.
DropJob(w) == Begin(w, "idle") /\ wjob' = [wjob EXCEPT ![w] = NoJob]

\* The phases inside the try block of handle_job, and all that update.
TryPhases == {"checking", "addresses", "progress"}
UpdatePhases == {"start", "done", "error"} \union TryPhases

\* Mutant: the worker and the readers disagree on the name of a status.
StatusOfMisspelt(p, read) ==
  CASE p = "error"     -> "failed"
    [] p = "done"      -> "done"
    [] p = "addresses" -> read
    [] OTHER           -> "running"

\* The status that a phase writes when the record it read said read:
\* save_resolved_addresses is the one update that leaves it as it was.
StatusOf(p, read) ==
  CASE p \in Terminal  -> p
    [] p = "addresses" -> read
    [] OTHER           -> "running"

\* Mutant: the mails are sent inside the try block, so a failing one turns a
\* finished scan into a failed one.
NextPhaseMailInTry(p) ==
  CASE p = "start"     -> "checking"
    [] p = "checking"  -> "addresses"
    [] p = "addresses" -> "progress"
    [] p = "progress"  -> "done"
    [] p = "done"      -> "error"
    [] OTHER           -> "release"

\* Mutant: the scanners are run without a timeout.
NextPhaseNoTimeout(p) ==
  CASE p = "start"                     -> "checking"
    [] p = "checking"                  -> "addresses"
    [] p \in {"addresses", "progress"} -> "progress"
    [] OTHER                           -> "release"

NextPhase(p) ==
  CASE p = "start"     -> "checking"
    [] p = "checking"  -> "addresses"
    [] p = "addresses" -> "progress"
    [] p = "progress"  -> "done"
    [] OTHER           -> "release"

\* Mutant: the job is read from the list and removed later, by nobody.
PopJobByPeeking(w) ==
  /\ phase[w] = "idle"
  /\ queue # <<>>
  /\ wjob' = [wjob EXCEPT ![w] = Head(queue)]
  /\ Enter(w, "start", "get")
  /\ UNCHANGED <<redisVars, archive, submitVars, record, ghostVars, faults>>

\* BLPOP removes the job before anything is done with it.
PopJob(w) ==
  /\ phase[w] = "idle"
  /\ queue # <<>>
  /\ wjob' = [wjob EXCEPT ![w] = Head(queue)]
  /\ queue' = Tail(queue)
  /\ Enter(w, "start", "get")
  /\ UNCHANGED <<status, active, cooldown, archive, submitVars, record, ghostVars, faults>>

\* The report and the failure event of a monitored job reference its scans
\* row: without the row the insert raises.
RowMissing(w) == phase[w] \in Terminal /\ archive[wjob[w]] = "none"

\* Mutant: the archive is written from the changed record before it is saved.
StoreGetArchiveFirst(w) ==
  /\ phase[w] \in UpdatePhases
  /\ step[w] = "get"
  /\ record' = [record EXCEPT ![w] = StatusOf(phase[w], status[wjob[w]])]
  /\ Enter(w, phase[w], "archive")
  /\ UNCHANGED <<redisVars, archive, submitVars, wjob, ghostVars, faults>>

\* RedisJobStore.update reads the record and changes its copy; without a
\* record it returns None and the archive is not written either.
StoreGet(w) ==
  /\ phase[w] \in UpdatePhases
  /\ step[w] = "get"
  /\ IF status[wjob[w]] = "none"
     THEN ~RowMissing(w) /\ Begin(w, NextPhase(phase[w]))
     ELSE /\ Enter(w, phase[w], "save")
          /\ record' = [record EXCEPT ![w] = StatusOf(phase[w], status[wjob[w]])]
  /\ UNCHANGED <<redisVars, archive, submitVars, wjob, ghostVars, faults>>

\* ... and writes the whole record back, even if it was deleted meanwhile.
StoreSave(w) ==
  /\ phase[w] \in UpdatePhases
  /\ step[w] = "save"
  /\ status' = [status EXCEPT ![wjob[w]] = record[w]]
  /\ Enter(w, phase[w], "archive")
  /\ UNCHANGED <<active, cooldown, queue, archive, submitVars, wjob, record, ghostVars,
                 faults>>

\* update_scan of the record that was saved, or save_report in phase "done":
\* UPDATE scans changes nothing when there is no row.
ArchiveUpdate(w) ==
  /\ phase[w] \in UpdatePhases
  /\ step[w] = "archive"
  /\ ~RowMissing(w)
  /\ archive' = IF archive[wjob[w]] = "none" THEN archive
                ELSE [archive EXCEPT ![wjob[w]] = record[w]]
  /\ Begin(w, NextPhase(phase[w]))
  /\ UNCHANGED <<redisVars, submitVars, wjob, ghostVars, faults>>

\* The insert that needs the missing row raises outside the try block: the
\* exception leaves run_redis_worker and the process is restarted.
RowMissingRaises(w) ==
  /\ RowMissing(w)
  /\ \/ step[w] = "archive"
     \/ step[w] = "get" /\ status[wjob[w]] = "none"
  /\ DropJob(w)
  /\ UNCHANGED <<redisVars, archive, submitVars, ghostVars, faults>>

\* Anything in the try block raises: DNS, the scanners, an update.
ScanRaises(w) ==
  /\ phase[w] \in TryPhases
  /\ Begin(w, "error")
  /\ UNCHANGED <<redisVars, archive, submitVars, wjob, ghostVars, faults>>

\* Mutant: the value read is bytes and never equals the job id.
ReleaseGetUndecoded(w) ==
  /\ phase[w] = "release"
  /\ step[w] = "get"
  /\ Enter(w, "release", "cool")
  /\ UNCHANGED <<redisVars, archive, submitVars, wjob, record, ghostVars, faults>>

\* _release_redis: GET active ...
ReleaseGet(w) ==
  /\ phase[w] = "release"
  /\ step[w] = "get"
  /\ Enter(w, "release", IF active[target[wjob[w]]] = wjob[w] THEN "del" ELSE "cool")
  /\ UNCHANGED <<redisVars, archive, submitVars, wjob, record, ghostVars, faults>>

\* ... then DEL active, whoever holds it by now ...
ReleaseDel(w) ==
  LET t == target[wjob[w]] IN
  /\ phase[w] = "release"
  /\ step[w] = "del"
  /\ active' = [active EXCEPT ![t] = NoJob]
  /\ exposed' = exposed \union Victims(t, wjob[w])
  /\ Enter(w, "release", "cool")
  /\ UNCHANGED <<status, cooldown, queue, archive, submitVars, wjob, record, target,
                 faults>>

\* ... then SET cooldown EX, whether or not the lock was this job's.
SetCooldown(w) ==
  /\ phase[w] = "release"
  /\ step[w] = "cool"
  /\ cooldown' = IF CooldownOn THEN [cooldown EXCEPT ![target[wjob[w]]] = wjob[w]]
                 ELSE cooldown
  /\ DropJob(w)
  /\ UNCHANGED <<status, active, queue, archive, submitVars, ghostVars, faults>>

\* release_target swallows an exception; a crash, a store that cannot be
\* reached or a failing mail step outside the try block kills the worker.
\* In both cases the job is dropped where it stands.
WorkerFails(w) ==
  /\ phase[w] # "idle"
  /\ Fault
  /\ DropJob(w)
  /\ UNCHANGED <<redisVars, archive, submitVars, ghostVars>>

-----------------------------------------------------------------------------
(***************************************************************************)
(* Key expiry in Redis.                                                    *)
(***************************************************************************)
\* Mutant: the lock is set without EX.
ExpireActiveNever(t) == active[t] # active[t] /\ UNCHANGED vars

ExpireActive(t) ==
  /\ active[t] # NoJob
  /\ InFlight(active[t]) => TtlMayLapse
  /\ exposed' = exposed \union Victims(t, NoJob)
  /\ active' = [active EXCEPT ![t] = NoJob]
  /\ UNCHANGED <<status, cooldown, queue, archive, submitVars, workerVars, target,
                 faults>>

ExpireCooldown(t) ==
  /\ cooldown[t] # NoJob
  /\ cooldown' = [cooldown EXCEPT ![t] = NoJob]
  /\ UNCHANGED <<status, active, queue, archive, submitVars, workerVars, ghostVars,
                 faults>>

-----------------------------------------------------------------------------
\* What a submitter does once it has created a job and no call fails.
SubmitStep(s) ==
  \/ CheckCooldown(s) \/ SetActive(s) \/ DeleteDenied(s) \/ ArchiveCreate(s)
  \/ Enqueue(s) \/ UndoDelete(s) \/ UndoGet(s) \/ UndoDel(s) \/ MarkRejected(s)

SubmitFault(s) == EnqueueRefused(s) \/ EnqueueReplyLost(s) \/ SubmitterFails(s)

\* What a worker does when no call fails.
WorkStep(w) ==
  \/ PopJob(w) \/ StoreGet(w) \/ StoreSave(w) \/ ArchiveUpdate(w)
  \/ RowMissingRaises(w) \/ ReleaseGet(w) \/ ReleaseDel(w) \/ SetCooldown(w)

Next ==
  \/ \E s \in Submitters :
       CheckDepth(s) \/ CreateJob(s) \/ SubmitStep(s) \/ SubmitFault(s)
  \/ \E w \in Workers : WorkStep(w) \/ ScanRaises(w) \/ WorkerFails(w)
  \/ \E t \in Targets : ExpireActive(t) \/ ExpireCooldown(t)

\* Handlers and workers run on until they are done, and Redis expires keys;
\* new requests and faults may or may not come.
Fairness ==
  /\ \A s \in Submitters : WF_vars(SubmitStep(s))
  /\ \A w \in Workers : WF_vars(WorkStep(w))
  /\ \A t \in Targets : WF_vars(ExpireActive(t)) /\ WF_vars(ExpireCooldown(t))

Spec == Init /\ [][Next]_vars /\ Fairness

-----------------------------------------------------------------------------
(***************************************************************************)
(* Safety.                                                                 *)
(***************************************************************************)

\* A job in flight that was never exposed holds its target's lock.  This is
\* what TargetScanGuard's GET-before-DEL is for.
LockHeldInFlight ==
  \A j \in Jobs : InFlight(j) /\ j \notin exposed => active[target[j]] = j

\* Two jobs are in flight on one target only if one of them was exposed: its
\* TTL ran out, its push failed after being applied, or such a job released
\* a lock that was not its own.
OneScanPerTarget ==
  \A j, k \in Jobs :
    /\ j # k
    /\ InFlight(j) /\ InFlight(k)
    /\ target[j] = target[k]
    => j \in exposed \/ k \in exposed

\* Popping is the only delivery: no job is in two workers, twice in the list,
\* or in a worker while it is still in the list.
NoDuplicates == \A i, k \in DOMAIN queue : queue[i] = queue[k] => i = k
DeliveredOnce ==
  /\ NoDuplicates
  /\ \A w \in Workers : phase[w] # "idle" =>
       /\ ~InQueue(wjob[w])
       /\ \A v \in Workers \ {w} : wjob[v] # wjob[w]

\* A submitter past job_store.create and a busy worker each own a job in use,
\* and only jobs in use are in the list.
Owners ==
  /\ \A s \in Submitters :
       IF pc[s] \in {"idle", "sized"} THEN sjob[s] = NoJob
       ELSE sjob[s] \in Jobs /\ target[sjob[s]] \in Targets
  /\ \A w \in Workers :
       IF phase[w] = "idle" THEN wjob[w] = NoJob
       ELSE wjob[w] \in Jobs /\ target[wjob[w]] \in Targets
  /\ \A j \in Jobs : InQueue(j) => target[j] \in Targets

\* Submitter s still has its job to itself: it has not pushed it, or the push
\* failed for good.
BeforePush(s) ==
  \/ pc[s] \in {"created", "cleared", "denied", "reserved", "archived"}
  \/ pc[s] \in {"delete", "undo", "unset"} /\ sjob[s] \notin exposed

Undelivered ==
  \A s \in Submitters :
    /\ sjob[s] # NoJob => \A u \in Submitters \ {s} : sjob[u] # sjob[s]
    /\ BeforePush(s) => /\ ~InQueue(sjob[s])
                        /\ \A w \in Workers : wjob[w] # sjob[s]

\* Where each job is: the invariant that the lock argument rests on.
Places == Owners /\ Undelivered /\ DeliveredOnce

\* Without faults, every path through create_check, schedule_domain_scan and
\* handle_job gives the lock back: a held lock belongs to a job in flight.
NoLeakedLock ==
  faults = 0 /\ Unarchived = {} =>
    \A t \in Targets : active[t] # NoJob => InFlight(active[t])

\* The archive row never runs ahead of the job record that GET /api/check
\* prefers: a poller cannot see a finished scan go back to running.  The one
\* exception is a job whose push was reported as failed and yet applied: the
\* API's "error" may be in the record when the worker writes its addresses,
\* and is then in the row while the scan goes on.
Rank == [none |-> 0, queued |-> 1, running |-> 2, done |-> 3, error |-> 3]
RejectedYetRunning(j) ==
  /\ j \in exposed \intersect ApiJobs
  /\ archive[j] = "error"
  /\ status[j] = "running"
StoreLeadsArchive ==
  \A j \in Jobs : status[j] # "none" =>
    Rank[archive[j]] <= Rank[status[j]] \/ RejectedYetRunning(j)

\* A job waiting in the list can be looked up: the record and the archive row
\* were written before the push, and nothing touches them until the pop.
QueuedJobIsRecorded ==
  \A j \in Jobs : InQueue(j) /\ j \notin exposed =>
    /\ status[j] = "queued"
    /\ archive[j] = "queued" \/ (Unarchived # {} /\ archive[j] = "none")

\* A finished scan has a row in the archive for its report to reference.
FinishedScanIsArchived ==
  \A j \in Jobs : status[j] = "done" => archive[j] # "none"

\* The depth guard is a check followed by a push: handlers that passed it
\* together may overrun the limit, but by fewer jobs than there are handlers.
QueueOvershootBounded ==
  MaxQueueDepth > 0 =>
    Cardinality({i \in DOMAIN queue : queue[i] \in ApiJobs})
      <= MaxQueueDepth - 1 + Cardinality(ApiClients)

(***************************************************************************)
(* What a step may never do.                                               *)
(***************************************************************************)

\* Once a poller has seen "done" or "error" for a job, that answer is final,
\* unless a push reported as failed was in fact applied.
TerminalIsFinal ==
  [][\A j \in Jobs \ exposed :
       Visible(j) \in Terminal => Visible(j)' = Visible(j)]_vars

(***************************************************************************)
(* Liveness.                                                               *)
(***************************************************************************)

\* A job that reached the list ends: its poller sees "done" or "error".
QueuedScanEnds ==
  \A j \in Jobs : InQueue(j) ~> Visible(j) \in Terminal

\* No lock is held forever, whatever crashed: a target can be scanned again.
LocksAreFreed ==
  \A t \in Targets : active[t] # NoJob ~> active[t] = NoJob

(***************************************************************************)
(* The pipeline implements the abstract lock service.                      *)
(***************************************************************************)
Admission == INSTANCE ScanAdmission WITH
  scans   <- [t \in Targets |-> {j \in Jobs : InFlight(j) /\ target[j] = t}],
  exposed <- exposed

ImplementsAdmission == Admission!AdmissionSpec

=============================================================================
