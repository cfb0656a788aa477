------------------------- MODULE ScanRecordsProofs --------------------------
(***************************************************************************)
(* What the job records, the archive rows and the locks say of a job in    *)
(* ScanPipeline, for any number of targets, jobs, handlers, schedulers and *)
(* workers and any number of faults.                                       *)
(***************************************************************************)
EXTENDS ScanPipelineProofs

(***************************************************************************)
(* The inductive invariant: what each holder of a job may rely on.         *)
(***************************************************************************)

\* An id that is not in use has left no trace.
UnusedIsBlank ==
  \A j \in Jobs : target[j] = NoTarget =>
    status[j] = "none" /\ archive[j] = "none" /\ j \notin exposed

\* A lock names a job of its own target.
LockNamesItsTarget ==
  \A t \in Targets : active[t] # NoJob => target[active[t]] = t

\* A job before its reservation has no lock, no archive row and no exposure.
Unreserved ==
  \A s \in Submitters : pc[s] \in {"created", "cleared", "denied"} =>
    /\ sjob[s] \notin exposed
    /\ archive[sjob[s]] = "none"
    /\ \A t \in Targets : active[t] # sjob[s]

\* Until the push the record says "queued", and the row is written last.
Unpushed ==
  \A s \in Submitters :
    /\ pc[s] \in {"created", "cleared", "denied", "reserved", "archived"} =>
         status[sjob[s]] = "queued"
    /\ pc[s] = "reserved" => archive[sjob[s]] = "none"
    /\ pc[s] = "archived" =>
         \/ archive[sjob[s]] = "queued"
         \/ Unarchived # {} /\ archive[sjob[s]] = "none"

\* A refused push that was not applied leaves the record to its submitter.
Refused ==
  \A s \in Submitters :
    /\ pc[s] = "delete" => s \notin ApiClients
    /\ pc[s] = "reject" => s \in ApiClients
    /\ sjob[s] \notin exposed =>
         /\ pc[s] = "delete" => status[sjob[s]] = "queued"
         /\ pc[s] \in {"undo", "unset", "reject"} /\ s \in ApiClients =>
              status[sjob[s]] = "queued"
         /\ pc[s] = "reject" =>
              ~InQueue(sjob[s]) /\ \A w \in Workers : wjob[w] # sjob[s]

\* The API has called off job j, although its push was applied.
CalledOff(j) == j \in exposed \intersect ApiJobs

\* A row does not run ahead of the list, even for an exposed job.
QueuedRowIsFresh ==
  \A j \in Jobs : InQueue(j) =>
    /\ archive[j] \in {"none", "queued"}
    /\ status[j] \in {"none", "queued", "error"}
    /\ status[j] = "error" => CalledOff(j)
    /\ Unarchived = {} => archive[j] # "none"

\* A worker reads and writes what it wrote itself, unless its job is exposed:
\* then the record may be gone, or marked by the submitter.  Only the update of
\* the addresses carries the submitter's mark on.
Handled ==
  \A w \in Workers : phase[w] # "idle" =>
    /\ Unarchived = {} => archive[wjob[w]] # "none"
    /\ phase[w] \in {"start", "checking", "addresses"} => archive[wjob[w]] \notin Terminal
    /\ phase[w] = "progress" =>
         (archive[wjob[w]] \in Terminal =>
            archive[wjob[w]] = "error" /\ CalledOff(wjob[w]))
    /\ phase[w] \in TryPhases => status[wjob[w]] # "queued"
    /\ phase[w] \in {"start"} \union TryPhases =>
         status[wjob[w]] # "done" /\ (status[wjob[w]] = "error" => CalledOff(wjob[w]))
    /\ phase[w] \in UpdatePhases /\ step[w] # "get" =>
         /\ phase[w] # "addresses" => record[w] = StatusOf(phase[w], "none")
         /\ phase[w] = "addresses" =>
              record[w] = "running" \/ (record[w] = "error" /\ CalledOff(wjob[w]))
    /\ phase[w] \in UpdatePhases =>
         /\ step[w] = "archive" => status[wjob[w]] \in {"none", "error", record[w]}
         /\ wjob[w] \notin exposed =>
              IF step[w] = "archive" THEN status[wjob[w]] = record[w]
              ELSE status[wjob[w]] \in {"queued", "running"}

Records ==
  /\ UnusedIsBlank /\ LockNamesItsTarget
  /\ Unreserved /\ Unpushed /\ Refused
  /\ QueuedRowIsFresh /\ QueuedJobIsRecorded /\ Handled
  /\ StoreLeadsArchive

\* The order of the statuses, spelled out.
LEMMA RankValues ==
  /\ Rank["none"] = 0 /\ Rank["queued"] = 1 /\ Rank["running"] = 2
  /\ Rank["done"] = 3 /\ Rank["error"] = 3
  BY DEF Rank


\* BLPOP takes nothing but the head.
LEMMA KeptJobs ==
  ASSUME queue \in Seq(Jobs), queue # <<>>, queue' = Tail(queue),
         NEW k \in Jobs \ {Head(queue)}, InQueue(k)
  PROVE  InQueue(k)'
<1>1. /\ Len(queue') = Len(queue) - 1
      /\ \A i \in 1 .. Len(queue') : queue'[i] = queue[i + 1]
      /\ queue' \in Seq(Jobs)
  BY HeadTailProperties
<1>2. /\ Len(queue) \in Nat \ {0}
      /\ DOMAIN queue = 1 .. Len(queue) /\ DOMAIN queue' = 1 .. Len(queue')
      /\ Head(queue) = queue[1]
  BY <1>1, EmptySeq, LenProperties
<1>3. PICK i \in DOMAIN queue : queue[i] = k
  BY DEF InQueue
<1>4. i # 1 /\ i - 1 \in DOMAIN queue' /\ queue'[i - 1] = k
  BY <1>1, <1>2, <1>3
<1> QED BY <1>4 DEF InQueue

\* Every step keeps Records: one case for each action.
LEMMA RecordsInductive ==
  ASSUME TypeOK, Places, OwnKind, Records, [Next]_vars
  PROVE  Records'
<1> USE PipelineAssumption DEF TypeOK, Jobs, Submitters, Statuses, SubmitPcs, Phases, Steps,
        Goto, Leave, Enter, Begin, DropJob, Fault, redisVars, submitVars, workerVars, ghostVars,
        Places, Owners, Undelivered, DeliveredOnce, BeforePush, Records, UnusedIsBlank,
        LockNamesItsTarget, Unreserved, Unpushed, Refused, QueuedRowIsFresh,
        QueuedJobIsRecorded, Handled, CalledOff, StoreLeadsArchive,
        RejectedYetRunning, Terminal, StatusOf, UpdatePhases, TryPhases, InQueue
<1>1. ASSUME NEW s \in Submitters, CheckDepth(s) PROVE Records'
  BY <1>1, SMTT(20) DEF CheckDepth
<1>2. ASSUME NEW s \in Submitters, CreateJob(s) PROVE Records'
  <2>1. QueuedRowIsFresh'
    BY <1>2 DEF CreateJob
  <2>2. QueuedJobIsRecorded'
    <3>1. PICK j \in Jobs : target[j] = NoTarget /\ status' = [status EXCEPT ![j] = "queued"]
      <4> HIDE DEF Records, Places, TypeOK
      <4> QED BY <1>2 DEF CreateJob
    <3>2. UNCHANGED <<queue, archive, exposed>>
      BY <1>2 DEF CreateJob
    <3> QED BY <3>1, <3>2
  <2>3. UnusedIsBlank'
    BY <1>2 DEF CreateJob
  <2>4. LockNamesItsTarget'
    BY <1>2 DEF CreateJob
  <2>5. Unreserved'
    BY <1>2 DEF CreateJob
  <2>6. Unpushed'
    BY <1>2 DEF CreateJob
  <2>7. Refused'
    BY <1>2 DEF CreateJob
  <2>8. Handled'
    BY <1>2 DEF CreateJob
  <2>9. StoreLeadsArchive'
    BY <1>2, RankValues DEF CreateJob
  <2> QED BY <2>1, <2>2, <2>3, <2>4, <2>5, <2>6, <2>7, <2>8, <2>9
<1>3. ASSUME NEW s \in Submitters, CheckCooldown(s) PROVE Records'
  BY <1>3, SMTT(20) DEF CheckCooldown
<1>4. ASSUME NEW s \in Submitters, SetActive(s) PROVE Records'
  <2>1. /\ UnusedIsBlank' /\ Refused' /\ QueuedRowIsFresh'
        /\ QueuedJobIsRecorded' /\ Handled' /\ StoreLeadsArchive'
    BY <1>4 DEF SetActive
  <2>2. LockNamesItsTarget'
    <3>1. \/ active' = active
          \/ active' = [active EXCEPT ![target[sjob[s]]] = sjob[s]]
      BY <1>4 DEF SetActive
    <3>2. target' = target /\ sjob[s] \in Jobs /\ target[sjob[s]] \in Targets
      BY <1>4 DEF SetActive
    <3>3. ASSUME NEW t \in Targets, active'[t] # NoJob PROVE target[active'[t]] = t
      <4>1. CASE active'[t] = active[t]
        BY <3>3, <4>1
      <4>2. CASE active'[t] # active[t]
        BY <3>1, <3>2, <4>2
      <4> QED BY <4>1, <4>2
    <3> QED BY <3>2, <3>3
  <2>3. Unreserved'
    BY <1>4 DEF SetActive
  <2>4. Unpushed'
    BY <1>4 DEF SetActive
  <2> QED BY <2>1, <2>2, <2>3, <2>4
<1>5. ASSUME NEW s \in Submitters, DeleteDenied(s) PROVE Records'
  BY <1>5, RankValues, SMTT(20) DEF DeleteDenied
<1>6. ASSUME NEW s \in Submitters, ArchiveCreate(s) PROVE Records'
  BY <1>6, RankValues, SMTT(20) DEF ArchiveCreate
<1>7. ASSUME NEW s \in Submitters, Enqueue(s) PROVE Records'
  <2>1. UnusedIsBlank' /\ LockNamesItsTarget' /\ Unreserved' /\ Handled' /\ StoreLeadsArchive'
    BY <1>7 DEF Enqueue
  <2>2. Unpushed'
    BY <1>7 DEF Enqueue
  <2>3. Refused'
    <3>1. \A k \in Jobs : InQueue(k)' <=> InQueue(k) \/ k = sjob[s]
      <4>1. sjob[s] \in Jobs /\ queue \in Seq(Jobs) /\ queue' = Append(queue, sjob[s])
        BY <1>7 DEF Enqueue
      <4> HIDE DEF Records, Places, TypeOK, Jobs, InQueue
      <4> QED BY <4>1, PushedJob
    <3>2. /\ pc' = [pc EXCEPT ![s] = "idle"] /\ sjob' = [sjob EXCEPT ![s] = NoJob]
          /\ UNCHANGED <<status, wjob, exposed>>
      BY <1>7 DEF Enqueue
    <3>3. \A u \in Submitters \ {s} : sjob[u] # sjob[s]
      BY <1>7 DEF Enqueue
    <3> HIDE DEF InQueue
    <3> QED BY <3>1, <3>2, <3>3
  <2>4. QueuedRowIsFresh'
    BY <1>7 DEF Enqueue
  <2>5. QueuedJobIsRecorded'
    BY <1>7 DEF Enqueue
  <2> QED BY <2>1, <2>2, <2>3, <2>4, <2>5
<1>8. ASSUME NEW s \in Submitters, EnqueueRefused(s) PROVE Records'
  BY <1>8, SMTT(20) DEF EnqueueRefused, FirstUndo
<1>9. ASSUME NEW s \in Submitters, EnqueueReplyLost(s) PROVE Records'
  BY <1>9, SMTT(20) DEF EnqueueReplyLost, FirstUndo
<1>10. ASSUME NEW s \in Submitters, UndoDelete(s) PROVE Records'
  BY <1>10, RankValues, SMTT(20) DEF UndoDelete
<1>11. ASSUME NEW s \in Submitters, UndoGet(s) PROVE Records'
  <2>1. /\ UnusedIsBlank' /\ LockNamesItsTarget' /\ QueuedRowIsFresh'
        /\ QueuedJobIsRecorded' /\ Handled' /\ StoreLeadsArchive'
    BY <1>11 DEF UndoGet, AfterUnlock
  <2>2. Unreserved'
    <3>1. /\ \A u \in Submitters \ {s} : pc'[u] = pc[u] /\ sjob'[u] = sjob[u]
          /\ pc'[s] \in {"idle", "reject", "unset"}
      BY <1>11 DEF UndoGet, AfterUnlock
    <3>2. UNCHANGED <<archive, active, exposed>>
      BY <1>11 DEF UndoGet
    <3> QED BY <3>1, <3>2
  <2>3. Unpushed'
    BY <1>11 DEF UndoGet, AfterUnlock
  <2>4. Refused'
    BY <1>11 DEF UndoGet, AfterUnlock
  <2> QED BY <2>1, <2>2, <2>3, <2>4
<1>12. ASSUME NEW s \in Submitters, UndoDel(s) PROVE Records'
  <2>1. UnusedIsBlank' /\ QueuedRowIsFresh' /\ QueuedJobIsRecorded' /\ StoreLeadsArchive'
    BY <1>12 DEF UndoDel, AfterUnlock, Victims
  <2>2. LockNamesItsTarget'
    BY <1>12 DEF UndoDel, AfterUnlock, Victims
  <2>3. \A u \in Submitters \ {s} : pc'[u] = pc[u] /\ sjob'[u] = sjob[u]
    BY <1>12 DEF UndoDel, AfterUnlock
  <2>4. pc'[s] \in {"idle", "reject"}
    BY <1>12 DEF UndoDel, AfterUnlock
  <2>5. Unreserved'
    <3>1. /\ exposed' \subseteq exposed \union {active[target[sjob[s]]]}
          /\ target[sjob[s]] \in Targets
      BY <1>12 DEF UndoDel, Victims
    <3>2. archive' = archive
          /\ \A t \in Targets : active'[t] \in {active[t], NoJob}
      BY <1>12 DEF UndoDel
    <3> QED BY <2>3, <2>4, <3>1, <3>2
  <2>6. Unpushed'
    <3>1. UNCHANGED <<status, archive>>
      BY <1>12 DEF UndoDel
    <3> QED BY <2>3, <2>4, <3>1
  <2>7. Refused'
    BY <1>12 DEF UndoDel, AfterUnlock, Victims
  <2>8. Handled'
    BY <1>12 DEF UndoDel, AfterUnlock, Victims
  <2> QED BY <2>1, <2>2, <2>5, <2>6, <2>7, <2>8
<1>13. ASSUME NEW s \in Submitters, MarkRejected(s) PROVE Records'
  <2> DEFINE j == sjob[s]
  <2>0. /\ status' = [status EXCEPT ![j] = "error"] /\ j \in ApiJobs
        /\ j \notin exposed => ~InQueue(j) /\ \A w \in Workers : wjob[w] # j
    BY <1>13 DEF MarkRejected, OwnKind
  <2>1. LockNamesItsTarget'
    BY <1>13 DEF MarkRejected
  <2>10. QueuedRowIsFresh'
    <3> HIDE DEF j, InQueue
    <3>1. UNCHANGED <<queue, archive, exposed>>
      BY <1>13 DEF MarkRejected
    <3>2. \A k \in Jobs : InQueue(k)' <=> InQueue(k)
      BY <3>1 DEF InQueue
    <3> QED BY <2>0, <3>1, <3>2
  <2>2. Unreserved'
    BY <1>13 DEF MarkRejected
  <2>3. UnusedIsBlank'
    BY <1>13 DEF MarkRejected
  <2>4. Unpushed'
    BY <1>13 DEF MarkRejected
  <2>5. Refused'
    BY <1>13 DEF MarkRejected
  <2>6. QueuedJobIsRecorded'
    BY <1>13 DEF MarkRejected
  <2>7. Handled'
    <3> HIDE DEF j, InQueue
    <3>1. UNCHANGED <<archive, exposed, phase, step, wjob, record>>
      BY <1>13 DEF MarkRejected
    <3> QED BY <2>0, <3>1
  <2>8. StoreLeadsArchive'
    BY <1>13, RankValues DEF MarkRejected
  <2> QED BY <2>1, <2>2, <2>3, <2>4, <2>5, <2>6, <2>7, <2>8, <2>10
<1>14. ASSUME NEW s \in Submitters, SubmitterFails(s) PROVE Records'
  BY <1>14, SMTT(20) DEF SubmitterFails
<1>15. ASSUME NEW w \in Workers, PopJob(w) PROVE Records'
  <2>1. UnusedIsBlank' /\ LockNamesItsTarget' /\ Unreserved' /\ Unpushed' /\ StoreLeadsArchive'
    BY <1>15 DEF PopJob
  <2>2. Refused'
    BY <1>15 DEF PopJob
  <2>3. QueuedRowIsFresh'
    BY <1>15 DEF PopJob
  <2>4. QueuedJobIsRecorded'
    BY <1>15 DEF PopJob
  <2>5. Handled'
    BY <1>15 DEF PopJob
  <2> QED BY <2>1, <2>2, <2>3, <2>4, <2>5
<1>16. ASSUME NEW w \in Workers, StoreGet(w) PROVE Records'
  BY <1>16, SMTT(20) DEF StoreGet, NextPhase, RowMissing
<1>17. ASSUME NEW w \in Workers, StoreSave(w) PROVE Records'
  BY <1>17, RankValues, SMTT(20) DEF StoreSave
<1>18. ASSUME NEW w \in Workers, ArchiveUpdate(w) PROVE Records'
  <2>1. LockNamesItsTarget' /\ Refused'
    BY <1>18 DEF ArchiveUpdate, NextPhase
  <2>2. UnusedIsBlank'
    BY <1>18 DEF ArchiveUpdate, NextPhase
  <2>3. Unreserved'
    BY <1>18 DEF ArchiveUpdate, NextPhase
  <2>4. Unpushed'
    BY <1>18 DEF ArchiveUpdate, NextPhase
  <2>5. QueuedRowIsFresh'
    BY <1>18 DEF ArchiveUpdate, NextPhase
  <2>6. QueuedJobIsRecorded'
    BY <1>18 DEF ArchiveUpdate, NextPhase
  <2>7. Handled'
    BY <1>18 DEF ArchiveUpdate, NextPhase
  <2>8. StoreLeadsArchive'
    BY <1>18, RankValues DEF ArchiveUpdate, NextPhase
  <2> QED BY <2>1, <2>2, <2>3, <2>4, <2>5, <2>6, <2>7, <2>8
<1>19. ASSUME NEW w \in Workers, RowMissingRaises(w) PROVE Records'
  BY <1>19, SMTT(20) DEF RowMissingRaises, RowMissing
<1>20. ASSUME NEW w \in Workers, ScanRaises(w) PROVE Records'
  BY <1>20, SMTT(20) DEF ScanRaises, TryPhases
<1>21. ASSUME NEW w \in Workers, ReleaseGet(w) PROVE Records'
  BY <1>21, SMTT(20) DEF ReleaseGet
<1>22. ASSUME NEW w \in Workers, ReleaseDel(w) PROVE Records'
  BY <1>22, SMTT(20) DEF ReleaseDel, Victims
<1>23. ASSUME NEW w \in Workers, SetCooldown(w) PROVE Records'
  BY <1>23, SMTT(20) DEF SetCooldown
<1>24. ASSUME NEW w \in Workers, WorkerFails(w) PROVE Records'
  BY <1>24, SMTT(20) DEF WorkerFails
<1>25. ASSUME NEW t \in Targets, ExpireActive(t) PROVE Records'
  BY <1>25, SMTT(20) DEF ExpireActive, Victims
<1>26. ASSUME NEW t \in Targets, ExpireCooldown(t) PROVE Records'
  BY <1>26, SMTT(20) DEF ExpireCooldown
<1>27. CASE UNCHANGED vars
  BY <1>27 DEF vars
<1> HIDE DEF Records
<1> QED
  BY <1>1, <1>2, <1>3, <1>4, <1>5, <1>6, <1>7, <1>8, <1>9, <1>10, <1>11, <1>12, <1>13,
     <1>14, <1>15, <1>16, <1>17, <1>18, <1>19, <1>20, <1>21, <1>22, <1>23, <1>24,
     <1>25, <1>26, <1>27 DEF Next, SubmitStep, SubmitFault, WorkStep

(***************************************************************************)
(* Every job record, archive row and lock says what its holders rely on.   *)
(***************************************************************************)
THEOREM RecordsCorrect == Spec => []Records
<1>1. Init => Records
  BY PipelineAssumption, RankValues DEF Init, Records, UnusedIsBlank, LockNamesItsTarget,
     Unreserved, Unpushed, Refused, QueuedRowIsFresh, QueuedJobIsRecorded, Handled,
     StoreLeadsArchive, InQueue, Jobs
<1>2. TypeOK /\ Places /\ OwnKind /\ Records /\ [Next]_vars => Records'
  BY RecordsInductive
<1> QED
  BY <1>1, <1>2, PlacesCorrect, OwnKindCorrect, PTL DEF Spec

(***************************************************************************)
(* The archive row never runs ahead of the record that a poller is shown:  *)
(* RedisJobStore.update saves before the worker writes to PostgreSQL.      *)
(***************************************************************************)
THEOREM StoreLeadsTheorem == Spec => []StoreLeadsArchive
<1>1. Records => StoreLeadsArchive
  BY DEF Records
<1> QED
  BY <1>1, RecordsCorrect, PTL

(***************************************************************************)
(* A job in the list can be looked up: create_check and                    *)
(* schedule_domain_scan write record and row before they push.             *)
(***************************************************************************)
THEOREM QueuedRecordTheorem == Spec => []QueuedJobIsRecorded
<1>1. Records => QueuedJobIsRecorded
  BY DEF Records
<1> QED
  BY <1>1, RecordsCorrect, PTL

(***************************************************************************)
(* A final answer stays: who changes the record or the row of a job that   *)
(* was not exposed finds it unfinished.                                    *)
(***************************************************************************)
LEMMA TerminalStep ==
  ASSUME TypeOK, Places, Records, [Next]_vars,
         NEW j \in Jobs \ exposed, Visible(j) \in Terminal
  PROVE  Visible(j)' = Visible(j)
<1> USE PipelineAssumption DEF TypeOK, Jobs, Submitters, Places, Owners, Undelivered,
        BeforePush, Records, UnusedIsBlank, Unpushed, Refused, Handled, Terminal,
        StatusOf, UpdatePhases, TryPhases, Visible, Goto, Enter

<1>1. ASSUME NEW s \in Submitters, CreateJob(s) PROVE Visible(j)' = Visible(j)
  BY <1>1 DEF CreateJob, Submitters, Statuses
<1>2. ASSUME NEW s \in Submitters, DeleteDenied(s) PROVE Visible(j)' = Visible(j)
  BY <1>2 DEF DeleteDenied, Submitters, Statuses
<1>3. ASSUME NEW s \in Submitters, ArchiveCreate(s) PROVE Visible(j)' = Visible(j)
  <2>1. CASE sjob[s] = j
    BY <1>3, <2>1 DEF ArchiveCreate, redisVars
  <2>2. CASE sjob[s] # j
    <3>1. status' = status /\ archive'[j] = archive[j]
      BY <1>3, <2>2 DEF ArchiveCreate, redisVars
    <3> QED BY <3>1
  <2> QED BY <2>1, <2>2
<1>4. ASSUME NEW s \in Submitters, UndoDelete(s) PROVE Visible(j)' = Visible(j)
  BY <1>4 DEF UndoDelete, Submitters, Statuses
<1>5. ASSUME NEW s \in Submitters, MarkRejected(s) PROVE Visible(j)' = Visible(j)
  BY <1>5 DEF MarkRejected, Submitters, Statuses
<1>6. ASSUME NEW w \in Workers, StoreSave(w) PROVE Visible(j)' = Visible(j)
  BY <1>6 DEF StoreSave, Submitters, Statuses
<1>7. ASSUME NEW w \in Workers, ArchiveUpdate(w) PROVE Visible(j)' = Visible(j)
  <2>1. CASE wjob[w] = j
    <3>1. status[j] = record[w]
      BY <1>7, <2>1 DEF ArchiveUpdate
    <3> QED BY <1>7, <3>1 DEF ArchiveUpdate, redisVars
  <2>2. CASE wjob[w] # j
    <3>1. status' = status /\ archive'[j] = archive[j]
      BY <1>7, <2>2 DEF ArchiveUpdate, redisVars
    <3> QED BY <3>1
  <2> QED BY <2>1, <2>2
<1>8. CASE UNCHANGED <<status, archive>>
  BY <1>8
<1>9. ASSUME NEW s \in Submitters,
            \/ CheckDepth(s) \/ CheckCooldown(s) \/ SetActive(s) \/ Enqueue(s)
            \/ UndoGet(s) \/ UndoDel(s) \/ SubmitFault(s)
      PROVE  UNCHANGED <<status, archive>>
  BY <1>9 DEF CheckDepth, CheckCooldown, SetActive, Enqueue, UndoGet, UndoDel, SubmitFault,
     EnqueueRefused, EnqueueReplyLost, SubmitterFails, redisVars
<1>10. ASSUME NEW w \in Workers,
            \/ PopJob(w) \/ StoreGet(w) \/ RowMissingRaises(w) \/ ScanRaises(w)
            \/ ReleaseGet(w) \/ ReleaseDel(w) \/ SetCooldown(w) \/ WorkerFails(w)
      PROVE  UNCHANGED <<status, archive>>
  BY <1>10 DEF PopJob, StoreGet, RowMissingRaises, ScanRaises, ReleaseGet, ReleaseDel,
     SetCooldown, WorkerFails, redisVars
<1>11. ASSUME NEW t \in Targets, ExpireActive(t) \/ ExpireCooldown(t)
      PROVE  UNCHANGED <<status, archive>>
  BY <1>11 DEF ExpireActive, ExpireCooldown
<1>12. CASE UNCHANGED vars
  BY <1>12 DEF vars, redisVars
<1> QED
  BY <1>1, <1>2, <1>3, <1>4, <1>5, <1>6, <1>7, <1>8, <1>9, <1>10, <1>11, <1>12 DEF
     Next, SubmitStep, SubmitFault, WorkStep

(***************************************************************************)
(* Once GET /api/check/{id} said "done" or "error", it says so forever.    *)
(***************************************************************************)
THEOREM FinalAnswerTheorem == Spec => TerminalIsFinal
<1>1. TypeOK /\ Places /\ Records /\ [Next]_vars =>
        [\A j \in Jobs \ exposed :
           Visible(j) \in Terminal => Visible(j)' = Visible(j)]_vars
  BY TerminalStep
<1> QED
  BY <1>1, PlacesCorrect, RecordsCorrect, PTL DEF Spec, TerminalIsFinal

(***************************************************************************)
(* Without faults a lock is given back.                                    *)
(***************************************************************************)
LEMMA StillInFlight ==
  ASSUME TypeOK, NoLeakedLock, UNCHANGED <<active, faults>>,
         \A k \in Jobs :
           (\E t \in Targets : active[t] = k) /\ InFlight(k) => InFlight(k)'
  PROVE  NoLeakedLock'
<1> SUFFICES ASSUME faults = 0, Unarchived = {}, NEW t \in Targets, active[t] # NoJob
             PROVE  InFlight(active[t])'
  BY DEF NoLeakedLock
<1>1. PICK k \in Jobs : active[t] = k /\ active'[t] = k /\ InFlight(k)
  BY DEF NoLeakedLock, TypeOK
<1>2. InFlight(k)'
  BY <1>1
<1> QED BY <1>1, <1>2 DEF InFlight, WithSubmitter, InQueue, WithWorker

\* Every step keeps NoLeakedLock: one case for each action.
LEMMA NoLeakInductive ==
  ASSUME TypeOK, Places, Records, NoLeakedLock, [Next]_vars
  PROVE  NoLeakedLock'
<1> USE PipelineAssumption DEF TypeOK, Jobs, Submitters, Goto, Leave, Enter, Begin, DropJob, Fault,
        redisVars, submitVars, workerVars, ghostVars, Places, Owners, Undelivered, BeforePush,
        Records, LockNamesItsTarget, Unreserved, Handled, NoLeakedLock, InFlight, WithSubmitter,
        WithWorker, HoldingPcs, InQueue
<1>1. ASSUME NEW s \in Submitters, CheckDepth(s) PROVE NoLeakedLock'
  BY <1>1, SMTT(20) DEF CheckDepth
<1>2. ASSUME NEW s \in Submitters, CreateJob(s) PROVE NoLeakedLock'
  BY <1>2, SMTT(20) DEF CreateJob
<1>3. ASSUME NEW s \in Submitters, CheckCooldown(s) PROVE NoLeakedLock'
  BY <1>3, SMTT(20) DEF CheckCooldown
<1>4. ASSUME NEW s \in Submitters, SetActive(s) PROVE NoLeakedLock'
  BY <1>4, SMTT(20) DEF SetActive
<1>5. ASSUME NEW s \in Submitters, DeleteDenied(s) PROVE NoLeakedLock'
  BY <1>5, SMTT(20) DEF DeleteDenied
<1>6. ASSUME NEW s \in Submitters, ArchiveCreate(s) PROVE NoLeakedLock'
  BY <1>6, SMTT(20) DEF ArchiveCreate
<1>7. ASSUME NEW s \in Submitters, Enqueue(s) PROVE NoLeakedLock'
  <2>1. \A k \in Jobs : InQueue(k)' <=> InQueue(k) \/ k = sjob[s]
    BY <1>7, PushedJob DEF Enqueue
  <2>2. \A k \in Jobs \ {sjob[s]} : WithSubmitter(k) => WithSubmitter(k)'
    BY <1>7 DEF Enqueue
  <2>3. UNCHANGED <<active, faults, phase, step, wjob>>
    BY <1>7 DEF Enqueue
  <2>4. \A k \in Jobs : InFlight(k) => InFlight(k)'
    BY <2>1, <2>2, <2>3
  <2> QED BY <2>3, <2>4, StillInFlight
<1>8. ASSUME NEW s \in Submitters, EnqueueRefused(s) PROVE NoLeakedLock'
  BY <1>8, SMTT(20) DEF EnqueueRefused, FirstUndo
<1>9. ASSUME NEW s \in Submitters, EnqueueReplyLost(s) PROVE NoLeakedLock'
  BY <1>9, SMTT(20) DEF EnqueueReplyLost, FirstUndo
<1>10. ASSUME NEW s \in Submitters, UndoDelete(s) PROVE NoLeakedLock'
  BY <1>10, SMTT(20) DEF UndoDelete
<1>11. ASSUME NEW s \in Submitters, UndoGet(s) PROVE NoLeakedLock'
  <2>1. /\ pc[s] = "undo" /\ UNCHANGED <<active, faults, queue, phase, step, wjob>>
        /\ \A u \in Submitters \ {s} : UNCHANGED <<pc[u], sjob[u]>>
    BY <1>11 DEF UndoGet, AfterUnlock
  <2>2. PICK j \in Jobs : j = sjob[s]
    BY <2>1
  <2>3. active[target[j]] = j => pc'[s] = "unset" /\ sjob'[s] = j
    BY <1>11, <2>2 DEF UndoGet
  <2>4. \A k \in Jobs \ {j} : InFlight(k) => InFlight(k)'
    BY <2>1, <2>2
  <2>5. \A t \in Targets : active[t] = j => InFlight(j)'
    <3>1. \A t \in Targets : active[t] = j => target[j] = t
      OBVIOUS
    <3>2. active[target[j]] = j => InFlight(j)'
      BY <2>3
    <3> HIDE DEF InFlight
    <3> QED BY <3>1, <3>2
  <2>6. \A k \in Jobs :
          (\E t \in Targets : active[t] = k) /\ InFlight(k) => InFlight(k)'
    <3> HIDE DEF InFlight
    <3> QED BY <2>4, <2>5
  <2> HIDE DEF InFlight, NoLeakedLock
  <2> QED BY <2>1, <2>6, StillInFlight
<1>12. ASSUME NEW s \in Submitters, UndoDel(s) PROVE NoLeakedLock'
  BY <1>12, SMTT(20) DEF UndoDel, AfterUnlock, Victims
<1>13. ASSUME NEW s \in Submitters, MarkRejected(s) PROVE NoLeakedLock'
  BY <1>13, SMTT(20) DEF MarkRejected
<1>14. ASSUME NEW s \in Submitters, SubmitterFails(s) PROVE NoLeakedLock'
  BY <1>14, SMTT(20) DEF SubmitterFails
<1>15. ASSUME NEW w \in Workers, PopJob(w) PROVE NoLeakedLock'
  <2> DEFINE h == Head(queue)
  <2>1. \A k \in Jobs \ {h} : InQueue(k) => InQueue(k)'
    BY <1>15, KeptJobs DEF PopJob
  <2>2. wjob'[w] = h /\ phase'[w] = "start" /\ phase[w] = "idle"
    BY <1>15 DEF PopJob
  <2>3. UNCHANGED <<active, faults, pc, sjob>>
    BY <1>15 DEF PopJob
  <2>4. \A v \in Workers \ {w} : UNCHANGED <<phase[v], step[v], wjob[v]>>
    BY <1>15 DEF PopJob
  <2> HIDE DEF h
  <2>5. \A k \in Jobs : k = h => WithWorker(k)'
    BY <2>2
  <2>6. \A k \in Jobs : WithWorker(k) => WithWorker(k)'
    BY <2>2, <2>4
  <2>7. \A k \in Jobs : WithSubmitter(k) => WithSubmitter(k)'
    BY <2>3
  <2>8. \A k \in Jobs : InFlight(k) => InFlight(k)'
    <3> HIDE DEF InQueue, WithWorker, WithSubmitter
    <3> QED BY <2>1, <2>5, <2>6, <2>7
  <2> QED BY <2>3, <2>8, StillInFlight
<1>16. ASSUME NEW w \in Workers, StoreGet(w) PROVE NoLeakedLock'
  BY <1>16, SMTT(20) DEF StoreGet, NextPhase, RowMissing
<1>17. ASSUME NEW w \in Workers, StoreSave(w) PROVE NoLeakedLock'
  BY <1>17, SMTT(20) DEF StoreSave
<1>18. ASSUME NEW w \in Workers, ArchiveUpdate(w) PROVE NoLeakedLock'
  BY <1>18, SMTT(20) DEF ArchiveUpdate, NextPhase
<1>19. ASSUME NEW w \in Workers, RowMissingRaises(w) PROVE NoLeakedLock'
  BY <1>19, SMTT(20) DEF RowMissingRaises, RowMissing
<1>20. ASSUME NEW w \in Workers, ScanRaises(w) PROVE NoLeakedLock'
  BY <1>20, SMTT(20) DEF ScanRaises, TryPhases
<1>21. ASSUME NEW w \in Workers, ReleaseGet(w) PROVE NoLeakedLock'
  BY <1>21, SMTT(20) DEF ReleaseGet
<1>22. ASSUME NEW w \in Workers, ReleaseDel(w) PROVE NoLeakedLock'
  BY <1>22, SMTT(20) DEF ReleaseDel, Victims
<1>23. ASSUME NEW w \in Workers, SetCooldown(w) PROVE NoLeakedLock'
  BY <1>23, SMTT(20) DEF SetCooldown
<1>24. ASSUME NEW w \in Workers, WorkerFails(w) PROVE NoLeakedLock'
  BY <1>24, SMTT(20) DEF WorkerFails
<1>25. ASSUME NEW t \in Targets, ExpireActive(t) PROVE NoLeakedLock'
  BY <1>25, SMTT(20) DEF ExpireActive, Victims
<1>26. ASSUME NEW t \in Targets, ExpireCooldown(t) PROVE NoLeakedLock'
  BY <1>26, SMTT(20) DEF ExpireCooldown
<1>27. CASE UNCHANGED vars
  BY <1>27 DEF vars
<1> QED
  BY <1>1, <1>2, <1>3, <1>4, <1>5, <1>6, <1>7, <1>8, <1>9, <1>10, <1>11, <1>12, <1>13,
     <1>14, <1>15, <1>16, <1>17, <1>18, <1>19, <1>20, <1>21, <1>22, <1>23, <1>24,
     <1>25, <1>26, <1>27 DEF Next, SubmitStep, SubmitFault, WorkStep

(***************************************************************************)
(* Every path through create_check, schedule_domain_scan and handle_job    *)
(* gives the lock back.                                                    *)
(***************************************************************************)
THEOREM NoLeakTheorem == Spec => []NoLeakedLock
<1>1. Init => NoLeakedLock
  BY DEF Init, NoLeakedLock
<1>2. TypeOK /\ Places /\ Records /\ NoLeakedLock /\ [Next]_vars => NoLeakedLock'
  BY NoLeakInductive
<1> QED
  BY <1>1, <1>2, PlacesCorrect, RecordsCorrect, PTL DEF Spec

(***************************************************************************)
(* The pipeline implements ScanAdmission.  What a step does to the jobs in *)
(* flight and to the exposed ones decides which abstract step it is.       *)
(***************************************************************************)
AbstractStep == [Admission!AdmissionNext]_(Admission!admissionVars)

SameFlights(S) ==
  \A k \in S : (InFlight(k)' <=> InFlight(k)) /\ (InFlight(k) => target'[k] = target[k])

\* A job in flight was created, so that it has a target.
LEMMA FlightsHaveTargets ==
  ASSUME Owners, NEW j \in Jobs, InFlight(j)
  PROVE  target[j] \in Targets
BY DEF Owners, InFlight, WithSubmitter, WithWorker, HoldingPcs

\* A step that moves no job in or out of flight and exposes none is a stutter.
LEMMA MapsToStutter ==
  ASSUME exposed' = exposed, SameFlights(Jobs)
  PROVE  AbstractStep
BY DEF AbstractStep, SameFlights, Admission!admissionVars

\* A step after which one job is no longer in flight.
LEMMA MapsToLeave ==
  ASSUME Owners, NEW j \in Jobs, exposed' = exposed, SameFlights(Jobs \ {j}), ~InFlight(j)'
  PROVE  AbstractStep
<1>1. CASE InFlight(j)
  <2>1. PICK t \in Targets : t = target[j]
    BY <1>1, FlightsHaveTargets
  <2>2. Admission!Leave(t, j)
    BY <1>1, <2>1 DEF SameFlights, Admission!Leave
  <2> QED BY <2>1, <2>2 DEF AbstractStep, Admission!AdmissionNext
<1>2. CASE ~InFlight(j)
  BY <1>2 DEF AbstractStep, SameFlights, Admission!admissionVars
<1> QED BY <1>1, <1>2

\* The end of one process's hold on j: j is still in flight or it is not.
LEMMA MapsToShrink ==
  ASSUME Owners, NEW j \in Jobs \union {NoJob}, exposed' = exposed,
         SameFlights(Jobs \ {j}), j \in Jobs => (InFlight(j)' => InFlight(j)) /\ target' = target
  PROVE  AbstractStep
<1>1. CASE j \in Jobs /\ ~InFlight(j)'
  BY <1>1, MapsToLeave
<1>2. CASE ~(j \in Jobs /\ ~InFlight(j)')
  <2>1. SameFlights(Jobs)
    BY <1>2 DEF SameFlights
  <2> QED BY <2>1, MapsToStutter
<1> QED BY <1>1, <1>2

\* A step that exposes one job in flight.
LEMMA MapsToExpose ==
  ASSUME Owners, NEW j \in Jobs, InFlight(j), exposed' = exposed \union {j}, SameFlights(Jobs)
  PROVE  AbstractStep
<1>1. PICK t \in Targets : t = target[j]
  BY FlightsHaveTargets
<1>2. Admission!Expose(t, j)
  BY <1>1 DEF SameFlights, Admission!Expose
<1> QED BY <1>1, <1>2 DEF AbstractStep, Admission!AdmissionNext

\* A step that brings one job in flight on a target whose lock was free.
LEMMA MapsToAdmit ==
  ASSUME NEW j \in Jobs, target[j] \in Targets, ~InFlight(j), j \notin exposed,
         LockHeldInFlight, TypeOK, active[target[j]] = NoJob,
         exposed' = exposed, target' = target, SameFlights(Jobs \ {j}), InFlight(j)'
  PROVE  AbstractStep
<1> PICK t \in Targets : t = target[j]
  OBVIOUS
<1>1. \A k \in Jobs : InFlight(k) /\ target[k] = t => k \in exposed
  BY PipelineAssumption DEF LockHeldInFlight, Jobs
<1>2. Admission!Admit(t, j)
  BY <1>1 DEF SameFlights, Admission!Admit
<1> QED BY <1>2 DEF AbstractStep, Admission!AdmissionNext

\* A deletion of the lock of j's target on behalf of j.
LEMMA MapsToDisplace ==
  ASSUME TypeOK, Owners, LockHeldInFlight, LockNamesItsTarget,
         NEW j \in Jobs, InFlight(j), exposed' = exposed \union Victims(target[j], j),
         target' = target, SameFlights(Jobs \ {j}), InFlight(j)' => InFlight(j)
  PROVE  AbstractStep
<1>1. PICK t \in Targets : t = target[j]
  BY FlightsHaveTargets
<1>2. CASE Victims(t, j) = {}
  <2>1. exposed' = exposed
    BY <1>1, <1>2
  <2>2. CASE InFlight(j)'
    <3>1. SameFlights(Jobs)
      BY <2>2 DEF SameFlights
    <3> QED BY <2>1, <3>1, MapsToStutter
  <2>3. CASE ~InFlight(j)'
    BY <2>1, <2>3, MapsToLeave
  <2> QED BY <2>2, <2>3
<1>3. CASE Victims(t, j) # {}
  <2>1. PICK k \in Jobs \ {j} : active[t] = k /\ InFlight(k)
    BY <1>3 DEF Victims
  <2>2. Victims(t, j) = {k}
    BY <2>1 DEF Victims
  <2>3. j \in exposed
    BY <1>1, <2>1 DEF LockHeldInFlight
  <2>4. target[k] = t
    BY <1>1, <2>1, PipelineAssumption DEF LockNamesItsTarget
  <2>5. Admission!Displace(t, j, k)
    <3>1. CASE InFlight(j)'
      BY <1>1, <2>1, <2>2, <2>3, <2>4, <3>1 DEF SameFlights, Admission!Displace
    <3>2. CASE ~InFlight(j)'
      <4> DEFINE scans(u) == {i \in Jobs : InFlight(i) /\ target[i] = u}
      <4>1. exposed' = exposed \union {k}
        BY <1>1, <2>2
      <4>2. \A u \in Targets : scans(u)' = IF u = t THEN scans(t) \ {j} ELSE scans(u)
        BY <1>1, <3>2 DEF SameFlights
      <4>3. j \in scans(t) \intersect exposed /\ k \in scans(t) \ {j}
        BY <1>1, <2>1, <2>3, <2>4
      <4>4. [u \in Targets |-> scans(u)'] =
              [[u \in Targets |-> scans(u)] EXCEPT ![t] = @ \ {j}]
        <5> HIDE DEF scans
        <5> QED BY <4>2
      <4> QED BY <4>1, <4>3, <4>4 DEF Admission!Displace
    <3> QED BY <3>1, <3>2
  <2> QED BY <1>1, <2>1, <2>5 DEF AbstractStep, Admission!AdmissionNext
<1> QED BY <1>2, <1>3

\* Every step of the pipeline is a step of ScanAdmission or a stutter.
LEMMA AdmissionRefined ==
  ASSUME TypeOK, Places, LockHeldInFlight, Records, [Next]_vars
  PROVE  AbstractStep
<1> USE PipelineAssumption DEF TypeOK, Jobs, Submitters, Goto, Leave, Enter, Begin, DropJob, Fault,
        redisVars, submitVars, workerVars, ghostVars, Places, Owners, Undelivered,
        DeliveredOnce, BeforePush, InFlight, WithSubmitter, WithWorker, HoldingPcs, InQueue,
        SameFlights
<1>1. ASSUME NEW s \in Submitters, CheckDepth(s) PROVE AbstractStep
  <2>1. exposed' = exposed /\ SameFlights(Jobs)
    BY <1>1 DEF CheckDepth
  <2> QED BY <2>1, MapsToStutter
<1>2. ASSUME NEW s \in Submitters, CreateJob(s) PROVE AbstractStep
  <2>1. exposed' = exposed /\ SameFlights(Jobs)
    BY <1>2 DEF CreateJob
  <2> QED BY <2>1, MapsToStutter
<1>3. ASSUME NEW s \in Submitters, CheckCooldown(s) PROVE AbstractStep
  <2>1. exposed' = exposed /\ SameFlights(Jobs)
    BY <1>3 DEF CheckCooldown
  <2> QED BY <2>1, MapsToStutter
<1>4. ASSUME NEW s \in Submitters, SetActive(s) PROVE AbstractStep
  <2>1. CASE active[target[sjob[s]]] = NoJob
    <3>1. PICK j \in Jobs : j = sjob[s] /\ target[j] \in Targets
      BY <1>4 DEF SetActive
    <3>2. ~InFlight(j) /\ j \notin exposed
      BY <1>4, <3>1 DEF SetActive, Records, Unreserved
    <3>3. exposed' = exposed /\ target' = target /\ InFlight(j)'
      BY <1>4, <2>1, <3>1 DEF SetActive
    <3>4. SameFlights(Jobs \ {j})
      BY <1>4, <2>1, <3>1 DEF SetActive
    <3> HIDE DEF InFlight, SameFlights
    <3> QED BY <2>1, <3>1, <3>2, <3>3, <3>4, MapsToAdmit
  <2>2. CASE active[target[sjob[s]]] # NoJob
    <3>1. exposed' = exposed /\ SameFlights(Jobs)
      BY <1>4, <2>2 DEF SetActive
    <3> QED BY <3>1, MapsToStutter
  <2> QED BY <2>1, <2>2
<1>5. ASSUME NEW s \in Submitters, DeleteDenied(s) PROVE AbstractStep
  <2>1. exposed' = exposed /\ SameFlights(Jobs)
    BY <1>5 DEF DeleteDenied
  <2> QED BY <2>1, MapsToStutter
<1>6. ASSUME NEW s \in Submitters, ArchiveCreate(s) PROVE AbstractStep
  <2>1. exposed' = exposed /\ SameFlights(Jobs)
    BY <1>6 DEF ArchiveCreate
  <2> QED BY <2>1, MapsToStutter
<1>7. ASSUME NEW s \in Submitters, Enqueue(s) PROVE AbstractStep
  <2>1. \A k \in Jobs : InQueue(k)' <=> InQueue(k) \/ k = sjob[s]
    <3>1. sjob[s] \in Jobs /\ queue \in Seq(Jobs) /\ queue' = Append(queue, sjob[s])
      BY <1>7 DEF Enqueue
    <3> HIDE DEF Places, TypeOK, Jobs, InQueue
    <3> QED BY <3>1, PushedJob
  <2>2. /\ pc[s] = "archived" /\ sjob[s] \in Jobs
        /\ \A u \in Submitters \ {s} : UNCHANGED <<pc[u], sjob[u]>>
        /\ pc'[s] = "idle"
        /\ UNCHANGED <<phase, step, wjob, target, exposed>>
    BY <1>7 DEF Enqueue
  <2>3. SameFlights(Jobs)
    <3> HIDE DEF InQueue, TypeOK, Places
    <3> QED BY <2>1, <2>2
  <2> HIDE DEF SameFlights
  <2> QED BY <2>2, <2>3, MapsToStutter
<1>8. ASSUME NEW s \in Submitters, EnqueueRefused(s) PROVE AbstractStep
  <2>1. exposed' = exposed /\ SameFlights(Jobs)
    BY <1>8 DEF EnqueueRefused, FirstUndo
  <2> QED BY <2>1, MapsToStutter
<1>9. ASSUME NEW s \in Submitters, EnqueueReplyLost(s) PROVE AbstractStep
  <2>1. \A k \in Jobs : InQueue(k)' <=> InQueue(k) \/ k = sjob[s]
    BY <1>9, PushedJob DEF EnqueueReplyLost, FirstUndo
  <2>2. SameFlights(Jobs)
    BY <1>9, <2>1 DEF EnqueueReplyLost, FirstUndo
  <2>3. sjob[s] \in Jobs /\ InFlight(sjob[s]) /\ exposed' = exposed \union {sjob[s]}
    BY <1>9 DEF EnqueueReplyLost, FirstUndo
  <2> HIDE DEF InFlight, SameFlights
  <2> QED BY <2>2, <2>3, MapsToExpose
<1>10. ASSUME NEW s \in Submitters, UndoDelete(s) PROVE AbstractStep
  <2>1. exposed' = exposed /\ SameFlights(Jobs)
    BY <1>10 DEF UndoDelete
  <2> QED BY <2>1, MapsToStutter
<1>11. ASSUME NEW s \in Submitters, UndoGet(s) PROVE AbstractStep
  <2>1. PICK j \in Jobs \union {NoJob} : j = sjob[s]
    BY <1>11 DEF UndoGet, AfterUnlock
  <2>2. exposed' = exposed /\ SameFlights(Jobs \ {j})
    <3>1. /\ \A u \in Submitters \ {s} : pc'[u] = pc[u] /\ sjob'[u] = sjob[u]
          /\ pc'[s] \in HoldingPcs => sjob'[s] = sjob[s] /\ pc[s] \in HoldingPcs
          /\ pc[s] \in HoldingPcs
      BY <1>11 DEF UndoGet, AfterUnlock
    <3>2. UNCHANGED <<exposed, target, queue, wjob, phase, step>>
      BY <1>11 DEF UndoGet
    <3> QED BY <2>1, <3>1, <3>2
  <2>3. j \in Jobs => (InFlight(j)' => InFlight(j)) /\ target' = target
    BY <2>1, <1>11 DEF UndoGet, AfterUnlock
  <2> HIDE DEF InFlight, SameFlights
  <2> QED BY <2>1, <2>2, <2>3, MapsToShrink
<1>12. ASSUME NEW s \in Submitters, UndoDel(s) PROVE AbstractStep
  <2>1. PICK j \in Jobs : j = sjob[s] /\ InFlight(j)
    BY <1>12 DEF UndoDel
  <2>2. exposed' = exposed \union Victims(target[j], j) /\ target' = target
    BY <2>1, <1>12 DEF UndoDel
  <2>3. SameFlights(Jobs \ {j}) /\ (InFlight(j)' => InFlight(j))
    BY <2>1, <1>12, SMTT(20) DEF UndoDel, AfterUnlock
  <2> HIDE DEF InFlight, SameFlights
  <2> QED BY <2>1, <2>2, <2>3, MapsToDisplace DEF Records
<1>13. ASSUME NEW s \in Submitters, MarkRejected(s) PROVE AbstractStep
  <2>1. exposed' = exposed /\ SameFlights(Jobs)
    BY <1>13 DEF MarkRejected
  <2> QED BY <2>1, MapsToStutter
<1>14. ASSUME NEW s \in Submitters, SubmitterFails(s) PROVE AbstractStep
  <2>1. PICK j \in Jobs \union {NoJob} : j = sjob[s]
    BY <1>14 DEF SubmitterFails
  <2>2. exposed' = exposed /\ SameFlights(Jobs \ {j})
    BY <2>1, <1>14, SMTT(20) DEF SubmitterFails
  <2>3. j \in Jobs => (InFlight(j)' => InFlight(j)) /\ target' = target
    BY <2>1, <1>14 DEF SubmitterFails
  <2> HIDE DEF InFlight, SameFlights
  <2> QED BY <2>1, <2>2, <2>3, MapsToShrink
<1>15. ASSUME NEW w \in Workers, PopJob(w) PROVE AbstractStep
  <2> DEFINE h == Head(queue)
  <2>1. \A k \in Jobs : k # h => (InQueue(k)' <=> InQueue(k))
    BY <1>15, PoppedJob, KeptJobs DEF PopJob
  <2>2. h \in Jobs /\ InQueue(h)
    BY <1>15, PoppedJob DEF PopJob
  <2>3. /\ wjob' = [wjob EXCEPT ![w] = h] /\ phase' = [phase EXCEPT ![w] = "start"]
        /\ phase[w] = "idle" /\ step' = [step EXCEPT ![w] = "get"]
        /\ UNCHANGED <<pc, sjob, exposed, target>>
    BY <1>15 DEF PopJob
  <2> HIDE DEF h
  <2>4. SameFlights(Jobs)
    BY <2>1, <2>2, <2>3
  <2> QED BY <2>3, <2>4, MapsToStutter
<1>16. ASSUME NEW w \in Workers, StoreGet(w) PROVE AbstractStep
  <2>1. exposed' = exposed /\ SameFlights(Jobs)
    BY <1>16 DEF StoreGet, NextPhase, RowMissing
  <2> QED BY <2>1, MapsToStutter
<1>17. ASSUME NEW w \in Workers, StoreSave(w) PROVE AbstractStep
  <2>1. exposed' = exposed /\ SameFlights(Jobs)
    BY <1>17 DEF StoreSave
  <2> QED BY <2>1, MapsToStutter
<1>18. ASSUME NEW w \in Workers, ArchiveUpdate(w) PROVE AbstractStep
  <2>1. exposed' = exposed /\ SameFlights(Jobs)
    BY <1>18 DEF ArchiveUpdate, NextPhase
  <2> QED BY <2>1, MapsToStutter
<1>19. ASSUME NEW w \in Workers, RowMissingRaises(w) PROVE AbstractStep
  <2>1. PICK j \in Jobs \union {NoJob} : j = wjob[w]
    BY <1>19 DEF RowMissingRaises, RowMissing
  <2>2. exposed' = exposed /\ SameFlights(Jobs \ {j})
    BY <2>1, <1>19, SMTT(20) DEF RowMissingRaises, RowMissing
  <2>3. j \in Jobs => (InFlight(j)' => InFlight(j)) /\ target' = target
    BY <2>1, <1>19 DEF RowMissingRaises, RowMissing
  <2> HIDE DEF InFlight, SameFlights
  <2> QED BY <2>1, <2>2, <2>3, MapsToShrink
<1>20. ASSUME NEW w \in Workers, ScanRaises(w) PROVE AbstractStep
  <2>1. exposed' = exposed /\ SameFlights(Jobs)
    BY <1>20 DEF ScanRaises, TryPhases
  <2> QED BY <2>1, MapsToStutter
<1>21. ASSUME NEW w \in Workers, ReleaseGet(w) PROVE AbstractStep
  <2>1. PICK j \in Jobs \union {NoJob} : j = wjob[w]
    BY <1>21 DEF ReleaseGet
  <2>2. exposed' = exposed /\ SameFlights(Jobs \ {j})
    BY <2>1, <1>21, SMTT(20) DEF ReleaseGet
  <2>3. j \in Jobs => (InFlight(j)' => InFlight(j)) /\ target' = target
    BY <2>1, <1>21 DEF ReleaseGet
  <2> HIDE DEF InFlight, SameFlights
  <2> QED BY <2>1, <2>2, <2>3, MapsToShrink
<1>22. ASSUME NEW w \in Workers, ReleaseDel(w) PROVE AbstractStep
  <2>1. PICK j \in Jobs : j = wjob[w] /\ InFlight(j)
    BY <1>22 DEF ReleaseDel
  <2>2. exposed' = exposed \union Victims(target[j], j) /\ target' = target
    BY <2>1, <1>22 DEF ReleaseDel
  <2>3. SameFlights(Jobs \ {j}) /\ (InFlight(j)' => InFlight(j))
    BY <2>1, <1>22, SMTT(20) DEF ReleaseDel, AfterUnlock
  <2> HIDE DEF InFlight, SameFlights
  <2> QED BY <2>1, <2>2, <2>3, MapsToDisplace DEF Records
<1>23. ASSUME NEW w \in Workers, SetCooldown(w) PROVE AbstractStep
  <2>1. exposed' = exposed /\ SameFlights(Jobs)
    BY <1>23 DEF SetCooldown
  <2> QED BY <2>1, MapsToStutter
<1>24. ASSUME NEW w \in Workers, WorkerFails(w) PROVE AbstractStep
  <2>1. PICK j \in Jobs \union {NoJob} : j = wjob[w]
    BY <1>24 DEF WorkerFails
  <2>2. exposed' = exposed /\ SameFlights(Jobs \ {j})
    BY <2>1, <1>24, SMTT(20) DEF WorkerFails
  <2>3. j \in Jobs => (InFlight(j)' => InFlight(j)) /\ target' = target
    BY <2>1, <1>24 DEF WorkerFails
  <2> HIDE DEF InFlight, SameFlights
  <2> QED BY <2>1, <2>2, <2>3, MapsToShrink
<1>25. ASSUME NEW t \in Targets, ExpireActive(t) PROVE AbstractStep
  <2>1. SameFlights(Jobs)
    BY <1>25 DEF ExpireActive
  <2>4. exposed' = exposed \union Victims(t, NoJob)
    BY <1>25 DEF ExpireActive
  <2>2. CASE Victims(t, NoJob) = {}
    <3>1. exposed' = exposed
      BY <1>25, <2>2 DEF ExpireActive
    <3> QED BY <2>1, <3>1, MapsToStutter
  <2>3. CASE Victims(t, NoJob) # {}
    <3> HIDE DEF InFlight, SameFlights
    <3>1. PICK k \in Jobs : InFlight(k) /\ Victims(t, NoJob) = {k}
      <4>1. PICK k \in Jobs : active[t] = k /\ InFlight(k)
        BY <2>3 DEF Victims
      <4>2. Victims(t, NoJob) = {k}
        BY <4>1 DEF Victims
      <4> QED BY <4>1, <4>2
    <3>2. exposed' = exposed \union {k}
      BY <2>4, <3>1
    <3> QED BY <2>1, <3>1, <3>2, MapsToExpose
  <2> QED BY <2>2, <2>3
<1>26. ASSUME NEW t \in Targets, ExpireCooldown(t) PROVE AbstractStep
  <2>1. exposed' = exposed /\ SameFlights(Jobs)
    BY <1>26 DEF ExpireCooldown
  <2> QED BY <2>1, MapsToStutter
<1>27. CASE UNCHANGED vars
  <2>1. exposed' = exposed /\ SameFlights(Jobs)
    BY <1>27 DEF vars
  <2> QED BY <2>1, MapsToStutter
<1> QED
  BY <1>1, <1>2, <1>3, <1>4, <1>5, <1>6, <1>7, <1>8, <1>9, <1>10, <1>11, <1>12, <1>13,
     <1>14, <1>15, <1>16, <1>17, <1>18, <1>19, <1>20, <1>21, <1>22, <1>23, <1>24,
     <1>25, <1>26, <1>27 DEF Next, SubmitStep, SubmitFault, WorkStep

(***************************************************************************)
(* create_check, schedule_domain_scan and handle_job together provide the  *)
(* lock service of ScanAdmission: its initial state is theirs, and every   *)
(* step of theirs is one of its steps or none.                             *)
(***************************************************************************)
THEOREM RefinementTheorem == Spec => ImplementsAdmission
<1>1. Init => Admission!AdmissionInit
  BY DEF Init, Admission!AdmissionInit, InFlight, WithSubmitter, WithWorker, InQueue,
     HoldingPcs
<1>2. TypeOK /\ Places /\ LockHeldInFlight /\ Records /\ [Next]_vars =>
        [Admission!AdmissionNext]_(Admission!admissionVars)
  BY AdmissionRefined DEF AbstractStep
<1> QED
  BY <1>1, <1>2, PlacesCorrect, LockTheorem, RecordsCorrect, PTL
     DEF Spec, ImplementsAdmission, Admission!AdmissionSpec

=============================================================================
