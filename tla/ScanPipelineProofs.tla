------------------------- MODULE ScanPipelineProofs -------------------------
(***************************************************************************)
(* Proofs about ScanPipeline for any number of targets, jobs, handlers,    *)
(* schedulers and workers, any queue limit and any number of faults.       *)
(***************************************************************************)
EXTENDS ScanPipeline, SequenceTheorems, FiniteSetTheorems, TLAPS

(***************************************************************************)
(* The list of pending jobs: what RPUSH and BLPOP do to its contents.      *)
(***************************************************************************)
LEMMA PushedJob ==
  ASSUME queue \in Seq(Jobs), NEW j \in Jobs, queue' = Append(queue, j)
  PROVE  /\ queue' \in Seq(Jobs)
         /\ \A k \in Jobs : InQueue(k)' <=> InQueue(k) \/ k = j
         /\ NoDuplicates /\ ~InQueue(j) => NoDuplicates'
<1>1. /\ queue' \in Seq(Jobs)
      /\ Len(queue') = Len(queue) + 1
      /\ \A i \in 1 .. Len(queue) : queue'[i] = queue[i]
      /\ queue'[Len(queue) + 1] = j
  BY AppendProperties
<1>2. /\ Len(queue) \in Nat
      /\ DOMAIN queue = 1 .. Len(queue)
      /\ DOMAIN queue' = 1 .. Len(queue')
  BY <1>1, LenProperties
<1>3. ASSUME NEW k \in Jobs PROVE InQueue(k)' <=> InQueue(k) \/ k = j
  BY <1>1, <1>2 DEF InQueue
<1>4. NoDuplicates /\ ~InQueue(j) => NoDuplicates'
  BY <1>1, <1>2 DEF InQueue, NoDuplicates
<1> QED BY <1>1, <1>3, <1>4

\* BLPOP removes the head of the list, and only occurrences of it.
LEMMA PoppedJob ==
  ASSUME queue \in Seq(Jobs), queue # <<>>, queue' = Tail(queue),
         NEW h, h = Head(queue)
  PROVE  /\ queue' \in Seq(Jobs)
         /\ h \in Jobs
         /\ InQueue(h)
         /\ \A k \in Jobs : InQueue(k)' => InQueue(k)
         /\ NoDuplicates => NoDuplicates' /\ ~InQueue(h)'
<1>1. /\ queue' \in Seq(Jobs)
      /\ Head(queue) \in Jobs
      /\ Len(queue') = Len(queue) - 1
      /\ \A i \in 1 .. Len(queue') : queue'[i] = queue[i + 1]
  BY HeadTailProperties
<1>2. /\ Len(queue) \in Nat \ {0}
      /\ DOMAIN queue = 1 .. Len(queue)
      /\ DOMAIN queue' = 1 .. Len(queue')
      /\ h = queue[1]
  BY <1>1, EmptySeq, LenProperties
<1>3. \A i \in DOMAIN queue' : i + 1 \in DOMAIN queue /\ queue'[i] = queue[i + 1]
  BY <1>1, <1>2
<1>4. InQueue(h)
  BY <1>2 DEF InQueue
<1>5. ASSUME NEW k \in Jobs, InQueue(k)' PROVE InQueue(k)
  BY <1>3, <1>5 DEF InQueue
<1>6. ASSUME NoDuplicates, NEW i \in DOMAIN queue', NEW k \in DOMAIN queue',
             queue'[i] = queue'[k]
      PROVE  i = k
  <2>1. i + 1 = k + 1
    BY <1>3, <1>6 DEF NoDuplicates
  <2> QED BY <1>1, <1>2, <2>1
<1>7. ASSUME NoDuplicates, NEW i \in DOMAIN queue', queue'[i] = h PROVE FALSE
  <2>1. i + 1 = 1
    BY <1>2, <1>3, <1>7 DEF NoDuplicates
  <2> QED BY <1>1, <1>2, <2>1
<1> QED BY <1>1, <1>4, <1>5, <1>6, <1>7 DEF InQueue, NoDuplicates

(***************************************************************************)
(* Type correctness and the whereabouts of every job.                      *)
(***************************************************************************)
LEMMA PlacesInductive ==
  ASSUME TypeOK, Places, [Next]_vars
  PROVE  TypeOK' /\ Places'
<1> USE PipelineAssumption DEF TypeOK, Jobs, Submitters, Statuses, SubmitPcs, Phases, Steps,
        Goto, Leave, Enter, Begin, DropJob, Fault, redisVars, submitVars, workerVars, ghostVars,
        Places, Owners, Undelivered, DeliveredOnce, BeforePush
<1>1. ASSUME NEW s \in Submitters, CheckDepth(s) PROVE TypeOK' /\ Places'
  BY <1>1 DEF CheckDepth, InQueue, NoDuplicates
<1>2. ASSUME NEW s \in Submitters, CreateJob(s) PROVE TypeOK' /\ Places'
  BY <1>2 DEF CreateJob, InQueue, NoDuplicates
<1>3. ASSUME NEW s \in Submitters, CheckCooldown(s) PROVE TypeOK' /\ Places'
  BY <1>3 DEF CheckCooldown, InQueue, NoDuplicates
<1>4. ASSUME NEW s \in Submitters, SetActive(s) PROVE TypeOK' /\ Places'
  BY <1>4, SMTT(20) DEF SetActive, InQueue, NoDuplicates
<1>5. ASSUME NEW s \in Submitters, DeleteDenied(s) PROVE TypeOK' /\ Places'
  <2>1. TypeOK'
    BY <1>5 DEF DeleteDenied
  <2>2. Owners'
    BY <1>5 DEF DeleteDenied, InQueue
  <2>3. Undelivered'
    BY <1>5 DEF DeleteDenied, InQueue
  <2>4. DeliveredOnce'
    BY <1>5 DEF DeleteDenied, InQueue, NoDuplicates
  <2> QED BY <2>1, <2>2, <2>3, <2>4
<1>6. ASSUME NEW s \in Submitters, ArchiveCreate(s) PROVE TypeOK' /\ Places'
  BY <1>6 DEF ArchiveCreate, InQueue, NoDuplicates
<1>7. ASSUME NEW s \in Submitters, Enqueue(s) PROVE TypeOK' /\ Places'
  BY <1>7, PushedJob, SMTT(20) DEF Enqueue
<1>8. ASSUME NEW s \in Submitters, EnqueueRefused(s) PROVE TypeOK' /\ Places'
  BY <1>8 DEF EnqueueRefused, InQueue, NoDuplicates, FirstUndo
<1>9. ASSUME NEW s \in Submitters, EnqueueReplyLost(s) PROVE TypeOK' /\ Places'
  BY <1>9, PushedJob, SMTT(20) DEF EnqueueReplyLost, FirstUndo
<1>10. ASSUME NEW s \in Submitters, UndoDelete(s) PROVE TypeOK' /\ Places'
  BY <1>10 DEF UndoDelete, InQueue, NoDuplicates
<1>11. ASSUME NEW s \in Submitters, UndoGet(s) PROVE TypeOK' /\ Places'
  <2>1. CASE active[target[sjob[s]]] = sjob[s]
    BY <1>11, <2>1 DEF UndoGet, InQueue, NoDuplicates
  <2>2. CASE active[target[sjob[s]]] # sjob[s] /\ s \in ApiClients
    <3>1. pc' = [pc EXCEPT ![s] = "reject"] /\ sjob' = sjob
      BY <1>11, <2>2 DEF UndoGet, AfterUnlock
    <3> QED BY <1>11, <3>1 DEF UndoGet, InQueue, NoDuplicates
  <2>3. CASE active[target[sjob[s]]] # sjob[s] /\ s \notin ApiClients
    BY <1>11, <2>3, SMTT(20) DEF UndoGet, InQueue, NoDuplicates, AfterUnlock
  <2> QED BY <2>1, <2>2, <2>3
<1>12. ASSUME NEW s \in Submitters, UndoDel(s) PROVE TypeOK' /\ Places'
  <2>1. CASE s \in ApiClients
    BY <1>12, <2>1, SMTT(20) DEF UndoDel, InQueue, NoDuplicates, AfterUnlock, Victims
  <2>2. CASE s \notin ApiClients
    BY <1>12, <2>2, SMTT(20) DEF UndoDel, InQueue, NoDuplicates, AfterUnlock, Victims
  <2> QED BY <2>1, <2>2
<1>13. ASSUME NEW s \in Submitters, MarkRejected(s) PROVE TypeOK' /\ Places'
  BY <1>13 DEF MarkRejected, InQueue, NoDuplicates
<1>14. ASSUME NEW s \in Submitters, SubmitterFails(s) PROVE TypeOK' /\ Places'
  BY <1>14 DEF SubmitterFails, InQueue, NoDuplicates
<1>15. ASSUME NEW w \in Workers, PopJob(w) PROVE TypeOK' /\ Places'
  <2> DEFINE h == Head(queue)
  <2>1. /\ queue' \in Seq(Jobs)
        /\ h \in Jobs
        /\ InQueue(h)
        /\ \A k \in Jobs : InQueue(k)' => InQueue(k)
        /\ NoDuplicates'
    BY <1>15, PoppedJob, SMTT(20) DEF PopJob
  <2>2. \A k \in Jobs : k = h => ~InQueue(k)'
    BY <1>15, PoppedJob, SMTT(20) DEF PopJob
  <2> HIDE DEF h
  <2>3. wjob' = [wjob EXCEPT ![w] = h]
    BY <1>15 DEF PopJob, h
  <2>4. TypeOK'
    BY <1>15, <2>1, <2>3 DEF PopJob
  <2>5. Owners'
    BY <1>15, <2>1, <2>3 DEF PopJob
  <2>6. Undelivered'
    BY <1>15, <2>1, <2>3 DEF PopJob
  <2>7. DeliveredOnce'
    BY <1>15, <2>1, <2>2, <2>3 DEF PopJob
  <2> QED BY <2>4, <2>5, <2>6, <2>7
<1>16. ASSUME NEW w \in Workers, StoreGet(w) PROVE TypeOK' /\ Places'
  BY <1>16 DEF StoreGet, InQueue, NoDuplicates, NextPhase, StatusOf, Terminal, UpdatePhases,
     TryPhases
<1>17. ASSUME NEW w \in Workers, StoreSave(w) PROVE TypeOK' /\ Places'
  BY <1>17 DEF StoreSave, InQueue, NoDuplicates, StatusOf, Terminal, UpdatePhases, TryPhases
<1>18. ASSUME NEW w \in Workers, ArchiveUpdate(w) PROVE TypeOK' /\ Places'
  BY <1>18 DEF ArchiveUpdate, InQueue, NoDuplicates, NextPhase, StatusOf, Terminal,
     UpdatePhases, TryPhases
<1>19. ASSUME NEW w \in Workers, RowMissingRaises(w) PROVE TypeOK' /\ Places'
  BY <1>19 DEF RowMissingRaises, InQueue, NoDuplicates
<1>20. ASSUME NEW w \in Workers, ScanRaises(w) PROVE TypeOK' /\ Places'
  BY <1>20 DEF ScanRaises, TryPhases, InQueue, NoDuplicates
<1>21. ASSUME NEW w \in Workers, ReleaseGet(w) PROVE TypeOK' /\ Places'
  BY <1>21 DEF ReleaseGet, InQueue, NoDuplicates
<1>22. ASSUME NEW w \in Workers, ReleaseDel(w) PROVE TypeOK' /\ Places'
  <2>1. /\ UNCHANGED <<status, cooldown, queue, archive, submitVars, wjob, record, target, faults>>
        /\ phase' = phase
        /\ step' \in [Workers -> Steps]
    BY <1>22 DEF ReleaseDel
  <2>2. active' \in [Targets -> Jobs \union {NoJob}] /\ exposed' \in SUBSET Jobs
    BY <1>22 DEF ReleaseDel, Victims
  <2>3. exposed \subseteq exposed'
    BY <1>22 DEF ReleaseDel
  <2> QED BY <2>1, <2>2, <2>3 DEF InQueue, NoDuplicates
<1>23. ASSUME NEW w \in Workers, SetCooldown(w) PROVE TypeOK' /\ Places'
  BY <1>23 DEF SetCooldown, InQueue, NoDuplicates
<1>24. ASSUME NEW w \in Workers, WorkerFails(w) PROVE TypeOK' /\ Places'
  BY <1>24 DEF WorkerFails, InQueue, NoDuplicates
<1>25. ASSUME NEW t \in Targets, ExpireActive(t) PROVE TypeOK' /\ Places'
  BY <1>25, SMTT(20) DEF ExpireActive, InQueue, NoDuplicates, Victims
<1>26. ASSUME NEW t \in Targets, ExpireCooldown(t) PROVE TypeOK' /\ Places'
  BY <1>26 DEF ExpireCooldown, InQueue, NoDuplicates
<1>27. CASE UNCHANGED vars
  BY <1>27 DEF vars, InQueue, NoDuplicates
<1> QED
  BY <1>1, <1>2, <1>3, <1>4, <1>5, <1>6, <1>7, <1>8, <1>9, <1>10, <1>11, <1>12, <1>13,
     <1>14, <1>15, <1>16, <1>17, <1>18, <1>19, <1>20, <1>21, <1>22, <1>23, <1>24,
     <1>25, <1>26, <1>27 DEF Next, SubmitStep, SubmitFault, WorkStep

(***************************************************************************)
(* Every job is in one place, owned by the process that works on it, and   *)
(* every variable has its type: create_check, schedule_domain_scan and     *)
(* handle_job never hand a job to two processes.                           *)
(***************************************************************************)
THEOREM PlacesCorrect == Spec => [](TypeOK /\ Places)
<1>1. Init => TypeOK /\ Places
  BY PipelineAssumption DEF Init, TypeOK, Places, Owners, Undelivered, DeliveredOnce,
     NoDuplicates, BeforePush, InQueue, Statuses, SubmitPcs, Phases, Steps, Jobs, Submitters
<1>2. TypeOK /\ Places /\ [Next]_vars => TypeOK' /\ Places'
  BY PlacesInductive
<1> QED
  BY <1>1, <1>2, PTL DEF Spec

(***************************************************************************)
(* The lock.                                                               *)
(***************************************************************************)
LEMMA LockInductive ==
  ASSUME TypeOK, Places, LockHeldInFlight, [Next]_vars
  PROVE  LockHeldInFlight'
<1> USE PipelineAssumption DEF TypeOK, Jobs, Submitters, Statuses, SubmitPcs, Phases, Steps,
        Goto, Leave, Enter, Begin, DropJob, Fault, redisVars, submitVars, workerVars, ghostVars,
        Places, Owners, Undelivered, DeliveredOnce, BeforePush, LockHeldInFlight,
        InFlight, WithSubmitter, WithWorker, HoldingPcs
<1>1. ASSUME NEW s \in Submitters, CheckDepth(s) PROVE LockHeldInFlight'
  BY <1>1 DEF CheckDepth, InQueue
<1>2. ASSUME NEW s \in Submitters, CreateJob(s) PROVE LockHeldInFlight'
  BY <1>2 DEF CreateJob, InQueue
<1>3. ASSUME NEW s \in Submitters, CheckCooldown(s) PROVE LockHeldInFlight'
  BY <1>3 DEF CheckCooldown, InQueue
<1>4. ASSUME NEW s \in Submitters, SetActive(s) PROVE LockHeldInFlight'
  BY <1>4 DEF SetActive, InQueue
<1>5. ASSUME NEW s \in Submitters, DeleteDenied(s) PROVE LockHeldInFlight'
  BY <1>5 DEF DeleteDenied, InQueue
<1>6. ASSUME NEW s \in Submitters, ArchiveCreate(s) PROVE LockHeldInFlight'
  BY <1>6 DEF ArchiveCreate, InQueue
<1>7. ASSUME NEW s \in Submitters, Enqueue(s) PROVE LockHeldInFlight'
  <2>1. \A j \in Jobs : InQueue(j)' <=> InQueue(j) \/ j = sjob[s]
    BY <1>7, PushedJob DEF Enqueue
  <2>2. WithSubmitter(sjob[s])
    BY <1>7 DEF Enqueue
  <2>3. \A j \in Jobs : WithSubmitter(j)' => WithSubmitter(j)
    BY <1>7 DEF Enqueue
  <2>4. \A j \in Jobs : WithWorker(j)' => WithWorker(j)
    BY <1>7 DEF Enqueue
  <2>5. \A j \in Jobs : InFlight(j)' => InFlight(j)
    BY <2>1, <2>2, <2>3, <2>4
  <2>6. UNCHANGED <<active, target, exposed>>
    BY <1>7 DEF Enqueue
  <2> QED BY <2>5, <2>6
<1>8. ASSUME NEW s \in Submitters, EnqueueRefused(s) PROVE LockHeldInFlight'
  BY <1>8 DEF EnqueueRefused, InQueue, FirstUndo
<1>9. ASSUME NEW s \in Submitters, EnqueueReplyLost(s) PROVE LockHeldInFlight'
  <2>1. \A j \in Jobs : InQueue(j)' <=> InQueue(j) \/ j = sjob[s]
    BY <1>9, PushedJob DEF EnqueueReplyLost
  <2>2. \A j \in Jobs \ exposed' : WithSubmitter(j)' => WithSubmitter(j)
    BY <1>9 DEF EnqueueReplyLost, FirstUndo
  <2>3. \A j \in Jobs : WithWorker(j)' => WithWorker(j)
    BY <1>9 DEF EnqueueReplyLost
  <2>4. \A j \in Jobs \ exposed' : j \notin exposed /\ j # sjob[s]
    BY <1>9 DEF EnqueueReplyLost
  <2>5. \A j \in Jobs \ exposed' : InFlight(j)' => InFlight(j)
    BY <2>1, <2>2, <2>3, <2>4
  <2>6. UNCHANGED <<active, target>>
    BY <1>9 DEF EnqueueReplyLost
  <2> QED BY <2>4, <2>5, <2>6
<1>10. ASSUME NEW s \in Submitters, UndoDelete(s) PROVE LockHeldInFlight'
  BY <1>10 DEF UndoDelete, InQueue
<1>11. ASSUME NEW s \in Submitters, UndoGet(s) PROVE LockHeldInFlight'
  <2>1. CASE active[target[sjob[s]]] = sjob[s]
    BY <1>11, <2>1 DEF UndoGet, InQueue
  <2>2. CASE active[target[sjob[s]]] # sjob[s] /\ s \in ApiClients
    <3>1. pc' = [pc EXCEPT ![s] = "reject"] /\ sjob' = sjob
      BY <1>11, <2>2 DEF UndoGet, AfterUnlock
    <3> QED BY <1>11, <3>1 DEF UndoGet, InQueue
  <2>3. CASE active[target[sjob[s]]] # sjob[s] /\ s \notin ApiClients
    BY <1>11, <2>3, SMTT(20) DEF UndoGet, InQueue, AfterUnlock
  <2> QED BY <2>1, <2>2, <2>3
<1>12. ASSUME NEW s \in Submitters, UndoDel(s) PROVE LockHeldInFlight'
  BY <1>12, SMTT(20) DEF UndoDel, InQueue, AfterUnlock, Victims
<1>13. ASSUME NEW s \in Submitters, MarkRejected(s) PROVE LockHeldInFlight'
  BY <1>13 DEF MarkRejected, InQueue
<1>14. ASSUME NEW s \in Submitters, SubmitterFails(s) PROVE LockHeldInFlight'
  BY <1>14 DEF SubmitterFails, InQueue
<1>15. ASSUME NEW w \in Workers, PopJob(w) PROVE LockHeldInFlight'
  BY <1>15, PoppedJob, SMTT(20) DEF PopJob
<1>16. ASSUME NEW w \in Workers, StoreGet(w) PROVE LockHeldInFlight'
  BY <1>16 DEF StoreGet, InQueue, NextPhase, UpdatePhases, TryPhases
<1>17. ASSUME NEW w \in Workers, StoreSave(w) PROVE LockHeldInFlight'
  BY <1>17 DEF StoreSave, InQueue, StatusOf, Terminal, UpdatePhases, TryPhases
<1>18. ASSUME NEW w \in Workers, ArchiveUpdate(w) PROVE LockHeldInFlight'
  BY <1>18 DEF ArchiveUpdate, InQueue, NextPhase, StatusOf, Terminal, UpdatePhases, TryPhases
<1>19. ASSUME NEW w \in Workers, RowMissingRaises(w) PROVE LockHeldInFlight'
  BY <1>19 DEF RowMissingRaises, InQueue
<1>20. ASSUME NEW w \in Workers, ScanRaises(w) PROVE LockHeldInFlight'
  BY <1>20 DEF ScanRaises, TryPhases, InQueue
<1>21. ASSUME NEW w \in Workers, ReleaseGet(w) PROVE LockHeldInFlight'
  BY <1>21 DEF ReleaseGet, InQueue
<1>22. ASSUME NEW w \in Workers, ReleaseDel(w) PROVE LockHeldInFlight'
  BY <1>22, SMTT(20) DEF ReleaseDel, InQueue, Victims
<1>23. ASSUME NEW w \in Workers, SetCooldown(w) PROVE LockHeldInFlight'
  BY <1>23 DEF SetCooldown, InQueue
<1>24. ASSUME NEW w \in Workers, WorkerFails(w) PROVE LockHeldInFlight'
  BY <1>24 DEF WorkerFails, InQueue
<1>25. ASSUME NEW t \in Targets, ExpireActive(t) PROVE LockHeldInFlight'
  BY <1>25, SMTT(20) DEF ExpireActive, InQueue, Victims
<1>26. ASSUME NEW t \in Targets, ExpireCooldown(t) PROVE LockHeldInFlight'
  BY <1>26 DEF ExpireCooldown, InQueue
<1>27. CASE UNCHANGED vars
  BY <1>27 DEF vars, InQueue
<1> QED
  BY <1>1, <1>2, <1>3, <1>4, <1>5, <1>6, <1>7, <1>8, <1>9, <1>10, <1>11, <1>12, <1>13,
     <1>14, <1>15, <1>16, <1>17, <1>18, <1>19, <1>20, <1>21, <1>22, <1>23, <1>24,
     <1>25, <1>26, <1>27 DEF Next, SubmitStep, SubmitFault, WorkStep

(***************************************************************************)
(* A job in flight that was never exposed holds the lock of its target:    *)
(* for every instance of reserve and release in TargetScanGuard.           *)
(***************************************************************************)
THEOREM LockTheorem == Spec => []LockHeldInFlight
<1>1. Init => LockHeldInFlight
  BY DEF Init, LockHeldInFlight, InFlight, WithSubmitter, WithWorker, InQueue, HoldingPcs
<1>2. TypeOK /\ Places /\ LockHeldInFlight /\ [Next]_vars => LockHeldInFlight'
  BY LockInductive
<1> QED
  BY <1>1, <1>2, PlacesCorrect, PTL DEF Spec

(***************************************************************************)
(* Two jobs share a target in flight only if one of them was exposed: the  *)
(* "per-target active scan lock" as create_check and handle_job provide it.*)
(***************************************************************************)
THEOREM OneScanTheorem == Spec => []OneScanPerTarget
<1>1. LockHeldInFlight => OneScanPerTarget
  BY DEF LockHeldInFlight, OneScanPerTarget
<1> QED
  BY <1>1, LockTheorem, PTL

(***************************************************************************)
(* BLPOP hands every job to at most one worker, once.                      *)
(***************************************************************************)
THEOREM DeliveryTheorem == Spec => []DeliveredOnce
<1>1. Places => DeliveredOnce
  BY DEF Places
<1> QED
  BY <1>1, PlacesCorrect, PTL

(***************************************************************************)
(* Type correctness, from the same induction.                              *)
(***************************************************************************)
THEOREM TypeCorrect == Spec => []TypeOK
  BY PlacesCorrect, PTL

(***************************************************************************)
(* The depth guard.  A handler that passed it and has not pushed yet is    *)
(* counted with the jobs that are in the list already.                     *)
(***************************************************************************)
ApiQueued == {i \in DOMAIN queue : queue[i] \in ApiJobs}
Ahead ==
  {s \in ApiClients :
     pc[s] \in {"sized", "created", "cleared", "reserved", "archived"}}

OwnKind ==
  \A s \in Submitters : sjob[s] # NoJob =>
    sjob[s] \in IF s \in ApiClients THEN ApiJobs ELSE MonitorJobs

DepthKept ==
  MaxQueueDepth > 0 =>
    Cardinality(ApiQueued) + Cardinality(Ahead)
      <= MaxQueueDepth - 1 + Cardinality(ApiClients)

\* The list and the clients ahead of their push are finite and can be counted.
LEMMA ListFinite ==
  ASSUME TypeOK
  PROVE  /\ IsFiniteSet(ApiQueued) /\ Cardinality(ApiQueued) \in Nat
         /\ Cardinality(ApiQueued) <= Len(queue)
         /\ IsFiniteSet(Ahead) /\ Cardinality(Ahead) \in Nat
         /\ Cardinality(Ahead) <= Cardinality(ApiClients)
         /\ Cardinality(ApiClients) \in Nat
         /\ Len(queue) \in Nat
<1>1. Len(queue) \in Nat /\ DOMAIN queue = 1 .. Len(queue)
  BY LenProperties DEF TypeOK
<1>2. IsFiniteSet(1 .. Len(queue)) /\ Cardinality(1 .. Len(queue)) = Len(queue)
  <2>1. \A n \in Nat : IsFiniteSet(1 .. n) /\ Cardinality(1 .. n) = n
    <3> TAKE n \in Nat
    <3>1. Cardinality(1 .. n) = IF 1 > n THEN 0 ELSE n - 1 + 1
      BY FS_Interval
    <3> QED BY <3>1, FS_Interval
  <2> QED BY <1>1, <2>1
<1>3. IsFiniteSet(ApiQueued) /\ Cardinality(ApiQueued) <= Len(queue)
  BY <1>1, <1>2, FS_Subset DEF ApiQueued
<1>4. IsFiniteSet(Ahead) /\ Cardinality(Ahead) <= Cardinality(ApiClients)
  BY ClientsFinite, FS_Subset DEF Ahead
<1> QED BY <1>1, <1>3, <1>4, ClientsFinite, FS_CardinalityType

\* A step that pushes nothing and lets nobody through.
LEMMA NobodyAhead ==
  ASSUME TypeOK, DepthKept, UNCHANGED queue,
         \A s \in ApiClients : s \in Ahead' => s \in Ahead
  PROVE  DepthKept'
<1>1. ApiQueued' = ApiQueued
  BY DEF ApiQueued
<1>2. Ahead' \subseteq Ahead
  BY DEF Ahead
<1>3. IsFiniteSet(Ahead') /\ Cardinality(Ahead') <= Cardinality(Ahead)
  BY <1>2, ListFinite, FS_Subset
<1>4. Cardinality(Ahead') \in Nat
  BY <1>3, FS_CardinalityType
<1> QED BY <1>1, <1>3, <1>4, ListFinite, PipelineAssumption DEF DepthKept

\* A push turns a client ahead of it into one more job in the list.
LEMMA PushDepth ==
  ASSUME TypeOK, Owners, OwnKind, DepthKept, NEW s \in Submitters, pc[s] = "archived",
         queue' = Append(queue, sjob[s]),
         \E p \in {"idle", "delete", "undo"} : pc' = [pc EXCEPT ![s] = p]
  PROVE  DepthKept'
<1>1. /\ sjob[s] \in Jobs
      /\ Len(queue) \in Nat
      /\ DOMAIN queue = 1 .. Len(queue) /\ DOMAIN queue' = 1 .. Len(queue) + 1
      /\ \A i \in 1 .. Len(queue) : queue'[i] = queue[i]
      /\ queue'[Len(queue) + 1] = sjob[s]
  BY AppendProperties, LenProperties DEF TypeOK, Owners
<1>2. CASE s \in ApiClients
  <2>1. ApiQueued' = ApiQueued \union {Len(queue) + 1}
    <3>1. sjob[s] \in ApiJobs
      BY <1>1, <1>2, PipelineAssumption DEF OwnKind
    <3> QED BY <1>1, <3>1 DEF ApiQueued
  <2>2. Len(queue) + 1 \notin ApiQueued
    BY <1>1 DEF ApiQueued
  <2>3. Cardinality(ApiQueued') = Cardinality(ApiQueued) + 1
    BY <2>1, <2>2, ListFinite, FS_AddElement
  <2>4. Ahead' = Ahead \ {s} /\ s \in Ahead
    BY <1>2 DEF Ahead, TypeOK
  <2>5. Cardinality(Ahead') = Cardinality(Ahead) - 1
    BY <2>4, ListFinite, FS_RemoveElement
  <2> QED BY <2>3, <2>5, ListFinite, PipelineAssumption DEF DepthKept
<1>3. CASE s \notin ApiClients
  <2>1. ApiQueued' = ApiQueued
    <3>1. sjob[s] \notin ApiJobs
      BY <1>1, <1>3, PipelineAssumption DEF OwnKind
    <3> QED BY <1>1, <3>1 DEF ApiQueued
  <2>2. Ahead' = Ahead
    BY <1>3 DEF Ahead, TypeOK
  <2> QED BY <2>1, <2>2 DEF DepthKept
<1> QED BY <1>2, <1>3

\* A pop never raises the number of the API's jobs in the list.
LEMMA PopDepth ==
  ASSUME TypeOK, DepthKept, queue # <<>>, queue' = Tail(queue), UNCHANGED pc
  PROVE  DepthKept'
<1>1. /\ Len(queue) \in Nat \ {0}
      /\ Len(queue') = Len(queue) - 1
      /\ DOMAIN queue = 1 .. Len(queue) /\ DOMAIN queue' = 1 .. Len(queue')
      /\ \A i \in 1 .. Len(queue') : queue'[i] = queue[i + 1]
  BY HeadTailProperties, LenProperties, EmptySeq DEF TypeOK
<1> DEFINE later == [i \in ApiQueued' |-> i + 1]
<1>2. \A i \in ApiQueued' : i \in Nat /\ i + 1 \in ApiQueued
  BY <1>1 DEF ApiQueued
<1>3. later \in Injection(ApiQueued', ApiQueued)
  BY <1>2 DEF Injection, IsInjective
<1>4. IsFiniteSet(ApiQueued') /\ Cardinality(ApiQueued') <= Cardinality(ApiQueued)
  BY <1>3, ListFinite, FS_Injection
<1>5. Cardinality(ApiQueued') \in Nat /\ Ahead' = Ahead
  BY <1>4, FS_CardinalityType DEF Ahead
<1> QED BY <1>4, <1>5, ListFinite, PipelineAssumption DEF DepthKept

\* Every step keeps OwnKind: an API thread holds jobs of the API only.
LEMMA OwnKindInductive ==
  ASSUME TypeOK, OwnKind, [Next]_vars
  PROVE  OwnKind'
<1> USE PipelineAssumption DEF TypeOK, OwnKind, Jobs, Submitters
<1>1. ASSUME NEW s \in Submitters, CreateJob(s) PROVE OwnKind'
  BY <1>1 DEF CreateJob
<1>2. ASSUME NEW s \in Submitters, sjob' = sjob \/ sjob' = [sjob EXCEPT ![s] = NoJob]
      PROVE  OwnKind'
  BY <1>2
<1>3. ASSUME NEW s \in Submitters, CheckDepth(s) \/ SubmitStep(s) \/ SubmitFault(s)
      PROVE  sjob' = sjob \/ sjob' = [sjob EXCEPT ![s] = NoJob]
  BY <1>3 DEF CheckDepth, SubmitStep, SubmitFault, CheckCooldown, SetActive, DeleteDenied,
     ArchiveCreate, Enqueue, UndoDelete, UndoGet, UndoDel, MarkRejected, EnqueueRefused,
     EnqueueReplyLost, SubmitterFails, AfterUnlock, Leave
<1>4. CASE UNCHANGED submitVars
  BY <1>4 DEF submitVars
<1>5. ASSUME NEW w \in Workers, WorkStep(w) \/ ScanRaises(w) \/ WorkerFails(w)
      PROVE  UNCHANGED submitVars
  BY <1>5 DEF WorkStep, PopJob, StoreGet, StoreSave, ArchiveUpdate, RowMissingRaises,
     ScanRaises, ReleaseGet, ReleaseDel, SetCooldown, WorkerFails
<1>6. ASSUME NEW t \in Targets, ExpireActive(t) \/ ExpireCooldown(t)
      PROVE  UNCHANGED submitVars
  BY <1>6 DEF ExpireActive, ExpireCooldown
<1> QED
  BY <1>1, <1>2, <1>3, <1>4, <1>5, <1>6 DEF Next, vars

\* An API thread only ever holds jobs of the API.
LEMMA OwnKindCorrect == Spec => []OwnKind
<1>1. Init => OwnKind
  BY DEF Init, OwnKind
<1>2. TypeOK /\ OwnKind /\ [Next]_vars => OwnKind'
  BY OwnKindInductive
<1> QED BY <1>1, <1>2, PlacesCorrect, PTL DEF Spec

\* Every step keeps DepthKept.
LEMMA DepthInductive ==
  ASSUME TypeOK, Owners, OwnKind, DepthKept, [Next]_vars
  PROVE  DepthKept'
<1> USE DEF TypeOK, Submitters, Goto, Leave
<1>1. ASSUME NEW s \in Submitters, CheckDepth(s) PROVE DepthKept'
  <2>1. TypeOK' /\ queue' = queue /\ (MaxQueueDepth = 0 \/ Len(queue) < MaxQueueDepth)
    BY <1>1 DEF CheckDepth, redisVars, workerVars, ghostVars, SubmitPcs
  <2>2. ApiQueued' = ApiQueued
    BY <2>1 DEF ApiQueued
  <2>3. Cardinality(Ahead') \in Nat /\ Cardinality(Ahead') <= Cardinality(ApiClients)
    <3>1. Ahead' \in SUBSET ApiClients
      BY DEF Ahead
    <3> QED BY <3>1, ClientsFinite, FS_Subset, FS_CardinalityType
  <2> QED BY <2>1, <2>2, <2>3, ListFinite, PipelineAssumption DEF DepthKept
<1>2. ASSUME NEW s \in Submitters, Enqueue(s) PROVE DepthKept'
  BY <1>2, PushDepth DEF Enqueue
<1>3. ASSUME NEW s \in Submitters, EnqueueReplyLost(s) PROVE DepthKept'
  BY <1>3, PushDepth DEF EnqueueReplyLost, FirstUndo
<1>4. ASSUME NEW w \in Workers, PopJob(w) PROVE DepthKept'
  BY <1>4, PopDepth DEF PopJob, submitVars
<1>5. ASSUME NEW s \in Submitters,
             \/ CreateJob(s) \/ CheckCooldown(s) \/ SetActive(s) \/ DeleteDenied(s)
             \/ ArchiveCreate(s) \/ EnqueueRefused(s) \/ UndoDelete(s) \/ UndoGet(s)
             \/ UndoDel(s) \/ MarkRejected(s) \/ SubmitterFails(s)
      PROVE  DepthKept'
  <2>1. queue' = queue
    BY <1>5 DEF CreateJob, CheckCooldown, SetActive, DeleteDenied, ArchiveCreate,
       EnqueueRefused, UndoDelete, UndoGet, UndoDel, MarkRejected, SubmitterFails, redisVars
  <2>2. \A c \in ApiClients : c \in Ahead' => c \in Ahead
    BY <1>5 DEF CreateJob, CheckCooldown, SetActive, DeleteDenied, ArchiveCreate,
       EnqueueRefused, UndoDelete, UndoGet, UndoDel, MarkRejected, SubmitterFails, Ahead,
       FirstUndo, AfterUnlock
  <2> QED BY <2>1, <2>2, NobodyAhead
<1>6. CASE UNCHANGED <<queue, pc>>
  BY <1>6, NobodyAhead DEF Ahead
<1>7. ASSUME NEW w \in Workers,
             \/ StoreGet(w) \/ StoreSave(w) \/ ArchiveUpdate(w) \/ RowMissingRaises(w)
             \/ ScanRaises(w) \/ ReleaseGet(w) \/ ReleaseDel(w) \/ SetCooldown(w)
             \/ WorkerFails(w)
      PROVE  UNCHANGED <<queue, pc>>
  BY <1>7 DEF StoreGet, StoreSave, ArchiveUpdate, RowMissingRaises, ScanRaises, ReleaseGet,
     ReleaseDel, SetCooldown, WorkerFails, redisVars, submitVars
<1>8. ASSUME NEW t \in Targets, ExpireActive(t) \/ ExpireCooldown(t)
      PROVE  UNCHANGED <<queue, pc>>
  BY <1>8 DEF ExpireActive, ExpireCooldown, submitVars
<1>9. CASE UNCHANGED vars
  BY <1>6, <1>9 DEF vars, redisVars, submitVars
<1> QED
  BY <1>1, <1>2, <1>3, <1>4, <1>5, <1>6, <1>7, <1>8, <1>9
     DEF Next, SubmitStep, SubmitFault, WorkStep

(***************************************************************************)
(* Handlers that passed the depth guard of create_check together overrun   *)
(* the limit by fewer jobs than there are handlers.                        *)
(***************************************************************************)
THEOREM QueueLimitTheorem == Spec => []QueueOvershootBounded
<1>1. Init => DepthKept
  <2> SUFFICES ASSUME Init PROVE DepthKept
    OBVIOUS
  <2>1. ApiQueued = {} /\ Ahead = {}
    BY DEF Init, ApiQueued, Ahead, Submitters
  <2>2. Cardinality(ApiClients) \in Nat
    BY ClientsFinite, FS_CardinalityType
  <2> QED BY <2>1, <2>2, FS_EmptySet, PipelineAssumption DEF DepthKept
<1>2. TypeOK /\ Places /\ OwnKind /\ DepthKept /\ [Next]_vars => DepthKept'
  BY DepthInductive DEF Places
<1>3. TypeOK /\ DepthKept => QueueOvershootBounded
  BY ListFinite, PipelineAssumption DEF DepthKept, QueueOvershootBounded, ApiQueued
<1> QED
  BY <1>1, <1>2, <1>3, PlacesCorrect, OwnKindCorrect, PTL DEF Spec

=============================================================================
