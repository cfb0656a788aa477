------------------------ MODULE SubscriptionsProofs -------------------------
(***************************************************************************)
(* Proofs about Subscriptions for any number of addresses, targets, API    *)
(* threads, links, challenges, jobs and failures.                          *)
(***************************************************************************)
EXTENDS Subscriptions, FiniteSetTheorems, TLAPS

(***************************************************************************)
(* Types.  A busy actor is busy with a subscription, and the scheduler     *)
(* serves no requests.                                                     *)
(***************************************************************************)
Busy ==
  /\ \A a \in Actors :
       pc[a] \notin {"idle", "reconciling", "processing"} => key[a] \in Keys
  /\ pc[Scheduler] # "admitted"

\* What ends a request or goes on with the scheduler's list.
LEMMA DoneTypes ==
  ASSUME TypeOK, Busy, NEW a \in Actors, Done(a)
  PROVE  /\ pc' \in [Actors -> Pcs]
         /\ key' \in [Actors -> Keys \union {NoKey}]
         /\ seen' \in [Actors -> Row]
         /\ copy' \in [Actors -> Domain]
         /\ Busy'
<1>1. pc'[a] \in {"idle", "reconciling", "processing"} /\ pc' \in [Actors -> Pcs]
  BY DEF Done, TypeOK, Pcs
<1>2. NoRow \in Row
  BY SubscriptionsAssumption DEF NoRow, Row, Plans
<1>3. NoDomain \in Domain
  BY DEF NoDomain, Domain
<1> QED BY <1>1, <1>2, <1>3 DEF Done, TypeOK, Busy

\* Updates of one column or two keep a row a row.
LEMMA RowUpdates ==
  ASSUME NEW r \in Row
  PROVE  /\ [r EXCEPT !.enabled = FALSE] \in Row
         /\ [r EXCEPT !.confirmed = TRUE] \in Row
         /\ [r EXCEPT !.verified = TRUE] \in Row
         /\ \A c \in 0 .. MaxChallenges :
              [[r EXCEPT !.token = c] EXCEPT !.verified = FALSE] \in Row
         /\ \A i \in 0 .. MaxLinks, p \in Plans :
              [[r EXCEPT !.id = i] EXCEPT !.plan = p] \in Row
BY DEF Row

\* A domain's row that is disabled is a domain's row.
LEMMA DomainUpdates ==
  ASSUME NEW d \in Domain
  PROVE  [d EXCEPT !.enabled = FALSE] \in Domain
BY DEF Domain

\* Every step keeps TypeOK.
LEMMA TypeInductive ==
  ASSUME TypeOK, Busy, [Next]_vars
  PROVE  TypeOK' /\ Busy'
<1> USE SubscriptionsAssumption
    DEF TypeOK, Busy, Actors, Row, NoRow, Domain, NoDomain, Job, Mail, Plans, Pcs, Stages, Sending,
        Nothing, NoMail, At, MailFor, Goto, TargetOf, JobOf, Exists, Active,
        tables, issued, world, local, ticks, work
<1>1. ASSUME NEW a \in Actors, UpsertPending(a) PROVE TypeOK' /\ Busy'
  BY <1>1, DoneTypes, SMTT(20) DEF UpsertPending
<1>2. ASSUME NEW a \in Actors, CheckChallenge(a) PROVE TypeOK' /\ Busy'
  <2>1. CASE Done(a)
    BY <1>2, <2>1, DoneTypes DEF CheckChallenge
  <2>2. CASE UNCHANGED local /\ pc' = [pc EXCEPT ![a] = "proved"]
    BY <1>2, <2>2 DEF CheckChallenge
  <2> QED BY <1>2, <2>1, <2>2 DEF CheckChallenge
<1>3. ASSUME NEW a \in Actors, MarkVerified(a) PROVE TypeOK' /\ Busy'
  <2> HIDE DEF Row, Domain
  <2>1. key[a] \in Keys
    BY <1>3 DEF MarkVerified
  <2>2. sub[key[a]] \in Row
    BY <2>1
  <2>3. [sub[key[a]] EXCEPT !.verified = TRUE] \in Row
    BY <2>2, RowUpdates
  <2>4. sub' \in [Keys -> Row]
    BY <1>3, <2>1, <2>3 DEF MarkVerified
  <2> QED BY <1>3, <2>4, DoneTypes DEF MarkVerified
<1>4. ASSUME NEW a \in Actors, CheckOrphan(a) PROVE TypeOK' /\ Busy'
  <2>1. CASE Done(a)
    BY <1>4, <2>1, DoneTypes DEF CheckOrphan
  <2>2. CASE UNCHANGED local /\ pc' = [pc EXCEPT ![a] = "listing"]
    BY <1>4, <2>2 DEF CheckOrphan
  <2> QED BY <1>4, <2>1, <2>2 DEF CheckOrphan
<1>5. ASSUME NEW a \in Actors, FindDomain(a) PROVE TypeOK' /\ Busy'
  <2>1. CASE Done(a)
    BY <1>5, <2>1, DoneTypes DEF FindDomain
  <2>2. CASE UNCHANGED local /\ pc' = [pc EXCEPT ![a] = "loading"]
    BY <1>5, <2>2 DEF FindDomain
  <2> QED BY <1>5, <2>1, <2>2 DEF FindDomain
<1>6. ASSUME NEW a \in Actors, LoadDomain(a) PROVE TypeOK' /\ Busy'
  <2> HIDE DEF Row, Domain
  <2>1. domain[TargetOf(key[a])] \in Domain
    BY <1>6 DEF LoadDomain, Keys
  <2>2. copy' \in [Actors -> Domain]
    BY <1>6, <2>1 DEF LoadDomain
  <2> QED BY <1>6, <2>2 DEF LoadDomain
<1>7. ASSUME NEW a \in Actors, DisableDomain(a) PROVE TypeOK' /\ Busy'
  <2> HIDE DEF Row, Domain
  <2>1. [copy[a] EXCEPT !.enabled = FALSE] \in Domain
    BY DomainUpdates
  <2>2. domain' \in [Targets -> Domain]
    BY <1>7, <2>1 DEF DisableDomain
  <2> QED BY <1>7, <2>2, DoneTypes DEF DisableDomain
<1>8. ASSUME NEW a \in Actors, UpsertDomain(a) PROVE TypeOK' /\ Busy'
  BY <1>8 DEF UpsertDomain
<1>9. ASSUME NEW a \in Actors, ScheduleScan(a) PROVE TypeOK' /\ Busy'
  BY <1>9, DoneTypes DEF ScheduleScan
<1>10. ASSUME NEW a \in Actors, PatchDomain(a) PROVE TypeOK' /\ Busy'
  <2> HIDE DEF Row, Domain
  <2>1. \A b \in BOOLEAN, w \in {copy[a].notes, "own"} : [enabled |-> b, notes |-> w] \in Domain
    BY DEF Domain
  <2>2. PICK b \in BOOLEAN, w \in {copy[a].notes, "own"} :
          domain' = [domain EXCEPT ![TargetOf(key[a])] = [enabled |-> b, notes |-> w]]
    BY <1>10 DEF PatchDomain
  <2>3. [enabled |-> b, notes |-> w] \in Domain
    BY <2>1
  <2>4. domain' \in [Targets -> Domain]
    BY <2>2, <2>3
  <2> QED BY <1>10, <2>4, DoneTypes DEF PatchDomain
<1>11. ASSUME NEW a \in Actors, Fail(a) PROVE TypeOK' /\ Busy'
  BY <1>11 DEF Fail
<1>12. ASSUME NEW a \in Handlers, NEW k \in Keys, NEW plan \in Plans, CheckPlanLimit(a, k, plan)
       PROVE  TypeOK' /\ Busy'
  BY <1>12, SMTT(20) DEF CheckPlanLimit
<1>13. ASSUME NEW a \in Handlers, NEW k \in Keys, ReadChallenge(a, k)
       PROVE  TypeOK' /\ Busy'
  BY <1>13 DEF ReadChallenge
<1>14. ASSUME NEW a \in Handlers, NEW k \in Keys, Disable(a, k) PROVE TypeOK' /\ Busy'
  <2> HIDE DEF Row, Domain
  <2>1. [sub[k] EXCEPT !.enabled = FALSE] \in Row
    BY RowUpdates
  <2>2. sub' \in [Keys -> Row]
    BY <1>14, <2>1 DEF Disable
  <2> QED BY <1>14, <2>2 DEF Disable
<1>15. ASSUME NEW a \in Handlers, NEW k \in Keys, RunNow(a, k) PROVE TypeOK' /\ Busy'
  BY <1>15 DEF RunNow
<1>16. ASSUME NEW a \in Handlers, NEW k \in Keys, LoadPatch(a, k) PROVE TypeOK' /\ Busy'
  <2> HIDE DEF Row, Domain
  <2>1. domain[TargetOf(k)] \in Domain
    BY DEF Keys
  <2>2. copy' \in [Actors -> Domain]
    BY <1>16, <2>1 DEF LoadPatch
  <2> QED BY <1>16, <2>2 DEF LoadPatch
<1>17. ASSUME NEW k \in Keys, NEW link \in 1 .. links, Confirm(k, link)
       PROVE  TypeOK' /\ Busy'
  <2> HIDE DEF Row, Domain
  <2>1. [sub[k] EXCEPT !.confirmed = TRUE] \in Row
    BY RowUpdates
  <2>2. sub' \in [Keys -> Row]
    BY <1>17, <2>1 DEF Confirm
  <2>3. clicked' \in SUBSET (Keys \X (1 .. MaxLinks))
    BY <1>17 DEF Confirm
  <2> QED BY <1>17, <2>2, <2>3 DEF Confirm
<1>18. ASSUME NEW k \in Keys, CleanupUnconfirmed(k) PROVE TypeOK' /\ Busy'
  BY <1>18 DEF CleanupUnconfirmed
<1>19. ASSUME NEW k \in Keys, BeginChallenge(k) PROVE TypeOK' /\ Busy'
  <2> HIDE DEF Row, Domain
  <2>1. challenges' \in 0 .. MaxChallenges
    BY <1>19 DEF BeginChallenge
  <2>2. [[sub[k] EXCEPT !.token = challenges'] EXCEPT !.verified = FALSE] \in Row
    BY <2>1, RowUpdates
  <2>3. sub' = [sub EXCEPT ![k] =
                 [[sub[k] EXCEPT !.token = challenges'] EXCEPT !.verified = FALSE]]
    BY <1>19 DEF BeginChallenge
  <2>4. sub' \in [Keys -> Row]
    BY <2>2, <2>3
  <2> QED BY <1>19, <2>1, <2>4 DEF BeginChallenge
<1>20. ASSUME NEW k \in Keys, Publish(k) PROVE TypeOK' /\ Busy'
  <2>1. sub[k].token \in 1 .. MaxChallenges
    BY <1>20 DEF Publish
  <2> QED BY <1>20, <2>1 DEF Publish
<1>21. ASSUME NEW t \in Targets, NEW enabled \in BOOLEAN, AdminUpsert(t, enabled)
       PROVE  TypeOK' /\ Busy'
  BY <1>21 DEF AdminUpsert
<1>22. ASSUME StartTick PROVE TypeOK' /\ Busy'
  BY <1>22 DEF StartTick
<1>23. ASSUME ReadDue PROVE TypeOK' /\ Busy'
  BY <1>23 DEF ReadDue
<1>24. ASSUME EndTick PROVE TypeOK' /\ Busy'
  BY <1>24 DEF EndTick
<1>25. ASSUME NEW t \in Targets, Reconcile(t) PROVE TypeOK' /\ Busy'
  <2>1. \A e \in Emails : <<e, t>> \in Keys
    BY <1>25 DEF Reconcile, Keys
  <2>2. pc' \in [Actors -> Pcs] /\ key' \in [Actors -> Keys \union {NoKey}] /\ Busy'
    BY <1>25, <2>1 DEF Reconcile
  <2> QED BY <1>25, <2>1, <2>2 DEF Reconcile
<1>26. ASSUME NEW j \in due, TakeDue(j) PROVE TypeOK' /\ Busy'
  <2>1. j.id \in 0 .. MaxLinks /\ j.plan \in Plans /\ j.key \in Keys
    OBVIOUS
  <2> HIDE DEF Row, Domain, Plans
  <2>2. [[seen[Scheduler] EXCEPT !.id = j.id] EXCEPT !.plan = j.plan] \in Row
    BY <2>1, RowUpdates
  <2>3. seen' = [seen EXCEPT ![Scheduler] =
                  [[seen[Scheduler] EXCEPT !.id = j.id] EXCEPT !.plan = j.plan]]
    BY <1>26 DEF TakeDue
  <2>4. seen' \in [Actors -> Row]
    BY <2>2, <2>3
  <2> QED BY <1>26, <2>1, <2>4 DEF TakeDue
<1>27. ASSUME NEW j \in jobs, GateReport(j) PROVE TypeOK' /\ Busy'
  BY <1>27 DEF GateReport
<1>28. ASSUME NEW j \in jobs, SendFailure(j) PROVE TypeOK' /\ Busy'
  BY <1>28 DEF SendFailure
<1>29. ASSUME SendReport PROVE TypeOK' /\ Busy'
  BY <1>29 DEF SendReport
<1>30. ASSUME GateAlert PROVE TypeOK' /\ Busy'
  <2>1. sending \in Sending
    BY <1>30 DEF GateAlert
  <2>2. sending' \in Sending \union {Nothing}
    BY <1>30, <2>1 DEF GateAlert
  <2> QED BY <1>30, <2>1, <2>2 DEF GateAlert
<1>31. ASSUME SendAlert PROVE TypeOK' /\ Busy'
  BY <1>31 DEF SendAlert
<1>32. CASE UNCHANGED vars
  BY <1>32 DEF vars
<1> HIDE DEF TypeOK, Busy
<1> QED
  BY <1>1, <1>2, <1>3, <1>4, <1>5, <1>6, <1>7, <1>8, <1>9, <1>10, <1>11, <1>12, <1>13,
     <1>14, <1>15, <1>16, <1>17, <1>18, <1>19, <1>20, <1>21, <1>22, <1>23, <1>24, <1>25,
     <1>26, <1>27, <1>28, <1>29, <1>30, <1>31, <1>32 DEF Next, ActorStep, TickStep,
     Request

(***************************************************************************)
(* Ownership.  OnlyOwnersVerified is not inductive alone: a check that is  *)
(* under way has read a token, and may end when the row has another one.   *)
(* What makes it safe is that a token is never given to two subscriptions, *)
(* nor to one that a thread still checks for another.                      *)
(***************************************************************************)
Tokens ==
  /\ \A k \in Keys : sub[k].token <= challenges
  /\ \A a \in Actors : seen[a].token <= challenges
  /\ published \subseteq 1 .. challenges
  /\ \A k, l \in Keys : sub[k].token > 0 /\ sub[k].token = sub[l].token => k = l
  /\ \A a \in Actors : pc[a] = "checking" =>
       /\ seen[a].token > 0
       /\ \A k \in Keys : sub[k].token = seen[a].token => k = key[a]

Ownership ==
  /\ \A k \in Keys : sub[k].token \in published => k \in Owners
  /\ \A a \in Actors : pc[a] = "checking" /\ seen[a].token \in published => key[a] \in Owners
  /\ \A a \in Actors : pc[a] = "proved" => key[a] \in Owners
  /\ OnlyOwnersVerified

\* A mail of the support plan is prepared for a proven owner only.
Gated ==
  /\ sending.plan = "support" /\ sending.stage # "gating" => sending.key \in Owners
  /\ SupportReportsOnlyToOwners

\* The end of a check: it writes by id what it found for the token it had read.
LEMMA MarkVerifiedKeeps ==
  ASSUME TypeOK, Busy, Tokens, Ownership, NEW a \in Actors, MarkVerified(a)
  PROVE  Tokens' /\ Ownership'
<1>1. /\ challenges \in Nat
      /\ \A k \in Keys : sub[k].token \in Nat
      /\ \A h \in Actors : seen[h].token \in Nat
  BY SubscriptionsAssumption DEF TypeOK, Row
<1>2. key[a] \in Owners
  BY DEF MarkVerified, Ownership
<1>3. \A k \in Keys : sub'[k].token = sub[k].token
  BY DEF MarkVerified, TypeOK, Row
<1>v. \A k \in Keys : sub'[k].verified => k \in Owners
  BY <1>2 DEF MarkVerified, TypeOK, Row, Ownership, OnlyOwnersVerified
<1>4. /\ \A h \in Actors : seen'[h].token = seen[h].token \/ seen'[h].token = 0
      /\ \A h \in Actors : pc'[h] \in {"checking", "proved"} =>
           pc[h] = pc'[h] /\ seen'[h].token = seen[h].token /\ key'[h] = key[h]
  BY DEF MarkVerified, Done, TypeOK, NoRow
<1>5. challenges' = challenges /\ published' = published
  BY DEF MarkVerified, issued, world
<1> USE DEF Tokens, Ownership, OnlyOwnersVerified
<1>6. \A k \in Keys : sub'[k].token <= challenges'
  BY <1>1, <1>3, <1>5
<1>7. \A h \in Actors : seen'[h].token <= challenges'
  BY <1>1, <1>4, <1>5
<1>8. published' \subseteq 1 .. challenges'
  BY <1>5
<1>9. \A k, l \in Keys : sub'[k].token > 0 /\ sub'[k].token = sub'[l].token => k = l
  BY <1>1, <1>3
<1>10. ASSUME NEW h \in Actors, pc'[h] = "checking"
       PROVE  /\ seen'[h].token > 0
              /\ \A k \in Keys : sub'[k].token = seen'[h].token => k = key'[h]
  BY <1>1, <1>3, <1>4, <1>10
<1>11. Ownership'
  <2>1. OnlyOwnersVerified'
    BY <1>v
  <2>2. \A k \in Keys : sub'[k].token \in published' => k \in Owners
    BY <1>3, <1>5
  <2>3. \A h \in Actors : pc'[h] = "checking" /\ seen'[h].token \in published' => key'[h] \in Owners
    BY <1>4, <1>5
  <2>4. \A h \in Actors : pc'[h] = "proved" => key'[h] \in Owners
    BY <1>4
  <2> HIDE DEF OnlyOwnersVerified
  <2> QED BY <2>1, <2>2, <2>3, <2>4
<1> QED BY <1>6, <1>7, <1>8, <1>9, <1>10, <1>11

\* Every step keeps the invariant of the ownership proofs.
LEMMA OwnershipInductive ==
  ASSUME TypeOK, Busy, TypeOK', Tokens, Ownership, Gated, [Next]_vars
  PROVE  Tokens' /\ Ownership' /\ Gated'
<1> USE SubscriptionsAssumption
    DEF TypeOK, Busy, Tokens, Ownership, Gated, OnlyOwnersVerified, SupportReportsOnlyToOwners,
        Actors, Row, NoRow, Job, Mail, Plans, Stages, Sending, Nothing, NoMail, At, MailFor, Goto,
        Done, Verified, tables, issued, world, local, ticks, work
<1>1. ASSUME NEW a \in Actors, UpsertPending(a) PROVE Tokens' /\ Ownership' /\ Gated'
  BY <1>1 DEF UpsertPending
<1>2. ASSUME NEW a \in Actors, CheckChallenge(a) PROVE Tokens' /\ Ownership' /\ Gated'
  <2>1. CASE Done(a)
    BY <1>2, <2>1 DEF CheckChallenge
  <2>2. CASE /\ seen[a].token \in published
             /\ pc' = [pc EXCEPT ![a] = "proved"]
             /\ UNCHANGED local
    <3>1. key[a] \in Owners
      BY <1>2, <2>2 DEF CheckChallenge
    <3> QED BY <1>2, <2>2, <3>1 DEF CheckChallenge
  <2> QED BY <1>2, <2>1, <2>2 DEF CheckChallenge
<1>3. ASSUME NEW a \in Actors, MarkVerified(a) PROVE Tokens' /\ Ownership' /\ Gated'
  <2>1. Tokens' /\ Ownership'
    BY <1>3, MarkVerifiedKeeps
  <2>2. Gated'
    BY <1>3 DEF MarkVerified
  <2> QED BY <2>1, <2>2
<1>4. ASSUME NEW a \in Actors, CheckOrphan(a) PROVE Tokens' /\ Ownership' /\ Gated'
  <2>1. CASE Done(a)
    BY <1>4, <2>1 DEF CheckOrphan
  <2>2. CASE pc' = [pc EXCEPT ![a] = "listing"] /\ UNCHANGED local
    BY <1>4, <2>2 DEF CheckOrphan
  <2> QED BY <1>4, <2>1, <2>2 DEF CheckOrphan
<1>5. ASSUME NEW a \in Actors, FindDomain(a) PROVE Tokens' /\ Ownership' /\ Gated'
  <2>1. CASE Done(a)
    BY <1>5, <2>1 DEF FindDomain
  <2>2. CASE pc' = [pc EXCEPT ![a] = "loading"] /\ UNCHANGED local
    BY <1>5, <2>2 DEF FindDomain
  <2> QED BY <1>5, <2>1, <2>2 DEF FindDomain
<1>6. ASSUME NEW a \in Actors, LoadDomain(a) PROVE Tokens' /\ Ownership' /\ Gated'
  BY <1>6 DEF LoadDomain
<1>7. ASSUME NEW a \in Actors, DisableDomain(a) PROVE Tokens' /\ Ownership' /\ Gated'
  BY <1>7 DEF DisableDomain
<1>8. ASSUME NEW a \in Actors, UpsertDomain(a) PROVE Tokens' /\ Ownership' /\ Gated'
  BY <1>8 DEF UpsertDomain
<1>9. ASSUME NEW a \in Actors, ScheduleScan(a) PROVE Tokens' /\ Ownership' /\ Gated'
  BY <1>9 DEF ScheduleScan
<1>10. ASSUME NEW a \in Actors, PatchDomain(a) PROVE Tokens' /\ Ownership' /\ Gated'
  BY <1>10 DEF PatchDomain
<1>11. ASSUME NEW a \in Actors, Fail(a) PROVE Tokens' /\ Ownership' /\ Gated'
  BY <1>11 DEF Fail
<1>12. ASSUME NEW a \in Handlers, NEW k \in Keys, NEW plan \in Plans, CheckPlanLimit(a, k, plan)
       PROVE  Tokens' /\ Ownership' /\ Gated'
  BY <1>12 DEF CheckPlanLimit
<1>13. ASSUME NEW a \in Handlers, NEW k \in Keys, ReadChallenge(a, k)
       PROVE  Tokens' /\ Ownership' /\ Gated'
  BY <1>13 DEF ReadChallenge
<1>14. ASSUME NEW a \in Handlers, NEW k \in Keys, Disable(a, k)
       PROVE  Tokens' /\ Ownership' /\ Gated'
  BY <1>14 DEF Disable
<1>15. ASSUME NEW a \in Handlers, NEW k \in Keys, RunNow(a, k)
       PROVE  Tokens' /\ Ownership' /\ Gated'
  BY <1>15 DEF RunNow
<1>16. ASSUME NEW a \in Handlers, NEW k \in Keys, LoadPatch(a, k)
       PROVE  Tokens' /\ Ownership' /\ Gated'
  BY <1>16 DEF LoadPatch
<1>17. ASSUME NEW k \in Keys, NEW link \in 1 .. links, Confirm(k, link)
       PROVE  Tokens' /\ Ownership' /\ Gated'
  BY <1>17 DEF Confirm
<1>18. ASSUME NEW k \in Keys, CleanupUnconfirmed(k) PROVE Tokens' /\ Ownership' /\ Gated'
  BY <1>18 DEF CleanupUnconfirmed
<1>19. ASSUME NEW k \in Keys, BeginChallenge(k) PROVE Tokens' /\ Ownership' /\ Gated'
  BY <1>19 DEF BeginChallenge
<1>20. ASSUME NEW k \in Keys, Publish(k) PROVE Tokens' /\ Ownership' /\ Gated'
  BY <1>20 DEF Publish
<1>21. ASSUME NEW t \in Targets, NEW enabled \in BOOLEAN, AdminUpsert(t, enabled)
       PROVE  Tokens' /\ Ownership' /\ Gated'
  BY <1>21 DEF AdminUpsert
<1>22. ASSUME StartTick PROVE Tokens' /\ Ownership' /\ Gated'
  BY <1>22 DEF StartTick
<1>23. ASSUME ReadDue PROVE Tokens' /\ Ownership' /\ Gated'
  BY <1>23 DEF ReadDue
<1>24. ASSUME EndTick PROVE Tokens' /\ Ownership' /\ Gated'
  BY <1>24 DEF EndTick
<1>25. ASSUME NEW t \in Targets, Reconcile(t) PROVE Tokens' /\ Ownership' /\ Gated'
  BY <1>25 DEF Reconcile
<1>26. ASSUME NEW j \in due, TakeDue(j) PROVE Tokens' /\ Ownership' /\ Gated'
  BY <1>26 DEF TakeDue
<1>27. ASSUME NEW j \in jobs, GateReport(j) PROVE Tokens' /\ Ownership' /\ Gated'
  BY <1>27 DEF GateReport
<1>28. ASSUME NEW j \in jobs, SendFailure(j) PROVE Tokens' /\ Ownership' /\ Gated'
  BY <1>28 DEF SendFailure
<1>29. ASSUME SendReport PROVE Tokens' /\ Ownership' /\ Gated'
  BY <1>29 DEF SendReport
<1>30. ASSUME GateAlert PROVE Tokens' /\ Ownership' /\ Gated'
  BY <1>30 DEF GateAlert
<1>31. ASSUME SendAlert PROVE Tokens' /\ Ownership' /\ Gated'
  BY <1>31 DEF SendAlert
<1>32. CASE UNCHANGED vars
  BY <1>32 DEF vars
<1> HIDE DEF Tokens, Ownership, Gated, TypeOK, Busy
<1> QED
  BY <1>1, <1>2, <1>3, <1>4, <1>5, <1>6, <1>7, <1>8, <1>9, <1>10, <1>11, <1>12, <1>13,
     <1>14, <1>15, <1>16, <1>17, <1>18, <1>19, <1>20, <1>21, <1>22, <1>23, <1>24, <1>25,
     <1>26, <1>27, <1>28, <1>29, <1>30, <1>31, <1>32 DEF Next, ActorStep, TickStep,
     Request

(***************************************************************************)
(* Consent.  Whatever carries a subscription to the mail (the list of due  *)
(* rows, a thread, a job) read it when its link had been clicked.          *)
(***************************************************************************)
Consented == {k \in Keys : \E link \in 1 .. links : <<k, link>> \in clicked}

Consent ==
  /\ ConfirmedByItsOwnLink
  /\ \A k \in Keys : sub[k].confirmed => sub[k].link \in 1 .. links /\ k \in Consented
  /\ \A a \in Actors : pc[a] \in {"upserting", "scheduling"} => key[a] \in Consented
  /\ \A j \in due \union jobs : j.key \in Consented
  /\ sending # Nothing => sending.key \in Consented
  /\ mail # NoMail => mail.key \in Consented

\* Every step keeps the invariant of the consent proofs.
LEMMA ConsentInductive ==
  ASSUME TypeOK, Busy, TypeOK', Consent, [Next]_vars
  PROVE  Consent'
<1> USE SubscriptionsAssumption
    DEF TypeOK, Busy, Consent, Actors, Row, NoRow, Job, Mail, Plans,
        Stages, Sending, Nothing, NoMail, At, MailFor, Goto, Active, Serviceable,
        JobOf, tables, issued, world, local, ticks, work
<1>a. (links' = links /\ clicked' = clicked) => Consented' = Consented
  BY DEF Consented
<1>b. sub' = sub /\ clicked' = clicked /\ ConfirmedByItsOwnLink => ConfirmedByItsOwnLink'
  BY DEF ConfirmedByItsOwnLink
<1>c. ASSUME NEW a \in Actors, Done(a)
      PROVE  \A h \in Actors : pc'[h] \in {"upserting", "scheduling"} =>
               pc[h] \in {"upserting", "scheduling"} /\ key'[h] = key[h]
  BY <1>c DEF Done
<1>1. ASSUME NEW a \in Actors, UpsertPending(a) PROVE Consent'
  <2>1. Consented \subseteq Consented'
    BY <1>1 DEF UpsertPending, Consented
  <2>2. \A k \in Keys : sub'[k].confirmed => sub[k].confirmed /\ sub'[k].link = sub[k].link
    BY <1>1 DEF UpsertPending
  <2>3. ConfirmedByItsOwnLink'
    BY <1>1, <2>2 DEF UpsertPending, ConfirmedByItsOwnLink
  <2>4. \A k \in Keys : sub'[k].confirmed => sub'[k].link \in 1 .. links' /\ k \in Consented'
    BY <1>1, <2>1, <2>2 DEF UpsertPending
  <2> QED BY <1>1, <1>c, <2>1, <2>3, <2>4 DEF UpsertPending
<1>2. ASSUME NEW a \in Actors, CheckChallenge(a) PROVE Consent'
  <2>1. CASE Done(a)
    BY <1>2, <1>a, <1>b, <1>c, <2>1 DEF CheckChallenge
  <2>2. CASE UNCHANGED local /\ pc' = [pc EXCEPT ![a] = "proved"]
    BY <1>2, <1>a, <1>b, <2>2 DEF CheckChallenge
  <2> QED BY <1>2, <2>1, <2>2 DEF CheckChallenge
<1>3. ASSUME NEW a \in Actors, MarkVerified(a) PROVE Consent'
  <2>1. \A l \in Keys : sub'[l].confirmed => sub[l].confirmed /\ sub'[l].link = sub[l].link
    BY <1>3 DEF MarkVerified
  <2>2. ConfirmedByItsOwnLink'
    BY <1>3, <2>1 DEF MarkVerified, ConfirmedByItsOwnLink
  <2>3. \A l \in Keys : sub'[l].confirmed => sub'[l].link \in 1 .. links' /\ l \in Consented'
    BY <1>3, <1>a, <2>1 DEF MarkVerified
  <2> QED BY <1>3, <1>a, <1>c, <2>2, <2>3 DEF MarkVerified
<1>4. ASSUME NEW a \in Actors, CheckOrphan(a) PROVE Consent'
  <2>1. CASE Done(a)
    BY <1>4, <1>a, <1>b, <1>c, <2>1 DEF CheckOrphan
  <2>2. CASE UNCHANGED local /\ pc' = [pc EXCEPT ![a] = "listing"]
    BY <1>4, <1>a, <1>b, <2>2 DEF CheckOrphan
  <2> QED BY <1>4, <2>1, <2>2 DEF CheckOrphan
<1>5. ASSUME NEW a \in Actors, FindDomain(a) PROVE Consent'
  <2>1. CASE Done(a)
    BY <1>5, <1>a, <1>b, <1>c, <2>1 DEF FindDomain
  <2>2. CASE UNCHANGED local /\ pc' = [pc EXCEPT ![a] = "loading"]
    BY <1>5, <1>a, <1>b, <2>2 DEF FindDomain
  <2> QED BY <1>5, <2>1, <2>2 DEF FindDomain
<1>6. ASSUME NEW a \in Actors, LoadDomain(a) PROVE Consent'
  BY <1>6, <1>a, <1>b DEF LoadDomain
<1>7. ASSUME NEW a \in Actors, DisableDomain(a) PROVE Consent'
  BY <1>7, <1>a, <1>b, <1>c DEF DisableDomain
<1>8. ASSUME NEW a \in Actors, UpsertDomain(a) PROVE Consent'
  BY <1>8, <1>a, <1>b DEF UpsertDomain
<1>9. ASSUME NEW a \in Actors, ScheduleScan(a) PROVE Consent'
  BY <1>9, <1>a, <1>b, <1>c DEF ScheduleScan
<1>10. ASSUME NEW a \in Actors, PatchDomain(a) PROVE Consent'
  BY <1>10, <1>a, <1>b, <1>c DEF PatchDomain
<1>11. ASSUME NEW a \in Actors, Fail(a) PROVE Consent'
  BY <1>11, <1>a, <1>b DEF Fail
<1>12. ASSUME NEW a \in Handlers, NEW k \in Keys, NEW plan \in Plans, CheckPlanLimit(a, k, plan)
       PROVE  Consent'
  BY <1>12, <1>a, <1>b DEF CheckPlanLimit
<1>13. ASSUME NEW a \in Handlers, NEW k \in Keys, ReadChallenge(a, k) PROVE Consent'
  BY <1>13, <1>a, <1>b DEF ReadChallenge
<1>14. ASSUME NEW a \in Handlers, NEW k \in Keys, Disable(a, k) PROVE Consent'
  <2>1. \A l \in Keys : sub'[l].confirmed => sub[l].confirmed /\ sub'[l].link = sub[l].link
    BY <1>14 DEF Disable
  <2>2. ConfirmedByItsOwnLink'
    BY <1>14, <2>1 DEF Disable, ConfirmedByItsOwnLink
  <2>3. \A l \in Keys : sub'[l].confirmed => sub'[l].link \in 1 .. links' /\ l \in Consented'
    BY <1>14, <1>a, <2>1 DEF Disable
  <2> QED BY <1>14, <1>a, <2>2, <2>3 DEF Disable
<1>15. ASSUME NEW a \in Handlers, NEW k \in Keys, RunNow(a, k) PROVE Consent'
  BY <1>15, <1>a, <1>b DEF RunNow
<1>16. ASSUME NEW a \in Handlers, NEW k \in Keys, LoadPatch(a, k) PROVE Consent'
  BY <1>16, <1>a, <1>b DEF LoadPatch
<1>17. ASSUME NEW k \in Keys, NEW link \in 1 .. links, Confirm(k, link) PROVE Consent'
  <2>1. links' = links /\ clicked' = clicked \union {<<k, link>>}
    BY <1>17 DEF Confirm
  <2>2. k \in Consented' /\ Consented \subseteq Consented'
    BY <2>1 DEF Consented
  <2>3. \A l \in Keys : /\ sub'[l].link = sub[l].link
                       /\ l # k => sub'[l].confirmed = sub[l].confirmed
    BY <1>17 DEF Confirm
  <2>4. ConfirmedByItsOwnLink'
    BY <1>17, <2>3 DEF Confirm, ConfirmedByItsOwnLink
  <2>5. \A l \in Keys : sub'[l].confirmed => sub'[l].link \in 1 .. links' /\ l \in Consented'
    BY <1>17, <2>2, <2>3 DEF Confirm
  <2> QED BY <1>17, <2>2, <2>4, <2>5 DEF Confirm
<1>18. ASSUME NEW k \in Keys, CleanupUnconfirmed(k) PROVE Consent'
  <2>1. \A l \in Keys : sub'[l].confirmed => sub[l].confirmed /\ sub'[l].link = sub[l].link
    BY <1>18 DEF CleanupUnconfirmed
  <2>2. ConfirmedByItsOwnLink'
    BY <1>18, <2>1 DEF CleanupUnconfirmed, ConfirmedByItsOwnLink
  <2>3. \A l \in Keys : sub'[l].confirmed => sub'[l].link \in 1 .. links' /\ l \in Consented'
    BY <1>18, <1>a, <2>1 DEF CleanupUnconfirmed
  <2> QED BY <1>18, <1>a, <2>2, <2>3 DEF CleanupUnconfirmed
<1>19. ASSUME NEW k \in Keys, BeginChallenge(k) PROVE Consent'
  <2>1. \A l \in Keys : sub'[l].confirmed => sub[l].confirmed /\ sub'[l].link = sub[l].link
    BY <1>19 DEF BeginChallenge
  <2>2. ConfirmedByItsOwnLink'
    BY <1>19, <2>1 DEF BeginChallenge, ConfirmedByItsOwnLink
  <2>3. \A l \in Keys : sub'[l].confirmed => sub'[l].link \in 1 .. links' /\ l \in Consented'
    BY <1>19, <1>a, <2>1 DEF BeginChallenge
  <2> QED BY <1>19, <1>a, <2>2, <2>3 DEF BeginChallenge
<1>20. ASSUME NEW k \in Keys, Publish(k) PROVE Consent'
  BY <1>20, <1>a, <1>b DEF Publish
<1>21. ASSUME NEW t \in Targets, NEW enabled \in BOOLEAN, AdminUpsert(t, enabled)
       PROVE  Consent'
  BY <1>21, <1>a, <1>b DEF AdminUpsert
<1>22. ASSUME StartTick PROVE Consent'
  BY <1>22, <1>a, <1>b DEF StartTick
<1>23. ASSUME ReadDue PROVE Consent'
  BY <1>23, <1>a, <1>b DEF ReadDue
<1>24. ASSUME EndTick PROVE Consent'
  BY <1>24, <1>a, <1>b DEF EndTick
<1>25. ASSUME NEW t \in Targets, Reconcile(t) PROVE Consent'
  BY <1>25, <1>a, <1>b DEF Reconcile
<1>26. ASSUME NEW j \in due, TakeDue(j) PROVE Consent'
  BY <1>26, <1>a, <1>b DEF TakeDue
<1>27. ASSUME NEW j \in jobs, GateReport(j) PROVE Consent'
  BY <1>27, <1>a, <1>b DEF GateReport
<1>28. ASSUME NEW j \in jobs, SendFailure(j) PROVE Consent'
  BY <1>28, <1>a, <1>b DEF SendFailure
<1>29. ASSUME SendReport PROVE Consent'
  BY <1>29, <1>a, <1>b DEF SendReport
<1>30. ASSUME GateAlert PROVE Consent'
  BY <1>30, <1>a, <1>b DEF GateAlert
<1>31. ASSUME SendAlert PROVE Consent'
  BY <1>31, <1>a, <1>b DEF SendAlert
<1>32. CASE UNCHANGED vars
  BY <1>32, <1>a, <1>b DEF vars
<1> HIDE DEF Consent, TypeOK, Busy
<1> QED
  BY <1>1, <1>2, <1>3, <1>4, <1>5, <1>6, <1>7, <1>8, <1>9, <1>10, <1>11, <1>12, <1>13,
     <1>14, <1>15, <1>16, <1>17, <1>18, <1>19, <1>20, <1>21, <1>22, <1>23, <1>24, <1>25,
     <1>26, <1>27, <1>28, <1>29, <1>30, <1>31, <1>32 DEF Next, ActorStep, TickStep,
     Request

(***************************************************************************)
(* The limit of a plan.  The hosts of an address that are enabled and those*)
(* that an admitted request is about to enable grow only when a thread is  *)
(* admitted below the limit; then the threads account for the overrun.     *)
(***************************************************************************)
HeldBy(e) ==
  {TargetOf(key[a]) : a \in {h \in Handlers : pc[h] = "admitted" /\ key[h][1] = e}}
Taken(e) == EnabledOf(e) \union HeldBy(e)

Limited ==
  \A e \in Emails :
    /\ IsFiniteSet(Taken(e))
    /\ Cardinality(Taken(e)) < ProLimit + Cardinality(Handlers)


\* A step that enables nothing and admits nobody takes no host.
Shrinks ==
  /\ \A k \in Keys : sub'[k].enabled => sub[k].enabled
  /\ \A h \in Handlers : pc'[h] = "admitted" => pc[h] = "admitted" /\ key'[h] = key[h]

\* Such a step adds nothing to what counts against an address's limit.
LEMMA ShrinksTaken ==
  ASSUME Shrinks, NEW e \in Emails
  PROVE  Taken(e)' \subseteq Taken(e)
<1>1. EnabledOf(e)' \subseteq EnabledOf(e)
  BY DEF Shrinks, EnabledOf, Keys
<1>2. HeldBy(e)' \subseteq HeldBy(e)
  BY DEF Shrinks, HeldBy
<1> QED BY <1>1, <1>2 DEF Taken

\* An upsert enables a host that its thread holds.
LEMMA UpsertTaken ==
  ASSUME TypeOK, Busy, NEW a \in Actors, a \in Handlers, UpsertPending(a), NEW e \in Emails
  PROVE  Taken(e)' \subseteq Taken(e)
<1>1. key[a] \in Keys /\ pc[a] = "admitted"
  BY DEF Busy, UpsertPending
<1>2. \A k \in Keys : sub'[k].enabled => sub[k].enabled \/ k = key[a]
  BY DEF TypeOK, UpsertPending
<1>3. \A h \in Handlers : pc'[h] = "admitted" => pc[h] = "admitted" /\ key'[h] = key[h]
  BY DEF TypeOK, UpsertPending, Done, Actors
<1>4. HeldBy(e)' \subseteq HeldBy(e)
  BY <1>3 DEF HeldBy
<1>5. ASSUME NEW t \in EnabledOf(e)' PROVE t \in Taken(e)
  <2>1. t \in Targets /\ sub'[<<e, t>>].enabled /\ <<e, t>> \in Keys
    BY <1>5 DEF EnabledOf, Keys
  <2>2. CASE sub[<<e, t>>].enabled
    BY <2>1, <2>2 DEF Taken, EnabledOf
  <2>3. CASE <<e, t>> = key[a]
    <3>1. TargetOf(key[a]) = t /\ key[a][1] = e
      BY <2>3 DEF TargetOf
    <3> QED BY <1>1, <3>1 DEF Taken, HeldBy
  <2> QED BY <1>2, <2>1, <2>2, <2>3
<1> QED BY <1>4, <1>5 DEF Taken

\* A request admitted below the limit.  As many hosts are held as there are
\* threads, at most.
LEMMA AdmitLimited ==
  ASSUME TypeOK, Limited, NEW a \in Handlers, NEW k \in Keys, NEW plan \in Plans,
         CheckPlanLimit(a, k, plan)
  PROVE  Limited'
<1> SUFFICES ASSUME NEW e \in Emails
             PROVE  /\ IsFiniteSet(Taken(e)')
                    /\ Cardinality(Taken(e)') < ProLimit + Cardinality(Handlers)
  BY DEF Limited
<1> DEFINE admitted == {h \in Handlers : pc'[h] = "admitted" /\ key'[h][1] = e}
<1>1. a \in Actors /\ sub' = sub /\ EnabledOf(e)' = EnabledOf(e)
  BY DEF CheckPlanLimit, Actors, tables, EnabledOf
<1>2. IsFiniteSet(EnabledOf(e)) /\ Cardinality(EnabledOf(e)) \in Nat
  <2>1. EnabledOf(e) \subseteq Taken(e) /\ IsFiniteSet(Taken(e))
    BY DEF Limited, Taken
  <2> QED BY <2>1, FS_Subset, FS_CardinalityType
<1>3. /\ IsFiniteSet(admitted)
      /\ Cardinality(admitted) <= Cardinality(Handlers)
      /\ Cardinality(admitted) \in Nat
      /\ Cardinality(Handlers) \in Nat
  BY HandlersFinite, FS_Subset, FS_CardinalityType
<1>4. HeldBy(e)' = {TargetOf(key'[h]) : h \in admitted}
  BY DEF HeldBy, TargetOf
<1>5. /\ IsFiniteSet(HeldBy(e)')
      /\ Cardinality(HeldBy(e)') <= Cardinality(admitted)
      /\ Cardinality(HeldBy(e)') \in Nat
  <2> HIDE DEF admitted
  <2> DEFINE f(h) == TargetOf(key'[h])
  <2> DEFINE S == {f(h) : h \in admitted}
  <2>1. IsFiniteSet(S) /\ Cardinality(S) <= Cardinality(admitted)
    <3> DEFINE g == [h \in admitted |-> f(h)]
    <3>1. g \in Surjection(admitted, S)
      <4> HIDE DEF f
      <4> QED BY DEF Surjection
    <3> HIDE DEF g, S
    <3> QED BY <1>3, <3>1, FS_Surjection
  <2> QED BY <1>4, <2>1, FS_CardinalityType
<1>6. CASE e = k[1] /\ Cardinality(EnabledOf(e)) < PlanLimit(plan)
  <2>1. Cardinality(EnabledOf(e)) < ProLimit
    BY <1>2, <1>6, SubscriptionsAssumption DEF PlanLimit
  <2>2. /\ IsFiniteSet(Taken(e)')
        /\ Cardinality(Taken(e)') <= Cardinality(EnabledOf(e)) + Cardinality(HeldBy(e)')
    <3>1. Taken(e)' = EnabledOf(e) \union HeldBy(e)'
      BY <1>1 DEF Taken
    <3> DEFINE both == EnabledOf(e) \cap HeldBy(e)'
    <3>2. IsFiniteSet(both)
      BY <1>2, FS_Intersection
    <3>3. Cardinality(both) \in Nat
      BY <3>2, FS_CardinalityType
    <3>4. /\ IsFiniteSet(Taken(e)')
          /\ Cardinality(Taken(e)') =
               Cardinality(EnabledOf(e)) + Cardinality(HeldBy(e)') - Cardinality(both)
      BY <1>2, <1>5, <3>1, FS_Union
    <3> QED BY <1>2, <1>5, <3>3, <3>4
  <2>3. Cardinality(Taken(e)') \in Nat
    BY <2>2, FS_CardinalityType
  <2> QED BY <1>2, <1>3, <1>5, <2>1, <2>2, <2>3, SubscriptionsAssumption
<1>7. CASE e # k[1] \/ TargetOf(k) \in EnabledOf(e)
  <2>1. /\ pc' = [pc EXCEPT ![a] = "admitted"]
        /\ key' = [key EXCEPT ![a] = k]
    BY DEF CheckPlanLimit, Goto
  <2>2. HeldBy(e)' \subseteq Taken(e)
    <3> SUFFICES ASSUME NEW h \in admitted
                 PROVE  TargetOf(key'[h]) \in Taken(e)
      BY <1>4
    <3>1. CASE h = a
      <4>1. key'[h] = k
        BY <1>1, <2>1, <3>1 DEF TypeOK
      <4> QED BY <1>7, <4>1 DEF Taken
    <3>2. CASE h # a
      <4>1. key'[h] = key[h] /\ pc[h] = "admitted" /\ key[h][1] = e
        BY <2>1, <3>2 DEF TypeOK, Actors
      <4> QED BY <4>1 DEF Taken, HeldBy
    <3> QED BY <3>1, <3>2
  <2>3. Taken(e)' \subseteq Taken(e)
    BY <1>1, <2>2 DEF Taken
  <2>4. /\ IsFiniteSet(Taken(e)')
        /\ Cardinality(Taken(e)') <= Cardinality(Taken(e))
        /\ Cardinality(Taken(e)') \in Nat /\ Cardinality(Taken(e)) \in Nat
    BY <2>3, FS_Subset, FS_CardinalityType DEF Limited
  <2> QED BY <1>3, <2>4, SubscriptionsAssumption DEF Limited
<1> QED BY <1>6, <1>7 DEF CheckPlanLimit

\* Less than what was within the limit is within the limit.
LEMMA SubsetLimited ==
  ASSUME Limited, \A e \in Emails : Taken(e)' \subseteq Taken(e)
  PROVE  Limited'
<1> SUFFICES ASSUME NEW e \in Emails
             PROVE  /\ IsFiniteSet(Taken(e)')
                    /\ Cardinality(Taken(e)') < ProLimit + Cardinality(Handlers)
  BY DEF Limited
<1>1. /\ IsFiniteSet(Taken(e)')
      /\ Cardinality(Taken(e)') <= Cardinality(Taken(e))
      /\ Cardinality(Taken(e)') \in Nat /\ Cardinality(Taken(e)) \in Nat
  BY FS_Subset, FS_CardinalityType DEF Limited
<1>2. Cardinality(Handlers) \in Nat
  BY HandlersFinite, FS_CardinalityType
<1> QED BY <1>1, <1>2, SubscriptionsAssumption DEF Limited

\* Every step keeps the bound on the overshoot of a plan.
LEMMA LimitInductive ==
  ASSUME TypeOK, Busy, Limited, [Next]_vars
  PROVE  Limited'
<1> USE DEF TypeOK, Shrinks, Actors, Row, NoRow, Goto, Done, tables, issued, world, local, ticks, work
<1>1. ASSUME NEW a \in Actors, CheckChallenge(a) PROVE Shrinks
  BY <1>1 DEF CheckChallenge
<1>2. ASSUME NEW a \in Actors, MarkVerified(a) PROVE Shrinks
  BY <1>2 DEF MarkVerified
<1>3. ASSUME NEW a \in Actors, CheckOrphan(a) PROVE Shrinks
  BY <1>3 DEF CheckOrphan
<1>4. ASSUME NEW a \in Actors, FindDomain(a) PROVE Shrinks
  BY <1>4 DEF FindDomain
<1>5. ASSUME NEW a \in Actors, LoadDomain(a) PROVE Shrinks
  BY <1>5 DEF LoadDomain
<1>6. ASSUME NEW a \in Actors, DisableDomain(a) PROVE Shrinks
  BY <1>6 DEF DisableDomain
<1>7. ASSUME NEW a \in Actors, UpsertDomain(a) PROVE Shrinks
  BY <1>7 DEF UpsertDomain
<1>8. ASSUME NEW a \in Actors, ScheduleScan(a) PROVE Shrinks
  BY <1>8 DEF ScheduleScan
<1>9. ASSUME NEW a \in Actors, PatchDomain(a) PROVE Shrinks
  BY <1>9 DEF PatchDomain
<1>10. ASSUME NEW a \in Actors, Fail(a) PROVE Shrinks
  BY <1>10 DEF Fail
<1>11. ASSUME NEW a \in Handlers, NEW k \in Keys, ReadChallenge(a, k) PROVE Shrinks
  BY <1>11 DEF ReadChallenge
<1>12. ASSUME NEW a \in Handlers, NEW k \in Keys, Disable(a, k) PROVE Shrinks
  BY <1>12 DEF Disable
<1>13. ASSUME NEW a \in Handlers, NEW k \in Keys, RunNow(a, k) PROVE Shrinks
  BY <1>13 DEF RunNow
<1>14. ASSUME NEW a \in Handlers, NEW k \in Keys, LoadPatch(a, k) PROVE Shrinks
  BY <1>14 DEF LoadPatch
<1>15. ASSUME NEW k \in Keys, NEW link \in 1 .. links, Confirm(k, link) PROVE Shrinks
  BY <1>15 DEF Confirm
<1>16. ASSUME NEW k \in Keys, CleanupUnconfirmed(k) PROVE Shrinks
  BY <1>16 DEF CleanupUnconfirmed
<1>17. ASSUME NEW k \in Keys, BeginChallenge(k) PROVE Shrinks
  BY <1>17 DEF BeginChallenge
<1>18. ASSUME NEW k \in Keys, Publish(k) PROVE Shrinks
  BY <1>18 DEF Publish
<1>19. ASSUME NEW t \in Targets, NEW enabled \in BOOLEAN, AdminUpsert(t, enabled)
       PROVE  Shrinks
  BY <1>19 DEF AdminUpsert
<1>20. ASSUME StartTick PROVE Shrinks
  BY <1>20 DEF StartTick
<1>21. ASSUME ReadDue PROVE Shrinks
  BY <1>21 DEF ReadDue
<1>22. ASSUME EndTick PROVE Shrinks
  BY <1>22 DEF EndTick
<1>23. ASSUME NEW t \in Targets, Reconcile(t) PROVE Shrinks
  BY <1>23 DEF Reconcile
<1>24. ASSUME NEW j \in due, TakeDue(j) PROVE Shrinks
  BY <1>24 DEF TakeDue
<1>25. ASSUME NEW j \in jobs, GateReport(j) PROVE Shrinks
  BY <1>25 DEF GateReport
<1>26. ASSUME NEW j \in jobs, SendFailure(j) PROVE Shrinks
  BY <1>26 DEF SendFailure
<1>27. ASSUME SendReport PROVE Shrinks
  BY <1>27 DEF SendReport
<1>28. ASSUME GateAlert PROVE Shrinks
  BY <1>28 DEF GateAlert
<1>29. ASSUME SendAlert PROVE Shrinks
  BY <1>29 DEF SendAlert
<1>30. ASSUME UNCHANGED vars PROVE Shrinks
  <2>1. sub' = sub /\ pc' = pc /\ key' = key
    BY <1>30 DEF vars
  <2> QED BY <2>1
<1> HIDE DEF TypeOK, Shrinks
<1>31. Shrinks => Limited'
  BY ShrinksTaken, SubsetLimited
<1>32. ASSUME NEW a \in Actors, UpsertPending(a) PROVE Limited'
  <2>1. CASE a \in Handlers
    BY <1>32, <2>1, UpsertTaken, SubsetLimited
  <2>2. CASE a = Scheduler
    BY <1>32, <2>2 DEF UpsertPending, Busy
  <2> QED BY <2>1, <2>2 DEF Actors
<1>33. ASSUME NEW a \in Handlers, NEW k \in Keys, NEW plan \in Plans, CheckPlanLimit(a, k, plan)
        PROVE  Limited'
  BY <1>33, AdmitLimited
<1> QED
  BY <1>1, <1>2, <1>3, <1>4, <1>5, <1>6, <1>7, <1>8, <1>9, <1>10, <1>11, <1>12, <1>13,
     <1>14, <1>15, <1>16, <1>17, <1>18, <1>19, <1>20, <1>21, <1>22, <1>23, <1>24, <1>25,
     <1>26, <1>27, <1>28, <1>29, <1>30, <1>31, <1>32, <1>33 DEF Next, ActorStep,
     TickStep, Request

(***************************************************************************)
(* The theorems.                                                           *)
(***************************************************************************)
Inv == TypeOK /\ Busy /\ Tokens /\ Ownership /\ Gated /\ Consent /\ Limited

\* The initial states satisfy the inductive invariant.
LEMMA InvInit == Init => Inv
<1> SUFFICES ASSUME Init PROVE Inv
  OBVIOUS
<1> USE SubscriptionsAssumption DEF Init, NoRow, NoDomain, Nothing, NoMail
<1>1. TypeOK
  BY DEF TypeOK, Row, Domain, Plans, Pcs
<1>2. Busy
  BY DEF Busy, Actors
<1>3. Tokens /\ Ownership /\ Gated
  BY DEF Tokens, Ownership, Gated, OnlyOwnersVerified, SupportReportsOnlyToOwners
<1>4. Consent
  BY DEF Consent, ConfirmedByItsOwnLink
<1>5. Limited
  <2> SUFFICES ASSUME NEW e \in Emails
               PROVE  /\ IsFiniteSet(Taken(e))
                      /\ Cardinality(Taken(e)) < ProLimit + Cardinality(Handlers)
    BY DEF Limited
  <2>1. Taken(e) = {}
    BY DEF Taken, EnabledOf, HeldBy, Keys, Actors
  <2>2. Cardinality(Handlers) \in Nat
    BY HandlersFinite, FS_CardinalityType
  <2> QED BY <2>1, <2>2, FS_EmptySet
<1> QED BY <1>1, <1>2, <1>3, <1>4, <1>5 DEF Inv

\* Every step keeps the inductive invariant.
LEMMA InvInductive == Inv /\ [Next]_vars => Inv'
BY TypeInductive, OwnershipInductive, ConsentInductive, LimitInductive DEF Inv

\* The inductive invariant holds in every reachable state.
LEMMA Invariance == Spec => []Inv
BY InvInit, InvInductive, PTL DEF Spec

\* Every variable keeps its type.
THEOREM SubscriptionTypes == Spec => []TypeOK
<1>1. Inv => TypeOK
  BY DEF Inv
<1> QED BY Invariance, <1>1, PTL

\* mark_ownership_verified marks proven owners only, although it writes by id
\* what a check of an older row has found.
THEOREM OwnershipTheorem == Spec => []OnlyOwnersVerified
<1>1. Inv => OnlyOwnersVerified
  BY DEF Inv, Ownership
<1> QED BY Invariance, <1>1, PTL

\* send_subscription_report and send_subscription_alert_report write to proven
\* owners on the support plan, although they ask before they send.
THEOREM SupportReportsTheorem == Spec => []SupportReportsOnlyToOwners
<1>1. Inv => SupportReportsOnlyToOwners
  BY DEF Inv, Gated
<1> QED BY Invariance, <1>1, PTL

\* A confirmed row was confirmed by the link that it holds now.
THEOREM ConfirmationTheorem == Spec => []ConfirmedByItsOwnLink
<1>1. Inv => ConfirmedByItsOwnLink
  BY DEF Inv, Consent
<1> QED BY Invariance, <1>1, PTL

\* Concurrent requests overrun the limit by fewer domains than there are threads.
THEOREM PlanLimitTheorem == Spec => []PlanLimitOvershoot
<1>1. ASSUME Inv PROVE PlanLimitOvershoot
  <2> SUFFICES ASSUME NEW e \in Emails
               PROVE  Cardinality(EnabledOf(e)) < ProLimit + Cardinality(Handlers)
    BY DEF PlanLimitOvershoot
  <2>1. IsFiniteSet(Taken(e)) /\ Cardinality(Taken(e)) < ProLimit + Cardinality(Handlers)
    BY <1>1 DEF Inv, Limited
  <2>2. EnabledOf(e) \subseteq Taken(e)
    BY DEF Taken
  <2>3. /\ Cardinality(EnabledOf(e)) <= Cardinality(Taken(e))
        /\ Cardinality(EnabledOf(e)) \in Nat /\ Cardinality(Taken(e)) \in Nat
        /\ Cardinality(Handlers) \in Nat
    BY <2>1, <2>2, HandlersFinite, FS_Subset, FS_CardinalityType
  <2> QED BY <2>1, <2>3, SubscriptionsAssumption
<1> QED BY Invariance, <1>1, PTL

(***************************************************************************)
(* Whose domains are scanned.  A row of the monitored domains that belongs *)
(* to the subscriptions was written for one that somebody had confirmed,   *)
(* and a thread that writes back the row it has read knew it as such.      *)
(***************************************************************************)
Asked == {TargetOf(k) : k \in Consented}

Rewritten(a) == pc[a] \in {"disabling", "patching"} /\ copy[a].notes = "subscription"

DomainsAsked ==
  /\ \A t \in Targets : domain[t].notes = "subscription" => t \in Asked
  /\ \A a \in Actors : Rewritten(a) => TargetOf(key[a]) \in Asked

\* No clicked link is forgotten.
LEMMA AskedGrows ==
  ASSUME TypeOK, [Next]_vars
  PROVE  Asked \subseteq Asked'
<1>1. clicked \subseteq clicked' /\ links' \in {links, links + 1}
  <2> USE DEF issued, world
  <2>1. ASSUME NEW a \in Actors, ActorStep(a) \/ Fail(a)
        PROVE  clicked' = clicked /\ links' \in {links, links + 1}
    BY <2>1 DEF ActorStep, UpsertPending, CheckChallenge, MarkVerified, CheckOrphan,
         FindDomain, LoadDomain, DisableDomain, UpsertDomain, ScheduleScan, PatchDomain, Fail
  <2>2. ASSUME NEW a \in Handlers, NEW k \in Keys, Request(a, k)
        PROVE  UNCHANGED <<clicked, links>>
    BY <2>2 DEF Request, CheckPlanLimit, ReadChallenge, Disable, RunNow, LoadPatch
  <2>3. ASSUME NEW k \in Keys, NEW link \in 1 .. links, Confirm(k, link)
        PROVE  clicked \subseteq clicked' /\ links' = links
    BY <2>3 DEF Confirm
  <2>4. ASSUME NEW k \in Keys, CleanupUnconfirmed(k) \/ BeginChallenge(k) \/ Publish(k)
        PROVE  UNCHANGED <<clicked, links>>
    BY <2>4 DEF CleanupUnconfirmed, BeginChallenge, Publish
  <2>5. ASSUME NEW t \in Targets, NEW enabled \in BOOLEAN, AdminUpsert(t, enabled)
        PROVE  UNCHANGED <<clicked, links>>
    BY <2>5 DEF AdminUpsert
  <2>6. CASE TickStep
    BY <2>6 DEF TickStep, StartTick, ReadDue, EndTick, Reconcile, TakeDue
  <2>7. CASE \/ \E j \in jobs : GateReport(j) \/ SendFailure(j)
             \/ SendReport \/ GateAlert \/ SendAlert
    BY <2>7 DEF GateReport, SendFailure, SendReport, GateAlert, SendAlert
  <2>8. CASE UNCHANGED vars
    BY <2>8 DEF vars
  <2> QED BY <2>1, <2>2, <2>3, <2>4, <2>5, <2>6, <2>7, <2>8 DEF Next
<1>2. links \in Nat
  BY SubscriptionsAssumption DEF TypeOK
<1>3. \A link \in 1 .. links : link \in 1 .. links'
  BY <1>1, <1>2
<1> QED BY <1>1, <1>3 DEF Asked, Consented, TargetOf

\* Every step writes a row for the subscriptions only where one was confirmed.
LEMMA DomainsInductive ==
  ASSUME TypeOK, Busy, Consent, DomainsAsked, [Next]_vars
  PROVE  DomainsAsked'
<1> USE DEF Goto, tables, issued, world, local, ticks, work
<1>a. Asked \subseteq Asked'
  BY AskedGrows
<1>b. domain \in [Targets -> Domain] /\ pc \in [Actors -> Pcs] /\ copy \in [Actors -> Domain]
      /\ key \in [Actors -> Keys \union {NoKey}]
  BY DEF TypeOK
<1>c. \A a \in Actors : key[a] \in Keys => TargetOf(key[a]) \in Targets
  BY DEF Keys, TargetOf
<1>d. \A a \in Actors : pc[a] \notin {"idle", "reconciling", "processing"} => key[a] \in Keys
  BY DEF Busy
<1> DEFINE RowsKept == \A t \in Targets : domain'[t].notes = "subscription" =>
                         domain[t].notes = "subscription" \/ t \in Asked
           ThreadsKept == \A h \in Actors : Rewritten(h)' =>
                            \/ Rewritten(h) /\ key'[h] = key[h]
                            \/ TargetOf(key'[h]) \in Asked
<1>e. ASSUME RowsKept, ThreadsKept PROVE DomainsAsked'
  BY <1>a, <1>e DEF DomainsAsked
<1>f. ASSUME domain' = domain PROVE RowsKept
  BY <1>f
<1>g. ASSUME NEW a \in Actors, Done(a) PROVE ThreadsKept
  BY <1>b, <1>g DEF Done, Rewritten
\* Any other statement of a thread takes it nowhere near a copy.
<1>h. ASSUME NEW a \in Actors, NEW to \in Pcs \ {"disabling", "patching"},
             pc' = [pc EXCEPT ![a] = to], copy' = copy,
             \A h \in Actors : h # a => key'[h] = key[h]
      PROVE  ThreadsKept
  BY <1>b, <1>h DEF Rewritten
<1>i. ASSUME UNCHANGED <<pc, key, copy>> PROVE ThreadsKept
  BY <1>i DEF Rewritten
<1> HIDE DEF RowsKept, ThreadsKept
<1>1. ASSUME NEW a \in Actors, ActorStep(a) PROVE RowsKept /\ ThreadsKept
  <2>1. CASE UpsertPending(a) \/ MarkVerified(a) \/ ScheduleScan(a)
    BY <1>f, <1>g, <2>1 DEF UpsertPending, MarkVerified, ScheduleScan
  <2>2. CASE CheckChallenge(a)
    BY <1>f, <1>g, <1>h, <2>2 DEF CheckChallenge, Pcs
  <2>3. CASE CheckOrphan(a)
    BY <1>f, <1>g, <1>h, <2>3 DEF CheckOrphan, Pcs
  <2>4. CASE FindDomain(a)
    BY <1>f, <1>g, <1>h, <2>4 DEF FindDomain, Pcs
  <2>5. CASE LoadDomain(a)
    <3>1. TargetOf(key[a]) \in Targets
      BY <1>c, <1>d, <2>5 DEF LoadDomain
    <3>2. Rewritten(a)' => TargetOf(key'[a]) \in Asked
      BY <1>b, <2>5, <3>1 DEF LoadDomain, DomainsAsked, Rewritten
    <3>3. \A h \in Actors : h # a => Rewritten(h)' = Rewritten(h) /\ key'[h] = key[h]
      BY <1>b, <2>5 DEF LoadDomain, Rewritten
    <3> QED BY <1>f, <2>5, <3>2, <3>3 DEF LoadDomain, ThreadsKept
  <2>6. CASE DisableDomain(a)
    <3>1. TargetOf(key[a]) \in Targets
      BY <1>c, <1>d, <2>6 DEF DisableDomain
    <3>2. domain'[TargetOf(key[a])].notes = copy[a].notes
      BY <1>b, <2>6, <3>1 DEF DisableDomain, Domain
    <3>3. copy[a].notes = "subscription" => TargetOf(key[a]) \in Asked
      BY <2>6 DEF DisableDomain, DomainsAsked, Rewritten
    <3>4. RowsKept
      BY <1>b, <2>6, <3>2, <3>3 DEF DisableDomain, RowsKept
    <3> QED BY <1>g, <2>6, <3>4 DEF DisableDomain
  <2>7. CASE UpsertDomain(a)
    <3>1. TargetOf(key[a]) \in Asked
      BY <2>7 DEF UpsertDomain, Consent, Asked
    <3>2. RowsKept
      BY <1>b, <2>7, <3>1 DEF UpsertDomain, RowsKept
    <3> QED BY <1>h, <2>7, <3>2 DEF UpsertDomain, Pcs
  <2>8. CASE PatchDomain(a)
    <3>1. PICK enabled \in BOOLEAN, notes \in {copy[a].notes, "own"} :
            domain' = [domain EXCEPT ![TargetOf(key[a])] = [enabled |-> enabled, notes |-> notes]]
      BY <2>8 DEF PatchDomain
    <3>2. copy[a].notes = "subscription" => TargetOf(key[a]) \in Asked
      BY <2>8 DEF PatchDomain, DomainsAsked, Rewritten
    <3>3. RowsKept
      BY <1>b, <3>1, <3>2 DEF RowsKept
    <3> QED BY <1>g, <2>8, <3>3 DEF PatchDomain
  <2> QED BY <1>1, <2>1, <2>2, <2>3, <2>4, <2>5, <2>6, <2>7, <2>8 DEF ActorStep
<1>2. ASSUME NEW a \in Actors, Fail(a) PROVE RowsKept /\ ThreadsKept
  <2>1. ThreadsKept
    BY <1>b, <1>2 DEF Fail, ThreadsKept, Rewritten
  <2> QED BY <1>2, <1>f, <2>1 DEF Fail
<1>3. ASSUME NEW a \in Handlers, NEW k \in Keys, Request(a, k) PROVE RowsKept /\ ThreadsKept
  <2>1. a \in Actors
    BY DEF Actors
  <2>2. CASE \E plan \in Plans : CheckPlanLimit(a, k, plan)
    BY <1>b, <1>f, <1>h, <2>1, <2>2 DEF CheckPlanLimit, Pcs
  <2>3. CASE ReadChallenge(a, k) \/ Disable(a, k) \/ RunNow(a, k)
    BY <1>b, <1>f, <1>h, <2>1, <2>3 DEF ReadChallenge, Disable, RunNow, Pcs
  <2>4. CASE LoadPatch(a, k)
    <3>1. TargetOf(k) \in Targets
      BY DEF Keys, TargetOf
    <3>2. Rewritten(a)' => TargetOf(key'[a]) \in Asked
      BY <1>b, <2>1, <2>4, <3>1 DEF LoadPatch, DomainsAsked, Rewritten
    <3>3. \A h \in Actors : h # a => Rewritten(h)' = Rewritten(h) /\ key'[h] = key[h]
      BY <1>b, <2>4 DEF LoadPatch, Rewritten
    <3> QED BY <1>f, <2>1, <2>4, <3>2, <3>3 DEF LoadPatch, ThreadsKept
  <2> QED BY <1>3, <2>2, <2>3, <2>4 DEF Request
<1>4. ASSUME NEW k \in Keys,
             \/ \E link \in 1 .. links : Confirm(k, link)
             \/ CleanupUnconfirmed(k) \/ BeginChallenge(k) \/ Publish(k)
      PROVE  RowsKept /\ ThreadsKept
  BY <1>4, <1>f, <1>i DEF Confirm, CleanupUnconfirmed, BeginChallenge, Publish
<1>5. ASSUME NEW t \in Targets, NEW enabled \in BOOLEAN, AdminUpsert(t, enabled)
      PROVE  RowsKept /\ ThreadsKept
  <2>1. RowsKept
    BY <1>b, <1>5 DEF AdminUpsert, RowsKept
  <2> QED BY <1>5, <1>i, <2>1 DEF AdminUpsert
<1>6. ASSUME TickStep PROVE RowsKept /\ ThreadsKept
  <2>1. Scheduler \in Actors
    BY DEF Actors
  <2>2. CASE StartTick \/ ReadDue \/ EndTick
    BY <1>f, <1>h, <2>1, <2>2 DEF StartTick, ReadDue, EndTick, Pcs
  <2>3. CASE \E t \in Targets : Reconcile(t)
    <3>1. PICK t \in Targets : Reconcile(t)
      BY <2>3
    <3>2. CASE ActiveForTarget(t)
      BY <1>f, <1>i, <3>1, <3>2 DEF Reconcile
    <3>3. CASE ~ActiveForTarget(t)
      BY <1>b, <1>f, <1>h, <2>1, <3>1, <3>3 DEF Reconcile, Pcs
    <3> QED BY <3>2, <3>3
  <2>4. CASE \E j \in due : TakeDue(j)
    BY <1>b, <1>f, <1>h, <2>1, <2>4 DEF TakeDue, Pcs
  <2> QED BY <1>6, <2>2, <2>3, <2>4 DEF TickStep
<1>7. ASSUME \/ \E j \in jobs : GateReport(j) \/ SendFailure(j)
             \/ SendReport \/ GateAlert \/ SendAlert
      PROVE  RowsKept /\ ThreadsKept
  BY <1>7, <1>f, <1>i DEF GateReport, SendFailure, SendReport, GateAlert, SendAlert
<1>8. CASE UNCHANGED vars
  BY <1>8, <1>e, <1>f, <1>i DEF vars
<1> QED BY <1>1, <1>2, <1>3, <1>4, <1>5, <1>6, <1>7, <1>8, <1>e DEF Next

\* send_subscription_report and its siblings write only to addresses that have
\* asked for it, and process_subscriptions and run_subscription_now put only hosts
\* on the schedule that somebody has.
THEOREM ConsentTheorem == Spec => []OnlyAfterConsent
<1>1. Init => DomainsAsked
  BY DEF Init, DomainsAsked, Rewritten, NoDomain
<1>2. Inv /\ DomainsAsked /\ [Next]_vars => DomainsAsked'
  BY DomainsInductive DEF Inv
<1>3. Inv /\ DomainsAsked => OnlyAfterConsent
  BY DEF Inv, Consent, DomainsAsked, Asked, Consented, OnlyAfterConsent
<1> QED BY Invariance, <1>1, <1>2, <1>3, PTL DEF Spec

=============================================================================
