--------------------------- MODULE DeliveryProofs ---------------------------
(***************************************************************************)
(* What Delivery promises to the subscribers of a domain, for any number   *)
(* of subscriptions, workers, jobs and faults, any finite reports and any  *)
(* cooldowns.                                                              *)
(***************************************************************************)
EXTENDS Delivery, WellFoundedInduction, FiniteSetTheorems, SequenceTheorems, TLAPS

(***************************************************************************)
(* Types.                                                                  *)
(***************************************************************************)

Rep == Reports \union {NoReport}

\* The events a scan may have, and the keys of the cooldowns.
AllEvents ==
  {ScanFailed} \union UNION {EventsOf(Diff(r, b)) : r \in Reports, b \in Rep}
OwnTypes ==
  {"last_sent", "weekly_report", "noncritical_digest", "scan_failed", "alert_batch"}
CooldownKeys == {AlertKey(e) : e \in AllEvents} \union {Key(t) : t \in OwnTypes}

SnapshotRow == [id : Nat, job : Nat, at : Nat, report : Reports]
EventRow == [job : Nat, at : Nat, event : AllEvents]
MailRow == [kind : Kinds, sub : Subs, job : Nat, at : Nat, quiet : BOOLEAN,
            rows : SUBSET EventRow]
WorkerState ==
  [phase : Phases, job : Nat, id : Nat, report : Rep, base : Rep,
   todo : Seq(CooldownKeys), then : Phases]

Typed ==
  /\ now \in 0 .. MaxTime
  /\ jobs \in Seq(Subs \union {NoSub})
  /\ worker \in [Workers -> WorkerState]
  /\ lastId \in Nat
  /\ snapshots \subseteq SnapshotRow
  /\ lost \subseteq SnapshotRow
  /\ events \subseteq EventRow
  /\ delivered \subseteq Subs \X DOMAIN jobs
  /\ marks \subseteq [sub : Subs, key : CooldownKeys, at : Nat]
  /\ mails \in Seq(MailRow)
  /\ faults \in 0 .. MaxFaults

\* What a worker knows at each of its statements.
Scanned == {"snapshot", "inserted", "baseline", "events", "report", "reported",
            "alert", "digest"}
Knows(w) ==
  /\ Busy(w) => worker[w].job \in DOMAIN jobs
  /\ worker[w].phase \in {"scan", "failing", "failed"} => worker[w].report = NoReport
  /\ worker[w].phase \in Scanned => worker[w].report \in Reports
  /\ At(w, "reported") =>
       /\ worker[w].todo = <<Key("last_sent"), Key("weekly_report")>>
       /\ worker[w].then = "alert"
  /\ At(w, "record") =>
       /\ worker[w].todo # <<>>
       /\ worker[w].then \in {"alert", "digest", "done"}
       /\ worker[w].then # "done" => worker[w].report \in Reports
  /\ worker[w].phase \in {"reported", "record", "digest"} => Sub(w) \in Subs

Phased == \A w \in Workers : Knows(w)

\* Every job has a row in scans.
Aligned == scans \in Seq(Statuses) /\ Len(scans) = Len(jobs)

\* The snapshots that were committed, but for those deleted by age.
Taken == snapshots \union lost

\* Rows are of the past, and a subscription has one mark for a key.
Dated ==
  /\ \A x \in Taken \union events : x.job \in DOMAIN jobs /\ x.at <= now
  /\ \A m, n \in marks : m.sub = n.sub /\ m.key = n.key => m = n
  /\ \A m \in marks : m.at <= now

\* A domain has one snapshot of a job, and later ones have larger ids.
Series ==
  /\ \A x \in Taken : x.id <= lastId
  /\ \A x, y \in snapshots : x.id = y.id \/ x.job = y.job => x = y
  /\ \A x, y \in Taken : x.id < y.id => x.at <= y.at

\* A row that is not committed yet has a number and a job of its own, unless
\* it renews a snapshot; those with larger numbers are of the same moment.
Renewed(w) == \E x \in snapshots : x.id = worker[w].id
Pending ==
  /\ \A w \in Workers : At(w, "inserted") =>
       /\ worker[w].id <= lastId
       /\ \A x \in snapshots : x.id = worker[w].id <=> x.job = worker[w].job
       /\ Renewed(w) \/ \A x \in Taken : x.id > worker[w].id => x.at = now
  /\ \A v, w \in Workers : v # w /\ At(v, "inserted") /\ At(w, "inserted") =>
       worker[v].id # worker[w].id /\ worker[v].job # worker[w].job

WellFormed == Typed /\ Phased /\ Aligned /\ Dated /\ Series /\ Pending

(***************************************************************************)
(* What the stores remember of the mails.                                  *)
(***************************************************************************)

\* Behind every mark, and behind every key that is still to be written, is a
\* mail: the clock stands while a worker records.
Recording(w) == worker[w].phase \in {"reported", "record"}
MarksTold ==
  /\ \A m \in marks : \E i \in DOMAIN mails :
       mails[i].sub = m.sub /\ mails[i].at = m.at /\ Told(mails[i], m.key)
  /\ \A w \in Workers : Recording(w) =>
       \A k \in DOMAIN worker[w].todo : \E i \in DOMAIN mails :
         /\ mails[i].sub = Sub(w) /\ mails[i].at = now
         /\ Told(mails[i], worker[w].todo[k])

\* Jobs that run beside each other are known to overlap.
Overlaps ==
  \A v, w \in Workers :
    v # w /\ Busy(v) /\ Busy(w) => worker[v].job \in overlapped

\* The worker that sent the mail is about to write the key, or the
\* subscription has a mark at least as late as the mail.
KeyRecorded(i, key) ==
  \/ \E w \in Workers :
       /\ Recording(w) /\ worker[w].job = mails[i].job
       /\ Sub(w) = mails[i].sub /\ mails[i].at = now
       /\ \E k \in DOMAIN worker[w].todo : worker[w].todo[k] = key
  \/ \E m \in marks :
       m.sub = mails[i].sub /\ m.key = key /\ mails[i].at <= m.at

DeliveryRecorded(i) ==
  \/ \E w \in Workers :
       /\ At(w, "reported") /\ worker[w].job = mails[i].job
       /\ Sub(w) = mails[i].sub
  \/ <<mails[i].sub, mails[i].job>> \in delivered

Recorded ==
  \A i \in DOMAIN mails : mails[i].job \notin troubled \union overlapped =>
    /\ mails[i].kind = "report" =>
         KeyRecorded(i, Key("weekly_report")) /\ DeliveryRecorded(i)
    /\ mails[i].kind = "digest" => KeyRecorded(i, Key("noncritical_digest"))

\* A digest tells of the past.
DigestsDated ==
  \A i \in DOMAIN mails : mails[i].kind = "digest" =>
    \A row \in mails[i].rows : row.at <= mails[i].at

\* Once a worker is past the alert, its critical events are answered.
PastAlert(w) ==
  \/ worker[w].phase \in {"digest", "done"}
  \/ At(w, "record") /\ worker[w].then \in {"digest", "done"}
AnswerTo(w, x) ==
  \E i \in DOMAIN mails :
    /\ mails[i].sub = Sub(w) /\ mails[i].kind = "alert"
    /\ \/ x.at - mails[i].at < BatchCooldown
       \/ /\ x.at - mails[i].at < DayCooldown
          /\ \E y \in mails[i].rows : SameCode(y.event, x.event)
Answered ==
  \A w \in Workers :
    /\ PastAlert(w) /\ worker[w].report # NoReport
    /\ Sub(w) \in Pro \intersect Owned
    /\ worker[w].job \notin troubled \union overlapped
    => \A x \in events :
         x.job = worker[w].job /\ x.event \in Of(Found(w), "critical") =>
           AnswerTo(w, x)

(***************************************************************************)
(* What the events say of the snapshots.                                   *)
(***************************************************************************)

\* Rows that were overtaken before they were committed, or deleted with the
\* archive, are of blurred jobs.
Raced ==
  /\ \A x \in lost : x.job \in blurred
  /\ \A v, w \in Workers : v # w /\ At(v, "inserted") /\ At(w, "inserted") =>
       worker[w].job \in blurred
  /\ \A w \in Workers : At(w, "inserted") =>
       \/ Renewed(w)
       \/ \A x \in Taken : x.id > worker[w].id =>
            x.job \in blurred /\ worker[w].job \in blurred

\* A job that is not blurred has one worker and, before its save, no snapshot.
HandledOnce ==
  \A w \in Workers : Busy(w) /\ worker[w].job \notin blurred =>
    /\ \A v \in Workers \ {w} : Busy(v) => worker[v].job # worker[w].job
    /\ worker[w].phase \in {"scan", "snapshot", "inserted", "failing"} =>
         \A x \in snapshots : x.job # worker[w].job

\* p is the snapshot that latest_snapshot returns for a snapshot with this id.
Previous(p, id) ==
  p \in snapshots /\ p.id < id /\ \A q \in Taken : q.id < id => q.id <= p.id

\* Between the save and the events a worker's snapshot is as it left it, and
\* so is the one it was compared with.
Compared ==
  \A w \in Workers : Comparing(w) /\ worker[w].job \notin blurred =>
    /\ \E z \in snapshots :
         z.job = worker[w].job /\ z.id = worker[w].id
           /\ z.report = worker[w].report /\ z.at = now
    /\ At(w, "events") =>
         \A p \in snapshots : Previous(p, worker[w].id) /\ p.job \notin blurred =>
           worker[w].base = p.report

Announced(z, f) ==
  \E e \in events :
    /\ e.job = z.job /\ e.at = z.at
    /\ e.event.type \in {"critical_added", "high_added"} /\ e.event.finding = f

\* What a snapshot has and the one before it has not is announced.
Clear(z) ==
  z.job \notin blurred /\ \A w \in Workers : Comparing(w) => worker[w].job # z.job
StepsAnnounced ==
  \A p, z \in snapshots : Clear(z) /\ Previous(p, z.id) /\ p.job \notin blurred =>
    \A f \in Serious(z.report.findings) \ p.report.findings : Announced(z, f)

(***************************************************************************)
(* Numbers and sequences.                                                  *)
(***************************************************************************)

\* A set of naturals has a least element.
LEMMA Least ==
  ASSUME NEW S \in SUBSET Nat, S # {}
  PROVE  \E x \in S : \A y \in S : x <= y
<1>1. PICK x \in S : \A y \in S : ~(<<y, x>> \in OpToRel(<, Nat))
  BY NatLessThanWellFounded, WFMin
<1>2. \A y \in S : <<y, x>> \in Nat \X Nat /\ ~(y < x)
  BY <1>1 DEF OpToRel
<1>3. ASSUME NEW y \in S PROVE x <= y
  <2>1. x \in Nat /\ y \in Nat
    OBVIOUS
  <2>2. ~(y < x)
    BY <1>2
  <2> QED BY <2>1, <2>2
<1> QED BY <1>3

\* A bounded set of naturals has a greatest element.
LEMMA Greatest ==
  ASSUME NEW S \in SUBSET Nat, S # {}, NEW n \in Nat, \A x \in S : x <= n
  PROVE  \E x \in S : \A y \in S : y <= x
<1> DEFINE T == {n - x : x \in S}
<1>1. T \in SUBSET Nat
  <2>1. ASSUME NEW x \in S PROVE n - x \in Nat
    <3>1. x \in Nat /\ x <= n
      OBVIOUS
    <3> QED BY <3>1
  <2> QED BY <2>1
<1>2. T # {}
  OBVIOUS
<1>3. PICK d \in T : \A y \in T : d <= y
  <2> HIDE DEF T
  <2> QED BY <1>1, <1>2, Least
<1>4. PICK x \in S : d = n - x
  BY <1>3
<1>5. ASSUME NEW y \in S PROVE y <= x
  <2>1. n - x <= n - y
    BY <1>3, <1>4
  <2>2. x \in Nat /\ y \in Nat
    OBVIOUS
  <2> QED BY <2>1, <2>2
<1> QED BY <1>5

\* Latest returns the row with the largest id.
LEMMA LatestRow ==
  ASSUME NEW S, S # {}, NEW n \in Nat, \A x \in S : x.id \in Nat /\ x.id <= n
  PROVE  Latest(S) \in S /\ \A x \in S : x.id <= Latest(S).id
<1> DEFINE ids == {x.id : x \in S}
<1>1. ids \in SUBSET Nat /\ ids # {} /\ \A i \in ids : i <= n
  OBVIOUS
<1>2. PICK i \in ids : \A j \in ids : j <= i
  <2> HIDE DEF ids
  <2> QED BY <1>1, Greatest
<1>3. \E x \in S : \A y \in S : y.id <= x.id
  BY <1>2
<1> QED BY <1>3 DEF Latest

(***************************************************************************)
(* The events of a comparison.                                             *)
(***************************************************************************)

\* The findings a comparison names are those of the two reports.
LEMMA DiffFindings ==
  ASSUME NEW r \in Reports, NEW b \in Rep
  PROVE  LET d == Diff(r, b) IN
         /\ d.added \subseteq r.findings
         /\ b \in Reports =>
              d.added = r.findings \ b.findings /\ d.resolved \subseteq b.findings
         /\ b = NoReport => d.added = r.findings /\ d.resolved = {}
BY ReportsAssumption DEF Diff, Unchanged

\* A comparison has finitely many events.
LEMMA FiniteEvents ==
  ASSUME NEW r \in Reports, NEW b \in Rep
  PROVE  IsFiniteSet(EventsOf(Diff(r, b)))
<1> DEFINE d == Diff(r, b)
<1>1. IsFiniteSet(d.added) /\ IsFiniteSet(d.resolved)
  <2>1. IsFiniteSet(r.findings) /\ (b \in Reports => IsFiniteSet(b.findings))
    BY ReportsAssumption
  <2>2. IsFiniteSet({})
    BY FS_EmptySet
  <2> QED BY <2>1, <2>2, DiffFindings, FS_Subset DEF Rep
<1> HIDE DEF d
<1>2. ASSUME NEW S, IsFiniteSet(S), NEW t, NEW s PROVE IsFiniteSet(About(t, s, S))
  <2> DEFINE named(f) == [Event(t, s) EXCEPT !.finding = f]
             event == [f \in S |-> named(f)]
  <2>1. About(t, s, S) = {named(f) : f \in S}
    BY DEF About
  <2> HIDE DEF named
  <2>2. event \in Surjection(S, About(t, s, S))
    BY <2>1 DEF Surjection
  <2> QED BY <1>2, <2>2, FS_Surjection
<1>3. ASSUME NEW c, NEW e PROVE IsFiniteSet(EventIf(c, e))
  BY FS_EmptySet, FS_Singleton DEF EventIf
<1>4. ASSUME NEW S, IsFiniteSet(S), NEW s PROVE IsFiniteSet(Of(S, s))
  BY <1>4, FS_Subset DEF Of
<1>5. /\ IsFiniteSet(Of(d.added, "critical")) /\ IsFiniteSet(Of(d.added, "high"))
      /\ IsFiniteSet(Serious(d.resolved))
  BY <1>1, <1>4, FS_Union DEF Serious
<1>6. /\ IsFiniteSet(About("critical_added", "critical", Of(d.added, "critical")))
      /\ IsFiniteSet(About("high_added", "high", Of(d.added, "high")))
      /\ IsFiniteSet(About("finding_resolved", "info", Serious(d.resolved)))
  BY <1>2, <1>5
<1>7. IsFiniteSet(EventsOf(d))
  BY <1>3, <1>6, FS_Union DEF EventsOf
<1> QED BY <1>7 DEF d

\* A serious finding that is new has an event.
LEMMA AddedHasEvent ==
  ASSUME NEW r \in Reports, NEW b \in Reports,
         NEW f \in Serious(r.findings) \ b.findings
  PROVE  \E e \in EventsOf(Diff(r, b)) :
           e.type \in {"critical_added", "high_added"} /\ e.finding = f
<1> DEFINE d == Diff(r, b)
<1>1. d.added = r.findings \ b.findings
  BY DiffFindings DEF Rep
<1> HIDE DEF d
<1>2. f \in Of(d.added, "critical") \/ f \in Of(d.added, "high")
  BY <1>1 DEF Serious, Of
<1>3. CASE f \in Of(d.added, "critical")
  <2> DEFINE e == [Event("critical_added", "critical") EXCEPT !.finding = f]
  <2>1. e \in EventsOf(d)
    BY <1>3 DEF EventsOf, About
  <2>2. e.type = "critical_added" /\ e.finding = f
    BY DEF Event
  <2> QED BY <2>1, <2>2 DEF d
<1>4. CASE f \in Of(d.added, "high")
  <2> DEFINE e == [Event("high_added", "high") EXCEPT !.finding = f]
  <2>1. e \in EventsOf(d)
    BY <1>4 DEF EventsOf, About
  <2>2. e.type = "high_added" /\ e.finding = f
    BY DEF Event
  <2> QED BY <2>1, <2>2 DEF d
<1> QED BY <1>2, <1>3, <1>4

\* The critical events of a comparison, and the expiry of any.
LEMMA CriticalEvents ==
  ASSUME NEW r \in Reports, NEW b \in Rep, NEW e \in EventsOf(Diff(r, b))
  PROVE  /\ e.severity = "critical" =>
              e.type \in {"critical_added", "certificate_expired"}
         /\ e.type = "certificate_expired" => e.finding = NoFinding
BY DEF EventsOf, EventIf, About, Event

\* Events with the same key have the same type and, where critical, code.
LEMMA SameKey ==
  ASSUME NEW e \in AllEvents, NEW x \in AllEvents, AlertKey(e) = AlertKey(x),
         x.type \in {"critical_added", "certificate_expired"}
  PROVE  SameCode(e, x)
<1>1. e.type = x.type
  BY DEF AlertKey
<1>2. CASE x.type = "critical_added"
  BY <1>1, <1>2 DEF AlertKey, SameCode
<1>3. CASE x.type = "certificate_expired"
  <2>1. ASSUME NEW y \in AllEvents, y.type = "certificate_expired"
        PROVE  y.finding = NoFinding
    <3>1. y # ScanFailed
      BY <2>1 DEF ScanFailed, Event
    <3>2. PICK r \in Reports, b \in Rep : y \in EventsOf(Diff(r, b))
      BY <3>1 DEF AllEvents
    <3> QED BY <2>1, <3>2, CriticalEvents
  <2> QED BY <1>1, <1>3, <2>1 DEF SameCode
<1> QED BY <1>2, <1>3

(***************************************************************************)
(* The operators of the worker's statements.                               *)
(***************************************************************************)

\* Append keeps what was there and adds one place.
LEMMA Appended ==
  ASSUME NEW S, NEW s \in Seq(S), NEW x \in S
  PROVE  /\ Append(s, x) \in Seq(S)
         /\ Len(s) \in Nat /\ DOMAIN s = 1 .. Len(s)
         /\ Len(s) + 1 \notin DOMAIN s
         /\ DOMAIN Append(s, x) = DOMAIN s \union {Len(s) + 1}
         /\ Append(s, x)[Len(s) + 1] = x
         /\ \A i \in DOMAIN s : Append(s, x)[i] = s[i]
<1>1. /\ Append(s, x) \in Seq(S)
      /\ Len(Append(s, x)) = Len(s) + 1
      /\ \A i \in 1 .. Len(s) : Append(s, x)[i] = s[i]
      /\ Append(s, x)[Len(s) + 1] = x
  BY AppendProperties
<1>2. /\ Len(s) \in Nat /\ DOMAIN s = 1 .. Len(s)
      /\ DOMAIN Append(s, x) = 1 .. Len(s) + 1
  BY <1>1, LenProperties
<1> QED BY <1>1, <1>2

\* Once the scan is over, what it found is a finite set of known events.
LEMMA FoundEvents ==
  ASSUME NEW w, worker[w].report \in Reports, worker[w].base \in Rep
  PROVE  Found(w) \subseteq AllEvents /\ IsFiniteSet(Found(w))
BY FiniteEvents DEF Found, AllEvents

\* An alert has one event for each key that is not cooling.
LEMMA AlertingEvents ==
  ASSUME NEW w
  PROVE  /\ Alerting(w) \subseteq Immediate(Found(w))
         /\ \A e \in Immediate(Found(w)) :
              \/ Cooling(Sub(w), AlertKey(e), DayCooldown)
              \/ \E y \in Alerting(w) : AlertKey(y) = AlertKey(e)
<1> DEFINE fresh == {e \in Immediate(Found(w)) :
                       ~Cooling(Sub(w), AlertKey(e), DayCooldown)}
           first(k) == CHOOSE e \in fresh : AlertKey(e) = k
           keys == {AlertKey(e) : e \in fresh}
<1>1. Alerting(w) = {first(k) : k \in keys}
  BY DEF Alerting
<1>2. ASSUME NEW k \in keys PROVE first(k) \in fresh /\ AlertKey(first(k)) = k
  <2> HIDE DEF fresh
  <2>1. \E e \in fresh : AlertKey(e) = k
    OBVIOUS
  <2> QED BY <2>1
<1>3. Alerting(w) \subseteq fresh
  <2> HIDE DEF fresh, first, keys
  <2> QED BY <1>1, <1>2
<1>4. ASSUME NEW e \in fresh PROVE \E y \in Alerting(w) : AlertKey(y) = AlertKey(e)
  <2>1. AlertKey(e) \in keys
    OBVIOUS
  <2> HIDE DEF fresh, first, keys
  <2> QED BY <1>1, <1>2, <2>1
<1> QED BY <1>3, <1>4

\* What is written down after an alert: the batch and the keys of its events.
LEMMA AlertOrders ==
  ASSUME NEW w, worker[w].report \in Reports, worker[w].base \in Rep,
         NEW order \in Orders(BatchMarks(w))
  PROVE  LET todo == <<Key("alert_batch")>> \o order IN
         /\ todo \in Seq(CooldownKeys) /\ todo # <<>>
         /\ \A k \in DOMAIN todo :
              \/ todo[k] = Key("alert_batch")
              \/ \E e \in Alerting(w) : todo[k] = AlertKey(e)
<1> DEFINE S == AlertKeys(w)
           todo == <<Key("alert_batch")>> \o order
<1>1. Alerting(w) \subseteq AllEvents /\ IsFiniteSet(Alerting(w))
  BY FoundEvents, AlertingEvents, FS_Subset DEF Immediate
<1>2. IsFiniteSet(S)
  <2> DEFINE key == [e \in Alerting(w) |-> AlertKey(e)]
  <2>1. S = {AlertKey(e) : e \in Alerting(w)}
    BY DEF AlertKeys
  <2>2. key \in Surjection(Alerting(w), S)
    BY <2>1 DEF Surjection
  <2> QED BY <1>1, <2>2, FS_Surjection
<1>3. S \subseteq CooldownKeys /\ Key("alert_batch") \in CooldownKeys
  BY <1>1 DEF AlertKeys, CooldownKeys, OwnTypes
<1>4. order \in [1 .. Cardinality(S) -> S] /\ Cardinality(S) \in Nat
  BY <1>2, FS_CardinalityType DEF Orders, BatchMarks
<1>5. order \in Seq(CooldownKeys) /\ Len(order) = Cardinality(S)
  BY <1>3, <1>4
<1>6. /\ todo \in Seq(CooldownKeys)
      /\ Len(todo) = Cardinality(S) + 1
      /\ \A k \in 1 .. Len(todo) :
           todo[k] = IF k = 1 THEN Key("alert_batch") ELSE order[k - 1]
  BY <1>3, <1>4, <1>5
<1>7. ASSUME NEW k \in DOMAIN todo
      PROVE  todo[k] = Key("alert_batch") \/ todo[k] \in S
  <2> HIDE DEF todo
  <2>1. k \in 1 .. Len(todo)
    BY <1>6
  <2>2. CASE k # 1
    <3>1. k - 1 \in 1 .. Cardinality(S)
      BY <1>4, <1>6, <2>1, <2>2
    <3> QED BY <1>4, <1>6, <2>1, <2>2, <3>1
  <2> QED BY <1>6, <2>1, <2>2
<1>8. todo # <<>>
  BY <1>4, <1>6
<1> QED BY <1>6, <1>7, <1>8 DEF AlertKeys

(***************************************************************************)
(* Every step keeps the types.                                             *)
(***************************************************************************)

\* The INSERT takes the next number, or the one of the row it renews.
LEMMA InsertedRow ==
  ASSUME WellFormed, NEW w \in Workers, InsertSnapshot(w)
  PROVE  \E id \in Nat :
           /\ worker' = [worker EXCEPT ![w].phase = "inserted", ![w].id = id]
           /\ \/ id = lastId + 1 /\ \A x \in snapshots : x.job # worker[w].job
              \/ \E x \in snapshots : x.job = worker[w].job /\ x.id = id
<1> DEFINE own == Own(worker[w].job)
<1>1. own = {x \in snapshots : x.job = worker[w].job} /\ lastId \in Nat
  BY DEF Own, WellFormed, Typed
<1>2. worker' = [worker EXCEPT ![w].phase = "inserted",
                               ![w].id = IF own = {} THEN lastId + 1 ELSE Latest(own).id]
  BY DEF InsertSnapshot
<1>3. CASE own = {}
  <2>1. worker' = [worker EXCEPT ![w].phase = "inserted", ![w].id = lastId + 1]
    BY <1>2, <1>3
  <2>2. \A x \in snapshots : x.job # worker[w].job
    BY <1>1, <1>3
  <2> DEFINE id == lastId + 1
  <2>3. id \in Nat
    BY <1>1
  <2>4. worker' = [worker EXCEPT ![w].phase = "inserted", ![w].id = id]
    BY <2>1
  <2> HIDE DEF id, own
  <2> QED BY <2>2, <2>3, <2>4 DEF id
<1>4. CASE own # {}
  <2>1. \A x \in own : x.id \in Nat /\ x.id <= lastId
    BY <1>1 DEF WellFormed, Typed, Series, SnapshotRow, Taken
  <2>2. Latest(own) \in own
    BY <1>1, <1>4, <2>1, LatestRow
  <2>3. worker' = [worker EXCEPT ![w].phase = "inserted", ![w].id = Latest(own).id]
    BY <1>2, <1>4
  <2> QED BY <1>1, <2>1, <2>2, <2>3
<1> QED BY <1>3, <1>4

\* The row that is committed is new, or has the number and the date it had.
LEMMA CommittedRow ==
  ASSUME WellFormed, NEW w \in Workers, CommitSnapshot(w)
  PROVE  \E row \in SnapshotRow :
           /\ row.id = worker[w].id
           /\ row.job = worker[w].job /\ row.report = worker[w].report
           /\ snapshots' = {x \in snapshots : x.job # row.job} \union {row}
           /\ worker' = [worker EXCEPT ![w].phase = "baseline"]
           /\ \/ /\ row.at = now /\ ~Renewed(w)
                 /\ \A x \in snapshots : x.id # row.id /\ x.job # row.job
              \/ \E x \in snapshots :
                   x.job = row.job /\ x.id = row.id /\ x.at = row.at
<1> DEFINE id == worker[w].id
           own == {x \in snapshots : x.id = id}
           at == IF own = {} THEN now ELSE Latest(own).at
           row == [id |-> id, job |-> worker[w].job, report |-> worker[w].report,
                   at |-> at]
<1>1. /\ id \in Nat /\ worker[w].job \in Nat /\ now \in Nat
      /\ worker[w].report \in Reports
  BY DEF WellFormed, Typed, WorkerState, Phased, Knows, CommitSnapshot, At, Scanned
<1>2. \A x \in snapshots : x.id = id <=> x.job = worker[w].job
  BY DEF WellFormed, Pending, CommitSnapshot
<1>3. own # {} => Latest(own) \in own
  BY <1>1, LatestRow
<1>4. /\ snapshots' = (snapshots \ own) \union {row}
      /\ worker' = [worker EXCEPT ![w].phase = "baseline"]
  BY DEF CommitSnapshot, Goto
<1>5. snapshots \ own = {x \in snapshots : x.job # worker[w].job}
  BY <1>2
<1>6. /\ own = {} => at = now
      /\ own # {} => \E x \in snapshots : x.id = id /\ x.at = at
  BY <1>3
<1>7. at \in Nat
  BY <1>1, <1>6 DEF WellFormed, Typed, SnapshotRow
<1>8. own = {} => ~Renewed(w) /\ \A x \in snapshots : x.id # id
  BY DEF Renewed
<1> HIDE DEF at
<1>9. /\ row \in SnapshotRow /\ row.id = id /\ row.job = worker[w].job
      /\ row.report = worker[w].report /\ row.at = at
  BY <1>1, <1>7 DEF SnapshotRow
<1> HIDE DEF row, id, own
<1> QED BY <1>2, <1>4, <1>5, <1>6, <1>8, <1>9 DEF id

\* What cleanup of the archive deletes goes from the snapshots to the lost.
LEMMA CutRows ==
  ASSUME NEW last, CleanupArchive(last)
  PROVE  /\ snapshots' \subseteq snapshots /\ events' \subseteq events
         /\ lost' \subseteq lost \union snapshots
         /\ Taken' = Taken
         /\ \A x \in snapshots : x \in snapshots' \/ x.job \in blurred'
         /\ \A x \in lost' : x \in lost \/ x.job \in blurred'
         /\ \A e \in events : e \in events' \/ \E x \in snapshots \ snapshots' : x.job = e.job
         /\ \A w \in Workers, x \in snapshots :
              At(w, "inserted") /\ x.job = worker[w].job => x \in snapshots'
<1> DEFINE dead == {j \in Deletable : j <= last}
           cut == UNION {Own(j) : j \in dead}
<1>1. /\ snapshots' = snapshots \ cut /\ lost' = lost \union cut
      /\ events' = events \ Cascade(cut)
      /\ blurred' = blurred \union {x.job : x \in cut}
      /\ \A w \in Workers : At(w, "inserted") => worker[w].job \notin dead
  BY DEF CleanupArchive
<1>2. \A x \in cut : x \in snapshots /\ x.job \in dead
  BY DEF Own
<1>3. \A e \in Cascade(cut) : \E x \in cut : x.job = e.job
  BY DEF Cascade
<1> HIDE DEF cut, dead
<1> QED BY <1>1, <1>2, <1>3 DEF Taken

\* The baseline is the report of the previous snapshot, if there is one.
LEMMA BaselineRow ==
  ASSUME WellFormed, NEW id \in Nat
  PROVE  \/ /\ LatestBefore(id) = NoReport
            /\ \A x \in snapshots : ~(x.id < id)
         \/ /\ LatestBefore(id) \in Reports
            /\ \A p \in snapshots : Previous(p, id) => LatestBefore(id) = p.report
<1> USE DEF WellFormed, Typed
<1> DEFINE earlier == {x \in snapshots : x.id < id}
<1>1. \A x \in earlier : x.id \in Nat /\ x.id <= id
  BY DEF SnapshotRow
<1>2. CASE earlier = {}
  BY <1>2 DEF LatestBefore
<1>3. CASE earlier # {}
  <2>1. Latest(earlier) \in earlier /\ \A x \in earlier : x.id <= Latest(earlier).id
    BY <1>1, <1>3, LatestRow
  <2>2. LatestBefore(id) = Latest(earlier).report
    BY <1>3 DEF LatestBefore
  <2> DEFINE z == Latest(earlier)
  <2> HIDE DEF z
  <2>3. z \in snapshots /\ z.id \in Nat /\ \A x \in earlier : x.id <= z.id
    BY <2>1 DEF z, SnapshotRow
  <2>4. ASSUME NEW p \in snapshots, Previous(p, id) PROVE p = z
    <3>1. p.id = z.id
      BY <2>1, <2>3, <2>4 DEF Previous, SnapshotRow, z, Taken
    <3> QED BY <2>3, <3>1 DEF Series
  <2>5. LatestBefore(id) = z.report
    BY <2>2 DEF z
  <2>6. z.report \in Reports
    BY <2>3 DEF SnapshotRow
  <2> QED BY <2>4, <2>5, <2>6
<1> QED BY <1>2, <1>3

(***************************************************************************)
(* What a statement that mails may do: skip, mail, or be refused.          *)
(***************************************************************************)

\* send_subscription_report
LEMMA ReportCases ==
  ASSUME WellFormed, NEW w \in Workers, SendReport(w)
  PROVE  \/ Skip(w, "alert")
         \/ \E mail \in MailRow :
              /\ mail.kind = "report" /\ mail.sub = Sub(w)
              /\ mail.job = worker[w].job /\ mail.at = now
              /\ ReportDue(w)
              /\ \/ Mailed(w, mail, "reported",
                           <<Key("last_sent"), Key("weekly_report")>>, "alert")
                 \/ Refused(w, mail, "alert")
<1> DEFINE mail == Mail("report", w,
                        Sub(w) \in Pro /\ Quiet(Diff(worker[w].report, worker[w].base)), {})
<1>1. CASE ~(Receives(w) /\ ReportDue(w))
  BY <1>1 DEF SendReport
<1>2. CASE Receives(w) /\ ReportDue(w)
  <2>1. Sub(w) \in Subs /\ worker[w].job \in Nat /\ now \in Nat
    BY <1>2 DEF Receives, WellFormed, Typed, WorkerState
  <2>2. mail \in MailRow
    BY <2>1 DEF Mail, MailRow, Kinds, Quiet
  <2>3. /\ mail.kind = "report" /\ mail.sub = Sub(w)
        /\ mail.job = worker[w].job /\ mail.at = now
    BY DEF Mail
  <2>4. \/ Mailed(w, mail, "reported",
                  <<Key("last_sent"), Key("weekly_report")>>, "alert")
        \/ Refused(w, mail, "alert")
    BY <1>2 DEF SendReport
  <2> HIDE DEF mail
  <2> QED BY <1>2, <2>2, <2>3, <2>4
<1> QED BY <1>1, <1>2

\* send_subscription_alert_report, the immediate events.
LEMMA AlertCases ==
  ASSUME WellFormed, NEW w \in Workers, SendAlert(w)
  PROVE  \/ ~MayAlert(w) /\ Skip(w, "done")
         \/ MayAlert(w) /\ Alerting(w) = {} /\ Skip(w, "digest")
         \/ \E mail \in MailRow :
              /\ mail.kind = "alert" /\ mail.sub = Sub(w)
              /\ mail.job = worker[w].job /\ mail.at = now
              /\ mail.rows = Rows(worker[w].job, Alerting(w))
              /\ MayAlert(w)
              /\ \/ \E order \in Orders(BatchMarks(w)) :
                      Mailed(w, mail, "record", <<Key("alert_batch")>> \o order, "digest")
                 \/ Refused(w, mail, "digest")
<1> DEFINE rows == Rows(worker[w].job, Alerting(w))
           mail == Mail("alert", w, FALSE, rows)
<1>1. CASE ~MayAlert(w)
  BY <1>1 DEF SendAlert
<1>2. CASE MayAlert(w) /\ Alerting(w) = {}
  BY <1>2 DEF SendAlert
<1>3. CASE MayAlert(w) /\ Alerting(w) # {}
  <2>1. /\ Sub(w) \in Subs /\ worker[w].job \in Nat /\ now \in Nat
        /\ worker[w].report \in Reports /\ worker[w].base \in Rep
    BY <1>3, SubsAssumption
       DEF MayAlert, WellFormed, Typed, Phased, Knows, WorkerState, SendAlert, At, Scanned
  <2>2. Alerting(w) \subseteq AllEvents
    BY <2>1, FoundEvents, AlertingEvents DEF Immediate
  <2>3. rows \subseteq EventRow
    BY <2>1, <2>2 DEF Rows, EventRow
  <2>4. mail \in MailRow
    BY <2>1, <2>3 DEF Mail, MailRow, Kinds
  <2>5. /\ mail.kind = "alert" /\ mail.sub = Sub(w)
        /\ mail.job = worker[w].job /\ mail.at = now /\ mail.rows = rows
    BY DEF Mail
  <2>6. \/ \E order \in Orders(BatchMarks(w)) :
             Mailed(w, mail, "record", <<Key("alert_batch")>> \o order, "digest")
        \/ Refused(w, mail, "digest")
    BY <1>3 DEF SendAlert
  <2> HIDE DEF mail
  <2> QED BY <1>3, <2>4, <2>5, <2>6
<1> QED BY <1>1, <1>2, <1>3

\* What is left for the digest: rows of the window, or of this scan.
LEMMA RecentRows ==
  ASSUME WellFormed, NEW w \in Workers, worker[w].report \in Reports
  PROVE  /\ Recent(w) \subseteq EventRow
         /\ \A x \in Recent(w) :
              x.at = now \/ (x \in events /\ now - x.at < DayCooldown)
<1>1. worker[w].job \in Nat /\ now \in Nat /\ worker[w].base \in Rep
  BY DEF WellFormed, Typed, WorkerState
<1>2. ForDigest(Found(w)) \subseteq AllEvents
  BY <1>1, FoundEvents DEF ForDigest
<1>3. /\ Rows(worker[w].job, ForDigest(Found(w))) \subseteq EventRow
      /\ \A x \in Rows(worker[w].job, ForDigest(Found(w))) : x.at = now
  BY <1>1, <1>2 DEF Rows, EventRow
<1> QED BY <1>3 DEF Recent, WellFormed, Typed

\* The rest of send_subscription_alert_report: the digest.
LEMMA DigestCases ==
  ASSUME WellFormed, NEW w \in Workers, SendDigest(w)
  PROVE  \/ Skip(w, "done")
         \/ \E mail \in MailRow :
              /\ mail.kind = "digest" /\ mail.sub = Sub(w)
              /\ mail.job = worker[w].job /\ mail.at = now
              /\ mail.rows = Recent(w)
              /\ ~Cooling(Sub(w), Key("noncritical_digest"), DayCooldown)
              /\ \/ Mailed(w, mail, "record", <<Key("noncritical_digest")>>, "done")
                 \/ Refused(w, mail, "done")
<1> DEFINE mail == Mail("digest", w, FALSE, Recent(w))
           quiet == \/ ForDigest(Found(w)) = {}
                    \/ Cooling(Sub(w), Key("noncritical_digest"), DayCooldown)
<1>1. CASE quiet
  BY <1>1 DEF SendDigest
<1>2. CASE ~quiet
  <2>1. /\ Sub(w) \in Subs /\ worker[w].job \in Nat /\ now \in Nat
        /\ worker[w].report \in Reports
    BY DEF WellFormed, Typed, Phased, Knows, WorkerState, SendDigest, At, Scanned
  <2>2. mail \in MailRow
    BY <2>1, RecentRows DEF Mail, MailRow, Kinds
  <2>3. /\ mail.kind = "digest" /\ mail.sub = Sub(w)
        /\ mail.job = worker[w].job /\ mail.at = now /\ mail.rows = Recent(w)
    BY DEF Mail
  <2>4. \/ Mailed(w, mail, "record", <<Key("noncritical_digest")>>, "done")
        \/ Refused(w, mail, "done")
    BY <1>2 DEF SendDigest
  <2> HIDE DEF mail
  <2> QED BY <1>2, <2>2, <2>3, <2>4
<1> QED BY <1>1, <1>2

\* send_subscription_failure_report
LEMMA FailureCases ==
  ASSUME WellFormed, NEW w \in Workers, SendFailure(w)
  PROVE  \/ Skip(w, "done")
         \/ \E mail \in MailRow :
              /\ mail.kind = "failure" /\ mail.sub = Sub(w)
              /\ mail.job = worker[w].job /\ mail.at = now
              /\ \/ Mailed(w, mail, "record", <<Key("scan_failed")>>, "done")
                 \/ Refused(w, mail, "done")
<1> DEFINE mail == Mail("failure", w, FALSE, {})
           quiet == \/ Sub(w) \notin Subs
                    \/ Cooling(Sub(w), Key("scan_failed"), DayCooldown)
<1>1. CASE quiet
  BY <1>1 DEF SendFailure
<1>2. CASE ~quiet
  <2>1. Sub(w) \in Subs /\ worker[w].job \in Nat /\ now \in Nat
    BY <1>2 DEF WellFormed, Typed, WorkerState
  <2>2. mail \in MailRow
    BY <2>1 DEF Mail, MailRow, Kinds
  <2>3. /\ mail.kind = "failure" /\ mail.sub = Sub(w)
        /\ mail.job = worker[w].job /\ mail.at = now
    BY DEF Mail
  <2>4. \/ Mailed(w, mail, "record", <<Key("scan_failed")>>, "done")
        \/ Refused(w, mail, "done")
    BY <1>2 DEF SendFailure
  <2> HIDE DEF mail
  <2> QED BY <2>2, <2>3, <2>4
<1> QED BY <1>1, <1>2

\* The fixed keys are keys.
LEMMA OwnKeys ==
  /\ <<Key("last_sent"), Key("weekly_report")>> \in Seq(CooldownKeys)
  /\ <<Key("noncritical_digest")>> \in Seq(CooldownKeys)
  /\ <<Key("scan_failed")>> \in Seq(CooldownKeys)
BY DEF CooldownKeys, OwnTypes

\* A skip keeps Typed.
LEMMA SkipTyped ==
  ASSUME WellFormed, NEW w \in Workers, NEW phase \in Phases, Skip(w, phase)
  PROVE  Typed'
<1> USE DEF WellFormed, Typed
<1>1. worker'[w] = [worker[w] EXCEPT !.phase = phase]
  BY DEF Skip, Goto
<1>2. worker'[w] \in WorkerState
  BY <1>1 DEF WorkerState
<1>3. worker' \in [Workers -> WorkerState]
  BY <1>2 DEF Skip, Goto
<1>4. UNCHANGED <<now, jobs, lastId, snapshots, lost, events, delivered, marks, mails, faults>>
  BY DEF Skip, stores, history
<1> QED BY <1>3, <1>4

\* A mail keeps Typed.
LEMMA MailedTyped ==
  ASSUME WellFormed, NEW w \in Workers, NEW mail \in MailRow, NEW phase \in Phases,
         NEW todo \in Seq(CooldownKeys), NEW then \in Phases,
         Mailed(w, mail, phase, todo, then)
  PROVE  Typed'
<1> USE DEF WellFormed, Typed
<1>1. worker'[w] = [worker[w] EXCEPT !.phase = phase, !.todo = todo, !.then = then]
  BY DEF Mailed
<1>2. worker'[w] \in WorkerState
  BY <1>1 DEF WorkerState
<1>3. worker' \in [Workers -> WorkerState]
  BY <1>2 DEF Mailed
<1>4. mails' \in Seq(MailRow)
  BY Appended DEF Mailed
<1>5. UNCHANGED <<now, jobs, lastId, snapshots, lost, events, delivered, marks, faults>>
  BY DEF Mailed, stores
<1> QED BY <1>3, <1>4, <1>5

\* A refusal keeps Typed.
LEMMA RefusedTyped ==
  ASSUME WellFormed, NEW w \in Workers, NEW mail \in MailRow, NEW phase \in Phases,
         Refused(w, mail, phase)
  PROVE  Typed'
<1> USE BoundsAssumption DEF WellFormed, Typed
<1>1. worker'[w] = [worker[w] EXCEPT !.phase = phase]
  BY DEF Refused, Goto
<1>2. worker'[w] \in WorkerState
  BY <1>1 DEF WorkerState
<1>3. worker' \in [Workers -> WorkerState]
  BY <1>2 DEF Refused, Goto
<1>4. mails' \in Seq(MailRow)
  <2>1. Append(mails, mail) \in Seq(MailRow)
    BY Appended
  <2> QED BY <2>1 DEF Refused
<1>5. faults' \in 0 .. MaxFaults
  BY DEF Refused
<1>6. UNCHANGED <<now, jobs, lastId, snapshots, lost, events, delivered, marks>>
  BY DEF Refused, stores
<1> QED BY <1>3, <1>4, <1>5, <1>6

\* Every step keeps Typed.
LEMMA TypedInductive ==
  ASSUME WellFormed, [Next]_vars
  PROVE  Typed'
<1> USE SubsAssumption, ReportsAssumption, BoundsAssumption DEF WellFormed, Typed
<1>1. ASSUME NEW w \in Workers, NEW s \in Subs \union {NoSub}, Take(w, s) PROVE Typed'
  <2>1. worker'[w] = [Idle EXCEPT !.phase = "scan", !.job = Len(jobs) + 1]
    BY <1>1 DEF Take, Start
  <2>2. Len(jobs) + 1 \in Nat
    BY LenProperties
  <2>3. worker'[w] \in WorkerState
    <3>1. Idle \in WorkerState
      BY EmptySeq DEF WorkerState, Idle, Phases, Rep
    <3> QED BY <2>1, <2>2, <3>1 DEF WorkerState, Phases
  <2>4. worker' \in [Workers -> WorkerState]
    BY <1>1, <2>3 DEF Take, Start
  <2>5. /\ jobs' \in Seq(Subs \union {NoSub}) /\ DOMAIN jobs \subseteq DOMAIN jobs'
        /\ faults' \in 0 .. MaxFaults
    BY <1>1, Appended DEF Take
  <2>6. UNCHANGED <<now, lastId, snapshots, lost, events, delivered, marks, mails>>
    BY <1>1 DEF Take, Start, stores
  <2> QED BY <2>4, <2>5, <2>6
<1>2. ASSUME NEW w \in Workers, NEW s \in Subs \union {NoSub}, TakeUnlocked(w, s)
      PROVE  Typed'
  <2>1. worker'[w] = [Idle EXCEPT !.phase = "scan", !.job = Len(jobs) + 1]
    BY <1>2 DEF TakeUnlocked, Start
  <2>2. Len(jobs) + 1 \in Nat
    BY LenProperties
  <2>3. worker'[w] \in WorkerState
    <3>1. Idle \in WorkerState
      BY EmptySeq DEF WorkerState, Idle, Phases, Rep
    <3> QED BY <2>1, <2>2, <3>1 DEF WorkerState, Phases
  <2>4. worker' \in [Workers -> WorkerState]
    BY <1>2, <2>3 DEF TakeUnlocked, Start
  <2>5. /\ jobs' \in Seq(Subs \union {NoSub}) /\ DOMAIN jobs \subseteq DOMAIN jobs'
        /\ faults' \in 0 .. MaxFaults
    BY <1>2, Appended DEF TakeUnlocked
  <2>6. UNCHANGED <<now, lastId, snapshots, lost, events, delivered, marks, mails>>
    BY <1>2 DEF TakeUnlocked, Start, stores
  <2> QED BY <2>4, <2>5, <2>6
<1>3. ASSUME NEW w \in Workers, NEW job \in DOMAIN jobs, TakeAgain(w, job) PROVE Typed'
  <2>1. worker'[w] = [Idle EXCEPT !.phase = "scan", !.job = job]
    BY <1>3 DEF TakeAgain, Start
  <2>2. job \in Nat
    BY LenProperties
  <2>3. worker'[w] \in WorkerState
    <3>1. Idle \in WorkerState
      BY EmptySeq DEF WorkerState, Idle, Phases, Rep
    <3> QED BY <2>1, <2>2, <3>1 DEF WorkerState, Phases
  <2>4. worker' \in [Workers -> WorkerState]
    BY <1>3, <2>3 DEF TakeAgain, Start
  <2>5. /\ jobs' \in Seq(Subs \union {NoSub}) /\ DOMAIN jobs \subseteq DOMAIN jobs'
        /\ faults' \in 0 .. MaxFaults
    BY <1>3, Appended DEF TakeAgain
  <2>6. UNCHANGED <<now, lastId, snapshots, lost, events, delivered, marks, mails>>
    BY <1>3 DEF TakeAgain, Start, stores
  <2> QED BY <2>4, <2>5, <2>6
<1>4. ASSUME NEW w \in Workers, NEW r \in Reports, ScanSucceeds(w, r) PROVE Typed'
  <2>1. worker'[w] = [worker[w] EXCEPT !.phase = "snapshot", !.report = r]
    BY <1>4 DEF ScanSucceeds
  <2>2. worker'[w] \in WorkerState
    BY <2>1 DEF WorkerState, Phases, Rep
  <2>3. worker' \in [Workers -> WorkerState]
    BY <1>4, <2>2 DEF ScanSucceeds
  <2>4. UNCHANGED <<now, jobs, lastId, snapshots, lost, events, delivered, marks, mails, faults>>
    BY <1>4 DEF ScanSucceeds, stores, history
  <2> QED BY <2>3, <2>4
<1>5. ASSUME NEW w \in Workers, ScanFails(w) PROVE Typed'
  <2>1. worker'[w] = [worker[w] EXCEPT !.phase = "failing"]
    BY <1>5 DEF ScanFails, Goto
  <2>2. worker'[w] \in WorkerState
    BY <2>1 DEF WorkerState, Phases
  <2>3. worker' \in [Workers -> WorkerState]
    BY <1>5, <2>2 DEF ScanFails, Goto
  <2>4. UNCHANGED <<now, jobs, lastId, snapshots, lost, events, delivered, marks, mails,
                    faults>>
    BY <1>5 DEF ScanFails, history
  <2> QED BY <2>3, <2>4
<1>5a. ASSUME NEW w \in Workers, SaveFailure(w) PROVE Typed'
  <2>1. worker'[w] = [worker[w] EXCEPT !.phase = "failed"]
    BY <1>5a DEF SaveFailure, Goto
  <2>2. worker'[w] \in WorkerState
    BY <2>1 DEF WorkerState, Phases
  <2>3. worker' \in [Workers -> WorkerState]
    BY <1>5a, <2>2 DEF SaveFailure, Goto
  <2>4. events' \subseteq EventRow
    <3>1. worker[w].job \in Nat /\ now \in Nat /\ ScanFailed \in AllEvents
      BY DEF WorkerState, AllEvents
    <3>2. Rows(worker[w].job, {ScanFailed}) \subseteq EventRow
      BY <3>1 DEF Rows, EventRow
    <3> QED BY <1>5a, <3>2 DEF SaveFailure
  <2>5. UNCHANGED <<now, jobs, lastId, snapshots, lost, delivered, marks, mails, faults>>
    BY <1>5a DEF SaveFailure, history
  <2> QED BY <2>3, <2>4, <2>5
<1>6. ASSUME NEW w \in Workers, InsertSnapshot(w) PROVE Typed'
  <2>1. PICK id \in Nat : worker' = [worker EXCEPT ![w].phase = "inserted", ![w].id = id]
    BY <1>6, InsertedRow
  <2>2. worker'[w] = [worker[w] EXCEPT !.phase = "inserted", !.id = id]
    BY <2>1
  <2>3. worker'[w] \in WorkerState
    BY <2>2 DEF WorkerState, Phases
  <2>4. worker' \in [Workers -> WorkerState] /\ lastId' \in Nat
    BY <1>6, <2>1, <2>3 DEF InsertSnapshot
  <2>5. UNCHANGED <<now, jobs, snapshots, lost, events, delivered, marks, mails, faults>>
    BY <1>6 DEF InsertSnapshot
  <2> QED BY <2>4, <2>5
<1>6a. ASSUME NEW w \in Workers, CommitSnapshot(w) PROVE Typed'
  <2>1. PICK row \in SnapshotRow :
          /\ snapshots' = {x \in snapshots : x.job # row.job} \union {row}
          /\ worker' = [worker EXCEPT ![w].phase = "baseline"]
    BY <1>6a, CommittedRow
  <2>2. worker'[w] = [worker[w] EXCEPT !.phase = "baseline"]
    BY <2>1
  <2>3. worker'[w] \in WorkerState
    BY <2>2 DEF WorkerState, Phases
  <2>4. worker' \in [Workers -> WorkerState] /\ snapshots' \subseteq SnapshotRow
    BY <2>1, <2>3
  <2>5. UNCHANGED <<now, jobs, lastId, lost, events, delivered, marks, mails, faults>>
    BY <1>6a DEF CommitSnapshot, history
  <2> QED BY <2>4, <2>5
<1>7. ASSUME NEW w \in Workers, ReadBaseline(w) PROVE Typed'
  <2>1. worker'[w] = [worker[w] EXCEPT !.phase = "events",
                                      !.base = LatestBefore(worker[w].id)]
    BY <1>7 DEF ReadBaseline
  <2>2. LatestBefore(worker[w].id) \in Rep
    <3>1. worker[w].id \in Nat
      BY DEF WorkerState
    <3> QED BY <3>1, BaselineRow DEF Rep
  <2>3. worker'[w] \in WorkerState
    BY <2>1, <2>2 DEF WorkerState, Phases
  <2>4. worker' \in [Workers -> WorkerState]
    BY <1>7, <2>3 DEF ReadBaseline
  <2>5. UNCHANGED <<now, jobs, lastId, snapshots, lost, events, delivered, marks, mails, faults>>
    BY <1>7 DEF ReadBaseline, stores, history
  <2> QED BY <2>4, <2>5
<1>8. ASSUME NEW w \in Workers, SaveEvents(w) PROVE Typed'
  <2>1. worker'[w] = [worker[w] EXCEPT !.phase = "report"]
    BY <1>8 DEF SaveEvents, Goto
  <2>2. worker'[w] \in WorkerState
    BY <2>1 DEF WorkerState, Phases
  <2>3. worker' \in [Workers -> WorkerState]
    BY <1>8, <2>2 DEF SaveEvents, Goto
  <2>4. events' \subseteq EventRow
    <3>1. worker[w].job \in Nat /\ now \in Nat
      BY DEF WorkerState
    <3>2. Found(w) \subseteq AllEvents
      BY <1>8, FoundEvents DEF WorkerState, Phased, Knows, SaveEvents, At, Scanned
    <3>3. Rows(worker[w].job, Found(w)) \subseteq EventRow
      BY <3>1, <3>2 DEF Rows, EventRow
    <3> QED BY <1>8, <3>3 DEF SaveEvents
  <2>5. UNCHANGED <<now, jobs, lastId, snapshots, lost, delivered, marks, mails, faults>>
    BY <1>8 DEF SaveEvents, history
  <2> QED BY <2>3, <2>4, <2>5
<1>9. ASSUME NEW w \in Workers, SendReport(w) PROVE Typed'
  BY <1>9, ReportCases, OwnKeys, SkipTyped, MailedTyped, RefusedTyped DEF Phases
<1>10. ASSUME NEW w \in Workers, MarkDelivered(w) PROVE Typed'
  <2>1. worker'[w] = [worker[w] EXCEPT !.phase = "record"]
    BY <1>10 DEF MarkDelivered, Goto
  <2>2. worker'[w] \in WorkerState
    BY <2>1 DEF WorkerState, Phases
  <2>3. worker' \in [Workers -> WorkerState]
    BY <1>10, <2>2 DEF MarkDelivered, Goto
  <2>4. delivered' \subseteq Subs \X DOMAIN jobs
    <3>1. worker[w].job \in DOMAIN jobs /\ Sub(w) \in Subs
      BY <1>10 DEF MarkDelivered, At, Phased, Knows, Busy
    <3> QED BY <1>10, <3>1 DEF MarkDelivered
  <2>5. UNCHANGED <<now, jobs, lastId, snapshots, lost, events, marks, mails, faults>>
    BY <1>10 DEF MarkDelivered, history
  <2> QED BY <2>3, <2>4, <2>5
<1>11. ASSUME NEW w \in Workers, SendAlert(w) PROVE Typed'
  <2>1. ASSUME NEW order \in Orders(BatchMarks(w))
        PROVE  <<Key("alert_batch")>> \o order \in Seq(CooldownKeys)
    <3>1. worker[w].report \in Reports /\ worker[w].base \in Rep
      BY <1>11 DEF Phased, Knows, Scanned, SendAlert, At, WorkerState
    <3> QED BY <3>1, AlertOrders
  <2> QED BY <1>11, <2>1, AlertCases, SkipTyped, MailedTyped, RefusedTyped DEF Phases
<1>12. ASSUME NEW w \in Workers, SendDigest(w) PROVE Typed'
  BY <1>12, DigestCases, OwnKeys, SkipTyped, MailedTyped, RefusedTyped DEF Phases
<1>13. ASSUME NEW w \in Workers, SendFailure(w) PROVE Typed'
  BY <1>13, FailureCases, OwnKeys, SkipTyped, MailedTyped, RefusedTyped DEF Phases
<1>14. ASSUME NEW w \in Workers, Record(w) PROVE Typed'
  <2>1. /\ worker[w].todo \in Seq(CooldownKeys) /\ worker[w].todo # <<>>
        /\ Sub(w) \in Subs /\ worker[w].then \in Phases /\ now \in Nat
    BY <1>14 DEF Record, At, Phased, Knows, WorkerState
  <2>2. Head(worker[w].todo) \in CooldownKeys /\ Tail(worker[w].todo) \in Seq(CooldownKeys)
    BY <2>1, HeadTailProperties
  <2>3. PICK p \in Phases :
          worker'[w] = [worker[w] EXCEPT !.todo = Tail(worker[w].todo), !.phase = p]
    <3>1. worker[w].phase \in Phases
      BY DEF WorkerState
    <3> QED BY <1>14, <2>1, <3>1 DEF Record
  <2>4. worker'[w] \in WorkerState
    BY <2>2, <2>3 DEF WorkerState
  <2>5. worker' \in [Workers -> WorkerState]
    BY <1>14, <2>4 DEF Record
  <2>6. marks' \subseteq [sub : Subs, key : CooldownKeys, at : Nat]
    BY <1>14, <2>1, <2>2 DEF Record, Mark
  <2>7. UNCHANGED <<now, jobs, lastId, snapshots, lost, events, delivered, mails, faults>>
    BY <1>14 DEF Record, history
  <2> QED BY <2>5, <2>6, <2>7
<1>15. ASSUME NEW w \in Workers, RecordFails(w) PROVE Typed'
  <2>1. worker'[w] = [worker[w] EXCEPT !.phase = worker[w].then, !.todo = <<>>]
    BY <1>15 DEF RecordFails
  <2>2. worker'[w] \in WorkerState
    BY <2>1, EmptySeq DEF WorkerState
  <2>3. worker' \in [Workers -> WorkerState]
    BY <1>15, <2>2 DEF RecordFails
  <2>4. faults' \in 0 .. MaxFaults
    BY <1>15 DEF RecordFails
  <2>5. UNCHANGED <<now, jobs, lastId, snapshots, lost, events, delivered, marks, mails>>
    BY <1>15 DEF RecordFails, stores
  <2> QED BY <2>3, <2>4, <2>5
<1>16. ASSUME NEW w \in Workers, Finish(w) PROVE Typed'
  <2>1. worker' = [worker EXCEPT ![w] = Idle] /\ Idle \in WorkerState
    BY <1>16, EmptySeq DEF Finish, Idle, WorkerState, Phases, Rep
  <2>2. worker' \in [Workers -> WorkerState] /\ faults' \in 0 .. MaxFaults
    BY <1>16, <2>1 DEF Finish, history
  <2>3. UNCHANGED <<now, jobs, lastId, snapshots, lost, events, delivered, marks, mails>>
    BY <1>16 DEF Finish, stores, history
  <2> QED BY <2>2, <2>3
<1>17. ASSUME NEW w \in Workers, Crash(w) PROVE Typed'
  <2>1. worker' = [worker EXCEPT ![w] = Idle] /\ Idle \in WorkerState
    BY <1>17, EmptySeq DEF Crash, Dies, Idle, WorkerState, Phases, Rep
  <2>2. worker' \in [Workers -> WorkerState] /\ faults' \in 0 .. MaxFaults
    BY <1>17, <2>1 DEF Crash, Dies
  <2>3. UNCHANGED <<now, jobs, lastId, snapshots, lost, events, delivered, marks, mails>>
    BY <1>17 DEF Crash, Dies, stores
  <2> QED BY <2>2, <2>3
<1>17a. ASSUME NEW w \in Workers, RowMissing(w) PROVE Typed'
  <2>1. worker' = [worker EXCEPT ![w] = Idle] /\ Idle \in WorkerState
    BY <1>17a, EmptySeq DEF RowMissing, Dies, Idle, WorkerState, Phases, Rep
  <2>2. UNCHANGED <<now, jobs, lastId, snapshots, lost, events, delivered, marks, mails,
                    faults>>
    BY <1>17a DEF RowMissing, Dies, stores
  <2> QED BY <2>1, <2>2
<1>18. CASE CleanupHistory
  <2>1. snapshots' \subseteq snapshots /\ lost' \subseteq lost /\ events' \subseteq events
    BY <1>18 DEF CleanupHistory
  <2>2. UNCHANGED <<now, jobs, worker, lastId, delivered, marks, mails, faults>>
    BY <1>18 DEF CleanupHistory, history
  <2> QED BY <2>1, <2>2
<1>18a. ASSUME NEW last \in DOMAIN jobs, CleanupArchive(last) PROVE Typed'
  <2>1. /\ snapshots' \subseteq snapshots /\ events' \subseteq events
        /\ lost' \subseteq lost \union snapshots
    BY <1>18a, CutRows
  <2>2. UNCHANGED <<now, jobs, worker, lastId, delivered, marks, mails, faults>>
    BY <1>18a DEF CleanupArchive
  <2> QED BY <2>1, <2>2
<1>19. CASE Tick
  BY <1>19 DEF Tick, stores, history
<1>20. CASE UNCHANGED vars
  BY <1>20 DEF vars, stores, history
<1> QED
  BY <1>1, <1>2, <1>3, <1>4, <1>5, <1>5a, <1>6, <1>6a, <1>7, <1>8, <1>9, <1>10, <1>11, <1>12,
     <1>13, <1>14, <1>15, <1>16, <1>17, <1>17a, <1>18, <1>18a, <1>19, <1>20 DEF Next

\* What the statements that mail leave alone.
LEMMA MailEffects ==
  ASSUME WellFormed, NEW w \in Workers,
         SendReport(w) \/ SendAlert(w) \/ SendDigest(w) \/ SendFailure(w)
  PROVE  /\ UNCHANGED <<now, jobs, scans, lastId, snapshots, lost, events,
                         delivered, marks, overlapped, blurred>>
         /\ \A v \in Workers \ {w} : worker'[v] = worker[v]
         /\ mails' = mails \/ \E mail \in MailRow : mails' = Append(mails, mail)
         /\ troubled \subseteq troubled'
<1> DEFINE effects ==
      /\ UNCHANGED <<now, jobs, scans, lastId, snapshots, lost, events,
                      delivered, marks, overlapped, blurred>>
      /\ \A v \in Workers \ {w} : worker'[v] = worker[v]
      /\ mails' = mails \/ \E mail \in MailRow : mails' = Append(mails, mail)
      /\ troubled \subseteq troubled'
<1> USE DEF WellFormed, Typed, stores, history
<1>1. ASSUME NEW phase, Skip(w, phase) PROVE effects
  BY <1>1 DEF Skip, Goto
<1>2. ASSUME NEW mail \in MailRow, NEW phase, NEW todo, NEW then,
             Mailed(w, mail, phase, todo, then)
      PROVE  effects
  BY <1>2 DEF Mailed
<1>3. ASSUME NEW mail \in MailRow, NEW phase, Refused(w, mail, phase) PROVE effects
  BY <1>3 DEF Refused, Goto
<1> HIDE DEF effects, WellFormed, Typed, stores, history
<1>4. ASSUME SendReport(w) PROVE effects
  <2>1. ASSUME NEW phase, Skip(w, phase) PROVE effects
    BY <1>1, <2>1
  <2>2. ASSUME NEW mail \in MailRow, Refused(w, mail, "alert") PROVE effects
    BY <1>3, <2>2
  <2>3. ASSUME NEW mail \in MailRow,
               Mailed(w, mail, "reported",
                      <<Key("last_sent"), Key("weekly_report")>>, "alert")
        PROVE  effects
    BY <1>2, <2>3
  <2> QED BY <1>4, <2>1, <2>2, <2>3, ReportCases
<1>5. ASSUME SendAlert(w) PROVE effects
  <2>1. ASSUME NEW phase, Skip(w, phase) PROVE effects
    BY <1>1, <2>1
  <2>2. ASSUME NEW mail \in MailRow, Refused(w, mail, "digest") PROVE effects
    BY <1>3, <2>2
  <2>3. ASSUME NEW mail \in MailRow, NEW order \in Orders(BatchMarks(w)),
               Mailed(w, mail, "record", <<Key("alert_batch")>> \o order, "digest")
        PROVE  effects
    BY <1>2, <2>3
  <2> QED BY <1>5, <2>1, <2>2, <2>3, AlertCases
<1>6. ASSUME SendDigest(w) PROVE effects
  <2>1. ASSUME NEW phase, Skip(w, phase) PROVE effects
    BY <1>1, <2>1
  <2>2. ASSUME NEW mail \in MailRow, Refused(w, mail, "done") PROVE effects
    BY <1>3, <2>2
  <2>3. ASSUME NEW mail \in MailRow,
               Mailed(w, mail, "record", <<Key("noncritical_digest")>>, "done")
        PROVE  effects
    BY <1>2, <2>3
  <2> QED BY <1>6, <2>1, <2>2, <2>3, DigestCases
<1>7. ASSUME SendFailure(w) PROVE effects
  <2>1. ASSUME NEW phase, Skip(w, phase) PROVE effects
    BY <1>1, <2>1
  <2>2. ASSUME NEW mail \in MailRow, Refused(w, mail, "done") PROVE effects
    BY <1>3, <2>2
  <2>3. ASSUME NEW mail \in MailRow,
               Mailed(w, mail, "record", <<Key("scan_failed")>>, "done")
        PROVE  effects
    BY <1>2, <2>3
  <2> QED BY <1>7, <2>1, <2>2, <2>3, FailureCases
<1> QED BY <1>4, <1>5, <1>6, <1>7 DEF effects

\* What a step never takes back.
Kept ==
  /\ DOMAIN jobs \subseteq DOMAIN jobs' /\ \A j \in DOMAIN jobs : jobs'[j] = jobs[j]
  /\ DOMAIN mails \subseteq DOMAIN mails' /\ \A i \in DOMAIN mails : mails'[i] = mails[i]
  /\ troubled \subseteq troubled' /\ overlapped \subseteq overlapped'
  /\ blurred \subseteq blurred'
  /\ now <= now'

\* A mail more or less, and nothing else that counts.
LEMMA MailsKept ==
  ASSUME Typed, UNCHANGED <<now, jobs, overlapped, blurred>>, troubled \subseteq troubled',
         mails' = mails \/ \E mail \in MailRow : mails' = Append(mails, mail)
  PROVE  Kept
<1>1. mails \in Seq(MailRow) /\ now \in Nat
  BY DEF Typed
<1>2. DOMAIN mails \subseteq DOMAIN mails' /\ \A i \in DOMAIN mails : mails'[i] = mails[i]
  BY <1>1, Appended
<1> QED BY <1>1, <1>2 DEF Kept

\* Jobs and mails are only appended, and what happened stays so.
LEMMA NothingForgotten ==
  ASSUME WellFormed, [Next]_vars
  PROVE  Kept
<1>a. now \in Nat /\ jobs \in Seq(Subs \union {NoSub})
  BY DEF WellFormed, Typed
<1>b. Typed
  BY DEF WellFormed
<1>1. ASSUME NEW w \in Workers, NEW s \in Subs \union {NoSub}, Take(w, s) PROVE Kept
  BY <1>1, <1>a, Appended DEF Kept, Take, Start, stores
<1>2. ASSUME NEW w \in Workers, NEW s \in Subs \union {NoSub}, TakeUnlocked(w, s)
      PROVE  Kept
  BY <1>2, <1>a, Appended DEF Kept, TakeUnlocked, Start, stores
<1>3. ASSUME NEW w \in Workers, NEW job \in DOMAIN jobs, TakeAgain(w, job) PROVE Kept
  BY <1>3, <1>a, Appended DEF Kept, TakeAgain, Start, stores
<1>4. ASSUME NEW w \in Workers, NEW r \in Reports, ScanSucceeds(w, r) PROVE Kept
  BY <1>4, <1>a DEF Kept, ScanSucceeds, stores, history
<1>5. ASSUME NEW w \in Workers, ScanFails(w) PROVE Kept
  BY <1>5, <1>a DEF Kept, ScanFails, stores, history
<1>5a. ASSUME NEW w \in Workers, SaveFailure(w) PROVE Kept
  BY <1>5a, <1>a DEF Kept, SaveFailure, stores, history
<1>6. ASSUME NEW w \in Workers, InsertSnapshot(w) PROVE Kept
  BY <1>6, <1>a DEF Kept, InsertSnapshot, stores, history
<1>6a. ASSUME NEW w \in Workers, CommitSnapshot(w) PROVE Kept
  BY <1>6a, <1>a DEF Kept, CommitSnapshot, stores, history
<1>7. ASSUME NEW w \in Workers, ReadBaseline(w) PROVE Kept
  BY <1>7, <1>a DEF Kept, ReadBaseline, stores, history
<1>8. ASSUME NEW w \in Workers, SaveEvents(w) PROVE Kept
  BY <1>8, <1>a DEF Kept, SaveEvents, stores, history
<1>9. ASSUME NEW w \in Workers, SendReport(w) PROVE Kept
  BY <1>9, <1>b, MailEffects, MailsKept
<1>10. ASSUME NEW w \in Workers, MarkDelivered(w) PROVE Kept
  BY <1>10, <1>a DEF Kept, MarkDelivered, stores, history
<1>11. ASSUME NEW w \in Workers, SendAlert(w) PROVE Kept
  BY <1>11, <1>b, MailEffects, MailsKept
<1>12. ASSUME NEW w \in Workers, SendDigest(w) PROVE Kept
  BY <1>12, <1>b, MailEffects, MailsKept
<1>13. ASSUME NEW w \in Workers, SendFailure(w) PROVE Kept
  BY <1>13, <1>b, MailEffects, MailsKept
<1>14. ASSUME NEW w \in Workers, Record(w) PROVE Kept
  BY <1>14, <1>a DEF Kept, Record, stores, history
<1>15. ASSUME NEW w \in Workers, RecordFails(w) PROVE Kept
  BY <1>15, <1>a DEF Kept, RecordFails, stores, history
<1>16. ASSUME NEW w \in Workers, Finish(w) PROVE Kept
  BY <1>16, <1>a DEF Kept, Finish, stores, history
<1>17. ASSUME NEW w \in Workers, Crash(w) PROVE Kept
  BY <1>17, <1>a DEF Kept, Crash, Dies, stores, history
<1>17a. ASSUME NEW w \in Workers, RowMissing(w) PROVE Kept
  BY <1>17a, <1>a DEF Kept, RowMissing, Dies, stores, history
<1>18. CASE CleanupHistory
  BY <1>18, <1>a DEF Kept, CleanupHistory, stores, history
<1>18a. ASSUME NEW last \in DOMAIN jobs, CleanupArchive(last) PROVE Kept
  BY <1>18a, <1>a DEF Kept, CleanupArchive, stores, history
<1>19. CASE Tick
  BY <1>19, <1>a DEF Kept, Tick, stores, history
<1>20. CASE UNCHANGED vars
  BY <1>20, <1>a DEF Kept, vars, stores, history
<1> QED
  BY <1>1, <1>2, <1>3, <1>4, <1>5, <1>5a, <1>6, <1>6a, <1>7, <1>8, <1>9, <1>10, <1>11, <1>12,
     <1>13, <1>14, <1>15, <1>16, <1>17, <1>17a, <1>18, <1>18a, <1>19, <1>20 DEF Next

\* A worker that does not move knows what it knew.
LEMMA OthersKnow ==
  ASSUME WellFormed, Kept, NEW v \in Workers, worker'[v] = worker[v]
  PROVE  Knows(v)'
<1>1. Knows(v)
  BY DEF WellFormed, Phased
<1>2. Busy(v) => Sub(v)' = Sub(v) /\ worker[v].job \in DOMAIN jobs'
  BY <1>1 DEF Knows, Sub, Kept, Busy
<1> QED BY <1>1, <1>2 DEF Knows, Busy, At

\* The worker goes on, whether it skips the mail or its mail is refused.
LEMMA GotoKnows ==
  ASSUME WellFormed, NEW w \in Workers, Busy(w),
         NEW phase \in {"alert", "digest", "done"}, Goto(w, phase), jobs' = jobs,
         phase # "done" => worker[w].report \in Reports,
         phase = "digest" => Sub(w) \in Subs
  PROVE  Knows(w)'
<1>1. worker'[w] = [worker[w] EXCEPT !.phase = phase] /\ worker[w] \in WorkerState
  BY DEF Goto, WellFormed, Typed
<1>2. /\ worker'[w].phase = phase /\ worker'[w].job = worker[w].job
      /\ worker'[w].report = worker[w].report
  BY <1>1 DEF WorkerState
<1>3. Sub(w)' = Sub(w) /\ worker[w].job \in DOMAIN jobs
  BY <1>2 DEF Sub, WellFormed, Phased, Knows
<1>4. worker'[w].job \in DOMAIN jobs'
  BY <1>2, <1>3
<1> QED BY <1>2, <1>3, <1>4 DEF Knows, Busy, At, Scanned

\* The worker has mailed and has a list of keys to write.
LEMMA MailedKnows ==
  ASSUME WellFormed, NEW w \in Workers, Busy(w), Sub(w) \in Subs,
         NEW mail, NEW todo, NEW phase, NEW then, Mailed(w, mail, phase, todo, then),
         \/ /\ phase = "reported" /\ then = "alert" /\ worker[w].report \in Reports
            /\ todo = <<Key("last_sent"), Key("weekly_report")>>
         \/ /\ phase = "record" /\ todo # <<>> /\ then \in {"digest", "done"}
            /\ then = "digest" => worker[w].report \in Reports
  PROVE  Knows(w)'
<1>1. /\ worker'[w] = [worker[w] EXCEPT !.phase = phase, !.todo = todo, !.then = then]
      /\ worker[w] \in WorkerState
  BY DEF Mailed, WellFormed, Typed
<1>2. /\ worker'[w].phase = phase /\ worker'[w].job = worker[w].job
      /\ worker'[w].report = worker[w].report
      /\ worker'[w].todo = todo /\ worker'[w].then = then
  BY <1>1 DEF WorkerState
<1>3. Sub(w)' = Sub(w) /\ worker[w].job \in DOMAIN jobs
  BY <1>2 DEF Sub, Mailed, WellFormed, Phased, Knows
<1>4. worker'[w].job \in DOMAIN jobs'
  BY <1>2, <1>3 DEF Mailed
<1> QED BY <1>2, <1>3, <1>4 DEF Knows, Busy, At, Scanned

\* Every step keeps Phased.
LEMMA PhasedInductive ==
  ASSUME WellFormed, Typed', Kept, [Next]_vars
  PROVE  Phased'
<1> SUFFICES ASSUME NEW v \in Workers PROVE Knows(v)'
  BY DEF Phased
<1>1. ASSUME NEW w \in Workers, NEW s \in Subs \union {NoSub}, Take(w, s) PROVE Knows(v)'
  <2>1. CASE v = w
    BY <1>1, <2>1, Appended DEF Take, Start, Idle, Knows, Phased, WellFormed, Typed,
       WorkerState, At, Sub, Busy, Goto, Scanned
  <2>2. CASE v # w
    <3>1. worker'[v] = worker[v]
      BY <1>1, <2>2 DEF Take, Start, Goto, WellFormed, Typed
    <3> QED BY <3>1, OthersKnow
  <2> QED BY <2>1, <2>2
<1>2. ASSUME NEW w \in Workers, NEW s \in Subs \union {NoSub}, TakeUnlocked(w, s)
      PROVE  Knows(v)'
  <2>1. CASE v = w
    BY <1>2, <2>1, Appended DEF TakeUnlocked, Start, Idle, Knows, Phased, WellFormed,
       Typed, WorkerState, At, Sub, Busy, Goto, Scanned
  <2>2. CASE v # w
    <3>1. worker'[v] = worker[v]
      BY <1>2, <2>2 DEF TakeUnlocked, Start, Goto, WellFormed, Typed
    <3> QED BY <3>1, OthersKnow
  <2> QED BY <2>1, <2>2
<1>3. ASSUME NEW w \in Workers, NEW job \in DOMAIN jobs, TakeAgain(w, job) PROVE Knows(v)'
  <2>1. CASE v = w
    BY <1>3, <2>1, Appended DEF TakeAgain, Start, Idle, Knows, Phased, WellFormed,
       Typed, WorkerState, At, Sub, Busy, Goto, Scanned
  <2>2. CASE v # w
    <3>1. worker'[v] = worker[v]
      BY <1>3, <2>2 DEF TakeAgain, Start, Goto, WellFormed, Typed
    <3> QED BY <3>1, OthersKnow
  <2> QED BY <2>1, <2>2
<1>4. ASSUME NEW w \in Workers, NEW r \in Reports, ScanSucceeds(w, r) PROVE Knows(v)'
  <2>1. CASE v = w
    BY <1>4, <2>1 DEF ScanSucceeds, Knows, Phased, WellFormed, Typed, WorkerState, At,
       Sub, Busy, Goto, Scanned
  <2>2. CASE v # w
    <3>1. worker'[v] = worker[v]
      BY <1>4, <2>2 DEF ScanSucceeds, Goto, WellFormed, Typed
    <3> QED BY <3>1, OthersKnow
  <2> QED BY <2>1, <2>2
<1>5. ASSUME NEW w \in Workers, ScanFails(w) PROVE Knows(v)'
  <2>1. CASE v = w
    BY <1>5, <2>1 DEF ScanFails, Knows, Phased, WellFormed, Typed, WorkerState, At,
       Sub, Busy, Goto, Scanned
  <2>2. CASE v # w
    <3>1. worker'[v] = worker[v]
      BY <1>5, <2>2 DEF ScanFails, Goto, WellFormed, Typed
    <3> QED BY <3>1, OthersKnow
  <2> QED BY <2>1, <2>2
<1>5a. ASSUME NEW w \in Workers, SaveFailure(w) PROVE Knows(v)'
  <2>1. CASE v = w
    BY <1>5a, <2>1 DEF SaveFailure, Knows, Phased, WellFormed, Typed, WorkerState, At,
       Sub, Busy, Goto, Scanned
  <2>2. CASE v # w
    <3>1. worker'[v] = worker[v]
      BY <1>5a, <2>2 DEF SaveFailure, Goto, WellFormed, Typed
    <3> QED BY <3>1, OthersKnow
  <2> QED BY <2>1, <2>2
<1>6. ASSUME NEW w \in Workers, InsertSnapshot(w) PROVE Knows(v)'
  <2>1. CASE v = w
    BY <1>6, <2>1 DEF InsertSnapshot, Knows, Phased, WellFormed, Typed, WorkerState, At,
       Sub, Busy, Goto, Scanned
  <2>2. CASE v # w
    <3>1. worker'[v] = worker[v]
      BY <1>6, <2>2 DEF InsertSnapshot, Goto, WellFormed, Typed
    <3> QED BY <3>1, OthersKnow
  <2> QED BY <2>1, <2>2
<1>6a. ASSUME NEW w \in Workers, CommitSnapshot(w) PROVE Knows(v)'
  <2>1. CASE v = w
    BY <1>6a, <2>1 DEF CommitSnapshot, Knows, Phased, WellFormed, Typed, WorkerState, At,
       Sub, Busy, Goto, Scanned
  <2>2. CASE v # w
    <3>1. worker'[v] = worker[v]
      BY <1>6a, <2>2 DEF CommitSnapshot, Goto, WellFormed, Typed
    <3> QED BY <3>1, OthersKnow
  <2> QED BY <2>1, <2>2
<1>7. ASSUME NEW w \in Workers, ReadBaseline(w) PROVE Knows(v)'
  <2>1. CASE v = w
    BY <1>7, <2>1 DEF ReadBaseline, Knows, Phased, WellFormed, Typed, WorkerState, At,
       Sub, Busy, Goto, Scanned
  <2>2. CASE v # w
    <3>1. worker'[v] = worker[v]
      BY <1>7, <2>2 DEF ReadBaseline, Goto, WellFormed, Typed
    <3> QED BY <3>1, OthersKnow
  <2> QED BY <2>1, <2>2
<1>8. ASSUME NEW w \in Workers, SaveEvents(w) PROVE Knows(v)'
  <2>1. CASE v = w
    BY <1>8, <2>1 DEF SaveEvents, Knows, Phased, WellFormed, Typed, WorkerState, At,
       Sub, Busy, Goto, Scanned
  <2>2. CASE v # w
    <3>1. worker'[v] = worker[v]
      BY <1>8, <2>2 DEF SaveEvents, Goto, WellFormed, Typed
    <3> QED BY <3>1, OthersKnow
  <2> QED BY <2>1, <2>2
<1>9. ASSUME NEW w \in Workers, SendReport(w) PROVE Knows(v)'
  <2>1. CASE v = w
    <3>1. Busy(w) /\ worker[w].report \in Reports
      BY <1>9 DEF SendReport, Knows, Phased, WellFormed, Typed, WorkerState, At, Busy,
         Scanned
    <3>2. ASSUME Skip(w, "alert") PROVE Knows(w)'
      BY <3>1, <3>2, GotoKnows DEF Skip
    <3>3. ASSUME NEW mail \in MailRow, mail.sub = Sub(w), Refused(w, mail, "alert")
          PROVE  Knows(w)'
      BY <3>1, <3>3, GotoKnows DEF Refused, MailRow
    <3>4. ASSUME NEW mail \in MailRow, mail.sub = Sub(w),
                 Mailed(w, mail, "reported", <<Key("last_sent"), Key("weekly_report")>>, "alert")
          PROVE  Knows(w)'
      <4>1. Sub(w) \in Subs
        BY <3>4 DEF MailRow
      <4>2. <<Key("last_sent"), Key("weekly_report")>> # <<>>
        OBVIOUS
      <4> QED BY <3>1, <3>4, <4>1, <4>2, MailedKnows
    <3>5. Knows(w)'
      BY <1>9, <3>2, <3>3, <3>4, ReportCases
    <3> QED BY <2>1, <3>5
  <2>2. CASE v # w
    <3>1. worker'[v] = worker[v]
      BY <1>9, <2>2, MailEffects
    <3> QED BY <3>1, OthersKnow
  <2> QED BY <2>1, <2>2
<1>10. ASSUME NEW w \in Workers, MarkDelivered(w) PROVE Knows(v)'
  <2>1. CASE v = w
    <3>1. worker'[w] = [worker[w] EXCEPT !.phase = "record"] /\ jobs' = jobs
      BY <1>10 DEF MarkDelivered, Goto, WellFormed, Typed
    <3>2. /\ worker'[w].phase = "record" /\ worker'[w].job = worker[w].job
          /\ worker'[w].report = worker[w].report
          /\ worker'[w].todo = worker[w].todo /\ worker'[w].then = worker[w].then
      BY <3>1 DEF WellFormed, Typed, WorkerState
    <3>3. At(w, "reported") /\ Knows(w)
      BY <1>10 DEF MarkDelivered, WellFormed, Phased
    <3>4. worker[w].todo # <<>>
      BY <3>3 DEF Knows
    <3> QED BY <2>1, <3>1, <3>2, <3>3, <3>4 DEF Knows, Busy, At, Sub, Scanned
  <2>2. CASE v # w
    <3>1. worker'[v] = worker[v]
      BY <1>10, <2>2 DEF MarkDelivered, Goto, WellFormed, Typed
    <3> QED BY <3>1, OthersKnow
  <2> QED BY <2>1, <2>2
<1>11. ASSUME NEW w \in Workers, SendAlert(w) PROVE Knows(v)'
  <2>1. CASE v = w
    <3>1. Busy(w) /\ worker[w].report \in Reports /\ worker[w].base \in Rep
      BY <1>11 DEF SendAlert, Knows, Phased, WellFormed, Typed, WorkerState, At, Busy,
         Scanned
    <3>2. ASSUME Skip(w, "done") \/ (MayAlert(w) /\ Skip(w, "digest")) PROVE Knows(w)'
      BY <3>1, <3>2, GotoKnows, SubsAssumption DEF Skip, MayAlert
    <3>3. ASSUME NEW mail \in MailRow, mail.sub = Sub(w), Refused(w, mail, "digest")
          PROVE  Knows(w)'
      BY <3>1, <3>3, GotoKnows DEF Refused, MailRow
    <3>4. ASSUME NEW mail \in MailRow, NEW order \in Orders(BatchMarks(w)), mail.sub = Sub(w),
                 Mailed(w, mail, "record", <<Key("alert_batch")>> \o order, "digest")
          PROVE  Knows(w)'
      <4>1. Sub(w) \in Subs
        BY <3>4 DEF MailRow
      <4>2. <<Key("alert_batch")>> \o order # <<>>
        BY <3>1, <3>4, AlertOrders
      <4> QED BY <3>1, <3>4, <4>1, <4>2, MailedKnows
    <3>5. Knows(w)'
      BY <1>11, <3>2, <3>3, <3>4, AlertCases
    <3> QED BY <2>1, <3>5
  <2>2. CASE v # w
    <3>1. worker'[v] = worker[v]
      BY <1>11, <2>2, MailEffects
    <3> QED BY <3>1, OthersKnow
  <2> QED BY <2>1, <2>2
<1>12. ASSUME NEW w \in Workers, SendDigest(w) PROVE Knows(v)'
  <2>1. CASE v = w
    <3>1. Busy(w) /\ worker[w].report \in Reports
      BY <1>12 DEF SendDigest, Knows, Phased, WellFormed, Typed, WorkerState, At, Busy,
         Scanned
    <3>2. ASSUME Skip(w, "done") PROVE Knows(w)'
      BY <3>1, <3>2, GotoKnows DEF Skip
    <3>3. ASSUME NEW mail \in MailRow, mail.sub = Sub(w), Refused(w, mail, "done")
          PROVE  Knows(w)'
      BY <3>1, <3>3, GotoKnows DEF Refused, MailRow
    <3>4. ASSUME NEW mail \in MailRow, mail.sub = Sub(w),
                 Mailed(w, mail, "record", <<Key("noncritical_digest")>>, "done")
          PROVE  Knows(w)'
      <4>1. Sub(w) \in Subs
        BY <3>4 DEF MailRow
      <4>2. <<Key("noncritical_digest")>> # <<>>
        OBVIOUS
      <4> QED BY <3>1, <3>4, <4>1, <4>2, MailedKnows
    <3>5. Knows(w)'
      BY <1>12, <3>2, <3>3, <3>4, DigestCases
    <3> QED BY <2>1, <3>5
  <2>2. CASE v # w
    <3>1. worker'[v] = worker[v]
      BY <1>12, <2>2, MailEffects
    <3> QED BY <3>1, OthersKnow
  <2> QED BY <2>1, <2>2
<1>13. ASSUME NEW w \in Workers, SendFailure(w) PROVE Knows(v)'
  <2>1. CASE v = w
    <3>1. Busy(w)
      BY <1>13 DEF SendFailure, Knows, Phased, WellFormed, Typed, WorkerState, At,
         Busy, Scanned
    <3>2. ASSUME Skip(w, "done") PROVE Knows(w)'
      BY <3>1, <3>2, GotoKnows DEF Skip
    <3>3. ASSUME NEW mail \in MailRow, mail.sub = Sub(w), Refused(w, mail, "done")
          PROVE  Knows(w)'
      BY <3>1, <3>3, GotoKnows DEF Refused, MailRow
    <3>4. ASSUME NEW mail \in MailRow, mail.sub = Sub(w),
                 Mailed(w, mail, "record", <<Key("scan_failed")>>, "done")
          PROVE  Knows(w)'
      <4>1. Sub(w) \in Subs
        BY <3>4 DEF MailRow
      <4>2. <<Key("scan_failed")>> # <<>>
        OBVIOUS
      <4> QED BY <3>1, <3>4, <4>1, <4>2, MailedKnows
    <3>5. Knows(w)'
      BY <1>13, <3>2, <3>3, <3>4, FailureCases
    <3> QED BY <2>1, <3>5
  <2>2. CASE v # w
    <3>1. worker'[v] = worker[v]
      BY <1>13, <2>2, MailEffects
    <3> QED BY <3>1, OthersKnow
  <2> QED BY <2>1, <2>2
<1>14. ASSUME NEW w \in Workers, Record(w) PROVE Knows(v)'
  <2>1. CASE v = w
    <3> DEFINE p == IF Len(worker[w].todo) = 1 THEN worker[w].then ELSE "record"
    <3>1. At(w, "record") /\ Knows(w) /\ worker[w] \in WorkerState
      BY <1>14 DEF Record, WellFormed, Phased, Typed
    <3>2. worker'[w] = [worker[w] EXCEPT !.todo = Tail(worker[w].todo), !.phase = p]
          /\ jobs' = jobs
      BY <1>14, <3>1 DEF Record, WellFormed, Typed, At
    <3>3. /\ worker'[w].phase = p /\ worker'[w].job = worker[w].job
          /\ worker'[w].report = worker[w].report
          /\ worker'[w].todo = Tail(worker[w].todo) /\ worker'[w].then = worker[w].then
      BY <3>1, <3>2 DEF WorkerState
    <3>4. worker[w].todo \in Seq(CooldownKeys) /\ worker[w].todo # <<>>
      BY <3>1 DEF Knows, WorkerState
    <3>5. p = "record" => Tail(worker[w].todo) # <<>>
      <4>1. Len(worker[w].todo) \in Nat /\ Len(worker[w].todo) # 0
        BY <3>4, EmptySeq
      <4>2. Len(Tail(worker[w].todo)) = Len(worker[w].todo) - 1
        BY <3>4, HeadTailProperties
      <4>3. worker[w].then # "record"
        BY <3>1 DEF Knows
      <4>4. Tail(worker[w].todo) = <<>> => Len(Tail(worker[w].todo)) = 0
        <5> DEFINE rest == Tail(worker[w].todo)
        <5>1. rest \in Seq(CooldownKeys)
          BY <3>4, HeadTailProperties
        <5> HIDE DEF rest
        <5>2. rest = <<>> => Len(rest) = 0
          BY <5>1, EmptySeq
        <5> QED BY <5>2 DEF rest
      <4>5. p = "record" => Len(worker[w].todo) # 1
        BY <4>3
      <4> HIDE DEF p
      <4> QED BY <4>1, <4>2, <4>4, <4>5
    <3> HIDE DEF p
    <3>6. p = "record" \/ p = worker[w].then
      BY DEF p
    <3> QED BY <2>1, <3>1, <3>2, <3>3, <3>5, <3>6 DEF Knows, Busy, At, Sub, Scanned
  <2>2. CASE v # w
    <3>1. worker'[v] = worker[v]
      BY <1>14, <2>2 DEF Record, WellFormed, Typed
    <3> QED BY <3>1, OthersKnow
  <2> QED BY <2>1, <2>2
<1>15. ASSUME NEW w \in Workers, RecordFails(w) PROVE Knows(v)'
  <2>1. CASE v = w
    BY <1>15, <2>1 DEF RecordFails, Knows, Phased, WellFormed, Typed, WorkerState, At,
       Sub, Busy, Goto, Scanned
  <2>2. CASE v # w
    <3>1. worker'[v] = worker[v]
      BY <1>15, <2>2 DEF RecordFails, Goto, WellFormed, Typed
    <3> QED BY <3>1, OthersKnow
  <2> QED BY <2>1, <2>2
<1>16. ASSUME NEW w \in Workers, Finish(w) PROVE Knows(v)'
  <2>1. CASE v = w
    BY <1>16, <2>1 DEF Finish, Idle, Knows, Phased, WellFormed, Typed, WorkerState, At,
       Sub, Busy, Goto, Scanned
  <2>2. CASE v # w
    <3>1. worker'[v] = worker[v]
      BY <1>16, <2>2 DEF Finish, Goto, WellFormed, Typed
    <3> QED BY <3>1, OthersKnow
  <2> QED BY <2>1, <2>2
<1>17. ASSUME NEW w \in Workers, Crash(w) PROVE Knows(v)'
  <2>1. CASE v = w
    BY <1>17, <2>1 DEF Crash, Dies, Idle, Knows, Phased, WellFormed, Typed, WorkerState, At,
       Sub, Busy, Goto, Scanned
  <2>2. CASE v # w
    <3>1. worker'[v] = worker[v]
      BY <1>17, <2>2 DEF Crash, Dies, Idle, Goto, WellFormed, Typed
    <3> QED BY <3>1, OthersKnow
  <2> QED BY <2>1, <2>2
<1>17a. ASSUME NEW w \in Workers, RowMissing(w) PROVE Knows(v)'
  <2>1. CASE v = w
    BY <1>17a, <2>1 DEF RowMissing, Dies, Idle, Knows, Phased, WellFormed, Typed, WorkerState, At,
       Sub, Busy, Goto, Scanned
  <2>2. CASE v # w
    <3>1. worker'[v] = worker[v]
      BY <1>17a, <2>2 DEF RowMissing, Dies, Idle, Goto, WellFormed, Typed
    <3> QED BY <3>1, OthersKnow
  <2> QED BY <2>1, <2>2
<1>18. CASE CleanupHistory
  BY <1>18, OthersKnow DEF CleanupHistory
<1>18a. ASSUME NEW last \in DOMAIN jobs, CleanupArchive(last) PROVE Knows(v)'
  BY <1>18a, OthersKnow DEF CleanupArchive
<1>19. CASE Tick
  BY <1>19, OthersKnow DEF Tick
<1>20. CASE UNCHANGED vars
  BY <1>20, OthersKnow DEF vars
<1> QED
  BY <1>1, <1>2, <1>3, <1>4, <1>5, <1>5a, <1>6, <1>6a, <1>7, <1>8, <1>9, <1>10, <1>11, <1>12,
     <1>13, <1>14, <1>15, <1>16, <1>17, <1>17a, <1>18, <1>18a, <1>19, <1>20 DEF Next

\* Who writes to the stores.
LEMMA StoreWriters ==
  ASSUME WellFormed, [Next]_vars
  PROVE  \/ UNCHANGED <<lastId, snapshots, lost, events, delivered, marks>>
         \/ CleanupHistory
         \/ \E last \in DOMAIN jobs : CleanupArchive(last)
         \/ \E w \in Workers :
              \/ SaveFailure(w) \/ InsertSnapshot(w) \/ CommitSnapshot(w)
              \/ SaveEvents(w) \/ MarkDelivered(w) \/ Record(w)
<1>1. ASSUME NEW w \in Workers,
             SendReport(w) \/ SendAlert(w) \/ SendDigest(w) \/ SendFailure(w)
      PROVE  UNCHANGED <<lastId, snapshots, lost, events, delivered, marks>>
  BY <1>1, MailEffects
<1>2. ASSUME NEW w \in Workers,
             \/ \E s \in Subs \union {NoSub} : Take(w, s) \/ TakeUnlocked(w, s)
             \/ \E job \in DOMAIN jobs : TakeAgain(w, job)
      PROVE  UNCHANGED <<lastId, snapshots, lost, events, delivered, marks>>
  BY <1>2 DEF Take, TakeUnlocked, TakeAgain, Start
<1>3. ASSUME NEW w \in Workers,
             \/ \E r \in Reports : ScanSucceeds(w, r)
             \/ ScanFails(w) \/ ReadBaseline(w) \/ RecordFails(w) \/ Finish(w)
             \/ Crash(w) \/ RowMissing(w)
      PROVE  UNCHANGED <<lastId, snapshots, lost, events, delivered, marks>>
  BY <1>3 DEF ScanSucceeds, ScanFails, ReadBaseline, RecordFails, Finish, Crash,
     RowMissing, Dies, stores
<1>4. CASE Tick \/ UNCHANGED vars
  BY <1>4 DEF Tick, vars, stores
<1> QED BY <1>1, <1>2, <1>3, <1>4 DEF Next

\* An update of a row in scans.
LEMMA StatusTyped ==
  ASSUME Aligned, jobs \in Seq(Subs \union {NoSub}), NEW job \in DOMAIN jobs,
         NEW status \in Statuses
  PROVE  Status(job, status) \in Seq(Statuses) /\ Len(Status(job, status)) = Len(scans)
<1> DEFINE s == IF scans[job] = "gone" THEN scans[job] ELSE status
<1>1. job \in 1 .. Len(scans) /\ scans \in Seq(Statuses)
  BY DEF Aligned
<1>2. s \in Statuses
  BY <1>1 DEF Statuses
<1>3. Status(job, status) = [scans EXCEPT ![job] = s]
  BY <1>1 DEF Status
<1> HIDE DEF s
<1> QED BY <1>1, <1>2, <1>3, ExceptSeq

\* Every step keeps Aligned.
LEMMA AlignedInductive ==
  ASSUME WellFormed, [Next]_vars
  PROVE  Aligned'
<1>1. Aligned /\ jobs \in Seq(Subs \union {NoSub}) /\ Phased
  BY DEF WellFormed, Typed
<1>2. CASE UNCHANGED <<jobs, scans>>
  BY <1>1, <1>2 DEF Aligned
<1>3. ASSUME NEW s \in Subs \union {NoSub}, jobs' = Append(jobs, s),
             scans' = Append(scans, "running")
      PROVE  Aligned'
  <2>1. "running" \in Statuses
    BY DEF Statuses
  <2> QED BY <1>1, <1>3, <2>1, AppendProperties DEF Aligned
<1>4. ASSUME NEW job \in DOMAIN jobs, NEW status \in Statuses, jobs' = jobs,
             scans' = Status(job, status)
      PROVE  Aligned'
  BY <1>1, <1>4, StatusTyped DEF Aligned
<1>5. ASSUME NEW w \in Workers,
             \/ \E s \in Subs \union {NoSub} : Take(w, s) \/ TakeUnlocked(w, s)
             \/ \E job \in DOMAIN jobs : TakeAgain(w, job)
      PROVE  Aligned'
  <2>1. "running" \in Statuses
    BY DEF Statuses
  <2> QED BY <1>3, <1>4, <1>5, <2>1 DEF Take, TakeUnlocked, TakeAgain
<1>6. ASSUME NEW w \in Workers, NEW r \in Reports, ScanSucceeds(w, r) PROVE Aligned'
  <2>1. "done" \in Statuses /\ worker[w].job \in DOMAIN jobs
    BY <1>1, <1>6 DEF Statuses, ScanSucceeds, Phased, Knows, At, Busy
  <2>2. jobs' = jobs /\ scans' = Status(worker[w].job, "done")
    BY <1>6 DEF ScanSucceeds
  <2> DEFINE job == worker[w].job
  <2> HIDE DEF job
  <2> QED BY <1>4, <2>1, <2>2 DEF job
<1>7. ASSUME NEW w \in Workers, ScanFails(w) PROVE Aligned'
  <2>1. "error" \in Statuses /\ worker[w].job \in DOMAIN jobs
    BY <1>1, <1>7 DEF Statuses, ScanFails, Phased, Knows, At, Busy
  <2>2. jobs' = jobs /\ scans' = Status(worker[w].job, "error")
    BY <1>7 DEF ScanFails
  <2> QED BY <1>4, <2>1, <2>2
<1>8. ASSUME NEW last \in DOMAIN jobs, CleanupArchive(last) PROVE Aligned'
  <2> DEFINE dead == {j \in Deletable : j <= last}
             left == [j \in DOMAIN scans |-> IF j \in dead THEN "gone" ELSE scans[j]]
             n == Len(scans)
  <2>1. jobs' = jobs /\ scans' = left
    BY <1>8 DEF CleanupArchive
  <2>2. n \in Nat /\ DOMAIN scans = 1 .. n /\ \A j \in 1 .. n : scans[j] \in Statuses
    BY <1>1 DEF Aligned
  <2>3. left \in [1 .. n -> Statuses]
    <3> HIDE DEF dead, n
    <3> QED BY <2>2 DEF Statuses
  <2> HIDE DEF left
  <2>4. left \in Seq(Statuses) /\ Len(left) = n
    <3>1. left \in UNION {[1 .. m -> Statuses] : m \in Nat}
      BY <2>2, <2>3
    <3>2. left \in Seq(Statuses)
      BY <3>1, SeqDef
    <3> QED BY <2>2, <2>3, <3>2, LenProperties
  <2> QED BY <1>1, <2>1, <2>4 DEF Aligned
<1>9. ASSUME NEW w \in Workers,
             SendReport(w) \/ SendAlert(w) \/ SendDigest(w) \/ SendFailure(w)
      PROVE  Aligned'
  BY <1>2, <1>9, MailEffects
<1>10. ASSUME NEW w \in Workers,
              \/ SaveFailure(w) \/ InsertSnapshot(w) \/ CommitSnapshot(w)
              \/ ReadBaseline(w) \/ SaveEvents(w) \/ MarkDelivered(w) \/ Record(w)
              \/ RecordFails(w) \/ Finish(w) \/ Crash(w) \/ RowMissing(w)
       PROVE  Aligned'
  BY <1>2, <1>10 DEF SaveFailure, InsertSnapshot, CommitSnapshot, ReadBaseline,
     SaveEvents, MarkDelivered, Record, RecordFails, Finish, Crash, RowMissing, Dies,
     stores
<1>11. CASE CleanupHistory \/ Tick \/ UNCHANGED vars
  BY <1>2, <1>11 DEF CleanupHistory, Tick, vars, stores
<1> QED
  BY <1>5, <1>6, <1>7, <1>8, <1>9, <1>10, <1>11 DEF Next

\* A row for each of the events.
LEMMA RowsOf ==
  ASSUME NEW job, NEW E
  PROVE  \A x \in Rows(job, E) : x.job = job /\ x.at = now /\ x.event \in E
BY DEF Rows

\* What a record writes, and what it leaves.
LEMMA MarkedRow ==
  ASSUME NEW s, NEW key
  PROVE  /\ \A m \in Mark(s, key) :
              \/ m \in marks /\ ~(m.sub = s /\ m.key = key)
              \/ m = [sub |-> s, key |-> key, at |-> now]
         /\ \A m \in marks : m.sub # s \/ m.key # key => m \in Mark(s, key)
         /\ [sub |-> s, key |-> key, at |-> now] \in Mark(s, key)
BY DEF Mark

\* Every step keeps Dated and Series.
LEMMA RowsInductive ==
  ASSUME WellFormed, Typed', Kept, [Next]_vars
  PROVE  Dated' /\ Series'
<1>1. /\ now \in Nat /\ now' \in Nat /\ now <= now' /\ DOMAIN jobs \subseteq DOMAIN jobs'
      /\ lastId \in Nat
      /\ \A x \in Taken : x.id \in Nat /\ x.at \in Nat
      /\ \A x \in Taken' : x.id \in Nat /\ x.at \in Nat
      /\ \A x \in events : x.at \in Nat
      /\ \A m \in marks : m.at \in Nat
  BY DEF WellFormed, Typed, Kept, SnapshotRow, EventRow, Taken
<1>2. Dated /\ Series
  BY DEF WellFormed
<1>3. ASSUME snapshots' \subseteq snapshots, Taken' \subseteq Taken, lastId <= lastId'
      PROVE  Series'
  <2>1. lastId' \in Nat
    BY DEF Typed
  <2>2. \A x \in Taken' : x.id <= lastId'
    BY <1>1, <1>2, <1>3, <2>1 DEF Series
  <2> QED BY <1>2, <1>3, <2>2 DEF Series
<1>4. ASSUME Taken' \subseteq Taken, events' \subseteq events, marks' = marks
      PROVE  Dated'
  BY <1>1, <1>2, <1>4 DEF Dated
<1>5. CASE UNCHANGED <<lastId, snapshots, lost, events, delivered, marks>>
  BY <1>1, <1>3, <1>4, <1>5 DEF Taken
<1>6. CASE CleanupHistory
  BY <1>1, <1>3, <1>4, <1>6 DEF CleanupHistory, Taken
<1>6a. ASSUME NEW last \in DOMAIN jobs, CleanupArchive(last) PROVE Dated' /\ Series'
  <2>1. snapshots' \subseteq snapshots /\ events' \subseteq events /\ Taken' = Taken
    BY <1>6a, CutRows
  <2>2. lastId' = lastId /\ marks' = marks
    BY <1>6a DEF CleanupArchive
  <2> QED BY <1>1, <1>3, <1>4, <2>1, <2>2
<1>7. ASSUME NEW w \in Workers, NEW E, UNCHANGED <<lastId, snapshots, lost, marks>>,
             Busy(w), events' = events \union Rows(worker[w].job, E)
      PROVE  Dated' /\ Series'
  <2>1. worker[w].job \in DOMAIN jobs
    BY <1>7 DEF WellFormed, Phased, Knows
  <2>2. \A x \in Rows(worker[w].job, E) : x.job = worker[w].job /\ x.at = now
    BY RowsOf
  <2>3. Taken' = Taken
    BY <1>7 DEF Taken
  <2> QED BY <1>1, <1>2, <1>3, <1>7, <2>1, <2>2, <2>3 DEF Dated
<1>8. ASSUME NEW w \in Workers, SaveFailure(w) PROVE Dated' /\ Series'
  BY <1>7, <1>8 DEF SaveFailure, At, Busy
<1>9. ASSUME NEW w \in Workers, SaveEvents(w) PROVE Dated' /\ Series'
  BY <1>7, <1>9 DEF SaveEvents, At, Busy
<1>9a. ASSUME NEW w \in Workers, InsertSnapshot(w) PROVE Dated' /\ Series'
  BY <1>1, <1>3, <1>4, <1>9a DEF InsertSnapshot, Taken
<1>10. ASSUME NEW w \in Workers, CommitSnapshot(w) PROVE Dated' /\ Series'
  <2>1. worker[w].job \in DOMAIN jobs
    BY <1>10 DEF CommitSnapshot, At, WellFormed, Phased, Knows, Busy
  <2>2. PICK row \in SnapshotRow :
           /\ row.id = worker[w].id /\ row.job = worker[w].job
           /\ snapshots' = {x \in snapshots : x.job # row.job} \union {row}
           /\ \/ /\ row.at = now /\ ~Renewed(w)
                 /\ \A x \in snapshots : x.id # row.id /\ x.job # row.job
              \/ \E x \in snapshots :
                   x.job = row.job /\ x.id = row.id /\ x.at = row.at
    BY <1>10, CommittedRow
  <2>3. UNCHANGED <<now, lastId, lost, events, marks>>
    BY <1>10 DEF CommitSnapshot
  <2>4. row.id \in Nat /\ row.at \in Nat /\ row.at <= now
    BY <1>1, <1>2, <2>2 DEF Dated, SnapshotRow, Taken
  <2>5. \A x \in Taken' : x = row \/ x \in Taken
    BY <2>2, <2>3 DEF Taken
  <2>6. Dated'
    BY <1>1, <1>2, <2>1, <2>2, <2>3, <2>4, <2>5 DEF Dated
  <2>7. /\ row.id <= lastId
        /\ \A x \in snapshots : x.id = row.id <=> x.job = row.job
        /\ ~Renewed(w) => \A x \in Taken : x.id > row.id => x.at = now
    BY <1>10, <2>2 DEF WellFormed, Pending, CommitSnapshot
  <2>8. ASSUME NEW x \in snapshots'
        PROVE  x.id = row.id \/ x.job = row.job => x = row
    BY <2>2, <2>7
  <2>9. ASSUME NEW x \in Taken
        PROVE  (x.id < row.id => x.at <= row.at) /\ (row.id < x.id => row.at <= x.at)
    <3>1. x.id \in Nat /\ x.at \in Nat /\ x.at <= now
      BY <1>1, <1>2 DEF Dated
    <3>2. CASE row.at = now /\ ~Renewed(w)
      BY <1>1, <2>4, <2>7, <3>1, <3>2
    <3>3. CASE \E y \in snapshots : y.job = row.job /\ y.id = row.id /\ y.at = row.at
      BY <1>2, <3>3 DEF Series, Taken
    <3> QED BY <2>2, <3>2, <3>3
  <2>10. \A x \in snapshots' : x = row \/ x \in snapshots
    BY <2>2
  <2>11. \A x \in Taken' : x.id <= lastId'
    BY <1>2, <2>3, <2>5, <2>7 DEF Series
  <2>12. \A x, y \in snapshots' : x.id = y.id \/ x.job = y.job => x = y
    BY <1>2, <2>8, <2>10 DEF Series
  <2>13. \A x, y \in Taken' : x.id < y.id => x.at <= y.at
    BY <1>2, <2>4, <2>5, <2>9 DEF Series
  <2>14. Series'
    BY <2>11, <2>12, <2>13 DEF Series
  <2> QED BY <2>6, <2>14
<1>11. ASSUME NEW w \in Workers, MarkDelivered(w) PROVE Dated' /\ Series'
  BY <1>1, <1>3, <1>4, <1>11 DEF MarkDelivered, Taken
<1>12. ASSUME NEW w \in Workers, Record(w) PROVE Dated' /\ Series'
  <2>1. UNCHANGED <<now, jobs, lastId, snapshots, lost, events>> /\ Taken' = Taken
    BY <1>12 DEF Record, Taken
  <2> DEFINE key == Head(worker[w].todo)
             row == [sub |-> Sub(w), key |-> key, at |-> now]
  <2>2. \A m \in marks' : m = row \/ (m \in marks /\ ~(m.sub = Sub(w) /\ m.key = key))
    BY <1>12, MarkedRow DEF Record
  <2>3. row.sub = Sub(w) /\ row.key = key /\ row.at = now
    OBVIOUS
  <2> HIDE DEF key, row
  <2> QED BY <1>1, <1>2, <1>3, <2>1, <2>2, <2>3 DEF Dated
<1> QED
  BY <1>5, <1>6, <1>6a, <1>8, <1>9, <1>9a, <1>10, <1>11, <1>12, StoreWriters

\* A statement that mails leaves its worker at one of these.
LEMMA MailPhases ==
  ASSUME WellFormed, NEW w \in Workers,
         SendReport(w) \/ SendAlert(w) \/ SendDigest(w) \/ SendFailure(w)
  PROVE  worker'[w].phase \in {"reported", "record", "alert", "digest", "done"}
<1>1. worker[w] \in WorkerState /\ worker \in [Workers -> WorkerState]
  BY DEF WellFormed, Typed
<1>2. ASSUME NEW phase, Goto(w, phase) PROVE worker'[w].phase = phase
  BY <1>1, <1>2 DEF Goto, WorkerState
<1>3. ASSUME NEW mail, NEW phase, NEW todo, NEW then, Mailed(w, mail, phase, todo, then)
      PROVE  worker'[w].phase = phase
  BY <1>1, <1>3 DEF Mailed, WorkerState
<1>4. CASE SendReport(w)
  BY <1>2, <1>3, <1>4, ReportCases DEF Skip, Refused
<1>5. CASE SendAlert(w)
  BY <1>2, <1>3, <1>5, AlertCases DEF Skip, Refused
<1>6. CASE SendDigest(w)
  BY <1>2, <1>3, <1>6, DigestCases DEF Skip, Refused
<1>7. CASE SendFailure(w)
  BY <1>2, <1>3, <1>7, FailureCases DEF Skip, Refused
<1> QED BY <1>4, <1>5, <1>6, <1>7

\* How a worker comes to a row that is not committed.
LEMMA ComesToInserted ==
  ASSUME WellFormed, [Next]_vars, NEW w \in Workers, worker'[w].phase = "inserted"
  PROVE  \/ /\ At(w, "inserted") /\ worker'[w] = worker[w]
            /\ now' = now /\ ~CommitSnapshot(w) /\ ~InsertSnapshot(w)
         \/ InsertSnapshot(w)
<1> DEFINE comes ==
      \/ /\ At(w, "inserted") /\ worker'[w] = worker[w]
         /\ now' = now /\ ~CommitSnapshot(w) /\ ~InsertSnapshot(w)
      \/ InsertSnapshot(w)
<1>1. worker \in [Workers -> WorkerState]
  BY DEF WellFormed, Typed
<1>2. ~CommitSnapshot(w)
  BY <1>1 DEF CommitSnapshot, Goto, WorkerState
<1>3. ASSUME worker'[w] = worker[w], now' = now PROVE comes
  BY <1>2, <1>3 DEF At
<1>4. ASSUME NEW v \in Workers,
             SendReport(v) \/ SendAlert(v) \/ SendDigest(v) \/ SendFailure(v)
      PROVE  comes
  <2>1. v # w
    BY <1>4, MailPhases
  <2> QED BY <1>3, <1>4, <2>1, MailEffects
<1>5. ASSUME NEW v \in Workers,
             \/ \E s \in Subs \union {NoSub} : Take(v, s) \/ TakeUnlocked(v, s)
             \/ \E job \in DOMAIN jobs : TakeAgain(v, job)
      PROVE  comes
  <2>1. PICK job : Start(v, job)
    BY <1>5 DEF Take, TakeUnlocked, TakeAgain
  <2>2. v # w
    BY <1>1, <2>1 DEF Start, Idle
  <2> QED BY <1>1, <1>3, <2>1, <2>2 DEF Start
<1>6. ASSUME NEW v \in Workers, NEW r \in Reports, ScanSucceeds(v, r) PROVE comes
  <2>1. v # w
    BY <1>1, <1>6 DEF ScanSucceeds, WorkerState
  <2> QED BY <1>1, <1>3, <1>6, <2>1 DEF ScanSucceeds
<1>7. ASSUME NEW v \in Workers, NEW phase \in Phases \ {"inserted"}, Goto(v, phase),
             now' = now
      PROVE  comes
  <2>1. v # w
    BY <1>1, <1>7 DEF Goto, WorkerState
  <2> QED BY <1>1, <1>3, <1>7, <2>1 DEF Goto
<1>8. ASSUME NEW v \in Workers,
             \/ ScanFails(v) \/ SaveFailure(v) \/ CommitSnapshot(v) \/ SaveEvents(v)
             \/ MarkDelivered(v)
      PROVE  comes
  BY <1>7, <1>8 DEF ScanFails, SaveFailure, CommitSnapshot, SaveEvents, MarkDelivered,
     Phases
<1>9. ASSUME NEW v \in Workers, InsertSnapshot(v) PROVE comes
  <2>1. PICK id \in Nat : worker' = [worker EXCEPT ![v].phase = "inserted", ![v].id = id]
    BY <1>9, InsertedRow
  <2>2. CASE v # w
    BY <1>1, <1>3, <1>9, <2>1, <2>2 DEF InsertSnapshot
  <2> QED BY <1>9, <2>2
<1>10. ASSUME NEW v \in Workers, ReadBaseline(v) PROVE comes
  <2>1. v # w
    BY <1>1, <1>10 DEF ReadBaseline, WorkerState
  <2> QED BY <1>1, <1>3, <1>10, <2>1 DEF ReadBaseline
<1>11. ASSUME NEW v \in Workers, Record(v) \/ RecordFails(v) PROVE comes
  <2>1. v # w
    <3>1. Knows(v)
      BY DEF WellFormed, Phased
    <3>2. worker[v].then # "inserted"
      BY <1>11, <3>1 DEF Record, RecordFails, Knows, At
    <3> QED BY <1>1, <1>11, <3>2 DEF Record, RecordFails, WorkerState, At
  <2> QED BY <1>1, <1>3, <1>11, <2>1 DEF Record, RecordFails
<1>12. ASSUME NEW v \in Workers, Finish(v) \/ Crash(v) \/ RowMissing(v) PROVE comes
  <2>1. worker' = [worker EXCEPT ![v] = Idle] /\ now' = now
    BY <1>12 DEF Finish, Crash, RowMissing, Dies
  <2>2. v # w
    BY <1>1, <2>1 DEF Idle
  <2> QED BY <1>1, <1>3, <2>1, <2>2
<1>13. ASSUME NEW last \in DOMAIN jobs, CleanupArchive(last) PROVE comes
  BY <1>3, <1>13 DEF CleanupArchive
<1>14. CASE CleanupHistory \/ UNCHANGED vars
  BY <1>3, <1>14 DEF CleanupHistory, vars
<1>15. CASE Tick
  <2>1. worker[w].phase # "inserted"
    BY <1>15 DEF Tick
  <2> QED BY <1>15, <2>1 DEF Tick
<1> QED
  BY <1>4, <1>5, <1>6, <1>8, <1>9, <1>10, <1>11, <1>12, <1>13, <1>14, <1>15 DEF Next

\* A row that waits for its commit, beside whatever else is done.
LEMMA PendingKept ==
  ASSUME WellFormed, Typed', [Next]_vars, NEW w \in Workers, At(w, "inserted"),
         worker'[w] = worker[w], now' = now, ~CommitSnapshot(w), ~InsertSnapshot(w)
  PROVE  /\ worker[w].id <= lastId'
         /\ \A x \in snapshots' : x.id = worker[w].id <=> x.job = worker[w].job
         /\ \/ \E x \in snapshots' : x.id = worker[w].id
            \/ \A x \in Taken' : x.id > worker[w].id => x.at = now
<1> DEFINE id == worker[w].id
           kept == /\ id <= lastId'
                   /\ \A x \in snapshots' : x.id = id <=> x.job = worker[w].job
                   /\ \/ \E x \in snapshots' : x.id = id
                      \/ \A x \in Taken' : x.id > id => x.at = now
<1>1. /\ id \in Nat /\ lastId \in Nat /\ id <= lastId
      /\ \A x \in snapshots : x.id = id <=> x.job = worker[w].job
      /\ \/ \E x \in snapshots : x.id = id
         \/ \A x \in Taken : x.id > id => x.at = now
  BY DEF WellFormed, Typed, WorkerState, Pending, Renewed
<1>2. ASSUME lastId <= lastId', snapshots' \subseteq snapshots, Taken' \subseteq Taken,
             \A x \in snapshots : x.id = id => x \in snapshots'
      PROVE  kept
  <2>1. lastId' \in Nat
    BY DEF Typed
  <2> QED BY <1>1, <1>2, <2>1
<1>3. ASSUME lastId <= lastId', snapshots' = snapshots, lost' = lost PROVE kept
  BY <1>2, <1>3 DEF Taken
<1>4. CASE UNCHANGED <<lastId, snapshots, lost, events, delivered, marks>>
  BY <1>1, <1>3, <1>4
<1>5. CASE CleanupHistory
  BY <1>1, <1>2, <1>5 DEF CleanupHistory, Taken
<1>6. ASSUME NEW last \in DOMAIN jobs, CleanupArchive(last) PROVE kept
  <2>1. lastId' = lastId
    BY <1>6 DEF CleanupArchive
  <2>2. /\ snapshots' \subseteq snapshots /\ Taken' = Taken
        /\ \A x \in snapshots : x.job = worker[w].job => x \in snapshots'
    BY <1>6, CutRows
  <2> QED BY <1>1, <1>2, <2>1, <2>2
<1>7. ASSUME NEW v \in Workers, SaveFailure(v) \/ SaveEvents(v) \/ MarkDelivered(v) \/ Record(v)
      PROVE  kept
  BY <1>1, <1>3, <1>7 DEF SaveFailure, SaveEvents, MarkDelivered, Record
<1>8. ASSUME NEW v \in Workers, InsertSnapshot(v) PROVE kept
  BY <1>1, <1>3, <1>8 DEF InsertSnapshot
<1>9. ASSUME NEW v \in Workers, CommitSnapshot(v) PROVE kept
  <2>1. v # w /\ At(v, "inserted")
    BY <1>9 DEF CommitSnapshot
  <2>2. worker[v].id # id /\ worker[v].job # worker[w].job
    BY <2>1 DEF WellFormed, Pending
  <2>3. PICK row \in SnapshotRow :
           /\ row.id = worker[v].id /\ row.job = worker[v].job
           /\ snapshots' = {x \in snapshots : x.job # row.job} \union {row}
           /\ \/ row.at = now
              \/ \E x \in snapshots :
                   x.job = row.job /\ x.id = row.id /\ x.at = row.at
    BY <1>9, CommittedRow
  <2>4. lastId' = lastId /\ lost' = lost
    BY <1>9 DEF CommitSnapshot
  <2>5. \A x \in snapshots' : x.id = id <=> x.job = worker[w].job
    BY <1>1, <2>2, <2>3
  <2>6. \A x \in snapshots : x.id = id => x \in snapshots'
    BY <1>1, <2>2, <2>3
  <2>7. ASSUME \A x \in Taken : x.id > id => x.at = now, NEW x \in Taken', x.id > id
        PROVE  x.at = now
    <3>1. x = row \/ x \in Taken
      BY <2>3, <2>4 DEF Taken
    <3>2. CASE x = row
      BY <2>3, <2>7, <3>2 DEF Taken
    <3> QED BY <2>7, <3>1, <3>2
  <2>8. (\E x \in snapshots' : x.id = id) \/ \A x \in Taken' : x.id > id => x.at = now
    BY <1>1, <2>6, <2>7
  <2> QED BY <1>1, <2>4, <2>5, <2>8
<1>10. kept
  BY <1>4, <1>5, <1>6, <1>7, <1>8, <1>9, StoreWriters
<1> QED BY <1>10

\* A row that is inserted has a number and a job of its own, or renews one.
LEMMA InsertedAlone ==
  ASSUME WellFormed, NEW w \in Workers, InsertSnapshot(w)
  PROVE  /\ worker'[w].job = worker[w].job
         /\ worker'[w].id \in Nat /\ worker'[w].id <= lastId'
         /\ \A x \in snapshots : x.id = worker'[w].id <=> x.job = worker'[w].job
         /\ (\E x \in snapshots : x.id = worker'[w].id)
              \/ \A x \in Taken : ~(x.id > worker'[w].id)
         /\ \A v \in Workers \ {w} :
              /\ worker'[v] = worker[v]
              /\ At(v, "inserted") =>
                   worker[v].id # worker'[w].id /\ worker[v].job # worker'[w].job
<1>1. PICK id \in Nat :
        /\ worker' = [worker EXCEPT ![w].phase = "inserted", ![w].id = id]
        /\ \/ id = lastId + 1 /\ \A x \in snapshots : x.job # worker[w].job
           \/ \E x \in snapshots : x.job = worker[w].job /\ x.id = id
  BY InsertedRow
<1>2. /\ worker \in [Workers -> WorkerState] /\ lastId \in Nat
      /\ \A x \in Taken : x.id \in Nat /\ x.id <= lastId
      /\ \A x, y \in snapshots : x.id = y.id \/ x.job = y.job => x = y
  BY DEF WellFormed, Typed, Series, SnapshotRow, Taken
<1>3. /\ worker'[w].job = worker[w].job /\ worker'[w].id = id
      /\ \A v \in Workers \ {w} : worker'[v] = worker[v]
  BY <1>1, <1>2 DEF WorkerState
<1>4. lastId' = lastId + 1 /\ \A x \in snapshots : x \in Taken
  BY DEF InsertSnapshot, Taken
<1>5. ASSUME NEW v \in Workers \ {w}, At(v, "inserted")
      PROVE  worker[v].id # id /\ worker[v].job # worker[w].job
  <2>1. worker[v].job # worker[w].job
    BY <1>5 DEF InsertSnapshot, Inserting
  <2>2. /\ worker[v].id \in Nat /\ worker[v].id <= lastId
        /\ \A x \in snapshots : x.id = worker[v].id <=> x.job = worker[v].job
    BY <1>2, <1>5 DEF WellFormed, Pending, WorkerState
  <2>3. worker[v].id # id
    BY <1>1, <1>2, <2>1, <2>2
  <2> QED BY <2>1, <2>3
<1>6. CASE id = lastId + 1 /\ \A x \in snapshots : x.job # worker[w].job
  BY <1>2, <1>3, <1>4, <1>5, <1>6
<1>7. CASE \E x \in snapshots : x.job = worker[w].job /\ x.id = id
  BY <1>2, <1>3, <1>4, <1>5, <1>7
<1> QED BY <1>1, <1>6, <1>7

\* Every step keeps Pending.
LEMMA PendingInductive ==
  ASSUME WellFormed, Typed', [Next]_vars
  PROVE  Pending'
<1>1. ASSUME NEW w \in Workers, worker'[w].phase = "inserted"
      PROVE  /\ worker'[w].id <= lastId'
             /\ \A x \in snapshots' : x.id = worker'[w].id <=> x.job = worker'[w].job
             /\ \/ \E x \in snapshots' : x.id = worker'[w].id
                \/ \A x \in Taken' : x.id > worker'[w].id => x.at = now'
  <2>1. CASE InsertSnapshot(w)
    <3>1. snapshots' = snapshots /\ Taken' = Taken
      BY <2>1 DEF InsertSnapshot, Taken
    <3> QED BY <2>1, <3>1, InsertedAlone
  <2>2. CASE /\ At(w, "inserted") /\ worker'[w] = worker[w]
             /\ now' = now /\ ~CommitSnapshot(w) /\ ~InsertSnapshot(w)
    BY <2>2, PendingKept
  <2> QED BY <1>1, <2>1, <2>2, ComesToInserted
<1>2. ASSUME NEW v \in Workers, NEW w \in Workers, v # w,
             worker'[v].phase = "inserted", worker'[w].phase = "inserted"
      PROVE  worker'[v].id # worker'[w].id /\ worker'[v].job # worker'[w].job
  <2>1. CASE InsertSnapshot(v)
    <3>1. At(w, "inserted")
      BY <1>2, <2>1, InsertedAlone DEF At
    <3> QED BY <1>2, <2>1, <3>1, InsertedAlone
  <2>2. CASE InsertSnapshot(w)
    <3>1. At(v, "inserted")
      BY <1>2, <2>2, InsertedAlone DEF At
    <3> QED BY <1>2, <2>2, <3>1, InsertedAlone
  <2>3. CASE ~InsertSnapshot(v) /\ ~InsertSnapshot(w)
    <3>1. /\ At(v, "inserted") /\ worker'[v] = worker[v]
          /\ At(w, "inserted") /\ worker'[w] = worker[w]
      BY <1>2, <2>3, ComesToInserted
    <3> QED BY <1>2, <3>1 DEF WellFormed, Pending
  <2> QED BY <2>1, <2>2, <2>3
<1> QED BY <1>1, <1>2 DEF Pending, Renewed, At

\* Before the first job nothing is stored or under way.
LEMMA InitWellFormed == Init => WellFormed
<1> SUFFICES ASSUME Init PROVE WellFormed
  OBVIOUS
<1>1. Idle \in WorkerState
  BY EmptySeq DEF Idle, WorkerState, Phases, Rep
<1>2. Typed
  BY <1>1, BoundsAssumption, EmptySeq DEF Init, Typed
<1>3. Phased
  BY DEF Init, Phased, Knows, Busy, At, Idle, Scanned
<1>4. Dated /\ Series
  BY DEF Init, Dated, Series, Taken
<1>5. Aligned /\ Pending
  BY EmptySeq DEF Init, Aligned, Pending, At, Idle
<1> QED BY <1>2, <1>3, <1>4, <1>5 DEF WellFormed

\* Every step keeps WellFormed.
LEMMA WellFormedInductive ==
  ASSUME WellFormed, [Next]_vars
  PROVE  WellFormed' /\ Kept
<1>1. Typed' /\ Kept
  BY TypedInductive, NothingForgotten
<1>2. Phased' /\ Aligned' /\ Dated' /\ Series' /\ Pending'
  BY <1>1, PhasedInductive, AlignedInductive, RowsInductive, PendingInductive
<1> QED BY <1>1, <1>2 DEF WellFormed

\* The stores and the workers keep the form the later proofs start from: rows
\* are typed and of the past, snapshots are a series, workers know their job.
THEOREM WellFormedTheorem == Spec => []WellFormed
<1>1. WellFormed /\ [Next]_vars => WellFormed'
  BY WellFormedInductive
<1> QED BY InitWellFormed, <1>1, PTL DEF Spec

\* The types follow from WellFormed.
LEMMA WellFormedTypes == WellFormed => TypeOK
<1> SUFFICES ASSUME WellFormed PROVE TypeOK
  OBVIOUS
<1>1. Typed /\ Phased /\ Aligned /\ Dated /\ Series
  BY DEF WellFormed
<1>2. ASSUME NEW w \in Workers
      PROVE  /\ worker[w].phase \in Phases
             /\ worker[w].phase /= "idle" => worker[w].job \in DOMAIN jobs
             /\ worker[w].phase = "record" => worker[w].todo /= <<>>
             /\ worker[w].phase \in {"reported", "record"} => Sub(w) \in Subs
  BY <1>1 DEF Typed, WorkerState, Phased, Knows, Busy, At
<1>3. ASSUME NEW i \in DOMAIN mails PROVE mails[i].kind \in Kinds /\ mails[i].sub \in Subs
  <2>1. mails[i] \in MailRow
    BY <1>1 DEF Typed
  <2> QED BY <2>1 DEF MailRow
<1>4. \A m \in marks : m.sub \in Subs
  BY <1>1 DEF Typed
<1> QED BY <1>1, <1>2, <1>3, <1>4 DEF TypeOK, Typed, Aligned, Dated, Series, Taken

\* The stores hold what their columns hold, one snapshot for an id and one
\* mark for a key, nothing is dated in the future, and a worker that writes
\* cooldowns has a subscription and a list of keys.
THEOREM DeliveryTypes == Spec => []TypeOK
BY WellFormedTheorem, WellFormedTypes, PTL

(***************************************************************************)
(* The mails of a step, and the lists of keys that follow them.            *)
(***************************************************************************)

\* A mail of the worker's next statement.
Sends(w, mail) ==
  /\ mail \in MailRow
  /\ mail.sub = Sub(w) /\ mail.job = worker[w].job /\ mail.at = now
  /\ \/ At(w, "report") /\ mail.kind = "report" /\ ReportDue(w)
     \/ At(w, "alert") /\ mail.kind = "alert" /\ MayAlert(w)
          /\ mail.rows = Rows(worker[w].job, Alerting(w))
     \/ At(w, "digest") /\ mail.kind = "digest" /\ mail.rows = Recent(w)
          /\ ~Cooling(Sub(w), Key("noncritical_digest"), DayCooldown)
     \/ At(w, "failed") /\ mail.kind = "failure"

\* The mail went out, and these are the keys the worker writes for it.
Writes(w, mail) ==
  \/ mail.kind = "report"
       /\ Mailed(w, mail, "reported", <<Key("last_sent"), Key("weekly_report")>>, "alert")
  \/ mail.kind = "alert"
       /\ \E order \in Orders(BatchMarks(w)) :
            Mailed(w, mail, "record", <<Key("alert_batch")>> \o order, "digest")
  \/ mail.kind = "digest"
       /\ Mailed(w, mail, "record", <<Key("noncritical_digest")>>, "done")
  \/ mail.kind = "failure"
       /\ Mailed(w, mail, "record", <<Key("scan_failed")>>, "done")

\* A statement that mails skips its mail, sends it, or has it refused.
LEMMA MailSteps ==
  ASSUME WellFormed, NEW w \in Workers,
         SendReport(w) \/ SendAlert(w) \/ SendDigest(w) \/ SendFailure(w)
  PROVE  \/ \E phase \in {"alert", "digest", "done"} : Skip(w, phase)
         \/ \E mail \in MailRow :
              /\ Sends(w, mail)
              /\ \/ Writes(w, mail)
                 \/ \E phase \in {"alert", "digest", "done"} : Refused(w, mail, phase)
<1> DEFINE skips == \E phase \in {"alert", "digest", "done"} : Skip(w, phase)
           refused(mail) == \E phase \in {"alert", "digest", "done"} : Refused(w, mail, phase)
           mailed == \E mail \in MailRow :
                       Sends(w, mail) /\ (Writes(w, mail) \/ refused(mail))
<1>1. ASSUME SendReport(w) PROVE skips \/ mailed
  <2>1. ASSUME NEW mail \in MailRow, mail.kind = "report", mail.sub = Sub(w),
               mail.job = worker[w].job, mail.at = now, ReportDue(w)
        PROVE  Sends(w, mail)
    BY <1>1, <2>1 DEF Sends, SendReport
  <2>2. ASSUME NEW mail \in MailRow, mail.kind = "report",
               Mailed(w, mail, "reported", <<Key("last_sent"), Key("weekly_report")>>, "alert")
        PROVE  Writes(w, mail)
    BY <2>2 DEF Writes
  <2> QED BY <1>1, <2>1, <2>2, ReportCases
<1>2. ASSUME SendAlert(w) PROVE skips \/ mailed
  <2>1. ASSUME NEW mail \in MailRow, mail.kind = "alert", mail.sub = Sub(w),
               mail.job = worker[w].job, mail.at = now, MayAlert(w),
               mail.rows = Rows(worker[w].job, Alerting(w))
        PROVE  Sends(w, mail)
    BY <1>2, <2>1 DEF Sends, SendAlert
  <2>2. ASSUME NEW mail \in MailRow, mail.kind = "alert", NEW order \in Orders(BatchMarks(w)),
               Mailed(w, mail, "record", <<Key("alert_batch")>> \o order, "digest")
        PROVE  Writes(w, mail)
    BY <2>2 DEF Writes
  <2> QED BY <1>2, <2>1, <2>2, AlertCases
<1>3. ASSUME SendDigest(w) PROVE skips \/ mailed
  <2>1. ASSUME NEW mail \in MailRow, mail.kind = "digest", mail.sub = Sub(w),
               mail.job = worker[w].job, mail.at = now, mail.rows = Recent(w),
               ~Cooling(Sub(w), Key("noncritical_digest"), DayCooldown)
        PROVE  Sends(w, mail)
    BY <1>3, <2>1 DEF Sends, SendDigest
  <2>2. ASSUME NEW mail \in MailRow, mail.kind = "digest",
               Mailed(w, mail, "record", <<Key("noncritical_digest")>>, "done")
        PROVE  Writes(w, mail)
    BY <2>2 DEF Writes
  <2> QED BY <1>3, <2>1, <2>2, DigestCases
<1>4. ASSUME SendFailure(w) PROVE skips \/ mailed
  <2>1. ASSUME NEW mail \in MailRow, mail.kind = "failure", mail.sub = Sub(w),
               mail.job = worker[w].job, mail.at = now
        PROVE  Sends(w, mail)
    BY <1>4, <2>1 DEF Sends, SendFailure
  <2>2. ASSUME NEW mail \in MailRow, mail.kind = "failure",
               Mailed(w, mail, "record", <<Key("scan_failed")>>, "done")
        PROVE  Writes(w, mail)
    BY <2>2 DEF Writes
  <2> QED BY <1>4, <2>1, <2>2, FailureCases
<1> QED BY <1>1, <1>2, <1>3, <1>4

\* No other statement mails.
LEMMA Mailers ==
  ASSUME WellFormed, [Next]_vars
  PROVE  \/ mails' = mails
         \/ \E w \in Workers :
              SendReport(w) \/ SendAlert(w) \/ SendDigest(w) \/ SendFailure(w)
<1>1. ASSUME NEW w \in Workers,
             \/ \E s \in Subs \union {NoSub} : Take(w, s) \/ TakeUnlocked(w, s)
             \/ \E job \in DOMAIN jobs : TakeAgain(w, job)
             \/ \E r \in Reports : ScanSucceeds(w, r)
             \/ ScanFails(w) \/ SaveFailure(w) \/ InsertSnapshot(w) \/ CommitSnapshot(w)
             \/ ReadBaseline(w) \/ SaveEvents(w)
      PROVE  mails' = mails
  BY <1>1 DEF Take, TakeUnlocked, TakeAgain, Start, ScanSucceeds, ScanFails, SaveFailure,
     InsertSnapshot, CommitSnapshot, ReadBaseline, SaveEvents, history
<1>2. ASSUME NEW w \in Workers,
             \/ MarkDelivered(w) \/ Record(w) \/ RecordFails(w) \/ Finish(w) \/ Crash(w)
             \/ RowMissing(w)
      PROVE  mails' = mails
  BY <1>2 DEF MarkDelivered, Record, RecordFails, Finish, Crash, RowMissing, Dies, history
<1>3. CASE CleanupHistory \/ (\E last \in DOMAIN jobs : CleanupArchive(last))
             \/ Tick \/ UNCHANGED vars
  BY <1>3 DEF CleanupHistory, CleanupArchive, Tick, history, vars
<1> QED BY <1>1, <1>2, <1>3 DEF Next

\* A new mail is that of a worker which writes its keys next, or is troubled.
LEMMA NewMail ==
  ASSUME WellFormed, [Next]_vars, NEW i \in DOMAIN mails', i \notin DOMAIN mails
  PROVE  \E w \in Workers :
           /\ Sends(w, mails'[i])
           /\ Writes(w, mails'[i]) \/ worker[w].job \in troubled'
           /\ mails' = Append(mails, mails'[i])
           /\ UNCHANGED <<now, jobs, lastId, snapshots, lost, events, delivered, marks,
                          overlapped, blurred>>
<1>1. PICK w \in Workers :
        SendReport(w) \/ SendAlert(w) \/ SendDigest(w) \/ SendFailure(w)
  BY Mailers
<1>2. mails \in Seq(MailRow)
  BY DEF WellFormed, Typed
<1>3. ASSUME NEW mail \in MailRow, mails' = Append(mails, mail) PROVE mails'[i] = mail
  BY <1>2, <1>3, Appended
<1>4. ASSUME NEW phase, Skip(w, phase) PROVE FALSE
  BY <1>4 DEF Skip, history
<1>5. ASSUME NEW mail \in MailRow, Writes(w, mail)
      PROVE  mails' = Append(mails, mail)
  BY <1>5 DEF Writes, Mailed
<1>6. ASSUME NEW mail \in MailRow, NEW phase, Refused(w, mail, phase)
      PROVE  mails' = Append(mails, mail) /\ worker[w].job \in troubled'
  BY <1>6 DEF Refused
<1>7. PICK mail \in MailRow :
        /\ Sends(w, mail) /\ mails' = Append(mails, mail)
        /\ Writes(w, mail) \/ worker[w].job \in troubled'
  BY <1>1, <1>4, <1>5, <1>6, MailSteps
<1> QED BY <1>1, <1>3, <1>7, MailEffects

\* How a worker comes to be recording: it has mailed just now, has begun, goes
\* on, or was recording all the time, and the clock stands.
LEMMA ComesToRecord ==
  ASSUME WellFormed, [Next]_vars, NEW v \in Workers, Recording(v)'
  PROVE  /\ now' = now
         /\ \/ worker'[v] = worker[v]
            \/ MarkDelivered(v)
            \/ Record(v)
            \/ \E mail \in MailRow : Sends(v, mail) /\ Writes(v, mail)
<1> DEFINE comes == /\ now' = now
                    /\ \/ worker'[v] = worker[v]
                       \/ MarkDelivered(v)
                       \/ Record(v)
                       \/ \E mail \in MailRow : Sends(v, mail) /\ Writes(v, mail)
<1>1. worker \in [Workers -> WorkerState]
  BY DEF WellFormed, Typed
<1>2. ASSUME NEW w \in Workers,
             SendReport(w) \/ SendAlert(w) \/ SendDigest(w) \/ SendFailure(w)
      PROVE  comes
  <2>1. CASE w # v
    BY <1>2, <2>1, MailEffects
  <2>2. CASE w = v
    <3>1. ASSUME NEW phase \in {"alert", "digest", "done"}, Goto(v, phase) PROVE FALSE
      BY <1>1, <3>1 DEF Goto, Recording
    <3>2. ASSUME NEW phase \in {"alert", "digest", "done"}, Skip(v, phase) PROVE FALSE
      BY <3>1, <3>2 DEF Skip
    <3>3. ASSUME NEW mail, NEW phase \in {"alert", "digest", "done"}, Refused(v, mail, phase)
          PROVE  FALSE
      BY <3>1, <3>3 DEF Refused
    <3>4. \E mail \in MailRow : Sends(v, mail) /\ Writes(v, mail)
      BY <1>2, <2>2, <3>2, <3>3, MailSteps
    <3>5. now' = now
      BY <1>2, <2>2, MailEffects
    <3> QED BY <3>4, <3>5
  <2> QED BY <2>1, <2>2
<1>3. ASSUME NEW w \in Workers, NEW state, worker' = [worker EXCEPT ![w] = state],
             now' = now, state.phase \notin {"reported", "record"}
      PROVE  comes
  BY <1>1, <1>3 DEF Recording
<1>4. ASSUME NEW w \in Workers,
             \/ \E s \in Subs \union {NoSub} : Take(w, s) \/ TakeUnlocked(w, s)
             \/ \E job \in DOMAIN jobs : TakeAgain(w, job)
      PROVE  comes
  <2>1. ASSUME NEW job, Start(w, job) PROVE comes
    <3> DEFINE state == [Idle EXCEPT !.phase = "scan", !.job = job]
    <3>1. state.phase = "scan" /\ worker' = [worker EXCEPT ![w] = state] /\ now' = now
      BY <2>1 DEF Start, Idle
    <3> HIDE DEF state
    <3> QED BY <1>3, <3>1
  <2> QED BY <1>4, <2>1 DEF Take, TakeUnlocked, TakeAgain
<1>5. ASSUME NEW w \in Workers, Finish(w) \/ Crash(w) \/ RowMissing(w) PROVE comes
  BY <1>3, <1>5 DEF Finish, Crash, RowMissing, Dies, Idle
<1>6. ASSUME NEW w \in Workers,
             \/ \E r \in Reports : ScanSucceeds(w, r)
             \/ ScanFails(w) \/ SaveFailure(w) \/ CommitSnapshot(w)
             \/ ReadBaseline(w) \/ SaveEvents(w)
      PROVE  comes
  BY <1>1, <1>6 DEF ScanSucceeds, ScanFails, SaveFailure, CommitSnapshot, ReadBaseline,
     SaveEvents, Goto, Recording, WorkerState
<1>6a. ASSUME NEW w \in Workers, InsertSnapshot(w) PROVE comes
  <2>1. PICK id \in Nat : worker' = [worker EXCEPT ![w].phase = "inserted", ![w].id = id]
    BY <1>6a, InsertedRow
  <2>2. now' = now
    BY <1>6a DEF InsertSnapshot
  <2> QED BY <1>1, <2>1, <2>2 DEF Recording, WorkerState
<1>7. ASSUME NEW w \in Workers, MarkDelivered(w) \/ Record(w) PROVE comes
  BY <1>1, <1>7 DEF MarkDelivered, Record, Goto
<1>8. ASSUME NEW w \in Workers, RecordFails(w) PROVE comes
  <2>1. worker[w].then \notin {"reported", "record"}
    BY <1>8 DEF RecordFails, WellFormed, Phased, Knows, At
  <2> QED BY <1>1, <1>8, <2>1 DEF RecordFails, Recording, WorkerState
<1>9. CASE Tick
  BY <1>9 DEF Tick, Recording
<1>10. CASE CleanupHistory \/ (\E last \in DOMAIN jobs : CleanupArchive(last))
              \/ UNCHANGED vars
  BY <1>10 DEF CleanupHistory, CleanupArchive, vars
<1> QED BY <1>2, <1>4, <1>5, <1>6, <1>6a, <1>7, <1>8, <1>9, <1>10 DEF Next

\* A worker that is recording begins, goes on, waits, or ends up troubled.
LEMMA GoesOnRecording ==
  ASSUME WellFormed, [Next]_vars, NEW w \in Workers, Recording(w)
  PROVE  /\ now' = now
         /\ \/ worker'[w] = worker[w]
            \/ MarkDelivered(w)
            \/ Record(w)
            \/ worker[w].job \in troubled'
<1> DEFINE goes == /\ now' = now
                   /\ \/ worker'[w] = worker[w]
                      \/ MarkDelivered(w)
                      \/ Record(w)
                      \/ worker[w].job \in troubled'
<1>1. worker \in [Workers -> WorkerState]
  BY DEF WellFormed, Typed
<1>2. ASSUME NEW v \in Workers,
             SendReport(v) \/ SendAlert(v) \/ SendDigest(v) \/ SendFailure(v)
      PROVE  goes
  <2>1. v # w
    BY <1>2 DEF SendReport, SendAlert, SendDigest, SendFailure, At, Recording
  <2> QED BY <1>2, <2>1, MailEffects
<1>3. ASSUME NEW v \in Workers,
             \/ \E s \in Subs \union {NoSub} : Take(v, s) \/ TakeUnlocked(v, s)
             \/ \E job \in DOMAIN jobs : TakeAgain(v, job)
             \/ \E r \in Reports : ScanSucceeds(v, r)
             \/ ScanFails(v) \/ SaveFailure(v) \/ InsertSnapshot(v) \/ CommitSnapshot(v)
             \/ ReadBaseline(v) \/ SaveEvents(v) \/ Finish(v)
      PROVE  goes
  BY <1>1, <1>3 DEF Take, TakeUnlocked, TakeAgain, Start, ScanSucceeds, ScanFails,
     SaveFailure, InsertSnapshot, CommitSnapshot, ReadBaseline, SaveEvents, Finish, Goto,
     Busy, At, Recording
<1>4. ASSUME NEW v \in Workers, RecordFails(v) \/ Crash(v) \/ RowMissing(v) PROVE goes
  BY <1>1, <1>4 DEF RecordFails, Crash, RowMissing, Dies
<1>5. ASSUME NEW v \in Workers, MarkDelivered(v) \/ Record(v) PROVE goes
  BY <1>1, <1>5 DEF MarkDelivered, Record, Goto
<1>6. CASE Tick
  BY <1>6 DEF Tick, Recording
<1>7. CASE CleanupHistory \/ (\E last \in DOMAIN jobs : CleanupArchive(last))
             \/ UNCHANGED vars
  BY <1>7 DEF CleanupHistory, CleanupArchive, vars
<1> QED BY <1>2, <1>3, <1>4, <1>5, <1>6, <1>7 DEF Next

\* After the mail, the worker's list holds what the mail told.
LEMMA WrittenList ==
  ASSUME WellFormed, NEW w \in Workers, NEW mail \in MailRow,
         Sends(w, mail), Writes(w, mail)
  PROVE  /\ mails' = Append(mails, mail) /\ UNCHANGED <<now, jobs, stores>>
         /\ worker'[w].job = worker[w].job /\ Sub(w)' = Sub(w) /\ Recording(w)'
         /\ \A k \in DOMAIN worker'[w].todo : Told(mail, worker'[w].todo[k])
         /\ mail.kind = "report" =>
              At(w, "reported")' /\ worker'[w].todo = <<Key("last_sent"), Key("weekly_report")>>
         /\ mail.kind = "digest" => worker'[w].todo = <<Key("noncritical_digest")>>
<1>1. /\ mails' = Append(mails, mail) /\ UNCHANGED <<now, jobs, stores>>
      /\ worker[w] \in WorkerState
  BY DEF Writes, Mailed, WellFormed, Typed
<1>2. ASSUME NEW phase \in {"reported", "record"}, NEW todo, NEW then,
             Mailed(w, mail, phase, todo, then)
      PROVE  /\ worker'[w].job = worker[w].job /\ Sub(w)' = Sub(w) /\ Recording(w)'
             /\ worker'[w].phase = phase /\ worker'[w].todo = todo
  <2>1. worker'[w] = [worker[w] EXCEPT !.phase = phase, !.todo = todo, !.then = then]
    BY <1>2 DEF Mailed, WellFormed, Typed
  <2> QED BY <1>1, <1>2, <2>1 DEF WorkerState, Sub, Recording
<1>3. ASSUME mail.kind = "report"
      PROVE  /\ worker'[w].job = worker[w].job /\ Sub(w)' = Sub(w) /\ Recording(w)'
             /\ At(w, "reported")'
             /\ worker'[w].todo = <<Key("last_sent"), Key("weekly_report")>>
  BY <1>2, <1>3 DEF Writes, At
<1>4. ASSUME mail.kind = "digest"
      PROVE  /\ worker'[w].job = worker[w].job /\ Sub(w)' = Sub(w) /\ Recording(w)'
             /\ worker'[w].todo = <<Key("noncritical_digest")>>
  BY <1>2, <1>4 DEF Writes
<1>5. ASSUME mail.kind = "failure"
      PROVE  /\ worker'[w].job = worker[w].job /\ Sub(w)' = Sub(w) /\ Recording(w)'
             /\ worker'[w].todo = <<Key("scan_failed")>>
  BY <1>2, <1>5 DEF Writes
<1>6. ASSUME mail.kind = "alert"
      PROVE  /\ worker'[w].job = worker[w].job /\ Sub(w)' = Sub(w) /\ Recording(w)'
             /\ \A k \in DOMAIN worker'[w].todo : Told(mail, worker'[w].todo[k])
  <2>1. worker[w].report \in Reports /\ worker[w].base \in Rep
        /\ mail.rows = Rows(worker[w].job, Alerting(w))
    BY <1>1, <1>6 DEF Sends, WellFormed, Phased, Knows, At, Scanned, WorkerState
  <2>2. PICK order \in Orders(BatchMarks(w)) :
          Mailed(w, mail, "record", <<Key("alert_batch")>> \o order, "digest")
    BY <1>6 DEF Writes
  <2>3. /\ worker'[w].job = worker[w].job /\ Sub(w)' = Sub(w) /\ Recording(w)'
        /\ worker'[w].todo = <<Key("alert_batch")>> \o order
    BY <1>2, <2>2
  <2>4. ASSUME NEW e \in Alerting(w) PROVE Told(mail, AlertKey(e))
    <3> DEFINE row == [job |-> worker[w].job, at |-> now, event |-> e]
    <3>1. row \in mail.rows /\ row.event = e
      BY <2>1 DEF Rows
    <3> HIDE DEF row
    <3> QED BY <1>6, <3>1 DEF Told
  <2>5. Told(mail, Key("alert_batch"))
    BY <1>6 DEF Told
  <2> DEFINE todo == <<Key("alert_batch")>> \o order
  <2>6. \A k \in DOMAIN todo :
          todo[k] = Key("alert_batch") \/ \E e \in Alerting(w) : todo[k] = AlertKey(e)
    BY <2>1, AlertOrders
  <2>7. worker'[w].todo = todo
    BY <2>3
  <2> HIDE DEF todo
  <2>8. \A k \in DOMAIN todo : Told(mail, todo[k])
    BY <2>4, <2>5, <2>6
  <2> QED BY <2>3, <2>7, <2>8
<1>7. mail.kind \in Kinds
  BY DEF MailRow
<1>8. /\ mail.kind = "report" =>
           Told(mail, Key("last_sent")) /\ Told(mail, Key("weekly_report"))
      /\ mail.kind = "digest" => Told(mail, Key("noncritical_digest"))
      /\ mail.kind = "failure" => Told(mail, Key("scan_failed"))
  BY DEF Told
<1>9. ASSUME NEW a, NEW b, NEW k \in DOMAIN <<a, b>> PROVE <<a, b>>[k] \in {a, b}
  OBVIOUS
<1>10. ASSUME NEW a, NEW k \in DOMAIN <<a>> PROVE <<a>>[k] = a
  OBVIOUS
<1>11. \A k \in DOMAIN worker'[w].todo : Told(mail, worker'[w].todo[k])
  <2>1. CASE mail.kind = "report"
    BY <1>3, <1>8, <1>9, <2>1
  <2>2. CASE mail.kind = "digest"
    BY <1>4, <1>8, <1>10, <2>2
  <2>3. CASE mail.kind = "failure"
    BY <1>5, <1>8, <1>10, <2>3
  <2> QED BY <1>6, <1>7, <2>1, <2>2, <2>3 DEF Kinds
<1> QED BY <1>1, <1>3, <1>4, <1>5, <1>6, <1>7, <1>11 DEF Kinds

\* A record takes the head off the list and writes it down.
LEMMA RecordStep ==
  ASSUME WellFormed, NEW w \in Workers, Record(w)
  PROVE  /\ UNCHANGED <<now, jobs, mails, delivered>>
         /\ marks' = Mark(Sub(w), worker[w].todo[1])
         /\ worker'[w].job = worker[w].job /\ Sub(w)' = Sub(w)
         /\ worker[w].todo # <<>> /\ 1 \in DOMAIN worker[w].todo
         /\ worker[w].todo \in Seq(CooldownKeys)
         /\ worker'[w].todo = Tail(worker[w].todo)
         /\ \A k \in DOMAIN Tail(worker[w].todo) :
              k + 1 \in DOMAIN worker[w].todo /\ Tail(worker[w].todo)[k] = worker[w].todo[k + 1]
         /\ \A k \in DOMAIN worker[w].todo : k # 1 =>
              /\ k - 1 \in DOMAIN Tail(worker[w].todo)
              /\ Tail(worker[w].todo)[k - 1] = worker[w].todo[k]
              /\ Recording(w)'
<1> DEFINE todo == worker[w].todo
           p == IF Len(todo) = 1 THEN worker[w].then ELSE "record"
<1>1. /\ worker[w] \in WorkerState /\ todo \in Seq(CooldownKeys) /\ todo # <<>>
  BY DEF Record, At, WellFormed, Typed, Phased, Knows, WorkerState
<1>2. worker'[w] = [worker[w] EXCEPT !.todo = Tail(todo), !.phase = p]
  BY DEF Record, At, WellFormed, Typed
<1>3. worker'[w].job = worker[w].job /\ worker'[w].todo = Tail(todo) /\ worker'[w].phase = p
  BY <1>1, <1>2 DEF WorkerState
<1>4. /\ UNCHANGED <<now, jobs, mails, delivered>>
      /\ marks' = Mark(Sub(w), Head(todo))
  BY DEF Record, history
<1>5. Sub(w)' = Sub(w)
  BY <1>3, <1>4 DEF Sub
<1> HIDE DEF todo, p
<1>6. /\ Len(todo) \in Nat \ {0} /\ DOMAIN todo = 1 .. Len(todo)
      /\ Head(todo) = todo[1] /\ Tail(todo) \in Seq(CooldownKeys)
      /\ Len(Tail(todo)) = Len(todo) - 1
      /\ \A i \in 1 .. Len(Tail(todo)) : Tail(todo)[i] = todo[i + 1]
  BY <1>1, EmptySeq, HeadTailProperties, LenProperties
<1>7. DOMAIN Tail(todo) = 1 .. Len(todo) - 1
  BY <1>6, LenProperties
<1>8. ASSUME NEW k \in DOMAIN todo, k # 1
      PROVE  k - 1 \in DOMAIN Tail(todo) /\ Tail(todo)[k - 1] = todo[k] /\ Recording(w)'
  <2>1. Len(todo) # 1
    BY <1>6, <1>8
  <2>2. p = "record"
    BY <2>1 DEF p
  <2>3. k - 1 \in DOMAIN Tail(todo) /\ k - 1 + 1 = k
    BY <1>6, <1>7, <1>8
  <2> QED BY <1>3, <1>6, <1>7, <2>2, <2>3 DEF Recording
<1>9. \A k \in DOMAIN Tail(todo) : k + 1 \in DOMAIN todo /\ Tail(todo)[k] = todo[k + 1]
  BY <1>6, <1>7
<1>10. 1 \in DOMAIN todo
  BY <1>6
<1> QED BY <1>1, <1>3, <1>4, <1>5, <1>6, <1>8, <1>9, <1>10 DEF todo

\* The delivery is written down before the keys.
LEMMA DeliveredStep ==
  ASSUME WellFormed, NEW w \in Workers, MarkDelivered(w)
  PROVE  /\ UNCHANGED <<now, jobs, mails, marks>>
         /\ delivered' = delivered \union {<<Sub(w), worker[w].job>>}
         /\ worker'[w].job = worker[w].job /\ Sub(w)' = Sub(w) /\ Recording(w)'
         /\ Recording(w) /\ worker'[w].todo = worker[w].todo
<1>1. worker'[w] = [worker[w] EXCEPT !.phase = "record"] /\ worker[w] \in WorkerState
  BY DEF MarkDelivered, Goto, WellFormed, Typed
<1> QED BY <1>1 DEF MarkDelivered, history, WorkerState, Sub, Recording, At

(***************************************************************************)
(* A cooldown silences only those who were told.                           *)
(***************************************************************************)

\* Only a record changes the marks.
LEMMA MarksChange ==
  ASSUME WellFormed, [Next]_vars
  PROVE  marks' = marks \/ \E w \in Workers : Record(w)
BY StoreWriters DEF CleanupHistory, CleanupArchive, SaveFailure, InsertSnapshot,
   CommitSnapshot, SaveEvents, MarkDelivered

\* Every step keeps MarksTold.
LEMMA MarksToldInductive ==
  ASSUME WellFormed, Kept, MarksTold, [Next]_vars
  PROVE  MarksTold'
<1> DEFINE ToldBy(i, s, at, key) ==
      mails[i].sub = s /\ mails[i].at = at /\ Told(mails[i], key)
<1>1. ASSUME NEW s, NEW at, NEW key, \E i \in DOMAIN mails : ToldBy(i, s, at, key)
      PROVE  \E i \in DOMAIN mails' : mails'[i].sub = s /\ mails'[i].at = at /\ Told(mails'[i], key)
  BY <1>1 DEF Kept
<1>2. ASSUME NEW m \in marks'
      PROVE  \E i \in DOMAIN mails' :
               mails'[i].sub = m.sub /\ mails'[i].at = m.at /\ Told(mails'[i], m.key)
  <2>1. CASE m \in marks
    BY <1>1, <2>1 DEF MarksTold
  <2>2. CASE m \notin marks
    <3>1. PICK w \in Workers : Record(w)
      BY <2>2, MarksChange
    <3>2. /\ marks' = Mark(Sub(w), worker[w].todo[1])
          /\ 1 \in DOMAIN worker[w].todo
      BY <3>1, RecordStep
    <3> DEFINE key == worker[w].todo[1]
    <3>3. m = [sub |-> Sub(w), key |-> key, at |-> now]
      <4>1. m \in Mark(Sub(w), key)
        BY <3>2
      <4> HIDE DEF key
      <4> QED BY <2>2, <4>1, MarkedRow
    <3>4. m.sub = Sub(w) /\ m.key = key /\ m.at = now
      BY <3>3
    <3>5. \E i \in DOMAIN mails : ToldBy(i, Sub(w), now, key)
      BY <3>1, <3>2 DEF MarksTold, Record, At, Recording
    <3> HIDE DEF key
    <3> QED BY <1>1, <3>4, <3>5
  <2> QED BY <2>1, <2>2
<1>3. ASSUME NEW v \in Workers, Recording(v)', NEW k \in DOMAIN worker'[v].todo
      PROVE  \E i \in DOMAIN mails' :
               /\ mails'[i].sub = Sub(v)' /\ mails'[i].at = now'
               /\ Told(mails'[i], worker'[v].todo[k])
  <2>1. now' = now
    BY <1>3, ComesToRecord
  <2>2. ASSUME Recording(v), Sub(v)' = Sub(v),
               NEW j \in DOMAIN worker[v].todo, worker[v].todo[j] = worker'[v].todo[k]
        PROVE  \E i \in DOMAIN mails' :
                 /\ mails'[i].sub = Sub(v)' /\ mails'[i].at = now'
                 /\ Told(mails'[i], worker'[v].todo[k])
    <3>1. \E i \in DOMAIN mails : ToldBy(i, Sub(v), now, worker[v].todo[j])
      BY <2>2 DEF MarksTold
    <3> QED BY <1>1, <2>1, <2>2, <3>1
  <2>3. CASE worker'[v] = worker[v]
    <3>1. Recording(v) /\ worker[v].job \in DOMAIN jobs
      BY <1>3, <2>3 DEF Recording, WellFormed, Phased, Knows, Busy
    <3>2. Sub(v)' = Sub(v)
      BY <2>3, <3>1 DEF Sub, Kept
    <3> QED BY <1>3, <2>2, <2>3, <3>1, <3>2
  <2>4. CASE MarkDelivered(v)
    BY <1>3, <2>2, <2>4, DeliveredStep
  <2>5. CASE Record(v)
    <3>1. /\ Sub(v)' = Sub(v) /\ k + 1 \in DOMAIN worker[v].todo
          /\ worker'[v].todo[k] = worker[v].todo[k + 1]
      BY <1>3, <2>5, RecordStep
    <3>2. Recording(v)
      BY <2>5 DEF Record, At, Recording
    <3> QED BY <2>2, <3>1, <3>2
  <2>6. ASSUME NEW mail \in MailRow, Sends(v, mail), Writes(v, mail)
        PROVE  \E i \in DOMAIN mails' :
                 /\ mails'[i].sub = Sub(v)' /\ mails'[i].at = now'
                 /\ Told(mails'[i], worker'[v].todo[k])
    <3>1. /\ mails' = Append(mails, mail) /\ Sub(v)' = Sub(v)
          /\ Told(mail, worker'[v].todo[k])
      BY <1>3, <2>6, WrittenList
    <3>2. Len(mails) + 1 \in DOMAIN mails' /\ mails'[Len(mails) + 1] = mail
      BY <3>1, Appended DEF WellFormed, Typed
    <3>3. mail.sub = Sub(v) /\ mail.at = now
      BY <2>6 DEF Sends
    <3> QED BY <2>1, <3>1, <3>2, <3>3
  <2> QED BY <1>3, <2>3, <2>4, <2>5, <2>6, ComesToRecord
<1> QED BY <1>2, <1>3 DEF MarksTold

\* Behind every mark is a mail that reached the subscriber and said what the
\* mark stands for: whatever is refused, crashes or overlaps, no cooldown
\* silences someone who was not told.
THEOREM SilencedTheorem == Spec => []SilencedOnlyAfterMail
<1>1. Init => MarksTold
  BY DEF Init, MarksTold, Recording, Idle
<1>2. WellFormed /\ MarksTold /\ [Next]_vars => MarksTold'
  BY WellFormedInductive, MarksToldInductive
<1>3. WellFormed /\ MarksTold => SilencedOnlyAfterMail
  <2> SUFFICES ASSUME WellFormed, MarksTold, NEW m \in marks
               PROVE  \E i \in DOMAIN mails :
                        mails[i].sub = m.sub /\ mails[i].at <= m.at /\ Told(mails[i], m.key)
    BY DEF SilencedOnlyAfterMail
  <2>1. PICK i \in DOMAIN mails :
          mails[i].sub = m.sub /\ mails[i].at = m.at /\ Told(mails[i], m.key)
    BY DEF MarksTold
  <2>2. m.at \in Nat
    BY DEF WellFormed, Typed
  <2> QED BY <2>1, <2>2
<1> QED BY WellFormedTheorem, <1>1, <1>2, <1>3, PTL DEF Spec

(***************************************************************************)
(* Every undisturbed mail is recorded before the next one of its kind.     *)
(***************************************************************************)

\* A worker begins a job: a new one, or one that is handled twice.
Begins(w, job) ==
  /\ ~Busy(w) /\ job \in Nat
  /\ worker' = [worker EXCEPT ![w] = [Idle EXCEPT !.phase = "scan", !.job = job]]
  /\ UNCHANGED <<now, lastId, snapshots, lost, events, delivered, marks, mails, troubled>>
  /\ \/ Overlapping(w) = {}
     \/ Overlapping(w) \union {job} \subseteq overlapped'
  /\ job \notin DOMAIN jobs \/ job \in blurred'

\* Only the start of a job makes a worker busy or gives it another job.
LEMMA JobSteps ==
  ASSUME WellFormed, [Next]_vars
  PROVE  \/ \E w \in Workers, job \in Nat : Begins(w, job)
         \/ \A v \in Workers : Busy(v)' => Busy(v) /\ worker'[v].job = worker[v].job
<1> DEFINE keeps == \A v \in Workers : Busy(v)' => Busy(v) /\ worker'[v].job = worker[v].job
<1>1. worker \in [Workers -> WorkerState] /\ jobs \in Seq(Subs \union {NoSub})
  BY DEF WellFormed, Typed
<1>2. /\ Len(jobs) + 1 \in Nat /\ Len(jobs) + 1 \notin DOMAIN jobs
      /\ DOMAIN jobs \subseteq Nat
  BY <1>1, LenProperties
<1>3. ASSUME NEW w \in Workers, NEW s \in Subs \union {NoSub}, Take(w, s) \/ TakeUnlocked(w, s)
      PROVE  \E job \in Nat : Begins(w, job)
  BY <1>2, <1>3 DEF Take, TakeUnlocked, Start, Begins
<1>4. ASSUME NEW w \in Workers, NEW job \in DOMAIN jobs, TakeAgain(w, job)
      PROVE  \E n \in Nat : Begins(w, n)
  <2>1. Begins(w, job)
    BY <1>2, <1>4 DEF TakeAgain, Start, Begins
  <2> QED BY <1>2, <2>1
<1>5. ASSUME NEW w \in Workers, NEW state,
             worker' = [worker EXCEPT ![w] = state], state.job = worker[w].job, Busy(w)
      PROVE  keeps
  BY <1>1, <1>5 DEF Busy
<1>6. ASSUME NEW w \in Workers, worker' = [worker EXCEPT ![w] = Idle]
      PROVE  keeps
  BY <1>1, <1>6 DEF Busy, Idle
<1>7. ASSUME NEW w \in Workers, NEW phase, Goto(w, phase), Busy(w)
      PROVE  keeps
  BY <1>1, <1>7 DEF Busy, Goto, WorkerState
<1>8. ASSUME NEW w \in Workers,
             SendReport(w) \/ SendAlert(w) \/ SendDigest(w) \/ SendFailure(w)
      PROVE  keeps
  <2>1. Busy(w)
    BY <1>8 DEF SendReport, SendAlert, SendDigest, SendFailure, At, Busy
  <2>2. ASSUME NEW phase, Skip(w, phase) PROVE keeps
    BY <1>7, <2>1, <2>2 DEF Skip
  <2>3. ASSUME NEW mail, NEW phase, Refused(w, mail, phase) PROVE keeps
    BY <1>7, <2>1, <2>3 DEF Refused
  <2>4. ASSUME NEW mail \in MailRow, Sends(w, mail), Writes(w, mail) PROVE keeps
    <3>1. worker'[w].job = worker[w].job
      BY <2>4, WrittenList
    <3>2. \A v \in Workers \ {w} : worker'[v] = worker[v]
      BY <1>8, MailEffects
    <3> QED BY <2>1, <3>1, <3>2 DEF Busy
  <2> QED BY <1>8, <2>2, <2>3, <2>4, MailSteps
<1>9. ASSUME NEW w \in Workers,
             \/ \E r \in Reports : ScanSucceeds(w, r)
             \/ ScanFails(w) \/ SaveFailure(w) \/ InsertSnapshot(w) \/ CommitSnapshot(w)
             \/ ReadBaseline(w) \/ SaveEvents(w)
             \/ MarkDelivered(w) \/ Record(w) \/ RecordFails(w)
      PROVE  keeps
  <2>1. Busy(w)
    BY <1>9 DEF ScanSucceeds, ScanFails, SaveFailure, InsertSnapshot, CommitSnapshot,
       ReadBaseline, SaveEvents, MarkDelivered, Record, RecordFails, At, Busy
  <2>2. CASE Record(w)
    <3>1. worker'[w].job = worker[w].job
      BY <2>2, RecordStep
    <3> QED BY <1>1, <2>1, <2>2, <3>1 DEF Record, Busy
  <2>3. CASE ScanFails(w) \/ SaveFailure(w) \/ CommitSnapshot(w) \/ SaveEvents(w)
               \/ MarkDelivered(w)
    BY <1>7, <2>1, <2>3 DEF ScanFails, SaveFailure, CommitSnapshot, SaveEvents,
       MarkDelivered
  <2>4. CASE InsertSnapshot(w)
    <3>1. PICK id \in Nat : worker' = [worker EXCEPT ![w].phase = "inserted", ![w].id = id]
      BY <2>4, InsertedRow
    <3> QED BY <1>1, <2>1, <3>1 DEF Busy, WorkerState
  <2>5. CASE ReadBaseline(w)
    BY <1>1, <2>1, <2>5 DEF ReadBaseline, Busy, WorkerState
  <2>6. CASE RecordFails(w)
    BY <1>1, <2>1, <2>6 DEF RecordFails, Busy, WorkerState
  <2>7. ASSUME NEW r \in Reports, ScanSucceeds(w, r) PROVE keeps
    BY <1>1, <2>1, <2>7 DEF ScanSucceeds, Busy, WorkerState
  <2> QED BY <1>9, <2>2, <2>3, <2>4, <2>5, <2>6, <2>7
<1>10. ASSUME NEW w \in Workers, Finish(w) \/ Crash(w) \/ RowMissing(w) PROVE keeps
  BY <1>6, <1>10 DEF Finish, Crash, RowMissing, Dies
<1>11. CASE CleanupHistory \/ (\E last \in DOMAIN jobs : CleanupArchive(last))
              \/ Tick \/ UNCHANGED vars
  BY <1>11 DEF CleanupHistory, CleanupArchive, Tick, vars, Busy
<1> QED BY <1>3, <1>4, <1>8, <1>9, <1>10, <1>11 DEF Next

\* Every step keeps Overlaps.
LEMMA OverlapsInductive ==
  ASSUME WellFormed, Kept, Overlaps, [Next]_vars
  PROVE  Overlaps'
<1> SUFFICES ASSUME NEW u \in Workers, NEW v \in Workers, u # v, Busy(u)', Busy(v)'
             PROVE  worker'[u].job \in overlapped'
  BY DEF Overlaps
<1>1. CASE \A w \in Workers : Busy(w)' => Busy(w) /\ worker'[w].job = worker[w].job
  BY <1>1 DEF Overlaps, Kept
<1>2. ASSUME NEW w \in Workers, NEW job \in Nat, Begins(w, job)
      PROVE  worker'[u].job \in overlapped'
  <2>1. worker \in [Workers -> WorkerState]
    BY DEF WellFormed, Typed
  <2>2. worker'[w].job = job /\ \A x \in Workers \ {w} : worker'[x] = worker[x]
    BY <1>2, <2>1 DEF Begins, Idle
  <2>3. \A x \in Workers \ {w} : Busy(x)' => worker[x].job \in Overlapping(w)
    BY <2>2 DEF Busy, Overlapping
  <2>4. Overlapping(w) \union {job} \subseteq overlapped'
    <3>1. u # w \/ v # w
      OBVIOUS
    <3> QED BY <1>2, <2>3, <3>1 DEF Begins
  <2> QED BY <2>2, <2>3, <2>4
<1> QED BY <1>1, <1>2, JobSteps

\* A key that is written, or about to be, stays so.
LEMMA KeyKept ==
  ASSUME WellFormed, Kept, [Next]_vars, NEW i \in DOMAIN mails, NEW key,
         mails[i].job \notin troubled', KeyRecorded(i, key)
  PROVE  KeyRecorded(i, key)'
<1>1. mails'[i] = mails[i] /\ mails[i] \in MailRow /\ mails[i].at \in Nat /\ now \in Nat
  <2>1. mails[i] \in MailRow
    BY DEF WellFormed, Typed
  <2> QED BY <2>1 DEF Kept, WellFormed, Typed, MailRow
<1>2. ASSUME NEW w \in Workers, Recording(w), worker[w].job = mails[i].job,
             Sub(w) = mails[i].sub, mails[i].at = now,
             NEW k \in DOMAIN worker[w].todo, worker[w].todo[k] = key
      PROVE  KeyRecorded(i, key)'
  <2>1. now' = now
    BY <1>2, GoesOnRecording
  <2>2. CASE worker'[w] = worker[w]
    <3>1. Sub(w)' = Sub(w)
      BY <1>2, <2>2 DEF Sub, Kept, WellFormed, Phased, Knows, Busy, Recording
    <3> QED BY <1>1, <1>2, <2>1, <2>2, <3>1 DEF KeyRecorded, Recording
  <2>3. CASE MarkDelivered(w)
    BY <1>1, <1>2, <2>1, <2>3, DeliveredStep DEF KeyRecorded
  <2>4. CASE Record(w)
    <3>1. /\ worker'[w].job = worker[w].job /\ Sub(w)' = Sub(w)
          /\ marks' = Mark(Sub(w), worker[w].todo[1])
      BY <2>4, RecordStep
    <3>2. CASE k = 1
      <4> DEFINE m == [sub |-> Sub(w), key |-> key, at |-> now]
      <4>1. m \in marks'
        BY <1>2, <3>1, <3>2, MarkedRow
      <4>2. m.sub = mails'[i].sub /\ m.key = key /\ mails'[i].at <= m.at
        BY <1>1, <1>2
      <4> HIDE DEF m
      <4> QED BY <4>1, <4>2 DEF KeyRecorded
    <3>3. CASE k # 1
      <4>1. /\ Recording(w)' /\ k - 1 \in DOMAIN worker'[w].todo
            /\ worker'[w].todo[k - 1] = key
        BY <1>2, <2>4, <3>3, RecordStep
      <4> QED BY <1>1, <1>2, <2>1, <3>1, <4>1 DEF KeyRecorded
    <3> QED BY <3>2, <3>3
  <2> QED BY <1>2, <2>2, <2>3, <2>4, GoesOnRecording
<1>3. ASSUME NEW m \in marks, m.sub = mails[i].sub, m.key = key, mails[i].at <= m.at
      PROVE  KeyRecorded(i, key)'
  <2>1. CASE m \in marks'
    BY <1>1, <1>3, <2>1 DEF KeyRecorded
  <2>2. CASE m \notin marks'
    <3>1. PICK w \in Workers : Record(w)
      BY <2>2, MarksChange
    <3>2. marks' = Mark(Sub(w), worker[w].todo[1])
      BY <3>1, RecordStep
    <3> DEFINE n == [sub |-> Sub(w), key |-> worker[w].todo[1], at |-> now]
    <3>3. n \in marks' /\ m.sub = Sub(w) /\ m.key = worker[w].todo[1]
      BY <2>2, <3>2, MarkedRow
    <3>4. m.at \in Nat /\ m.at <= now
      BY DEF WellFormed, Typed, Dated
    <3>5. n.sub = mails'[i].sub /\ n.key = key /\ mails'[i].at <= n.at
      BY <1>1, <1>3, <3>3, <3>4
    <3> HIDE DEF n
    <3> QED BY <3>3, <3>5 DEF KeyRecorded
  <2> QED BY <2>1, <2>2
<1> QED BY <1>2, <1>3 DEF KeyRecorded

\* What is delivered stays so; only mark_report_sent adds to it.
LEMMA DeliveredChange ==
  ASSUME WellFormed, [Next]_vars
  PROVE  delivered \subseteq delivered'
BY StoreWriters DEF CleanupHistory, CleanupArchive, SaveFailure, InsertSnapshot,
   CommitSnapshot, SaveEvents, MarkDelivered,
   Record

\* A delivery that is written, or about to be, stays so.
LEMMA DeliveryKept ==
  ASSUME WellFormed, Kept, [Next]_vars, NEW i \in DOMAIN mails,
         mails[i].job \notin troubled', DeliveryRecorded(i)
  PROVE  DeliveryRecorded(i)'
<1>1. mails'[i] = mails[i]
  BY DEF Kept
<1>2. CASE <<mails[i].sub, mails[i].job>> \in delivered
  BY <1>1, <1>2, DeliveredChange DEF DeliveryRecorded
<1>3. ASSUME NEW w \in Workers, At(w, "reported"), worker[w].job = mails[i].job,
             Sub(w) = mails[i].sub
      PROVE  DeliveryRecorded(i)'
  <2>1. CASE worker'[w] = worker[w]
    <3>1. Sub(w)' = Sub(w)
      BY <1>3, <2>1 DEF Sub, Kept, WellFormed, Phased, Knows, Busy, At
    <3> QED BY <1>1, <1>3, <2>1, <3>1 DEF DeliveryRecorded, At
  <2>2. CASE MarkDelivered(w)
    BY <1>1, <1>3, <2>2, DeliveredStep DEF DeliveryRecorded
  <2>3. CASE Record(w)
    BY <1>3, <2>3 DEF Record, At
  <2> QED BY <1>3, <2>1, <2>2, <2>3, GoesOnRecording DEF At, Recording
<1> QED BY <1>2, <1>3 DEF DeliveryRecorded

\* Every step keeps Recorded.
LEMMA RecordedInductive ==
  ASSUME WellFormed, Kept, Recorded, [Next]_vars
  PROVE  Recorded'
<1> SUFFICES ASSUME NEW i \in DOMAIN mails', mails'[i].job \notin troubled' \union overlapped'
             PROVE  /\ mails'[i].kind = "report" =>
                         /\ KeyRecorded(i, Key("weekly_report"))'
                         /\ DeliveryRecorded(i)'
                    /\ mails'[i].kind = "digest" =>
                         KeyRecorded(i, Key("noncritical_digest"))'
  BY DEF Recorded
<1>1. CASE i \in DOMAIN mails
  <2>1. /\ mails'[i] = mails[i] /\ mails[i].job \notin troubled'
        /\ mails[i].job \notin troubled \union overlapped
    BY <1>1 DEF Kept
  <2> QED BY <1>1, <2>1, KeyKept, DeliveryKept DEF Recorded
<1>2. CASE i \notin DOMAIN mails
  <2> DEFINE mail == mails'[i]
  <2>1. PICK w \in Workers :
          Sends(w, mail) /\ (Writes(w, mail) \/ worker[w].job \in troubled')
    BY <1>2, NewMail
  <2>2. mail \in MailRow /\ mail.sub = Sub(w) /\ mail.job = worker[w].job /\ mail.at = now
    BY <2>1 DEF Sends
  <2>3. Writes(w, mail)
    BY <2>1, <2>2
  <2> HIDE DEF mail
  <2>4. /\ now' = now /\ worker'[w].job = worker[w].job /\ Sub(w)' = Sub(w) /\ Recording(w)'
        /\ mail.kind = "report" =>
             At(w, "reported")' /\ worker'[w].todo = <<Key("last_sent"), Key("weekly_report")>>
        /\ mail.kind = "digest" => worker'[w].todo = <<Key("noncritical_digest")>>
    BY <2>1, <2>2, <2>3, WrittenList
  <2>5. ASSUME NEW key, NEW k \in DOMAIN worker'[w].todo, worker'[w].todo[k] = key
        PROVE  KeyRecorded(i, key)'
    BY <2>2, <2>4, <2>5 DEF KeyRecorded, mail
  <2>6. \A a, b : 2 \in DOMAIN <<a, b>> /\ <<a, b>>[2] = b
    OBVIOUS
  <2>7. \A a : 1 \in DOMAIN <<a>> /\ <<a>>[1] = a
    OBVIOUS
  <2>8. ASSUME mail.kind = "report"
        PROVE  KeyRecorded(i, Key("weekly_report"))' /\ DeliveryRecorded(i)'
    <3>1. 2 \in DOMAIN worker'[w].todo /\ worker'[w].todo[2] = Key("weekly_report")
      BY <2>4, <2>6, <2>8
    <3>2. At(w, "reported")' /\ worker'[w].job = mails'[i].job /\ Sub(w)' = mails'[i].sub
      BY <2>2, <2>4, <2>8 DEF mail
    <3> QED BY <2>5, <3>1, <3>2 DEF DeliveryRecorded
  <2>9. ASSUME mail.kind = "digest" PROVE KeyRecorded(i, Key("noncritical_digest"))'
    <3>1. 1 \in DOMAIN worker'[w].todo /\ worker'[w].todo[1] = Key("noncritical_digest")
      BY <2>4, <2>7, <2>9
    <3> QED BY <2>5, <3>1
  <2> QED BY <2>8, <2>9 DEF mail
<1> QED BY <1>1, <1>2

\* When a worker mails, the keys of an earlier undisturbed mail to the same
\* subscription are written.
LEMMA EarlierMark ==
  ASSUME WellFormed, Overlaps, NEW i \in DOMAIN mails, NEW key, KeyRecorded(i, key),
         mails[i].job \notin overlapped,
         NEW w \in Workers, Busy(w), ~Recording(w)
  PROVE  \E m \in marks : m.sub = mails[i].sub /\ m.key = key /\ mails[i].at <= m.at
<1>1. ASSUME NEW v \in Workers, Recording(v), worker[v].job = mails[i].job PROVE FALSE
  <2>1. v # w /\ Busy(v)
    BY <1>1 DEF Recording, Busy
  <2> QED BY <1>1, <2>1 DEF Overlaps
<1> QED BY <1>1 DEF KeyRecorded

\* Every step keeps ReportsSpaced.
LEMMA ReportsSpacedInductive ==
  ASSUME WellFormed, Kept, Overlaps, Recorded, ReportsSpaced, [Next]_vars
  PROVE  ReportsSpaced'
<1> SUFFICES ASSUME NEW i \in DOMAIN mails', NEW j \in DOMAIN mails', Sent("report", i, j)'
             PROVE  /\ mails'[j].at - mails'[i].at >= ReportCooldown
                    /\ mails'[i].job # mails'[j].job
  BY DEF ReportsSpaced
<1>1. /\ i < j /\ mails'[i].kind = "report" /\ mails'[j].kind = "report"
      /\ mails'[i].sub = mails'[j].sub
      /\ mails'[i].job \notin troubled \union overlapped
      /\ mails'[i].job \notin troubled' \union overlapped'
      /\ mails'[j].job \notin overlapped
  BY DEF Sent, Kept
<1>2. mails \in Seq(MailRow) /\ now \in Nat /\ ReportCooldown \in Nat
  BY BoundsAssumption DEF WellFormed, Typed
<1>3. CASE j \in DOMAIN mails /\ i \in DOMAIN mails
  <2>1. mails'[i] = mails[i] /\ mails'[j] = mails[j]
    BY <1>3 DEF Kept
  <2>2. Sent("report", i, j)
    BY <1>1, <2>1 DEF Sent
  <2> QED BY <1>3, <2>1, <2>2 DEF ReportsSpaced
<1>4. CASE i \notin DOMAIN mails \/ j \notin DOMAIN mails
  <2>1. PICK n \in DOMAIN mails' : n \notin DOMAIN mails
    BY <1>4
  <2>2. PICK w \in Workers : /\ Sends(w, mails'[n])
                             /\ mails' = Append(mails, mails'[n])
    BY <2>1, NewMail
  <2> DEFINE mail == mails'[n]
  <2>3. mail \in MailRow
    BY <2>2 DEF Sends
  <2>4. /\ DOMAIN mails' = DOMAIN mails \union {Len(mails) + 1}
        /\ mails'[Len(mails) + 1] = mail
        /\ Len(mails) \in Nat /\ DOMAIN mails = 1 .. Len(mails)
    <3> HIDE DEF mail
    <3>1. mails' = Append(mails, mail)
      BY <2>2 DEF mail
    <3> QED BY <1>2, <2>3, <3>1, Appended
  <2>5. i \in DOMAIN mails /\ j = Len(mails) + 1
    BY <1>1, <1>4, <2>4
  <2>6. mails'[j] = mail /\ mails'[i] = mails[i]
    BY <2>4, <2>5 DEF Kept
  <2>7. At(w, "report") /\ ReportDue(w) /\ mail.sub = Sub(w) /\ mail.job = worker[w].job
        /\ mail.at = now
    BY <1>1, <2>2, <2>6 DEF Sends
  <2>8. KeyRecorded(i, Key("weekly_report")) /\ DeliveryRecorded(i)
    BY <1>1, <2>5, <2>6 DEF Recorded
  <2>9. Busy(w) /\ ~Recording(w)
    BY <2>7 DEF At, Busy, Recording
  <2>10. PICK m \in marks : /\ m.sub = mails[i].sub /\ m.key = Key("weekly_report")
                            /\ mails[i].at <= m.at
    BY <1>1, <2>5, <2>6, <2>8, <2>9, EarlierMark
  <2>11. ~(now - m.at < ReportCooldown) /\ m.at \in Nat
    BY <1>1, <2>6, <2>7, <2>10 DEF ReportDue, Cooling, WellFormed, Typed
  <2>12. mails[i].at \in Nat
    <3>1. mails[i] \in MailRow
      BY <1>2, <2>5
    <3> QED BY <3>1 DEF MailRow
  <2>13. mails'[j].at - mails'[i].at >= ReportCooldown
    BY <1>2, <2>6, <2>7, <2>10, <2>11, <2>12
  <2>14. ASSUME NEW v \in Workers, At(v, "reported"), worker[v].job = mails[i].job
         PROVE  FALSE
    <3>1. v # w /\ Busy(v)
      BY <2>7, <2>14 DEF At, Busy
    <3> QED BY <1>1, <2>6, <2>9, <2>14, <3>1 DEF Overlaps
  <2>15. <<mails[i].sub, mails[i].job>> \in delivered
    BY <2>8, <2>14 DEF DeliveryRecorded
  <2>16. mails'[i].job # mails'[j].job
    BY <1>1, <2>6, <2>7, <2>15 DEF ReportDue
  <2> QED BY <2>13, <2>16
<1> QED BY <1>3, <1>4

\* Every step keeps DigestsDated.
LEMMA DigestsDatedInductive ==
  ASSUME WellFormed, Kept, DigestsDated, [Next]_vars
  PROVE  DigestsDated'
<1> SUFFICES ASSUME NEW i \in DOMAIN mails', mails'[i].kind = "digest", NEW row \in mails'[i].rows
             PROVE  row.at <= mails'[i].at
  BY DEF DigestsDated
<1>1. CASE i \in DOMAIN mails
  BY <1>1 DEF DigestsDated, Kept
<1>2. CASE i \notin DOMAIN mails
  <2>1. PICK w \in Workers : Sends(w, mails'[i])
    BY <1>2, NewMail
  <2>2. At(w, "digest") /\ mails'[i].rows = Recent(w) /\ mails'[i].at = now
    BY <2>1 DEF Sends
  <2>3. worker[w].report \in Reports
    BY <2>2 DEF WellFormed, Phased, Knows, At, Scanned
  <2>4. row.at = now \/ row \in events
    BY <2>2, <2>3, RecentRows
  <2>5. now \in Nat /\ \A x \in events : x.at <= now
    BY DEF WellFormed, Typed, Dated
  <2> QED BY <2>2, <2>4, <2>5
<1> QED BY <1>1, <1>2

\* Every step keeps DigestNeverRepeats.
LEMMA DigestNeverRepeatsInductive ==
  ASSUME WellFormed, Kept, Overlaps, Recorded, DigestsDated, DigestNeverRepeats, [Next]_vars
  PROVE  DigestNeverRepeats'
<1> SUFFICES ASSUME NEW i \in DOMAIN mails', NEW j \in DOMAIN mails', Sent("digest", i, j)',
                    NEW x \in mails'[i].rows, x \in mails'[j].rows
             PROVE  FALSE
  BY DEF DigestNeverRepeats
<1>1. /\ i < j /\ mails'[i].kind = "digest" /\ mails'[j].kind = "digest"
      /\ mails'[i].sub = mails'[j].sub
      /\ mails'[i].job \notin troubled \union overlapped
      /\ mails'[j].job \notin overlapped
  BY DEF Sent, Kept
<1>2. mails \in Seq(MailRow) /\ now \in Nat /\ DayCooldown \in Nat /\ DayCooldown > 0
  BY BoundsAssumption DEF WellFormed, Typed
<1>3. CASE j \in DOMAIN mails /\ i \in DOMAIN mails
  <2>1. mails'[i] = mails[i] /\ mails'[j] = mails[j]
    BY <1>3 DEF Kept
  <2>2. Sent("digest", i, j)
    BY <1>1, <2>1 DEF Sent
  <2> QED BY <1>3, <2>1, <2>2 DEF DigestNeverRepeats
<1>4. CASE i \notin DOMAIN mails \/ j \notin DOMAIN mails
  <2>1. PICK n \in DOMAIN mails' : n \notin DOMAIN mails
    BY <1>4
  <2>2. PICK w \in Workers : /\ Sends(w, mails'[n])
                             /\ mails' = Append(mails, mails'[n])
    BY <2>1, NewMail
  <2> DEFINE mail == mails'[n]
  <2>3. mail \in MailRow
    BY <2>2 DEF Sends
  <2>4. /\ DOMAIN mails' = DOMAIN mails \union {Len(mails) + 1}
        /\ mails'[Len(mails) + 1] = mail
        /\ Len(mails) \in Nat /\ DOMAIN mails = 1 .. Len(mails)
    <3> HIDE DEF mail
    <3>1. mails' = Append(mails, mail)
      BY <2>2 DEF mail
    <3> QED BY <1>2, <2>3, <3>1, Appended
  <2>5. i \in DOMAIN mails /\ j = Len(mails) + 1
    BY <1>1, <1>4, <2>4
  <2>6. mails'[j] = mail /\ mails'[i] = mails[i]
    BY <2>4, <2>5 DEF Kept
  <2>7. /\ At(w, "digest") /\ mail.rows = Recent(w) /\ mail.sub = Sub(w)
        /\ ~Cooling(Sub(w), Key("noncritical_digest"), DayCooldown)
    BY <1>1, <2>2, <2>6 DEF Sends
  <2>8. KeyRecorded(i, Key("noncritical_digest"))
    BY <1>1, <2>5, <2>6 DEF Recorded
  <2>9. Busy(w) /\ ~Recording(w) /\ worker[w].report \in Reports
    BY <2>7 DEF At, Busy, Recording, WellFormed, Phased, Knows, Scanned
  <2>10. PICK m \in marks : /\ m.sub = mails[i].sub /\ m.key = Key("noncritical_digest")
                            /\ mails[i].at <= m.at
    BY <1>1, <2>5, <2>6, <2>8, <2>9, EarlierMark
  <2>11. ~(now - m.at < DayCooldown) /\ m.at \in Nat
    BY <1>1, <2>6, <2>7, <2>10 DEF Cooling, WellFormed, Typed
  <2>12. mails[i].at \in Nat /\ x \in EventRow
    <3>1. mails[i] \in MailRow
      BY <1>2, <2>5
    <3> QED BY <2>6, <3>1 DEF MailRow
  <2>13. x.at \in Nat /\ x.at <= mails[i].at
    BY <1>1, <2>5, <2>6, <2>12 DEF DigestsDated, EventRow
  <2>14. x.at = now \/ now - x.at < DayCooldown
    BY <2>6, <2>7, <2>9, RecentRows
  <2> QED BY <1>2, <2>10, <2>11, <2>12, <2>13, <2>14
<1> QED BY <1>3, <1>4

\* The records of the mails are an invariant.
THEOREM RecordedTheorem == Spec => [](Overlaps /\ Recorded /\ DigestsDated)
<1>1. Init => Overlaps /\ Recorded /\ DigestsDated
  <2>1. ASSUME Init PROVE DOMAIN mails = {}
    BY <2>1 DEF Init
  <2> QED BY <2>1 DEF Init, Overlaps, Busy, Idle, Recorded, DigestsDated
<1>2. /\ WellFormed /\ Overlaps /\ Recorded /\ DigestsDated /\ [Next]_vars
      => (Overlaps /\ Recorded /\ DigestsDated)'
  BY WellFormedInductive, OverlapsInductive, RecordedInductive, DigestsDatedInductive
<1> QED BY WellFormedTheorem, <1>1, <1>2, PTL DEF Spec

\* Weekly reports keep their distance: two that reach a subscription are at
\* least the cooldown apart and never about one scan, however often its job
\* is handled, unless the first was not recorded or jobs overlapped.
THEOREM ReportsSpacedTheorem == Spec => []ReportsSpaced
<1>1. Init => ReportsSpaced
  <2>1. ASSUME Init PROVE DOMAIN mails = {}
    BY <2>1 DEF Init
  <2> QED BY <2>1 DEF ReportsSpaced
<1>2. /\ WellFormed /\ Overlaps /\ Recorded /\ DigestsDated /\ ReportsSpaced /\ [Next]_vars
      => ReportsSpaced'
  BY WellFormedInductive, ReportsSpacedInductive
<1> QED BY WellFormedTheorem, RecordedTheorem, <1>1, <1>2, PTL DEF Spec

\* A digest does not repeat an earlier one: the events it collects are those
\* of the last day, and its cooldown lasts as long.
THEOREM DigestTheorem == Spec => []DigestNeverRepeats
<1>1. Init => DigestNeverRepeats
  <2>1. ASSUME Init PROVE DOMAIN mails = {}
    BY <2>1 DEF Init
  <2> QED BY <2>1 DEF DigestNeverRepeats
<1>2. /\ WellFormed /\ Overlaps /\ Recorded /\ DigestsDated /\ DigestNeverRepeats
      /\ [Next]_vars
      => DigestNeverRepeats'
  BY WellFormedInductive, DigestNeverRepeatsInductive
<1> QED BY WellFormedTheorem, RecordedTheorem, <1>1, <1>2, PTL DEF Spec

(***************************************************************************)
(* The owner learns of every critical finding.                             *)
(***************************************************************************)

\* The worker is still at the same scan.
SameScan(w) ==
  /\ worker'[w].job = worker[w].job /\ worker'[w].report = worker[w].report
  /\ worker'[w].base = worker[w].base

\* The statements that mail stay with their scan.
LEMMA MailersScan ==
  ASSUME WellFormed, NEW w \in Workers,
         SendReport(w) \/ SendAlert(w) \/ SendDigest(w) \/ SendFailure(w)
  PROVE  SameScan(w)
<1>1. worker \in [Workers -> WorkerState]
  BY DEF WellFormed, Typed
<1>2. ASSUME NEW phase, Goto(w, phase) PROVE SameScan(w)
  BY <1>1, <1>2 DEF Goto, SameScan, WorkerState
<1>3. ASSUME NEW mail, NEW phase, NEW todo, NEW then, Mailed(w, mail, phase, todo, then)
      PROVE  SameScan(w)
  BY <1>1, <1>3 DEF Mailed, SameScan, WorkerState
<1>4. ASSUME NEW phase, Skip(w, phase) PROVE SameScan(w)
  BY <1>2, <1>4 DEF Skip
<1>5. ASSUME NEW mail, NEW phase, Refused(w, mail, phase) PROVE SameScan(w)
  BY <1>2, <1>5 DEF Refused
<1>6. ASSUME NEW mail, Writes(w, mail) PROVE SameScan(w)
  BY <1>3, <1>6 DEF Writes
<1> QED BY <1>4, <1>5, <1>6, MailSteps

\* A worker is past the alert because it was, or has come to the alert now.
LEMMA ComesPastAlert ==
  ASSUME WellFormed, [Next]_vars, NEW w \in Workers, PastAlert(w)',
         worker'[w].report # NoReport
  PROVE  \/ worker'[w] = worker[w] /\ PastAlert(w)
         \/ /\ SameScan(w)
            /\ \/ worker[w].job \in troubled'
               \/ UNCHANGED <<jobs, events>> /\ (PastAlert(w) \/ SendAlert(w))
<1> DEFINE comes == \/ worker'[w] = worker[w] /\ PastAlert(w)
                    \/ /\ SameScan(w)
                       /\ \/ worker[w].job \in troubled'
                          \/ UNCHANGED <<jobs, events>> /\ (PastAlert(w) \/ SendAlert(w))
<1>1. worker \in [Workers -> WorkerState]
  BY DEF WellFormed, Typed
<1>2. ASSUME worker'[w] = worker[w] PROVE comes
  BY <1>2 DEF PastAlert, At
<1>3. ASSUME SendReport(w) \/ SendFailure(w) PROVE comes
  <2>1. SameScan(w)
    BY <1>3, MailersScan
  <2>2. SendReport(w)
    BY <1>3, <2>1 DEF SameScan, SendFailure, WellFormed, Phased, Knows, At
  <2>3. ASSUME NEW mail, Refused(w, mail, "alert") PROVE worker[w].job \in troubled'
    BY <2>3 DEF Refused
  <2>4. ASSUME Skip(w, "alert") PROVE FALSE
    BY <1>1, <2>4 DEF Skip, Goto, PastAlert, At, WorkerState
  <2>5. ASSUME NEW mail \in MailRow,
               Mailed(w, mail, "reported", <<Key("last_sent"), Key("weekly_report")>>, "alert")
        PROVE  FALSE
    BY <1>1, <2>5 DEF Mailed, PastAlert, At, WorkerState
  <2> QED BY <2>1, <2>2, <2>3, <2>4, <2>5, ReportCases
<1>4. ASSUME SendAlert(w) \/ SendDigest(w) PROVE comes
  <2>1. SameScan(w) /\ UNCHANGED <<jobs, events>>
    BY <1>4, MailersScan, MailEffects
  <2> QED BY <1>4, <2>1 DEF SendDigest, PastAlert, At
<1>5. ASSUME MarkDelivered(w) PROVE comes
  <2>1. worker'[w] = [worker[w] EXCEPT !.phase = "record"] /\ worker[w].then = "alert"
    BY <1>1, <1>5 DEF MarkDelivered, Goto, WellFormed, Phased, Knows
  <2> QED BY <1>1, <2>1 DEF PastAlert, At, WorkerState
<1>6. ASSUME Record(w) PROVE comes
  <2> DEFINE p == IF Len(worker[w].todo) = 1 THEN worker[w].then ELSE worker[w].phase
  <2>1. worker'[w] = [worker[w] EXCEPT !.todo = Tail(worker[w].todo), !.phase = p]
        /\ At(w, "record") /\ UNCHANGED <<jobs, events>>
    BY <1>1, <1>6 DEF Record
  <2>2. /\ SameScan(w) /\ worker'[w].then = worker[w].then /\ worker'[w].phase = p
        /\ p \in {"record", worker[w].then}
    BY <1>1, <2>1 DEF SameScan, WorkerState, At
  <2> HIDE DEF p
  <2>3. PastAlert(w)
    BY <2>1, <2>2 DEF PastAlert, At
  <2> QED BY <2>1, <2>2, <2>3
<1>7. ASSUME RecordFails(w) PROVE comes
  BY <1>1, <1>7 DEF RecordFails, SameScan, WorkerState
<1>8. ASSUME NEW v \in Workers,
             \/ \E s \in Subs \union {NoSub} : Take(v, s) \/ TakeUnlocked(v, s)
             \/ \E job \in DOMAIN jobs : TakeAgain(v, job)
             \/ \E r \in Reports : ScanSucceeds(v, r)
             \/ ScanFails(v) \/ SaveFailure(v) \/ CommitSnapshot(v) \/ ReadBaseline(v)
             \/ SaveEvents(v) \/ Finish(v) \/ Crash(v) \/ RowMissing(v)
      PROVE  comes
  <2>1. CASE v = w
    <3>1. ASSUME NEW phase \in Phases \ {"record", "digest", "done"}, worker'[w].phase = phase
          PROVE  FALSE
      BY <3>1 DEF PastAlert, At
    <3>2. ASSUME NEW phase \in Phases \ {"record", "digest", "done"}, Goto(w, phase)
          PROVE  FALSE
      BY <1>1, <3>1, <3>2 DEF Goto, WorkerState
    <3>3. ~(ScanFails(w) \/ SaveFailure(w) \/ CommitSnapshot(w) \/ SaveEvents(w))
      BY <3>2 DEF ScanFails, SaveFailure, CommitSnapshot, SaveEvents, Phases
    <3>4. ~(Finish(w) \/ Crash(w) \/ RowMissing(w))
      BY <1>1, <3>1 DEF Finish, Crash, RowMissing, Dies, Idle, Phases
    <3>5. \A job : ~Start(w, job)
      BY <1>1, <3>1 DEF Start, Idle, Phases
    <3>6. \A r \in Reports : ~ScanSucceeds(w, r)
      BY <1>1, <3>1 DEF ScanSucceeds, Phases, WorkerState
    <3>7. ~ReadBaseline(w)
      BY <1>1, <3>1 DEF ReadBaseline, Phases, WorkerState
    <3> QED BY <1>8, <2>1, <3>3, <3>4, <3>5, <3>6, <3>7 DEF Take, TakeUnlocked, TakeAgain
  <2>2. CASE v # w
    <3>1. worker'[w] = worker[w]
      BY <1>1, <1>8, <2>2 DEF Take, TakeUnlocked, TakeAgain, Start, ScanSucceeds,
         ScanFails, SaveFailure, CommitSnapshot, ReadBaseline, SaveEvents, Finish,
         Crash, RowMissing, Dies, Goto
    <3> QED BY <1>2, <3>1
  <2> QED BY <2>1, <2>2
<1>9. ASSUME NEW v \in Workers, InsertSnapshot(v) PROVE comes
  <2>1. PICK id \in Nat : worker' = [worker EXCEPT ![v].phase = "inserted", ![v].id = id]
    BY <1>9, InsertedRow
  <2>2. CASE v = w
    BY <1>1, <2>1, <2>2 DEF PastAlert, At, WorkerState
  <2>3. CASE v # w
    BY <1>1, <1>2, <2>1, <2>3
  <2> QED BY <2>2, <2>3
<1>10. ASSUME NEW v \in Workers, v # w,
              \/ SendReport(v) \/ SendAlert(v) \/ SendDigest(v) \/ SendFailure(v)
              \/ MarkDelivered(v) \/ Record(v) \/ RecordFails(v)
       PROVE  comes
  <2>1. worker'[w] = worker[w]
    BY <1>1, <1>10, MailEffects DEF MarkDelivered, Record, RecordFails, Goto
  <2> QED BY <1>2, <2>1
<1>11. CASE CleanupHistory \/ (\E last \in DOMAIN jobs : CleanupArchive(last))
              \/ Tick \/ UNCHANGED vars
  BY <1>2, <1>11 DEF CleanupHistory, CleanupArchive, Tick, vars
<1> QED BY <1>3, <1>4, <1>5, <1>6, <1>7, <1>8, <1>9, <1>10, <1>11 DEF Next

\* A cooldown of an alert or of a critical event stands for an alert.
LEMMA CoolingAlert ==
  ASSUME WellFormed, MarksTold, NEW s, NEW key, NEW cooldown, Cooling(s, key, cooldown),
         key.type \notin OwnTypes \/ key = Key("alert_batch")
  PROVE  \E i \in DOMAIN mails :
           /\ mails[i].sub = s /\ mails[i].kind = "alert" /\ mails[i] \in MailRow
           /\ now - mails[i].at < cooldown
           /\ key.type \notin OwnTypes => \E row \in mails[i].rows : AlertKey(row.event) = key
<1>1. PICK m \in marks : m.sub = s /\ m.key = key /\ now - m.at < cooldown
  BY DEF Cooling
<1>2. PICK i \in DOMAIN mails :
        mails[i].sub = s /\ mails[i].at = m.at /\ Told(mails[i], key)
  BY <1>1 DEF MarksTold
<1>3. mails[i] \in MailRow
  BY DEF WellFormed, Typed
<1>4. ASSUME NEW t PROVE Key(t).type = t
  BY DEF Key
<1>5. /\ Key("last_sent").type = "last_sent" /\ Key("weekly_report").type = "weekly_report"
      /\ Key("noncritical_digest").type = "noncritical_digest"
      /\ Key("scan_failed").type = "scan_failed" /\ Key("alert_batch").type = "alert_batch"
  BY <1>4
<1>6. /\ mails[i].kind = "alert"
      /\ key.type \notin OwnTypes => \E row \in mails[i].rows : AlertKey(row.event) = key
  BY <1>2, <1>5 DEF Told, OwnTypes
<1> QED BY <1>1, <1>2, <1>3, <1>6

\* At the alert, a critical event was told within the day, is told now, or the
\* alerts are held back after one within the batch cooldown.
LEMMA CriticalAlert ==
  ASSUME WellFormed, MarksTold, NEW w \in Workers, At(w, "alert"),
         Sub(w) \in Pro \intersect Owned,
         NEW x \in events, x.event \in Of(Found(w), "critical")
  PROVE  \/ AnswerTo(w, x)
         \/ MayAlert(w) /\ \E y \in Alerting(w) : SameCode(y, x.event)
<1> DEFINE e == x.event
<1>1. worker[w].report \in Reports /\ worker[w].base \in Rep
  BY DEF WellFormed, Typed, Phased, Knows, At, Scanned, WorkerState
<1>2. x.at \in Nat /\ now \in Nat /\ x.at <= now
  BY DEF WellFormed, Typed, Dated, EventRow
<1>3. e \in Found(w) /\ e.severity = "critical" /\ e \in AllEvents
  BY <1>1, FoundEvents DEF Of
<1>4. e.type \in {"critical_added", "certificate_expired"}
  BY <1>1, <1>3, CriticalEvents DEF Found
<1>5. e.type \in Interesting /\ e \in Immediate(Found(w))
  BY <1>3, <1>4 DEF Interesting, Immediate
<1>6. AlertKey(e).type = e.type /\ e.type \notin OwnTypes
  BY <1>4 DEF AlertKey, OwnTypes
<1>7. ASSUME NEW y \in AllEvents, AlertKey(y) = AlertKey(e) PROVE SameCode(y, e)
  BY <1>3, <1>4, <1>7, SameKey
<1> HIDE DEF e
<1>8. ASSUME NEW i \in DOMAIN mails, mails[i].kind = "alert", mails[i].sub = Sub(w),
             mails[i] \in MailRow,
             \/ now - mails[i].at < BatchCooldown
             \/ /\ now - mails[i].at < DayCooldown
                /\ \E row \in mails[i].rows : SameCode(row.event, e)
      PROVE  AnswerTo(w, x)
  <2>1. mails[i].at \in Nat
    BY <1>8 DEF MailRow
  <2>2. /\ now - mails[i].at < BatchCooldown => x.at - mails[i].at < BatchCooldown
        /\ now - mails[i].at < DayCooldown => x.at - mails[i].at < DayCooldown
    BY <1>2, <2>1, BoundsAssumption
  <2> QED BY <1>8, <2>2 DEF AnswerTo, e
<1>9. CASE ~MayAlert(w)
  <2>1. Cooling(Sub(w), Key("alert_batch"), BatchCooldown)
    BY <1>3, <1>5, <1>9 DEF MayAlert
  <2>2. PICK i \in DOMAIN mails :
          /\ mails[i].sub = Sub(w) /\ mails[i].kind = "alert" /\ mails[i] \in MailRow
          /\ now - mails[i].at < BatchCooldown
    BY <2>1, CoolingAlert
  <2> QED BY <1>8, <2>2
<1>10. CASE Cooling(Sub(w), AlertKey(e), DayCooldown)
  <2>1. PICK i \in DOMAIN mails :
          /\ mails[i].sub = Sub(w) /\ mails[i].kind = "alert" /\ mails[i] \in MailRow
          /\ now - mails[i].at < DayCooldown
          /\ \E row \in mails[i].rows : AlertKey(row.event) = AlertKey(e)
    BY <1>6, <1>10, CoolingAlert
  <2>2. PICK row \in mails[i].rows : AlertKey(row.event) = AlertKey(e)
    BY <2>1
  <2>3. row.event \in AllEvents
    BY <2>1 DEF MailRow, EventRow
  <2> QED BY <1>7, <1>8, <2>1, <2>2, <2>3
<1>11. CASE MayAlert(w) /\ \E y \in Alerting(w) : AlertKey(y) = AlertKey(e)
  <2>1. Alerting(w) \subseteq AllEvents
    BY <1>1, AlertingEvents, FoundEvents DEF Immediate
  <2> QED BY <1>7, <1>11, <2>1 DEF e
<1> QED BY <1>5, <1>9, <1>10, <1>11, AlertingEvents

\* Only the worker of a job saves events of it.
LEMMA NewEvent ==
  ASSUME WellFormed, [Next]_vars, NEW x \in events', x \notin events
  PROVE  \E w \in Workers : /\ x.job = worker[w].job /\ x.at = now /\ Busy(w)
                            /\ SaveFailure(w) \/ SaveEvents(w)
<1>1. ASSUME NEW w \in Workers,
             InsertSnapshot(w) \/ CommitSnapshot(w) \/ MarkDelivered(w) \/ Record(w)
      PROVE  FALSE
  BY <1>1 DEF InsertSnapshot, CommitSnapshot, MarkDelivered, Record
<1>2. ASSUME NEW w \in Workers, SaveFailure(w) \/ SaveEvents(w)
      PROVE  x.job = worker[w].job /\ x.at = now /\ Busy(w)
  BY <1>2, RowsOf DEF SaveFailure, SaveEvents, At, Busy
<1>3. ~CleanupHistory /\ \A last : ~CleanupArchive(last)
  BY CutRows DEF CleanupHistory
<1> QED BY <1>1, <1>2, <1>3, StoreWriters

\* Every step keeps Answered.
LEMMA AnsweredInductive ==
  ASSUME WellFormed, Kept, MarksTold, Overlaps, Answered, [Next]_vars
  PROVE  Answered'
<1> SUFFICES ASSUME NEW w \in Workers, PastAlert(w)', worker'[w].report # NoReport,
                    Sub(w)' \in Pro \intersect Owned,
                    worker'[w].job \notin troubled' \union overlapped',
                    NEW x \in events', x.job = worker'[w].job,
                    x.event \in Of(Found(w)', "critical")
             PROVE  AnswerTo(w, x)'
  BY DEF Answered
<1>1. ASSUME Sub(w)' = Sub(w), AnswerTo(w, x) PROVE AnswerTo(w, x)'
  BY <1>1 DEF AnswerTo, Kept
<1>2. SameScan(w)
  BY ComesPastAlert DEF SameScan
<1>3. Found(w)' = Found(w)
  BY <1>2 DEF SameScan, Found
<1>4. PastAlert(w) \/ SendAlert(w)
  BY <1>2, ComesPastAlert DEF SameScan
<1>5. Busy(w)
  BY <1>4 DEF PastAlert, At, Busy, SendAlert
<1>6. Sub(w)' = Sub(w)
  BY <1>2, <1>5 DEF SameScan, Sub, Kept, WellFormed, Phased, Knows
<1>7. worker[w].job \notin troubled \union overlapped
  BY <1>2 DEF SameScan, Kept
<1>8. x \in events
  <2> SUFFICES ASSUME x \notin events PROVE FALSE
    OBVIOUS
  <2>1. PICK v \in Workers : /\ x.job = worker[v].job /\ Busy(v)
                             /\ SaveFailure(v) \/ SaveEvents(v)
    BY NewEvent
  <2>2. v # w
    BY <1>4, <2>1 DEF PastAlert, SendAlert, SaveFailure, SaveEvents, At
  <2> QED BY <1>2, <1>5, <1>7, <2>1, <2>2 DEF Overlaps, SameScan
<1>9. CASE PastAlert(w)
  BY <1>1, <1>2, <1>3, <1>6, <1>7, <1>8, <1>9 DEF Answered, SameScan
<1>10. CASE SendAlert(w)
  <2>1. At(w, "alert")
    BY <1>10 DEF SendAlert
  <2>2. CASE MayAlert(w) /\ \E y \in Alerting(w) : SameCode(y, x.event)
    <3>1. PICK y \in Alerting(w) : SameCode(y, x.event)
      BY <2>2
    <3>2. ASSUME NEW mail, Refused(w, mail, "digest") PROVE FALSE
      BY <1>2, <3>2 DEF Refused, SameScan
    <3>3. PICK mail \in MailRow :
            /\ mail.kind = "alert" /\ mail.sub = Sub(w) /\ mail.at = now
            /\ mail.rows = Rows(worker[w].job, Alerting(w))
            /\ \E order \in Orders(BatchMarks(w)) :
                 Mailed(w, mail, "record", <<Key("alert_batch")>> \o order, "digest")
      BY <1>10, <2>2, <3>2, AlertCases
    <3>4. mails' = Append(mails, mail)
      BY <3>3 DEF Mailed
    <3> DEFINE i == Len(mails) + 1
    <3>5. i \in DOMAIN mails' /\ mails'[i] = mail
      BY <3>4, Appended DEF WellFormed, Typed
    <3>6. \E row \in mail.rows : SameCode(row.event, x.event)
      <4> DEFINE row == [job |-> worker[w].job, at |-> now, event |-> y]
      <4>1. row \in mail.rows /\ row.event = y
        BY <3>3 DEF Rows
      <4> HIDE DEF row
      <4> QED BY <3>1, <4>1
    <3>7. x.at - mail.at < DayCooldown
      <4>1. x.at \in Nat /\ now \in Nat /\ x.at <= now
        BY <1>8 DEF WellFormed, Typed, Dated, EventRow
      <4> QED BY <3>3, <4>1, BoundsAssumption
    <3> HIDE DEF i
    <3> QED BY <1>6, <3>3, <3>5, <3>6, <3>7 DEF AnswerTo
  <2> QED BY <1>1, <1>3, <1>6, <1>8, <2>1, <2>2, CriticalAlert
<1> QED BY <1>4, <1>9, <1>10

\* The owner of a Pro subscription learns of a critical finding: when the
\* worker is done an alert has named its code within the day, or the alerts
\* were held back because one went out within the batch cooldown.
THEOREM CriticalTheorem == Spec => []CriticalAnsweredByMail
<1> DEFINE IInv == MarksTold /\ Overlaps /\ Answered
<1>1. Init => IInv
  BY DEF Init, MarksTold, Overlaps, Answered, Recording, PastAlert, At, Busy, Idle
<1>2. WellFormed /\ IInv /\ [Next]_vars => IInv'
  BY WellFormedInductive, MarksToldInductive, OverlapsInductive, AnsweredInductive
<1>3. IInv => CriticalAnsweredByMail
  BY DEF Answered, CriticalAnsweredByMail, PastAlert, AnswerTo, At
<1> QED BY WellFormedTheorem, <1>1, <1>2, <1>3, PTL DEF Spec

(***************************************************************************)
(* No serious finding slips in between two snapshots.                      *)
(***************************************************************************)

\* The statements before the mails.
Early == {"scan", "failing", "snapshot", "inserted", "baseline", "events"}

\* How a worker comes to one of the statements before its mails.
LEMMA ComesEarly ==
  ASSUME WellFormed, [Next]_vars, NEW w \in Workers, worker'[w].phase \in Early
  PROVE  \/ worker'[w] = worker[w] /\ (Comparing(w) => now' = now)
         \/ worker'[w].phase = "scan" /\ \E job \in Nat : Begins(w, job)
         \/ worker'[w].phase = "snapshot" /\ \E r \in Reports : ScanSucceeds(w, r)
         \/ worker'[w].phase = "failing" /\ ScanFails(w)
         \/ worker'[w].phase = "inserted" /\ InsertSnapshot(w)
         \/ worker'[w].phase = "baseline" /\ CommitSnapshot(w)
         \/ worker'[w].phase = "events" /\ ReadBaseline(w)
<1> DEFINE comes ==
      \/ worker'[w] = worker[w] /\ (Comparing(w) => now' = now)
      \/ worker'[w].phase = "scan" /\ \E job \in Nat : Begins(w, job)
      \/ worker'[w].phase = "snapshot" /\ \E r \in Reports : ScanSucceeds(w, r)
      \/ worker'[w].phase = "failing" /\ ScanFails(w)
      \/ worker'[w].phase = "inserted" /\ InsertSnapshot(w)
      \/ worker'[w].phase = "baseline" /\ CommitSnapshot(w)
      \/ worker'[w].phase = "events" /\ ReadBaseline(w)
<1>1. worker \in [Workers -> WorkerState]
  BY DEF WellFormed, Typed
<1>2. ASSUME NEW phase \in Phases \ Early, Goto(w, phase) PROVE FALSE
  BY <1>1, <1>2 DEF Goto, Early
<1>3. ASSUME NEW v \in Workers,
             SendReport(v) \/ SendAlert(v) \/ SendDigest(v) \/ SendFailure(v)
      PROVE  comes
  <2>1. CASE v = w
    <3>1. ASSUME NEW phase \in {"alert", "digest", "done"}, Skip(w, phase) PROVE FALSE
      BY <1>2, <3>1 DEF Skip, Phases, Early
    <3>2. ASSUME NEW mail, NEW phase \in {"alert", "digest", "done"}, Refused(w, mail, phase)
          PROVE  FALSE
      BY <1>2, <3>2 DEF Refused, Phases, Early
    <3>3. ASSUME NEW mail \in MailRow, Sends(w, mail), Writes(w, mail) PROVE FALSE
      BY <3>3, WrittenList DEF Recording, Early
    <3> QED BY <1>3, <2>1, <3>1, <3>2, <3>3, MailSteps
  <2>2. CASE v # w
    BY <1>3, <2>2, MailEffects
  <2> QED BY <2>1, <2>2
<1>4. ASSUME NEW v \in Workers, NEW job \in Nat, Begins(v, job) PROVE comes
  <2>1. CASE v = w
    BY <1>1, <1>4, <2>1 DEF Begins, Idle
  <2>2. CASE v # w
    BY <1>1, <1>4, <2>2 DEF Begins
  <2> QED BY <2>1, <2>2
<1>5. ASSUME NEW v \in Workers,
             SaveFailure(v) \/ SaveEvents(v) \/ MarkDelivered(v)
      PROVE  comes
  <2>1. v # w
    BY <1>2, <1>5 DEF SaveFailure, SaveEvents, MarkDelivered, Phases, Early
  <2> QED BY <1>1, <1>5, <2>1 DEF SaveFailure, SaveEvents, MarkDelivered, Goto
<1>6. ASSUME NEW v \in Workers, Record(v) \/ RecordFails(v) PROVE comes
  <2>1. worker[v].then \notin Early
    BY <1>6 DEF Record, RecordFails, WellFormed, Phased, Knows, At, Early
  <2>2. v # w
    BY <1>1, <1>6, <2>1 DEF Record, RecordFails, At, WorkerState, Early
  <2> QED BY <1>1, <1>6, <2>2 DEF Record, RecordFails
<1>7. ASSUME NEW v \in Workers, Finish(v) \/ Crash(v) \/ RowMissing(v) PROVE comes
  <2>1. worker' = [worker EXCEPT ![v] = Idle] /\ now' = now
    BY <1>7 DEF Finish, Crash, RowMissing, Dies
  <2>2. v # w
    BY <1>1, <2>1 DEF Idle, Early
  <2> QED BY <1>1, <2>1, <2>2
<1>8. ASSUME NEW v \in Workers, NEW r \in Reports, ScanSucceeds(v, r) PROVE comes
  <2>1. CASE v = w
    BY <1>1, <1>8, <2>1 DEF ScanSucceeds, WorkerState
  <2>2. CASE v # w
    BY <1>1, <1>8, <2>2 DEF ScanSucceeds
  <2> QED BY <2>1, <2>2
<1>9. ASSUME NEW v \in Workers, ReadBaseline(v) PROVE comes
  <2>1. CASE v = w
    BY <1>1, <1>9, <2>1 DEF ReadBaseline, WorkerState
  <2>2. CASE v # w
    BY <1>1, <1>9, <2>2 DEF ReadBaseline
  <2> QED BY <2>1, <2>2
<1>10. ASSUME NEW v \in Workers, ScanFails(v) \/ CommitSnapshot(v) PROVE comes
  <2>1. PICK phase : Goto(v, phase) /\ now' = now
                     /\ \/ phase = "failing" /\ ScanFails(v)
                        \/ phase = "baseline" /\ CommitSnapshot(v)
    BY <1>10 DEF ScanFails, CommitSnapshot
  <2>2. CASE v = w
    BY <1>1, <2>1, <2>2 DEF Goto, WorkerState
  <2>3. CASE v # w
    BY <1>1, <2>1, <2>3 DEF Goto
  <2> QED BY <2>2, <2>3
<1>10a. ASSUME NEW v \in Workers, InsertSnapshot(v) PROVE comes
  <2>1. PICK id \in Nat : worker' = [worker EXCEPT ![v].phase = "inserted", ![v].id = id]
    BY <1>10a, InsertedRow
  <2>2. now' = now
    BY <1>10a DEF InsertSnapshot
  <2>3. CASE v = w
    BY <1>1, <1>10a, <2>1, <2>3 DEF WorkerState
  <2>4. CASE v # w
    BY <1>1, <2>1, <2>2, <2>4
  <2> QED BY <2>3, <2>4
<1>11. CASE Tick
  BY <1>11 DEF Tick, Comparing
<1>12. CASE CleanupHistory \/ (\E last \in DOMAIN jobs : CleanupArchive(last))
              \/ UNCHANGED vars
  BY <1>12 DEF CleanupHistory, CleanupArchive, vars
<1>13. ASSUME NEW v \in Workers,
              \/ \E s \in Subs \union {NoSub} : Take(v, s) \/ TakeUnlocked(v, s)
              \/ \E job \in DOMAIN jobs : TakeAgain(v, job)
       PROVE  comes
  <2>1. \E job : Start(v, job)
    BY <1>13 DEF Take, TakeUnlocked, TakeAgain
  <2>2. ~Busy(v) /\ Busy(v)'
    BY <1>1, <1>13, <2>1 DEF Take, TakeUnlocked, TakeAgain, Start, Busy, Idle
  <2> QED BY <1>4, <2>2, JobSteps
<1> QED
  BY <1>3, <1>5, <1>6, <1>7, <1>8, <1>9, <1>10, <1>10a, <1>11, <1>12, <1>13 DEF Next

\* Who changes the snapshots.
LEMMA SnapshotSteps ==
  ASSUME WellFormed, [Next]_vars
  PROVE  \/ snapshots' = snapshots /\ lost' = lost
         \/ CleanupHistory
         \/ \E last \in DOMAIN jobs : CleanupArchive(last)
         \/ \E w \in Workers : CommitSnapshot(w)
BY StoreWriters DEF SaveFailure, InsertSnapshot, SaveEvents, MarkDelivered, Record

\* While a row waits for its commit, the one it renews stays, and what comes
\* is of another that waits.
LEMMA WaitingRow ==
  ASSUME WellFormed, [Next]_vars, NEW w \in Workers, At(w, "inserted"),
         worker'[w] = worker[w], ~CommitSnapshot(w)
  PROVE  /\ Renewed(w) => Renewed(w)'
         /\ \A x \in Taken' :
              \/ x \in Taken
              \/ \E v \in Workers \ {w} : At(v, "inserted") /\ x.job = worker[v].job
<1> DEFINE id == worker[w].id
           kept == /\ \A x \in snapshots : x.id = id => \E y \in snapshots' : y.id = id
                   /\ \A x \in Taken' :
                        \/ x \in Taken
                        \/ \E v \in Workers \ {w} : At(v, "inserted") /\ x.job = worker[v].job
<1>1. ASSUME snapshots' = snapshots, lost' = lost PROVE kept
  BY <1>1 DEF Taken
<1>2. ASSUME CleanupHistory PROVE kept
  <2> DEFINE old == {x \in snapshots : now - x.at > Retention}
  <2>1. snapshots' = snapshots \ old /\ lost' \subseteq lost /\ \A x \in old : id # x.id
    BY <1>2 DEF CleanupHistory
  <2> HIDE DEF old
  <2> QED BY <2>1 DEF Taken
<1>3. ASSUME NEW last \in DOMAIN jobs, CleanupArchive(last) PROVE kept
  <2>1. \A x \in snapshots : x.id = id => x.job = worker[w].job
    BY DEF WellFormed, Pending
  <2> QED BY <1>3, <2>1, CutRows
<1>4. ASSUME NEW v \in Workers, CommitSnapshot(v) PROVE kept
  <2>1. v # w /\ At(v, "inserted") /\ lost' = lost
    BY <1>4 DEF CommitSnapshot
  <2>2. /\ worker[v].job # worker[w].job
        /\ \A x \in snapshots : x.id = id <=> x.job = worker[w].job
    BY <2>1 DEF WellFormed, Pending
  <2>3. PICK row \in SnapshotRow :
           /\ row.job = worker[v].job
           /\ snapshots' = {x \in snapshots : x.job # row.job} \union {row}
    BY <1>4, CommittedRow
  <2>4. \A x \in Taken' : x \in Taken \/ x = row
    BY <2>1, <2>3 DEF Taken
  <2> QED BY <2>1, <2>2, <2>3, <2>4
<1>5. kept
  BY <1>1, <1>2, <1>3, <1>4, SnapshotSteps
<1> QED BY <1>5 DEF Renewed

\* Every step keeps Raced.
LEMMA RacedInductive ==
  ASSUME WellFormed, Kept, Raced, [Next]_vars
  PROVE  Raced'
<1>0. blurred \subseteq blurred'
  BY DEF Kept
<1>1. ASSUME NEW x \in lost' PROVE x.job \in blurred'
  <2>1. CASE lost' \subseteq lost
    BY <1>0, <1>1, <2>1 DEF Raced
  <2>2. ASSUME NEW last \in DOMAIN jobs, CleanupArchive(last) PROVE x.job \in blurred'
    BY <1>0, <1>1, <2>2, CutRows DEF Raced
  <2>3. CASE CleanupHistory \/ \E w \in Workers : CommitSnapshot(w)
    BY <2>1, <2>3 DEF CleanupHistory, CommitSnapshot
  <2> QED BY <2>1, <2>2, <2>3, SnapshotSteps
<1>2. ASSUME NEW v \in Workers, NEW w \in Workers, v # w, worker'[v].phase = "inserted",
             worker'[w].phase = "inserted"
      PROVE  worker'[w].job \in blurred'
  <2>1. ASSUME NEW a \in Workers, NEW b \in Workers, a # b, InsertSnapshot(a),
               worker'[b].phase = "inserted"
        PROVE  worker'[a].job \in blurred' /\ worker'[b].job \in blurred'
    <3>1. At(b, "inserted") /\ worker'[b] = worker[b] /\ worker'[a].job = worker[a].job
      BY <2>1, InsertedAlone DEF At
    <3>2. b \in Inserting(a)
      BY <2>1, <3>1 DEF Inserting
    <3> QED BY <2>1, <3>1, <3>2 DEF InsertSnapshot
  <2>2. CASE ~InsertSnapshot(v) /\ ~InsertSnapshot(w)
    <3>1. /\ At(v, "inserted") /\ worker'[v] = worker[v]
          /\ At(w, "inserted") /\ worker'[w] = worker[w]
      BY <1>2, <2>2, ComesToInserted
    <3> QED BY <1>0, <1>2, <3>1 DEF Raced
  <2> QED BY <1>2, <2>1, <2>2
<1>3. ASSUME NEW w \in Workers, worker'[w].phase = "inserted"
      PROVE  \/ Renewed(w)'
             \/ \A x \in Taken' : x.id > worker'[w].id =>
                  x.job \in blurred' /\ worker'[w].job \in blurred'
  <2>1. CASE InsertSnapshot(w)
    <3>1. snapshots' = snapshots /\ Taken' = Taken
      BY <2>1 DEF InsertSnapshot, Taken
    <3> QED BY <2>1, <3>1, InsertedAlone DEF Renewed
  <2>2. CASE At(w, "inserted") /\ worker'[w] = worker[w] /\ ~CommitSnapshot(w)
    <3>1. /\ Renewed(w) => Renewed(w)'
          /\ \A x \in Taken' :
               \/ x \in Taken
               \/ \E v \in Workers \ {w} : At(v, "inserted") /\ x.job = worker[v].job
      BY <2>2, WaitingRow
    <3>2. \/ Renewed(w)
          \/ \A x \in Taken : x.id > worker[w].id =>
               x.job \in blurred /\ worker[w].job \in blurred
      BY <2>2 DEF Raced
    <3>3. ASSUME NEW v \in Workers \ {w}, At(v, "inserted")
          PROVE  worker[v].job \in blurred /\ worker[w].job \in blurred
      BY <2>2, <3>3 DEF Raced
    <3> QED BY <1>0, <2>2, <3>1, <3>2, <3>3
  <2> QED BY <1>3, <2>1, <2>2, ComesToInserted
<1> QED BY <1>1, <1>2, <1>3 DEF Raced, At

\* The statements before the commit of the snapshot.
Unsaved == {"scan", "snapshot", "inserted", "failing"}

\* Every step keeps HandledOnce.
LEMMA HandledOnceInductive ==
  ASSUME WellFormed, Kept, HandledOnce, [Next]_vars
  PROVE  HandledOnce'
<1> SUFFICES ASSUME NEW w \in Workers, Busy(w)', worker'[w].job \notin blurred'
             PROVE  /\ \A v \in Workers \ {w} : Busy(v)' => worker'[v].job # worker'[w].job
                    /\ worker'[w].phase \in Unsaved =>
                         \A x \in snapshots' : x.job # worker'[w].job
  BY DEF HandledOnce, Unsaved
<1>1. worker \in [Workers -> WorkerState]
  BY DEF WellFormed, Typed
<1>2. worker'[w].job \notin blurred
  BY DEF Kept
<1>3. ASSUME NEW u \in Workers, NEW job \in Nat, Begins(u, job)
      PROVE  /\ \A v \in Workers \ {w} : Busy(v)' => worker'[v].job # worker'[w].job
             /\ worker'[w].phase \in Unsaved =>
                  \A x \in snapshots' : x.job # worker'[w].job
  <2>1. /\ worker'[u].job = job /\ \A v \in Workers \ {u} : worker'[v] = worker[v]
        /\ snapshots' = snapshots
    BY <1>1, <1>3 DEF Begins, Idle
  <2>2. \A v \in Workers \ {u} : Busy(v)' => Busy(v) /\ worker[v].job \in DOMAIN jobs
    BY <2>1 DEF Busy, WellFormed, Phased, Knows
  <2>3. CASE u = w
    <3>1. job \notin DOMAIN jobs
      BY <1>3, <2>1, <2>3 DEF Begins
    <3>2. \A x \in snapshots : x.job \in DOMAIN jobs
      BY DEF WellFormed, Dated, Taken
    <3> QED BY <2>1, <2>2, <2>3, <3>1, <3>2
  <2>4. CASE u # w
    <3>1. worker'[w] = worker[w] /\ Busy(w)
      BY <2>1, <2>2, <2>4
    <3>2. worker'[u].job # worker[w].job
      BY <1>3, <2>1, <2>2, <2>4, <3>1 DEF Begins
    <3> QED BY <1>2, <2>1, <2>2, <3>1, <3>2 DEF HandledOnce, Unsaved
  <2> QED BY <2>3, <2>4
<1>4. CASE \A v \in Workers : Busy(v)' => Busy(v) /\ worker'[v].job = worker[v].job
  <2>1. Busy(w) /\ worker'[w].job = worker[w].job
    BY <1>4
  <2>2. \A v \in Workers \ {w} : Busy(v) => worker[v].job # worker[w].job
    BY <1>2, <2>1 DEF HandledOnce
  <2>3. ASSUME worker'[w].phase \in Unsaved, NEW x \in snapshots'
        PROVE  x.job # worker[w].job
    <3>1. worker[w].phase \in Unsaved /\ ~CommitSnapshot(w)
      <4>1. \A job : ~Begins(w, job)
        BY <2>1 DEF Begins
      <4>2. ~CommitSnapshot(w)
        BY <1>1, <2>3 DEF CommitSnapshot, Goto, WorkerState, Unsaved
      <4> QED BY <2>3, <4>1, <4>2, ComesEarly
          DEF ScanSucceeds, ScanFails, InsertSnapshot, At, Early, Unsaved
    <3>2. CASE x \in snapshots
      BY <1>2, <2>1, <3>1, <3>2 DEF HandledOnce, Unsaved
    <3>3. CASE x \notin snapshots
      <4>1. PICK v \in Workers : CommitSnapshot(v)
        BY <3>3, CutRows, SnapshotSteps DEF CleanupHistory
      <4>2. x.job = worker[v].job
        <5>1. PICK row \in SnapshotRow :
                /\ row.job = worker[v].job
                /\ snapshots' = {y \in snapshots : y.job # row.job} \union {row}
          BY <4>1, CommittedRow
        <5> QED BY <3>3, <5>1
      <4>3. v # w /\ Busy(v)
        BY <3>1, <4>1 DEF CommitSnapshot, At, Busy
      <4> QED BY <2>2, <4>2, <4>3
    <3> QED BY <3>2, <3>3
  <2> QED BY <1>4, <2>1, <2>2, <2>3
<1> QED BY <1>3, <1>4, JobSteps

\* A commit that renews a snapshot is of a job that is blurred.
LEMMA CommittedOnce ==
  ASSUME WellFormed, HandledOnce, NEW v \in Workers, CommitSnapshot(v)
  PROVE  \E row \in SnapshotRow :
           /\ row.id = worker[v].id
           /\ row.job = worker[v].job /\ row.report = worker[v].report
           /\ snapshots' = {x \in snapshots : x.job # row.job} \union {row}
           /\ worker' = [worker EXCEPT ![v].phase = "baseline"]
           /\ \/ row.at = now /\ ~Renewed(v)
              \/ worker[v].job \in blurred
<1>1. Busy(v) /\ worker[v].phase = "inserted"
  BY DEF CommitSnapshot, At, Busy
<1>2. worker[v].job \notin blurred => \A x \in snapshots : x.job # worker[v].job
  BY <1>1 DEF HandledOnce
<1> QED BY <1>2, CommittedRow

\* Between two snapshots that stay, none goes by age, and none comes unless
\* it is of a job that is blurred.
LEMMA SpanKept ==
  ASSUME WellFormed, Kept, Raced, HandledOnce, [Next]_vars,
         NEW z \in snapshots, NEW p \in snapshots',
         Previous(p, z.id)', p.job \notin blurred'
  PROVE  p \in snapshots /\ Previous(p, z.id)
<1>1. /\ \A x \in Taken : x.id \in Nat /\ x.at \in Nat
      /\ now \in Nat /\ Retention \in Nat /\ z \in Taken
  BY BoundsAssumption DEF WellFormed, Typed, SnapshotRow, Taken
<1>2. /\ p.id < z.id /\ p.job \notin blurred
      /\ \A q \in Taken' : q.id < z.id => q.id <= p.id
  BY DEF Previous, Kept
<1>3. CASE snapshots' = snapshots /\ lost' = lost
  BY <1>2, <1>3 DEF Previous, Taken
<1>4. CASE CleanupHistory
  <2>1. /\ p \in snapshots /\ p \in Taken /\ now - p.at <= Retention
        /\ \A q \in Taken : now - q.at <= Retention => q \in Taken'
    <3>1. p \in snapshots /\ ~(now - p.at > Retention)
      BY <1>4 DEF CleanupHistory
    <3>2. p \in Taken
      BY <3>1 DEF Taken
    <3>3. now - p.at <= Retention
      BY <1>1, <3>1, <3>2
    <3>4. ASSUME NEW q \in Taken, now - q.at <= Retention PROVE q \in Taken'
      <4>1. ~(now - q.at > Retention)
        BY <1>1, <3>4
      <4> QED BY <1>4, <3>4, <4>1 DEF CleanupHistory, Taken
    <3> QED BY <3>1, <3>2, <3>3, <3>4
  <2>2. ASSUME NEW q \in Taken, q.id < z.id, ~(q.id <= p.id) PROVE FALSE
    <3>1. p.id < q.id
      BY <1>1, <2>1, <2>2
    <3>2. p.at <= q.at
      BY <2>1, <3>1 DEF WellFormed, Series
    <3>3. q \in Taken'
      BY <1>1, <2>1, <3>2
    <3> QED BY <1>2, <2>2, <3>3
  <2> QED BY <1>2, <2>1, <2>2 DEF Previous
<1>5. ASSUME NEW last \in DOMAIN jobs, CleanupArchive(last)
      PROVE  p \in snapshots /\ Previous(p, z.id)
  <2>1. snapshots' \subseteq snapshots /\ Taken' = Taken
    BY <1>5, CutRows
  <2> QED BY <1>2, <2>1 DEF Previous
<1>6. ASSUME NEW v \in Workers, CommitSnapshot(v) PROVE p \in snapshots /\ Previous(p, z.id)
  <2>1. PICK row \in SnapshotRow :
           /\ row.id = worker[v].id /\ row.job = worker[v].job
           /\ snapshots' = {x \in snapshots : x.job # row.job} \union {row}
           /\ \/ row.at = now /\ ~Renewed(v)
              \/ worker[v].job \in blurred
    BY <1>6, CommittedOnce
  <2>2. At(v, "inserted") /\ lost' = lost
    BY <1>6 DEF CommitSnapshot
  <2>3. row.id < z.id => worker[v].job \in blurred
    <3>1. \/ Renewed(v)
          \/ \A x \in Taken : x.id > worker[v].id => worker[v].job \in blurred
      BY <2>2 DEF Raced
    <3>2. row.id < z.id => z.id > row.id
      BY <1>1 DEF SnapshotRow
    <3> QED BY <1>1, <2>1, <3>1, <3>2
  <2>4. p # row
    BY <1>2, <2>1, <2>3
  <2>5. p \in snapshots
    BY <2>1, <2>4
  <2>6. ASSUME NEW q \in Taken, q.id < z.id PROVE q.id <= p.id
    <3>1. CASE q \in Taken'
      BY <1>2, <2>6, <3>1
    <3>2. CASE q \notin Taken'
      <4>1. q \in snapshots /\ q.job = worker[v].job
        BY <2>1, <2>2, <3>2 DEF Taken
      <4>2. q.id = worker[v].id
        BY <2>2, <4>1 DEF WellFormed, Pending
      <4>3. row \in Taken' /\ row.id = q.id
        BY <2>1, <4>2 DEF Taken
      <4> QED BY <1>2, <2>6, <4>3
    <3> QED BY <3>1, <3>2
  <2> QED BY <1>2, <2>5, <2>6 DEF Previous
<1> QED BY <1>3, <1>4, <1>5, <1>6, SnapshotSteps

\* Every step keeps Compared.
LEMMA ComparedInductive ==
  ASSUME WellFormed, Kept, Raced, HandledOnce, Compared, [Next]_vars
  PROVE  Compared'
<1> SUFFICES ASSUME NEW w \in Workers, Comparing(w)', worker'[w].job \notin blurred'
             PROVE  /\ \E z \in snapshots' :
                         z.job = worker'[w].job /\ z.id = worker'[w].id
                           /\ z.report = worker'[w].report /\ z.at = now'
                    /\ At(w, "events")' =>
                         \A p \in snapshots' :
                           Previous(p, worker[w].id)' /\ p.job \notin blurred' =>
                             worker'[w].base = p.report
  BY DEF Compared
<1>1. worker \in [Workers -> WorkerState] /\ now \in Nat /\ Retention \in Nat
  BY BoundsAssumption DEF WellFormed, Typed
<1>2. worker'[w].job \notin blurred /\ worker'[w].phase \in {"baseline", "events"}
  BY DEF Kept, Comparing
<1>3. CASE CommitSnapshot(w)
  <2>1. PICK row \in SnapshotRow :
           /\ row.id = worker[w].id
           /\ row.job = worker[w].job /\ row.report = worker[w].report
           /\ snapshots' = {x \in snapshots : x.job # row.job} \union {row}
           /\ worker' = [worker EXCEPT ![w].phase = "baseline"]
           /\ row.at = now \/ worker[w].job \in blurred
    BY <1>3, CommittedOnce
  <2>2. worker'[w] = [worker[w] EXCEPT !.phase = "baseline"]
    BY <1>1, <2>1
  <2>3. /\ worker'[w].phase = "baseline" /\ worker'[w].id = row.id
        /\ worker'[w].job = worker[w].job /\ worker'[w].report = worker[w].report
    BY <1>1, <2>1, <2>2 DEF WorkerState
  <2>4. now' = now /\ row \in snapshots'
    BY <1>3, <2>1 DEF CommitSnapshot
  <2> QED BY <1>2, <2>1, <2>3, <2>4 DEF At
<1>4. CASE ReadBaseline(w)
  <2>1. /\ UNCHANGED <<now, snapshots, blurred>>
        /\ worker'[w] = [worker[w] EXCEPT !.phase = "events",
                                         !.base = LatestBefore(worker[w].id)]
    BY <1>1, <1>4 DEF ReadBaseline, stores, history
  <2>2. /\ worker'[w].job = worker[w].job /\ worker'[w].report = worker[w].report
        /\ worker'[w].id = worker[w].id /\ worker'[w].base = LatestBefore(worker[w].id)
        /\ worker[w].id \in Nat
    BY <1>1, <2>1 DEF WorkerState
  <2>3. \E z \in snapshots :
          z.job = worker[w].job /\ z.id = worker[w].id
            /\ z.report = worker[w].report /\ z.at = now
    BY <1>2, <1>4, <2>2 DEF Compared, ReadBaseline, At, Comparing
  <2>4. ASSUME NEW p \in snapshots, Previous(p, worker[w].id)
        PROVE  LatestBefore(worker[w].id) = p.report
    BY <2>2, <2>4, BaselineRow DEF Previous
  <2>5. ASSUME NEW p \in snapshots', Previous(p, worker[w].id)'
        PROVE  p \in snapshots /\ Previous(p, worker[w].id)
    <3>1. lost' = lost
      BY <1>4 DEF ReadBaseline, stores
    <3> QED BY <2>1, <2>2, <2>5, <3>1 DEF Previous, Taken
  <2> QED BY <2>1, <2>2, <2>3, <2>4, <2>5
<1>5. CASE worker'[w] = worker[w] /\ (Comparing(w) => now' = now)
  <2>1. Comparing(w) /\ now' = now /\ Busy(w)
    BY <1>2, <1>5 DEF Comparing, Busy
  <2>2. PICK z \in snapshots :
          z.job = worker[w].job /\ z.id = worker[w].id
            /\ z.report = worker[w].report /\ z.at = now
    BY <1>2, <1>5, <2>1 DEF Compared
  <2>3. z \in snapshots'
    <3>1. CASE CleanupHistory
      <4>1. ~(now - z.at > Retention)
        BY <1>1, <2>2
      <4> QED BY <3>1, <4>1 DEF CleanupHistory
    <3>2. ASSUME NEW last \in DOMAIN jobs, CleanupArchive(last) PROVE z \in snapshots'
      <4>1. z.job \notin blurred'
        BY <1>5, <2>2
      <4> QED BY <3>2, <4>1, CutRows
    <3>3. ASSUME NEW v \in Workers, CommitSnapshot(v) PROVE z \in snapshots'
      <4>1. PICK row \in SnapshotRow :
               /\ row.job = worker[v].job
               /\ snapshots' = {x \in snapshots : x.job # row.job} \union {row}
        BY <3>3, CommittedOnce
      <4>2. v # w /\ Busy(v)
        BY <2>1, <3>3 DEF Comparing, CommitSnapshot, At, Busy
      <4>3. worker[v].job # worker[w].job
        BY <1>2, <1>5, <2>1, <4>2 DEF HandledOnce
      <4> QED BY <2>2, <4>1, <4>3
    <3> QED BY <3>1, <3>2, <3>3, SnapshotSteps
  <2>4. ASSUME At(w, "events")', NEW p \in snapshots',
               Previous(p, worker[w].id)', p.job \notin blurred'
        PROVE  worker'[w].base = p.report
    <3>1. Previous(p, z.id)' /\ At(w, "events")
      BY <1>5, <2>2, <2>4 DEF Previous, At
    <3>2. p \in snapshots /\ Previous(p, z.id) /\ p.job \notin blurred
      BY <2>4, <3>1, SpanKept DEF Kept
    <3> QED BY <1>2, <1>5, <2>1, <2>2, <3>1, <3>2 DEF Compared
  <2> QED BY <1>5, <2>1, <2>2, <2>3, <2>4
<1>6. worker'[w].phase \in Early
  BY <1>2 DEF Early
<1> QED BY <1>2, <1>3, <1>4, <1>5, <1>6, ComesEarly

\* A worker that compares goes on to save the events, or its job is blurred.
LEMMA EndsComparing ==
  ASSUME WellFormed, [Next]_vars, NEW w \in Workers, Comparing(w)
  PROVE  \/ Comparing(w)' /\ worker'[w].job = worker[w].job
         \/ SaveEvents(w)
         \/ worker[w].job \in blurred'
<1> DEFINE ends == \/ Comparing(w)' /\ worker'[w].job = worker[w].job
                   \/ SaveEvents(w)
                   \/ worker[w].job \in blurred'
<1>1. worker \in [Workers -> WorkerState] /\ Busy(w)
  BY DEF WellFormed, Typed, Comparing, Busy
<1>2. ASSUME worker'[w] = worker[w] PROVE ends
  BY <1>2 DEF Comparing
<1>3. ASSUME NEW v \in Workers, NEW job \in Nat, Begins(v, job) PROVE ends
  <2>1. v # w
    BY <1>1, <1>3 DEF Begins
  <2> QED BY <1>1, <1>2, <1>3, <2>1 DEF Begins
<1>4. ASSUME NEW v \in Workers,
             \/ SendReport(v) \/ SendAlert(v) \/ SendDigest(v) \/ SendFailure(v)
      PROVE  ends
  <2>1. v # w
    BY <1>4 DEF SendReport, SendAlert, SendDigest, SendFailure, At, Comparing
  <2> QED BY <1>2, <1>4, <2>1, MailEffects
<1>5. ASSUME NEW v \in Workers,
             \/ \E r \in Reports : ScanSucceeds(v, r)
             \/ ScanFails(v) \/ SaveFailure(v) \/ CommitSnapshot(v) \/ MarkDelivered(v)
             \/ Record(v) \/ RecordFails(v) \/ Finish(v)
      PROVE  ends
  <2>1. v # w
    BY <1>5 DEF ScanSucceeds, ScanFails, SaveFailure, CommitSnapshot, MarkDelivered,
       Record, RecordFails, Finish, At, Comparing
  <2>2. worker'[w] = worker[w]
    BY <1>1, <1>5, <2>1 DEF ScanSucceeds, ScanFails, SaveFailure, CommitSnapshot,
       MarkDelivered, Record, RecordFails, Finish, Goto
  <2> QED BY <1>2, <2>2
<1>6. ASSUME NEW v \in Workers, Crash(v) \/ RowMissing(v) PROVE ends
  <2>0. Dies(v)
    BY <1>6 DEF Crash, RowMissing
  <2>1. CASE v = w
    BY <2>0, <2>1 DEF Dies
  <2>2. CASE v # w
    BY <1>1, <1>2, <2>0, <2>2 DEF Dies
  <2> QED BY <2>1, <2>2
<1>7. ASSUME NEW v \in Workers, SaveEvents(v) PROVE ends
  BY <1>1, <1>2, <1>7 DEF SaveEvents, Goto
<1>8. ASSUME NEW v \in Workers, InsertSnapshot(v) PROVE ends
  <2>1. v # w
    BY <1>8 DEF InsertSnapshot, At, Comparing
  <2>2. PICK id \in Nat : worker' = [worker EXCEPT ![v].phase = "inserted", ![v].id = id]
    BY <1>8, InsertedRow
  <2> QED BY <1>1, <1>2, <2>1, <2>2
<1>9. ASSUME NEW v \in Workers, ReadBaseline(v) PROVE ends
  <2>1. CASE v = w
    BY <1>1, <1>9, <2>1 DEF ReadBaseline, Comparing, WorkerState
  <2>2. CASE v # w
    BY <1>1, <1>2, <1>9, <2>2 DEF ReadBaseline
  <2> QED BY <2>1, <2>2
<1>10. CASE CleanupHistory \/ (\E last \in DOMAIN jobs : CleanupArchive(last))
              \/ Tick \/ UNCHANGED vars
  BY <1>2, <1>10 DEF CleanupHistory, CleanupArchive, Tick, vars
<1>11. ASSUME NEW v \in Workers,
              \/ \E s \in Subs \union {NoSub} : Take(v, s) \/ TakeUnlocked(v, s)
              \/ \E job \in DOMAIN jobs : TakeAgain(v, job)
       PROVE  ends
  <2>1. v # w /\ \E job : Start(v, job)
    BY <1>1, <1>11 DEF Take, TakeUnlocked, TakeAgain
  <2> QED BY <1>1, <1>2, <2>1 DEF Start
<1> QED BY <1>4, <1>5, <1>6, <1>7, <1>8, <1>9, <1>10, <1>11 DEF Next

\* Every step keeps StepsAnnounced.
LEMMA StepsAnnouncedInductive ==
  ASSUME WellFormed, Kept, Raced, HandledOnce, Compared, StepsAnnounced, [Next]_vars
  PROVE  StepsAnnounced'
<1> SUFFICES ASSUME NEW p \in snapshots', NEW z \in snapshots', Clear(z)',
                    Previous(p, z.id)', p.job \notin blurred',
                    NEW f \in Serious(z.report.findings) \ p.report.findings
             PROVE  Announced(z, f)'
  BY DEF StepsAnnounced
<1>1. /\ worker \in [Workers -> WorkerState]
      /\ z.job \notin blurred' /\ z.job \notin blurred
      /\ p.job \notin blurred
  BY DEF WellFormed, Typed, Clear, Kept
<1>2. z \in snapshots
  <2> SUFFICES ASSUME z \notin snapshots PROVE FALSE
    OBVIOUS
  <2>1. PICK v \in Workers : CommitSnapshot(v)
    BY CutRows, SnapshotSteps DEF CleanupHistory
  <2>2. PICK row \in SnapshotRow :
           /\ row.job = worker[v].job
           /\ snapshots' = {x \in snapshots : x.job # row.job} \union {row}
           /\ worker' = [worker EXCEPT ![v].phase = "baseline"]
    BY <2>1, CommittedRow
  <2>3. worker'[v].job = z.job /\ worker'[v].phase = "baseline"
    BY <1>1, <2>2 DEF WorkerState
  <2> QED BY <2>3 DEF Clear, Comparing
<1>3. p \in snapshots /\ Previous(p, z.id)
  BY <1>2, SpanKept
<1>4. CASE Clear(z)
  <2>1. PICK e \in events :
          /\ e.job = z.job /\ e.at = z.at
          /\ e.event.type \in {"critical_added", "high_added"} /\ e.event.finding = f
    BY <1>1, <1>2, <1>3, <1>4 DEF StepsAnnounced, Announced
  <2>2. e \in events'
    <3>1. \A y \in snapshots : y.job = z.job => y \in snapshots'
      BY <1>2 DEF WellFormed, Series
    <3>2. CASE CleanupHistory
      <4> DEFINE old == {x \in snapshots : now - x.at > Retention}
      <4>1. /\ snapshots' = snapshots \ old
            /\ events' = {x \in events : now - x.at <= Retention} \ Cascade(old)
        BY <3>2 DEF CleanupHistory
      <4>2. ~(now - z.at > Retention)
        BY <1>2, <4>1
      <4>3. now - z.at <= Retention
        <5>1. now \in Nat /\ z.at \in Nat /\ Retention \in Nat
          BY <1>2, BoundsAssumption DEF WellFormed, Typed, SnapshotRow
        <5> QED BY <4>2, <5>1
      <4> HIDE DEF old
      <4>4. e \notin Cascade(old)
        <5> SUFFICES ASSUME e \in Cascade(old) PROVE FALSE
          OBVIOUS
        <5>1. PICK y \in old : y.job = e.job
          BY DEF Cascade
        <5>2. y \in snapshots
          BY <5>1 DEF old
        <5> QED BY <2>1, <3>1, <4>1, <5>1, <5>2
      <4> QED BY <2>1, <4>1, <4>3, <4>4
    <3>3. ASSUME NEW last \in DOMAIN jobs, CleanupArchive(last) PROVE e \in events'
      BY <2>1, <3>1, <3>3, CutRows
    <3>4. CASE events \subseteq events'
      BY <3>4
    <3> QED BY <3>2, <3>3, <3>4, StoreWriters
        DEF SaveFailure, InsertSnapshot, CommitSnapshot, SaveEvents, MarkDelivered, Record
  <2> QED BY <2>1, <2>2 DEF Announced
<1>5. CASE ~Clear(z)
  <2>1. PICK w \in Workers : Comparing(w) /\ worker[w].job = z.job
    BY <1>1, <1>5 DEF Clear
  <2>2. SaveEvents(w)
    BY <1>1, <2>1, EndsComparing DEF Clear
  <2>3. At(w, "events")
    BY <2>2 DEF SaveEvents
  <2>4. /\ z.report = worker[w].report /\ z.at = now /\ z.id = worker[w].id
        /\ worker[w].base = p.report
    <3>1. PICK y \in snapshots :
            y.job = worker[w].job /\ y.id = worker[w].id
              /\ y.report = worker[w].report /\ y.at = now
      BY <1>1, <2>1 DEF Compared
    <3>2. y = z
      BY <1>2, <2>1, <3>1 DEF WellFormed, Series
    <3> QED BY <1>1, <1>3, <2>1, <2>3, <3>1, <3>2 DEF Compared
  <2>5. z.report \in Reports /\ p.report \in Reports
    BY <1>2, <1>3 DEF WellFormed, Typed, SnapshotRow
  <2>6. PICK e \in Found(w) :
          e.type \in {"critical_added", "high_added"} /\ e.finding = f
    BY <2>4, <2>5, AddedHasEvent DEF Found
  <2> DEFINE row == [job |-> worker[w].job, at |-> now, event |-> e]
  <2>7. row \in events'
    BY <2>2, <2>6 DEF SaveEvents, Rows
  <2>8. row.job = z.job /\ row.at = z.at /\ row.event = e
    BY <2>1, <2>4
  <2> HIDE DEF row
  <2> QED BY <2>6, <2>7, <2>8 DEF Announced
<1> QED BY <1>4, <1>5

\* From one snapshot to a later one, the first that has a finding has its event.
LEMMA StepsSpan == WellFormed /\ Raced /\ StepsAnnounced => AddedFindingsAnnounced
<1> DEFINE span(x, y) == {z \in Taken : y.id < z.id /\ z.id <= x.id}
<1> SUFFICES ASSUME WellFormed, Raced, StepsAnnounced,
                    NEW x \in snapshots, NEW y \in snapshots,
                    y.id < x.id, Clear(y), \A z \in span(x, y) : Clear(z),
                    NEW f \in Serious(x.report.findings) \ y.report.findings
             PROVE  \E z \in span(x, y) : Announced(z, f)
  BY DEF AddedFindingsAnnounced, Announced, Clear, Taken
<1>1. /\ \A z \in Taken : z.id \in Nat /\ z.report \in Reports
      /\ \A z \in snapshots : z \in Taken
      /\ \A z \in span(x, y) : z \in snapshots
      /\ Series
  BY DEF WellFormed, Typed, SnapshotRow, Taken, Raced, Clear
<1>2. x \in span(x, y) /\ f \in x.report.findings /\ f.severity \in {"critical", "high"}
  BY <1>1 DEF Serious, Of
<1> DEFINE T == {z.id : z \in {u \in span(x, y) : f \in u.report.findings}}
<1>3. PICK i \in T : \A j \in T : i <= j
  <2>1. T \in SUBSET Nat /\ T # {}
    BY <1>1, <1>2
  <2> HIDE DEF T
  <2> QED BY <2>1, Least
<1>4. PICK z \in span(x, y) : z.id = i /\ f \in z.report.findings
  BY <1>3
<1> DEFINE before == {q \in Taken : q.id < z.id}
           ids == {q.id : q \in before}
<1>5. ids \in SUBSET Nat /\ y.id \in ids /\ z.id \in Nat /\ \A j \in ids : j <= z.id
  BY <1>1, <1>4
<1>6. PICK k \in ids : \A j \in ids : j <= k
  <2> HIDE DEF ids
  <2> QED BY <1>5, Greatest
<1>7. PICK q \in Taken : q.id = k /\ q.id < z.id
  BY <1>6
<1>8. y.id <= k
  BY <1>5, <1>6
<1>9. \E p \in snapshots : p.id = k /\ Clear(p) /\ f \notin p.report.findings
  <2>1. CASE y.id = k
    BY <2>1
  <2>2. CASE y.id # k
    <3>1. q \in span(x, y)
      BY <1>1, <1>4, <1>7, <1>8, <2>2
    <3>2. f \notin q.report.findings
      <4> SUFFICES ASSUME f \in q.report.findings PROVE FALSE
        OBVIOUS
      <4>1. q.id \in T
        BY <3>1
      <4>2. i <= q.id
        BY <1>3, <4>1
      <4> QED BY <1>1, <1>4, <1>7, <4>2
    <3> QED BY <1>1, <1>7, <3>1, <3>2
  <2> QED BY <2>1, <2>2
<1>10. PICK p \in snapshots : p.id = k /\ Clear(p) /\ f \notin p.report.findings
  BY <1>9
<1>11. Previous(p, z.id)
  BY <1>6, <1>7, <1>10 DEF Previous
<1>12. f \in Serious(z.report.findings)
  BY <1>2, <1>4 DEF Serious, Of
<1>13. Announced(z, f)
  BY <1>1, <1>4, <1>10, <1>11, <1>12 DEF StepsAnnounced, Clear
<1> QED BY <1>4, <1>13

\* No serious finding slips in between two scans of a domain: whatever the
\* later of two snapshots has and the earlier has not is announced by an
\* event of a scan after the earlier, whoever started the scans and whatever
\* has been removed by age since, unless a scan from the earlier to the later
\* was cut off before its events, handled twice, inserted while another was
\* not committed, or deleted with the archive.
THEOREM AnnouncedTheorem == Spec => []AddedFindingsAnnounced
<1> DEFINE IInv == Raced /\ HandledOnce /\ Compared /\ StepsAnnounced
<1>1. Init => IInv
  BY DEF Init, Raced, At, HandledOnce, Compared, StepsAnnounced, Comparing, Busy, Idle
<1>2. WellFormed /\ IInv /\ [Next]_vars => IInv'
  BY WellFormedInductive, RacedInductive, HandledOnceInductive, ComparedInductive,
     StepsAnnouncedInductive
<1> QED BY WellFormedTheorem, StepsSpan, <1>1, <1>2, PTL DEF Spec

=============================================================================
