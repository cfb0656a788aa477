--------------------------- MODULE MonitoringDiff ---------------------------
(***************************************************************************)
(* shared/tls_audit/monitoring.py: the difference between two snapshots of *)
(* a domain and the events drawn from it, as functions of two reports.     *)
(* A snapshot keeps the score, the grade, the days the certificate has     *)
(* left, the protocol versions, the HSTS state and the findings, which are *)
(* those of Scoring: what finding_key tells apart.  Unknown days are many. *)
(***************************************************************************)
EXTENDS Scoring

CONSTANT NoReport       \* no earlier snapshot

WarningDays == 20
Legacy == {"TLS 1.0", "TLS 1.1"}

\* What a scan of a server with these findings reports.
Report(findings, days, protocols, hsts) ==
  [findings |-> findings, score |-> Score(findings), grade |-> Grade(findings),
   days |-> days, protocols |-> protocols, hsts |-> hsts]

Expiring(r) == r.days \in 0 .. WarningDays
Expired(r) == r.days < 0

Serious(F) == Of(F, "critical") \union Of(F, "high")

Unchanged ==
  [degraded |-> FALSE, improved |-> FALSE, delta |-> 0, expiring |-> FALSE,
   expired |-> FALSE, hsts |-> FALSE, protocols |-> {}, added |-> {},
   resolved |-> {}]

\* diff_snapshots: without an earlier snapshot every finding is an added one.
Diff(current, previous) ==
  IF previous = NoReport
  THEN [Unchanged EXCEPT !.expiring = Expiring(current),
                         !.expired = Expired(current),
                         !.added = current.findings]
  ELSE [degraded |-> current.grade > previous.grade,
        improved |-> current.grade < previous.grade,
        delta |-> current.score - previous.score,
        expiring |-> Expiring(current) /\ ~Expiring(previous),
        expired |-> Expired(current) /\ ~Expired(previous),
        hsts |-> current.hsts /= previous.hsts,
        protocols |-> current.protocols \ previous.protocols,
        added |-> current.findings \ previous.findings,
        resolved |-> previous.findings \ current.findings]

---------------------------------------------------------------------------
(* Events                                                                  *)

NoFinding == [severity |-> "info", code |-> "none", title |-> "none",
              cap |-> NoCap]

\* An event with its severity and payload.
Event(type, severity) ==
  [type |-> type, severity |-> severity, finding |-> NoFinding, delta |-> 0,
   protocols |-> {}]

About(type, severity, F) ==
  {[Event(type, severity) EXCEPT !.finding = f] : f \in F}

EventIf(condition, event) == IF condition THEN {event} ELSE {}

EventsOf(d) ==
  EventIf(d.degraded, [Event("grade_degraded", "high") EXCEPT !.delta = d.delta])
    \union EventIf(d.improved,
                   [Event("grade_improved", "info") EXCEPT !.delta = d.delta])
    \union EventIf(d.expired, Event("certificate_expired", "critical"))
    \union EventIf(d.expiring /\ ~d.expired,
                   Event("certificate_expiring", "high"))
    \union About("critical_added", "critical", Of(d.added, "critical"))
    \union About("high_added", "high", Of(d.added, "high"))
    \union About("finding_resolved", "info", Serious(d.resolved))
    \union EventIf(d.protocols \intersect Legacy /= {},
                   [Event("legacy_tls_enabled", "high")
                      EXCEPT !.protocols = d.protocols])
    \union EventIf(d.hsts, Event("hsts_changed", "medium"))

ScanFailed == Event("scan_failed", "critical")

\* interesting_types of send_subscription_alert_report; of these, the ones
\* mailed at once, and the ones left to the digest of the day.
Interesting ==
  {"certificate_expiring", "certificate_expired", "grade_degraded",
   "legacy_tls_enabled", "critical_added", "scan_failed", "high_added"}
Immediate(E) ==
  {e \in E : e.type \in Interesting /\ e.severity = "critical"}
ForDigest(E) ==
  {e \in E : e.type \in Interesting} \ Immediate(E)

\* alert_key_for_event: what one cooldown is kept for.
Key(type) == [type |-> type, code |-> "", delta |-> 0, protocols |-> {}]

\* Mutant: all critical findings share one cooldown.
AlertKeyByType(e) == Key(e.type)
AlertKey(e) ==
  [type |-> e.type,
   code |-> IF e.type = "critical_added" THEN e.finding.code ELSE "",
   delta |-> IF e.type = "grade_degraded" THEN e.delta ELSE 0,
   protocols |-> IF e.type = "legacy_tls_enabled" THEN e.protocols ELSE {}]

\* format_critical_changes says nothing: the weekly mail calls the week quiet.
Quiet(d) ==
  /\ ~d.degraded
  /\ Serious(d.added) = {}
  /\ Serious(d.resolved) = {}

=============================================================================
