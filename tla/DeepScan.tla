------------------------------ MODULE DeepScan ------------------------------
(***************************************************************************)
(* shared/tls_audit/testssl.py: what testssl.sh reports of an endpoint and *)
(* the findings the service makes of its rows.  The command itself is not  *)
(* part of the repository: Rows says what it prints, as far as the parser  *)
(* tells rows apart.                                                       *)
(***************************************************************************)
EXTENDS BaselineScan

DeepVersions == {"SSLv2", "SSLv3"} \union Versions   \* PROTOCOL_NAMES
Vulnerabilities == {"HEARTBLEED", "BREACH", "LUCKY13"}

TestsslSeverities == {"CRITICAL", "HIGH", "MEDIUM", "LOW", "WARN", "INFO",
                      "OK"}

\* severity_for: a warning is a low finding, what is unknown is no finding.
SeverityFor(value) ==
  CASE value = "CRITICAL" -> "critical"
    [] value = "HIGH" -> "high"
    [] value = "MEDIUM" -> "medium"
    [] value \in {"LOW", "WARN"} -> "low"
    [] OTHER -> "info"

\* testssl_status in the report: the command is not installed; it ran out of
\* time and its process group was killed; it wrote no result, or one without
\* a scan; or it reported.  A result that is no JSON raises: no report.
StatusOf(outcome) ==
  CASE outcome = "disabled" -> "disabled"
    [] outcome \in {"timeout", "nothing"} -> "error"
    [] outcome = "done" -> "done"

\* A protocol that could not be tested has no row, or one that does not say
\* so in the words the parser looks for.
Rows(e, untested, absent) ==
  [protocols |-> [v \in DeepVersions \ absent |->
                    IF v \in untested THEN "not tested"
                    ELSE IF v \in e.versions THEN "offered" ELSE "not offered"],
   vulnerabilities |-> e.vulnerabilities,
   stapling |-> e.stapling,
   forwardSecrecy |-> e.forwardSecrecy]

\* protocol_findings: every text without "not offered" means enabled.
Enabled(rows, v) ==
  v \in DOMAIN rows.protocols /\ rows.protocols[v] /= "not offered"

ProtocolFindings(rows) ==
  {[severity |-> "critical", code |-> "insecure_protocol", title |-> v,
    cap |-> GradeD] : v \in {w \in {"SSLv2", "SSLv3"} : Enabled(rows, w)}}
  \union
  When(\E v \in LegacyVersions : Enabled(rows, v), "high", "legacy_tls")

\* lucky13_is_closed_by_protocols: both old versions have a row that says no.
\* Mutant: a version without a row counts as off.
Lucky13ClosedUnlessOn(rows) == \A v \in LegacyVersions : ~Enabled(rows, v)
Lucky13Closed(rows) ==
  \A v \in LegacyVersions :
    v \in DOMAIN rows.protocols /\ rows.protocols[v] = "not offered"

Effective(rows, id) ==
  IF id = "LUCKY13" /\ Lucky13Closed(rows) THEN "INFO"
  ELSE rows.vulnerabilities[id]

VulnerabilityFindings(rows) ==
  LET severity(id) == SeverityFor(Effective(rows, id))
      capped(id) == id \notin {"BREACH", "LUCKY13"}
                      /\ severity(id) \in {"critical", "high"}
      kept == {id \in DOMAIN rows.vulnerabilities :
                 severity(id) /= "info" \/ id = "LUCKY13"}
  IN {[severity |-> severity(id), code |-> id, title |-> id,
       cap |-> IF capped(id) THEN GradeD ELSE NoCap] : id \in kept}

StaplingFindings(rows) ==
  When(rows.stapling = "not offered", "info", "ocsp_stapling_missing")

ForwardSecrecyFindings(rows) ==
  {[severity |-> SeverityFor(s), code |-> "forward_secrecy",
    title |-> "forward_secrecy",
    cap |-> CASE s = "CRITICAL" -> GradeD [] s = "HIGH" -> GradeC
              [] OTHER -> NoCap] :
     s \in {t \in rows.forwardSecrecy : SeverityFor(t) /= "info"}}

DeepFindings(rows) ==
  ProtocolFindings(rows) \union VulnerabilityFindings(rows)
    \union StaplingFindings(rows) \union ForwardSecrecyFindings(rows)

=============================================================================
