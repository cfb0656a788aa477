----------------------------- MODULE ScanReport -----------------------------
(***************************************************************************)
(* One scan, from the first probe to the report (run_full_scan in          *)
(* adapter.py, scan_host in scanner.py, merge_testssl_result in            *)
(* testssl.py).  Probes fail one by one, the deep scan may be missing, end *)
(* without a result or break, and the deadline may pass; the report is     *)
(* evaluated and scored after the baseline and again after the deep scan.  *)
(***************************************************************************)
EXTENDS RussianTrust

CONSTANTS
  Endpoints,   \* server configurations, see EndpointAssumption
  MaxFaults    \* bound on failed probes in one scan

\* A configuration; what of it a probe can see is in BaselineScan.
ASSUME EndpointsAssumption ==
  \A e \in Endpoints :
    /\ e.versions \subseteq DeepVersions
    /\ e.cipher \in [e.versions \intersect Versions -> CipherClasses]
    /\ e.accepts \subseteq CipherClasses
    /\ {e.valid, e.san, e.weakSignature, e.weakKey} \subseteq BOOLEAN
    /\ e.stapling \in {"offered", "not offered"}
    /\ e.russian \subseteq Texts /\ e.gost \subseteq Texts

\* A chain that verifies has its leaf.
ASSUME ChainAssumption ==
  \A e \in Endpoints :
    /\ e.days \in Int /\ e.days < Unknown
    /\ e.sent \in Nat
    /\ e.valid => e.sent > 0

ASSUME HeadersAssumption ==
  \A e \in Endpoints :
    e.headers \in [hsts : {"none", "short", "long"}, subdomains : BOOLEAN,
                  preload : BOOLEAN, csp : BOOLEAN, nosniff : BOOLEAN]

ASSUME DeepAssumption ==
  \A e \in Endpoints :
    /\ e.vulnerabilities \in [Vulnerabilities -> TestsslSeverities]
    /\ e.forwardSecrecy \subseteq TestsslSeverities

ASSUME BoundAssumption == MaxFaults \in Nat /\ Offerable \subseteq CipherClasses

VARIABLES
  endpoint,      \* the server being scanned
  list,          \* the state of the russian trust list
  stage,         \* what comes next
  faults,        \* failed probes so far
  certificate,   \* CertificateInfo
  supported,     \* protocol versions that answered
  accepted,      \* weak cipher probes that were accepted
  headers,       \* HeaderInfo
  findings,      \* report.findings
  score,         \* report.score
  grade,         \* report.grade
  deep,          \* testssl_status, "none" before
  rows,          \* the protocol versions the deep scan read as enabled
  russian,       \* report.russian_tls: status and ordinary_tls status
  baseline       \* score and grade of the baseline report (history)

observed == <<certificate, supported, accepted, headers>>
report == <<findings, score, grade, deep, rows, russian, baseline>>
vars == <<endpoint, list, stage, faults, observed, report>>

Stages == {"certificate", "versions", "ciphers", "headers", "deep", "done",
           "failed"}

Unscored == [score |-> 0, grade |-> GradeD]

Init ==
  /\ endpoint \in Endpoints
  /\ list \in ListStates
  /\ stage = "certificate"
  /\ faults = 0
  /\ certificate = NoCertificate
  /\ supported = {}
  /\ accepted = {}
  /\ headers = NoHeaders
  /\ findings = {}
  /\ score = Unscored.score
  /\ grade = Unscored.grade
  /\ deep = "none"
  /\ rows = {}
  /\ russian = [status |-> "not_detected", ordinary |-> "problem"]
  /\ baseline = Unscored

---------------------------------------------------------------------------
\* The probes in `failed' fail, each after its retries.
Fails(failed) ==
  /\ faults + Cardinality(failed) <= MaxFaults
  /\ faults' = faults + Cardinality(failed)

FetchCertificate ==
  /\ stage = "certificate"
  /\ \E failed \in SUBSET {"handshake", "chain", "leaf"} :
       /\ Fails(failed)
       /\ certificate' = CertificateSeen(endpoint, failed)
  /\ stage' = "versions"
  /\ UNCHANGED <<endpoint, list, supported, accepted, headers, report>>

CheckProtocols ==
  /\ stage = "versions"
  /\ \E failed \in SUBSET Versions :
       /\ Fails(failed)
       /\ supported' = VersionsSeen(endpoint, failed)
  /\ stage' = "ciphers"
  /\ UNCHANGED <<endpoint, list, certificate, accepted, headers, report>>

CheckCiphers ==
  /\ stage = "ciphers"
  /\ \E failed \in SUBSET Probes :
       /\ Fails(failed)
       /\ accepted' = CiphersAccepted(endpoint, failed)
  /\ stage' = "headers"
  /\ UNCHANGED <<endpoint, list, certificate, supported, headers, report>>

\* score_report, on every list of findings
Rescore(F) ==
  /\ findings' = F
  /\ score' = Score(F)
  /\ grade' = Grade(F)

\* analyze_russian_tls, on the texts and versions of the report so far.
AnalyzeRussian(texts, versions) ==
  russian' =
    [status |-> RussianStatus(list, endpoint.russian \intersect texts,
                              endpoint.gost \intersect texts),
     ordinary |-> OrdinaryStatus(certificate.trusted, versions)]

CertificateTexts == IF certificate.issuerSeen THEN {"certificate"} ELSE {}

\* The last probe; evaluate, convert and score follow at once.
FetchHeaders ==
  /\ stage = "headers"
  /\ \E failed \in SUBSET {"headers"} :
       /\ Fails(failed)
       /\ headers' = HeadersSeen(endpoint, failed)
  /\ Rescore(Evaluate(certificate, supported,
                      {endpoint.cipher[v] : v \in supported},
                      accepted, headers'))
  /\ AnalyzeRussian(CertificateTexts, supported)
  /\ baseline' = [score |-> score', grade |-> grade']
  /\ stage' = "deep"
  /\ UNCHANGED <<endpoint, list, certificate, supported, accepted, deep, rows>>

\* ensure_deadline raises between two stages: no report at all.
DeadlinePasses ==
  /\ stage \in {"certificate", "versions", "ciphers", "headers"}
  /\ stage' = "failed"
  /\ UNCHANGED <<endpoint, list, faults, observed, report>>

---------------------------------------------------------------------------
\* What the final report is scored on.
\* Mutant: the deep findings take the place of the baseline's.
MergedReplacing(F, deepRows) == DeepFindings(deepRows)
Merged(F, deepRows) == F \union DeepFindings(deepRows)

\* The texts that can carry a russian mark once the deep rows are in.
FinalTexts == CertificateTexts \union {"chain", "tls"}

MergeDeepScan ==
  /\ stage = "deep"
  /\ \E untested, absent \in SUBSET DeepVersions :
       /\ untested \intersect absent = {}
       /\ Fails(untested \union absent)
       /\ LET deepRows == Rows(endpoint, untested, absent) IN
            /\ Rescore(Merged(findings, deepRows))
            /\ rows' = {v \in DeepVersions : Enabled(deepRows, v)}
            /\ AnalyzeRussian(FinalTexts,
                              supported \union SupportedByRows(deepRows))
  /\ deep' = "done"
  /\ stage' = "done"
  /\ UNCHANGED <<endpoint, list, observed, baseline>>

\* What the report is scored on when the deep scan has no result.
\* Mutant: a missing deep scan is taken for a clean one and clears the caps.
WithoutDeepUncapped(F) == {[f EXCEPT !.cap = NoCap] : f \in F}
WithoutDeep(F) == F

DeepScanMissing ==
  /\ stage = "deep"
  /\ \E outcome \in {"disabled", "timeout", "nothing"} :
       deep' = StatusOf(outcome)
  /\ Rescore(WithoutDeep(findings))
  /\ stage' = "done"
  /\ UNCHANGED <<endpoint, list, faults, observed, rows, russian, baseline>>

\* testssl.sh left a file that is no JSON: json.load raises, and the scan
\* that has a baseline report fails.
DeepScanBreaks ==
  /\ stage = "deep"
  /\ stage' = "failed"
  /\ UNCHANGED <<endpoint, list, faults, observed, report>>

Next ==
  \/ FetchCertificate \/ CheckProtocols \/ CheckCiphers \/ FetchHeaders
  \/ MergeDeepScan \/ DeepScanMissing \/ DeepScanBreaks \/ DeadlinePasses

Spec == Init /\ [][Next]_vars

---------------------------------------------------------------------------
(* Properties                                                              *)

\* Every variable keeps its shape (Report, CertificateInfo, HeaderInfo).
TypeOK ==
  /\ endpoint \in Endpoints
  /\ list \in ListStates
  /\ stage \in Stages
  /\ faults \in 0 .. MaxFaults
  /\ DOMAIN certificate = DOMAIN NoCertificate
  /\ supported \subseteq Versions
  /\ accepted \subseteq Probes
  /\ DOMAIN headers = DOMAIN NoHeaders
  /\ \A f \in findings : f.severity \in Severities /\ f.cap \in 0 .. GradeD
  /\ stage \in {"deep", "done"} => score \in PublicFloor .. 100
  /\ grade \in Grades
  /\ deep \in {"none", "disabled", "error", "done"}
  /\ rows \subseteq DeepVersions
  /\ russian.status \in RussianStatuses
  /\ russian.ordinary \in OrdinaryStatuses
  /\ baseline.grade \in Grades

\* The deep scan adds knowledge, it never buys points: its report is not
\* better than the baseline's, and without its result the grade stands
\* (merge_testssl_result in testssl.py).
DeepScanNeverImproves ==
  [][ stage = "deep" /\ stage' = "done" =>
        /\ score' <= score /\ grade' >= grade
        /\ deep' /= "done" => score' = score /\ grade' = grade ]_vars

\* A legacy version that either scanner saw, whichever probe of the other one
\* failed, caps the grade at B and is paid for once, also when both saw it
\* (grade_cap_for, protocol_findings; docs/work-plan.md, "scoring groups
\* repeated findings from the same problem class").
LegacyCountsOnce ==
  stage = "done" /\ (supported \union rows) \intersect LegacyVersions /= {} =>
    /\ grade >= GradeB
    /\ Cardinality({f \in findings : f.code = "legacy_tls"}) = 1

\* Lucky13 becomes a note only on a server that has TLS 1.0 and 1.1 off,
\* whatever rows the deep scan lost (docs/work-plan.md, "LUCKY13 with modern
\* TLS").
Lucky13NoteNeedsModernTls ==
  /\ stage = "done" /\ deep = "done"
  /\ endpoint.versions \intersect LegacyVersions /= {}
  /\ SeverityFor(endpoint.vulnerabilities["LUCKY13"]) /= "info"
  => \E f \in findings : f.code = "LUCKY13" /\ f.severity /= "info"

\* An A+ says something of the server and not of the luck of the probes: a
\* complete scan in which no probe failed gives it only to a valid chain
\* that is not about to expire, without old protocols, with TLS 1.3, HSTS
\* and none of the suites the worker can probe (frontend.py, methodology).
APlusIsDeserved ==
  stage = "done" /\ deep = "done" /\ faults = 0 /\ grade = APlus =>
    /\ endpoint.valid /\ endpoint.days > 30 /\ endpoint.san
    /\ endpoint.versions \intersect ({"SSLv2", "SSLv3"} \union LegacyVersions) = {}
    /\ "TLS 1.3" \in endpoint.versions
    /\ endpoint.headers.hsts /= "none"
    /\ "TLS 1.2" \in endpoint.versions =>
         endpoint.accepts \intersect Probes \intersect Offerable = {}

\* The two verdicts on one certificate agree: what the grade puts above D,
\* the compatibility block does not call a problem, and the other way round
\* (ordinary_tls_report, grade_cap_for).
BrowserVerdictAgrees ==
  stage = "done" =>
    /\ grade < GradeD => russian.ordinary /= "problem"
    /\ russian.ordinary /= "problem" =>
         \A f \in findings : f.code /= "certificate_trust"

=============================================================================
