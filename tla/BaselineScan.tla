---------------------------- MODULE BaselineScan ----------------------------
(***************************************************************************)
(* tls_guard/scanner.py and adapter.py: what the probes of the baseline    *)
(* scanner observe of an endpoint, and the findings drawn from it.         *)
(*                                                                         *)
(* An endpoint is the server's configuration.  A probe in `failed' found   *)
(* no connection, all its retries included; a failed probe is data, it     *)
(* does not fail the scan.  Cipher suites are classes: null (NULL and      *)
(* EXPORT), rc4, 3des, cbc (AES with SHA and no AEAD), md5 (no AES), anon  *)
(* (anonymous with a CBC suite), anonAead, aead.                           *)
(***************************************************************************)
EXTENDS Scoring

CONSTANT
  Offerable     \* cipher classes the OpenSSL of the worker can offer

Versions == {"TLS 1.0", "TLS 1.1", "TLS 1.2", "TLS 1.3"}
LegacyVersions == {"TLS 1.0", "TLS 1.1"}
ModernVersions == {"TLS 1.2", "TLS 1.3"}

CipherClasses == {"null", "rc4", "3des", "cbc", "md5", "anon", "anonAead",
                  "aead"}
Probes == {"null", "rc4", "3des", "cbc"}   \* WEAK_CIPHER_PROBES, by class

Unknown == 1000   \* expires_in_days is None

\* The certificate as report data, before anything was observed.
NoCertificate ==
  [trusted |-> FALSE, san |-> FALSE, days |-> Unknown, chain |-> 0,
   weakSignature |-> FALSE, weakKey |-> FALSE, issuerSeen |-> FALSE]

NoHeaders ==
  [hsts |-> "none", subdomains |-> FALSE, preload |-> FALSE, csp |-> FALSE,
   nosniff |-> FALSE]

---------------------------------------------------------------------------
(* Observations                                                            *)

\* A handshake with the default context: TLS 1.2 or later, a valid chain
\* for this host, not expired.  Python tells what the certificate says
\* only after such a handshake: without verification getpeercert is empty.
Verifies(e) ==
  /\ e.valid
  /\ e.days >= 0
  /\ e.versions \intersect ModernVersions /= {}

\* fetch_certificate_info: the dates come from openssl x509 or else from
\* the verified peer, and are looked at only when there is a chain.
CertificateSeen(e, failed) ==
  LET trusted == Verifies(e) /\ "handshake" \notin failed
      chain == IF \/ "chain" \in failed
                  \/ e.versions \intersect ModernVersions = {}
               THEN 0 ELSE e.sent
      leaf == chain > 0 /\ "leaf" \notin failed
  IN [trusted |-> trusted,
      san |-> trusted /\ e.san,
      days |-> IF chain > 0 /\ (leaf \/ trusted) THEN e.days ELSE Unknown,
      chain |-> chain,
      weakSignature |-> leaf /\ e.weakSignature,
      weakKey |-> leaf /\ e.weakKey,
      issuerSeen |-> leaf \/ trusted]

\* check_protocol for every version: the cipher of each that answers.
VersionsSeen(e, failed) == (e.versions \intersect Versions) \ failed

\* check_cipher: TLS 1.2 with that suite alone.
CiphersAccepted(e, failed) ==
  IF "TLS 1.2" \in e.versions
  THEN (e.accepts \intersect Probes \intersect Offerable) \ failed
  ELSE {}

\* fetch_headers verifies the certificate too: HEAD, or GET if refused.
HeadersSeen(e, failed) ==
  IF Verifies(e) /\ "headers" \notin failed THEN e.headers ELSE NoHeaders

---------------------------------------------------------------------------
(* Findings: evaluate, classify_cipher_finding, grade_cap_for              *)

GradeCapFor(code) ==
  CASE code \in {"certificate_trust", "certificate_expired", "no_tls",
                 "weak_cipher_dangerous"} -> GradeD
    [] code \in {"weak_cipher_rc4", "weak_cipher_3des",
                 "weak_cipher_cbc_only"} -> GradeC
    [] code \in {"legacy_tls", "weak_cipher_cbc_accepted",
                 "weak_cipher_accepted"} -> GradeB
    [] code \in {"tls13_missing", "hsts_missing"} -> GradeA
    [] OTHER -> NoCap

Finding(severity, code) ==
  [severity |-> severity, code |-> code, title |-> code,
   cap |-> GradeCapFor(code)]

When(condition, severity, code) ==
  IF condition THEN {Finding(severity, code)} ELSE {}

HasAead(cipher) == cipher \in {"aead", "anonAead"}
IsWeak(cipher) == cipher \in {"null", "rc4", "3des", "cbc", "md5", "anon"}

CipherFinding(cipher, cbcOnly) ==
  CASE cipher \in {"null", "anon", "anonAead"} ->
         Finding("critical", "weak_cipher_dangerous")
    [] cipher = "rc4" -> Finding("high", "weak_cipher_rc4")
    [] cipher = "3des" -> Finding("high", "weak_cipher_3des")
    [] cipher = "cbc" /\ cbcOnly -> Finding("high", "weak_cipher_cbc_only")
    [] cipher = "cbc" -> Finding("medium", "weak_cipher_cbc_accepted")
    [] OTHER -> Finding("medium", "weak_cipher_accepted")

\* An unread expiry date is not expired and does not expire soon.
\* Mutant: the thirtieth day is left out.
CertificateFindingsBefore30(c) ==
  When(~c.trusted, "critical", "certificate_trust")
    \union When(c.days < 0, "critical", "certificate_expired")
    \union When(c.days \in 0 .. 14, "high", "certificate_expires_soon")
    \union When(c.days \in 15 .. 29, "medium", "certificate_expires_soon")
    \union When(~c.san, "medium", "san_missing")
CertificateFindings(c) ==
  When(~c.trusted, "critical", "certificate_trust")
    \union When(c.days < 0, "critical", "certificate_expired")
    \union When(c.days \in 0 .. 14, "high", "certificate_expires_soon")
    \union When(c.days \in 15 .. 30, "medium", "certificate_expires_soon")
    \union When(~c.san, "medium", "san_missing")
    \union When(c.chain = 1, "medium", "incomplete_chain")
    \union When(c.weakSignature, "high", "weak_signature")
    \union When(c.weakKey, "high", "weak_public_key")

VersionFindings(supported) ==
  When(supported = {}, "critical", "no_tls")
    \union When(supported \intersect LegacyVersions /= {}, "high", "legacy_tls")
    \union When(supported \intersect ModernVersions = {},
                "high", "modern_tls_missing")
    \union When("TLS 1.3" \notin supported, "medium", "tls13_missing")

\* negotiated: what each supported version negotiated.
CipherFindings(negotiated, accepted) ==
  LET cbcOnly == ~\E c \in negotiated : HasAead(c) IN
    {CipherFinding(c, FALSE) : c \in {n \in negotiated : IsWeak(n)}}
      \union {CipherFinding(c, cbcOnly) : c \in accepted}

HeaderFindings(h) ==
  When(h.hsts = "none", "medium", "hsts_missing")
    \union When(h.hsts = "short", "low", "hsts_weak")
    \union When(h.hsts /= "none" /\ ~h.subdomains, "info", "hsts_no_subdomains")
    \union When(h.hsts /= "none" /\ ~h.preload, "info", "hsts_preload_missing")
    \union When(~h.csp, "info", "csp_missing")
    \union When(~h.nosniff, "info", "x_content_type_options_missing")

Evaluate(c, supported, negotiated, accepted, h) ==
  CertificateFindings(c) \union VersionFindings(supported)
    \union CipherFindings(negotiated, accepted) \union HeaderFindings(h)

=============================================================================
