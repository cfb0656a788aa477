-------------------------- MODULE ScanReportProofs --------------------------
(***************************************************************************)
(* Proofs about ScanReport, for every set of endpoints and every number of *)
(* failed probes.  The score of a finite set of findings stays in the      *)
(* public range, and more findings never give a better score or grade.  A  *)
(* report's findings are finite, every cap is a grade, and whatever the    *)
(* deep scan adds, the baseline's findings stay.  A scan in which no probe *)
(* fails has seen what the endpoint shows, and its findings are all those  *)
(* of the endpoint: that is what an A+ rests on.                           *)
(***************************************************************************)
EXTENDS ScanReport, FiniteSetTheorems, TLAPS

---------------------------------------------------------------------------
(* Scoring                                                                 *)

Capped(F) == \A f \in F : f.cap \in 0 .. GradeD

\* One severity of more findings counts at least as often.
LEMMA OfGrows ==
  ASSUME NEW G, IsFiniteSet(G), NEW F \in SUBSET G, NEW severity
  PROVE  /\ Cardinality(Of(F, severity)) \in Nat
         /\ Cardinality(Of(G, severity)) \in Nat
         /\ Cardinality(Of(F, severity)) <= Cardinality(Of(G, severity))
<1>1. IsFiniteSet(Of(G, severity))
  <2>1. Of(G, severity) \in SUBSET G
    BY DEF Of
  <2> QED BY <2>1, FS_Subset
<1>2. Of(F, severity) \in SUBSET Of(G, severity)
  BY DEF Of
<1>3. IsFiniteSet(Of(F, severity))
  BY <1>1, <1>2, FS_Subset
<1> QED BY <1>1, <1>2, <1>3, FS_Subset, FS_CardinalityType

\* A report with more findings has no smaller penalty.
LEMMA PenaltyGrows ==
  ASSUME NEW G, IsFiniteSet(G), NEW F \in SUBSET G
  PROVE  Penalty(F) \in Nat /\ Penalty(G) \in Nat /\ Penalty(F) <= Penalty(G)
<1>1. \A s \in {"critical", "high", "medium", "low"} :
        /\ Cardinality(Of(F, s)) \in Nat
        /\ Cardinality(Of(G, s)) \in Nat
        /\ Cardinality(Of(F, s)) <= Cardinality(Of(G, s))
  BY OfGrows
<1> DEFINE c(S, s) == Cardinality(Of(S, s))
<1>2. /\ c(F, "critical") \in Nat /\ c(G, "critical") \in Nat
      /\ c(F, "high") \in Nat /\ c(G, "high") \in Nat
      /\ c(F, "medium") \in Nat /\ c(G, "medium") \in Nat
      /\ c(F, "low") \in Nat /\ c(G, "low") \in Nat
      /\ c(F, "critical") <= c(G, "critical")
      /\ c(F, "high") <= c(G, "high")
      /\ c(F, "medium") <= c(G, "medium")
      /\ c(F, "low") <= c(G, "low")
  BY <1>1
<1>3. /\ Penalty(F) = 100 * c(F, "critical") + 25 * c(F, "high")
                        + 10 * c(F, "medium") + 5 * c(F, "low")
      /\ Penalty(G) = 100 * c(G, "critical") + 25 * c(G, "high")
                        + 10 * c(G, "medium") + 5 * c(G, "low")
  BY DEF Penalty
<1> HIDE DEF c
<1> QED BY <1>2, <1>3

\* public_score: the score of any report is between the floor and 100.
THEOREM ScoreInRange ==
  ASSUME NEW F, IsFiniteSet(F)
  PROVE  Score(F) \in PublicFloor .. 100
<1>1. Penalty(F) \in Nat
  BY PenaltyGrows
<1> QED BY <1>1 DEF Score, RawScore, PublicFloor

\* A report with more findings does not have a better score.
THEOREM ScoreNeverGrows ==
  ASSUME NEW G, IsFiniteSet(G), NEW F \in SUBSET G
  PROVE  Score(G) <= Score(F)
<1>1. Penalty(F) \in Nat /\ Penalty(G) \in Nat /\ Penalty(F) <= Penalty(G)
  BY PenaltyGrows
<1> QED BY <1>1 DEF Score, RawScore, PublicFloor

\* A set of grades and missing caps has a worst member.
LEMMA WorstIsGreatest ==
  ASSUME NEW S, S /= {}, S \subseteq 0 .. 5
  PROVE  Worst(S) \in S /\ \A h \in S : h <= Worst(S)
<1>1. \E g \in S : \A h \in S : h <= g
  <2>1. CASE 5 \in S
    BY <2>1
  <2>2. CASE 5 \notin S /\ 4 \in S
    BY <2>2
  <2>3. CASE 5 \notin S /\ 4 \notin S /\ 3 \in S
    BY <2>3
  <2>4. CASE 5 \notin S /\ 4 \notin S /\ 3 \notin S /\ 2 \in S
    BY <2>4
  <2>5. CASE 5 \notin S /\ 4 \notin S /\ 3 \notin S /\ 2 \notin S
    <3>1. PICK g \in S : TRUE
      OBVIOUS
    <3>2. \A h \in S : h = 0 \/ h = 1
      BY <2>5
    <3>3. CASE 1 \in S
      BY <3>2, <3>3
    <3>4. CASE 1 \notin S
      BY <3>1, <3>2, <3>4
    <3> QED BY <3>3, <3>4
  <2> QED BY <2>1, <2>2, <2>3, <2>4, <2>5
<1> QED BY <1>1 DEF Worst

\* A smaller score has no better grade.
LEMMA GradeFromScoreFalls ==
  ASSUME NEW s \in 0 .. 100, NEW t \in 0 .. 100, s <= t
  PROVE  /\ GradeFromScore(s) \in Grades
         /\ GradeFromScore(t) <= GradeFromScore(s)
BY DEF GradeFromScore, Grades, APlus, GradeA, GradeB, GradeC, GradeD

\* What Grade picks the worst of.
Candidates(F) == {GradeFromScore(Score(F))} \union {f.cap : f \in F}

\* Score and caps of a report give a finite set of grades to choose from.
LEMMA CandidatesAreGrades ==
  ASSUME NEW F, IsFiniteSet(F), Capped(F)
  PROVE  Candidates(F) /= {} /\ Candidates(F) \subseteq 0 .. 5
<1>1. GradeFromScore(Score(F)) \in Grades
  BY ScoreInRange, GradeFromScoreFalls DEF PublicFloor
<1> QED BY <1>1 DEF Candidates, Capped, Grades, APlus, GradeD

\* The grade is a grade, and no better than any cap of the report.
THEOREM GradeRespectsCaps ==
  ASSUME NEW F, IsFiniteSet(F), Capped(F)
  PROVE  Grade(F) \in Grades /\ \A f \in F : f.cap <= Grade(F)
<1>1. Grade(F) \in Candidates(F) /\ \A h \in Candidates(F) : h <= Grade(F)
  BY CandidatesAreGrades, WorstIsGreatest DEF Grade, Candidates
<1>2. GradeFromScore(Score(F)) \in Grades
  BY ScoreInRange, GradeFromScoreFalls DEF PublicFloor
<1>3. Candidates(F) \subseteq 0 .. 5
  BY CandidatesAreGrades
<1>4. GradeFromScore(Score(F)) \in Candidates(F)
  BY DEF Candidates
<1>5. Grade(F) \in Grades
  BY <1>1, <1>2, <1>3, <1>4 DEF Grades, APlus, GradeD
<1>6. \A f \in F : f.cap \in Candidates(F)
  BY DEF Candidates
<1> QED BY <1>1, <1>5, <1>6

\* A report with more findings does not have a better grade.
THEOREM GradeNeverImproves ==
  ASSUME NEW G, IsFiniteSet(G), Capped(G), NEW F \in SUBSET G
  PROVE  Grade(F) <= Grade(G)
<1>1. IsFiniteSet(F) /\ Capped(F)
  BY FS_Subset DEF Capped
<1>2. Grade(F) \in Candidates(F)
  BY <1>1, CandidatesAreGrades, WorstIsGreatest DEF Grade, Candidates
<1>3. \A h \in Candidates(G) : h <= Grade(G)
  BY CandidatesAreGrades, WorstIsGreatest DEF Grade, Candidates
<1>4. CASE Grade(F) \in {f.cap : f \in F}
  BY <1>3, <1>4 DEF Candidates
<1>5. CASE Grade(F) = GradeFromScore(Score(F))
  <2>1. Score(F) \in 0 .. 100 /\ Score(G) \in 0 .. 100 /\ Score(G) <= Score(F)
    BY <1>1, ScoreInRange, ScoreNeverGrows DEF PublicFloor
  <2>2. GradeFromScore(Score(F)) <= GradeFromScore(Score(G))
    BY <2>1, GradeFromScoreFalls
  <2>3. GradeFromScore(Score(G)) <= Grade(G)
    BY <1>3 DEF Candidates
  <2>4. GradeFromScore(Score(F)) \in Int /\ GradeFromScore(Score(G)) \in Int
    BY <2>1, GradeFromScoreFalls DEF Grades
  <2>5. Grade(G) \in Int
    BY GradeRespectsCaps DEF Grades
  <2> QED BY <1>5, <2>2, <2>3, <2>4, <2>5
<1> QED BY <1>2, <1>4, <1>5 DEF Candidates

---------------------------------------------------------------------------
(* The findings of a report                                                *)

Trust == Finding("critical", "certificate_trust")
Legacy == Finding("high", "legacy_tls")

\* What scoring needs of a set of findings, and what the two scanners agree
\* on: one finding on legacy TLS, one on trust.
WellFormed(F) ==
  /\ IsFiniteSet(F)
  /\ Capped(F)
  /\ \A f \in F : f.code = "legacy_tls" => f = Legacy
  /\ \A f \in F : f.code = "certificate_trust" => f = Trust

\* No finding on the certificate's trust, which only the baseline judges.
Trustless(F) == \A f \in F : f.code /= "certificate_trust"

\* Lists of findings are put together.
LEMMA UnionIsWellFormed ==
  ASSUME NEW F, NEW G, WellFormed(F), WellFormed(G)
  PROVE  WellFormed(F \union G)
BY FS_Union DEF WellFormed, Capped

\* No findings are well formed.
LEMMA EmptyIsWellFormed == WellFormed({})
BY FS_EmptySet DEF WellFormed, Capped

\* grade_cap_for returns a grade or no cap.
LEMMA CapsAreGrades ==
  ASSUME NEW code
  PROVE  GradeCapFor(code) \in 0 .. GradeD
BY DEF GradeCapFor, GradeA, GradeB, GradeC, GradeD, NoCap

\* A single finding is well formed.
LEMMA OneIsWellFormed ==
  ASSUME NEW f,
         f.cap \in 0 .. GradeD,
         f.code = "legacy_tls" => f = Legacy,
         f.code = "certificate_trust" => f = Trust
  PROVE  WellFormed({f})
BY FS_Singleton DEF WellFormed, Capped

\* A finding of the baseline scanner, when its condition holds.
LEMMA WhenIsWellFormed ==
  ASSUME NEW condition, NEW severity, NEW code,
         code = "legacy_tls" => severity = "high",
         code = "certificate_trust" => severity = "critical"
  PROVE  WellFormed(When(condition, severity, code))
<1>1. WellFormed({Finding(severity, code)})
  <2>1. Finding(severity, code).cap \in 0 .. GradeD
    BY CapsAreGrades DEF Finding
  <2>2. Finding(severity, code).code = code
    BY DEF Finding
  <2> QED BY <2>1, <2>2, OneIsWellFormed DEF Legacy, Trust
<1>2. CASE condition
  BY <1>1, <1>2 DEF When
<1>3. CASE ~condition
  BY <1>3, EmptyIsWellFormed DEF When
<1> QED BY <1>2, <1>3

\* Only certificate_trust is about the trust of the certificate.
LEMMA WhenIsTrustless ==
  ASSUME NEW condition, NEW severity, NEW code, code /= "certificate_trust"
  PROVE  Trustless(When(condition, severity, code))
BY DEF Trustless, When, Finding

\* Two lists without certificate_trust have none together.
LEMMA UnionIsTrustless ==
  ASSUME NEW F, NEW G, Trustless(F), Trustless(G)
  PROVE  Trustless(F \union G)
BY DEF Trustless

---------------------------------------------------------------------------
(* The findings of the baseline                                            *)

\* The certificate's findings: certificate_trust exactly when it is not trusted.
LEMMA CertificateFindingsAre ==
  ASSUME NEW c, c.trusted \in BOOLEAN
  PROVE  /\ WellFormed(CertificateFindings(c))
         /\ ~c.trusted => Trust \in CertificateFindings(c)
         /\ c.trusted => Trustless(CertificateFindings(c))
<1>1. WellFormed(CertificateFindings(c))
  <2>1. /\ WellFormed(When(~c.trusted, "critical", "certificate_trust"))
        /\ WellFormed(When(c.days < 0, "critical", "certificate_expired"))
        /\ WellFormed(When(c.days \in 0 .. 14, "high", "certificate_expires_soon"))
        /\ WellFormed(When(c.days \in 15 .. 30, "medium", "certificate_expires_soon"))
        /\ WellFormed(When(~c.san, "medium", "san_missing"))
        /\ WellFormed(When(c.chain = 1, "medium", "incomplete_chain"))
        /\ WellFormed(When(c.weakSignature, "high", "weak_signature"))
        /\ WellFormed(When(c.weakKey, "high", "weak_public_key"))
    BY WhenIsWellFormed
  <2>2. WellFormed(When(~c.trusted, "critical", "certificate_trust")
                     \union When(c.days < 0, "critical", "certificate_expired")
                     \union When(c.days \in 0 .. 14, "high", "certificate_expires_soon")
                     \union When(c.days \in 15 .. 30, "medium", "certificate_expires_soon"))
    BY <2>1, UnionIsWellFormed
  <2>3. WellFormed(When(~c.trusted, "critical", "certificate_trust")
                     \union When(c.days < 0, "critical", "certificate_expired")
                     \union When(c.days \in 0 .. 14, "high", "certificate_expires_soon")
                     \union When(c.days \in 15 .. 30, "medium", "certificate_expires_soon")
                     \union When(~c.san, "medium", "san_missing")
                     \union When(c.chain = 1, "medium", "incomplete_chain"))
    BY <2>1, <2>2, UnionIsWellFormed
  <2>4. CertificateFindings(c) =
          ((When(~c.trusted, "critical", "certificate_trust")
             \union When(c.days < 0, "critical", "certificate_expired")
             \union When(c.days \in 0 .. 14, "high", "certificate_expires_soon")
             \union When(c.days \in 15 .. 30, "medium", "certificate_expires_soon")
             \union When(~c.san, "medium", "san_missing")
             \union When(c.chain = 1, "medium", "incomplete_chain"))
            \union When(c.weakSignature, "high", "weak_signature"))
           \union When(c.weakKey, "high", "weak_public_key")
    BY DEF CertificateFindings
  <2>5. WellFormed((When(~c.trusted, "critical", "certificate_trust")
             \union When(c.days < 0, "critical", "certificate_expired")
             \union When(c.days \in 0 .. 14, "high", "certificate_expires_soon")
             \union When(c.days \in 15 .. 30, "medium", "certificate_expires_soon")
             \union When(~c.san, "medium", "san_missing")
             \union When(c.chain = 1, "medium", "incomplete_chain"))
            \union When(c.weakSignature, "high", "weak_signature"))
    BY <2>1, <2>3, UnionIsWellFormed
  <2> QED BY <2>1, <2>4, <2>5, UnionIsWellFormed
<1>2. ~c.trusted => Trust \in CertificateFindings(c)
  BY DEF CertificateFindings, When, Trust
<1>3. ASSUME c.trusted PROVE Trustless(CertificateFindings(c))
  BY <1>3 DEF CertificateFindings, When, Trustless, Finding
<1> QED BY <1>1, <1>2, <1>3

\* The findings on versions: legacy_tls exactly when a legacy version answers.
LEMMA VersionFindingsAre ==
  ASSUME NEW S
  PROVE  /\ WellFormed(VersionFindings(S))
         /\ Trustless(VersionFindings(S))
         /\ S \intersect LegacyVersions /= {} => Legacy \in VersionFindings(S)
<1>1. WellFormed(VersionFindings(S))
  <2>1. /\ WellFormed(When(S = {}, "critical", "no_tls"))
        /\ WellFormed(When(S \intersect LegacyVersions /= {}, "high", "legacy_tls"))
        /\ WellFormed(When(S \intersect ModernVersions = {}, "high", "modern_tls_missing"))
        /\ WellFormed(When("TLS 1.3" \notin S, "medium", "tls13_missing"))
    BY WhenIsWellFormed
  <2> QED BY <2>1, UnionIsWellFormed DEF VersionFindings
<1>2. Trustless(VersionFindings(S))
  <2>1. /\ Trustless(When(S = {}, "critical", "no_tls"))
        /\ Trustless(When(S \intersect LegacyVersions /= {}, "high", "legacy_tls"))
        /\ Trustless(When(S \intersect ModernVersions = {}, "high", "modern_tls_missing"))
        /\ Trustless(When("TLS 1.3" \notin S, "medium", "tls13_missing"))
    BY WhenIsTrustless
  <2> QED BY <2>1, UnionIsTrustless DEF VersionFindings
<1>3. S \intersect LegacyVersions /= {} => Legacy \in VersionFindings(S)
  BY DEF VersionFindings, When, Legacy
<1> QED BY <1>1, <1>2, <1>3

\* The findings on headers are well formed and about headers only.
LEMMA HeaderFindingsAre ==
  ASSUME NEW h
  PROVE  WellFormed(HeaderFindings(h)) /\ Trustless(HeaderFindings(h))
<1>1. WellFormed(HeaderFindings(h))
  <2>1. /\ WellFormed(When(h.hsts = "none", "medium", "hsts_missing"))
        /\ WellFormed(When(h.hsts = "short", "low", "hsts_weak"))
        /\ WellFormed(When(h.hsts /= "none" /\ ~h.subdomains, "info", "hsts_no_subdomains"))
        /\ WellFormed(When(h.hsts /= "none" /\ ~h.preload, "info", "hsts_preload_missing"))
        /\ WellFormed(When(~h.csp, "info", "csp_missing"))
        /\ WellFormed(When(~h.nosniff, "info", "x_content_type_options_missing"))
    BY WhenIsWellFormed
  <2> QED BY <2>1, UnionIsWellFormed DEF HeaderFindings
<1>2. Trustless(HeaderFindings(h))
  BY DEF HeaderFindings, When, Trustless, Finding
<1> QED BY <1>1, <1>2

\* However many suites were negotiated and accepted, they give these six.
CipherKinds ==
  {Finding("critical", "weak_cipher_dangerous"),
   Finding("high", "weak_cipher_rc4"), Finding("high", "weak_cipher_3des"),
   Finding("high", "weak_cipher_cbc_only"),
   Finding("medium", "weak_cipher_cbc_accepted"),
   Finding("medium", "weak_cipher_accepted")}

\* A suite leads to one of six findings.
LEMMA CipherFindingIsAKind ==
  ASSUME NEW cipher, NEW only
  PROVE  CipherFinding(cipher, only) \in CipherKinds
<1>1. CASE cipher \in {"null", "anon", "anonAead"}
  BY <1>1 DEF CipherFinding, CipherKinds
<1>2. CASE cipher = "rc4"
  BY <1>2 DEF CipherFinding, CipherKinds
<1>3. CASE cipher = "3des"
  BY <1>3 DEF CipherFinding, CipherKinds
<1>4. CASE cipher = "cbc"
  BY <1>4 DEF CipherFinding, CipherKinds
<1>5. CASE cipher \notin {"null", "anon", "anonAead", "rc4", "3des", "cbc"}
  BY <1>5 DEF CipherFinding, CipherKinds
<1> QED BY <1>1, <1>2, <1>3, <1>4, <1>5

\* The findings on suites are well formed and about suites only.
LEMMA CipherFindingsAre ==
  ASSUME NEW N, NEW A
  PROVE  WellFormed(CipherFindings(N, A)) /\ Trustless(CipherFindings(N, A))
<1>1. WellFormed(CipherKinds) /\ Trustless(CipherKinds)
  <2>1. /\ WellFormed(When(TRUE, "critical", "weak_cipher_dangerous"))
        /\ WellFormed(When(TRUE, "high", "weak_cipher_rc4"))
        /\ WellFormed(When(TRUE, "high", "weak_cipher_3des"))
        /\ WellFormed(When(TRUE, "high", "weak_cipher_cbc_only"))
        /\ WellFormed(When(TRUE, "medium", "weak_cipher_cbc_accepted"))
        /\ WellFormed(When(TRUE, "medium", "weak_cipher_accepted"))
    BY WhenIsWellFormed
  <2>2. CipherKinds =
          When(TRUE, "critical", "weak_cipher_dangerous")
            \union When(TRUE, "high", "weak_cipher_rc4")
            \union When(TRUE, "high", "weak_cipher_3des")
            \union When(TRUE, "high", "weak_cipher_cbc_only")
            \union When(TRUE, "medium", "weak_cipher_cbc_accepted")
            \union When(TRUE, "medium", "weak_cipher_accepted")
    BY DEF CipherKinds, When
  <2>3. WellFormed(CipherKinds)
    BY <2>1, <2>2, UnionIsWellFormed
  <2>4. Trustless(CipherKinds)
    BY DEF Trustless, CipherKinds, Finding
  <2> QED BY <2>3, <2>4
<1>2. CipherFindings(N, A) \subseteq CipherKinds
  BY CipherFindingIsAKind DEF CipherFindings
<1> QED BY <1>1, <1>2, FS_Subset DEF WellFormed, Capped, Trustless

\* What the baseline report is scored on.
LEMMA EvaluateIs ==
  ASSUME NEW c, c.trusted \in BOOLEAN, NEW S, NEW N, NEW A, NEW h
  PROVE  LET F == Evaluate(c, S, N, A, h) IN
         /\ WellFormed(F)
         /\ c.trusted => Trustless(F)
         /\ ~c.trusted => Trust \in F
         /\ S \intersect LegacyVersions /= {} => Legacy \in F
<1> DEFINE C == CertificateFindings(c)
           V == VersionFindings(S)
           K == CipherFindings(N, A)
           H == HeaderFindings(h)
<1>1. Evaluate(c, S, N, A, h) = C \union V \union K \union H
  BY DEF Evaluate
<1>2. /\ WellFormed(C) /\ WellFormed(V) /\ WellFormed(K) /\ WellFormed(H)
      /\ Trustless(V) /\ Trustless(K) /\ Trustless(H)
      /\ c.trusted => Trustless(C)
      /\ ~c.trusted => Trust \in C
      /\ S \intersect LegacyVersions /= {} => Legacy \in V
  BY CertificateFindingsAre, VersionFindingsAre, CipherFindingsAre,
     HeaderFindingsAre
<1> HIDE DEF C, V, K, H
<1>3. WellFormed(C \union V \union K \union H)
  BY <1>2, UnionIsWellFormed
<1>4. c.trusted => Trustless(C \union V \union K \union H)
  BY <1>2, UnionIsTrustless
<1> QED BY <1>1, <1>2, <1>3, <1>4

---------------------------------------------------------------------------
(* The findings of the deep scan                                           *)

\* The deep scan's protocols: legacy_tls exactly when a row reads as enabled.
LEMMA ProtocolFindingsAre ==
  ASSUME NEW R
  PROVE  /\ WellFormed(ProtocolFindings(R)) /\ Trustless(ProtocolFindings(R))
         /\ (\E v \in LegacyVersions : Enabled(R, v))
              => Legacy \in ProtocolFindings(R)
<1> DEFINE ssl(v) == [severity |-> "critical", code |-> "insecure_protocol",
                      title |-> v, cap |-> GradeD]
           old == {ssl(v) : v \in {w \in {"SSLv2", "SSLv3"} : Enabled(R, w)}}
           tls == When(\E v \in LegacyVersions : Enabled(R, v), "high", "legacy_tls")
<1>1. ProtocolFindings(R) = old \union tls
  BY DEF ProtocolFindings
<1>2. WellFormed(old) /\ Trustless(old)
  <2>1. WellFormed({ssl("SSLv2")}) /\ WellFormed({ssl("SSLv3")})
    <3>1. \A v : ssl(v).cap \in 0 .. GradeD /\ ssl(v).code = "insecure_protocol"
      BY DEF GradeD
    <3> HIDE DEF ssl
    <3> QED BY <3>1, OneIsWellFormed
  <2>2. WellFormed({ssl("SSLv2")} \union {ssl("SSLv3")})
    BY <2>1, UnionIsWellFormed
  <2>3. old \subseteq {ssl("SSLv2")} \union {ssl("SSLv3")}
    OBVIOUS
  <2>4. Trustless(old)
    BY DEF Trustless
  <2> QED BY <2>2, <2>3, <2>4, FS_Subset DEF WellFormed, Capped
<1>3. WellFormed(tls) /\ Trustless(tls)
  BY WhenIsWellFormed, WhenIsTrustless
<1>4. (\E v \in LegacyVersions : Enabled(R, v)) => Legacy \in tls
  BY DEF When, Legacy
<1> HIDE DEF old, tls
<1> QED BY <1>1, <1>2, <1>3, <1>4, UnionIsWellFormed, UnionIsTrustless

\* Vulnerabilities keep their own codes.
LEMMA VulnerabilityFindingsAre ==
  ASSUME NEW R, DOMAIN R.vulnerabilities = Vulnerabilities
  PROVE  WellFormed(VulnerabilityFindings(R)) /\ Trustless(VulnerabilityFindings(R))
<1> DEFINE severity(id) == SeverityFor(Effective(R, id))
           capped(id) == id \notin {"BREACH", "LUCKY13"}
                           /\ severity(id) \in {"critical", "high"}
           one(id) == [severity |-> severity(id), code |-> id, title |-> id,
                       cap |-> IF capped(id) THEN GradeD ELSE NoCap]
<1>1. VulnerabilityFindings(R)
        \subseteq {one("HEARTBLEED")} \union {one("BREACH")} \union {one("LUCKY13")}
  BY DEF VulnerabilityFindings, Vulnerabilities
<1>2. \A id \in Vulnerabilities :
        one(id).cap \in 0 .. GradeD /\ one(id).code = id
  BY DEF GradeD, NoCap
<1> HIDE DEF one
<1>3. \A id \in Vulnerabilities : WellFormed({one(id)}) /\ Trustless({one(id)})
  BY <1>2, OneIsWellFormed DEF Vulnerabilities, Trustless
<1>4. WellFormed({one("HEARTBLEED")} \union {one("BREACH")} \union {one("LUCKY13")})
      /\ Trustless({one("HEARTBLEED")} \union {one("BREACH")} \union {one("LUCKY13")})
  BY <1>3, UnionIsWellFormed, UnionIsTrustless DEF Vulnerabilities
<1> QED BY <1>1, <1>4, FS_Subset DEF WellFormed, Capped, Trustless

\* Forward secrecy keeps its own code.
LEMMA ForwardSecrecyFindingsAre ==
  ASSUME NEW R, R.forwardSecrecy \subseteq TestsslSeverities
  PROVE  WellFormed(ForwardSecrecyFindings(R)) /\ Trustless(ForwardSecrecyFindings(R))
<1> DEFINE one(s) == [severity |-> SeverityFor(s), code |-> "forward_secrecy",
                      title |-> "forward_secrecy",
                      cap |-> CASE s = "CRITICAL" -> GradeD
                                [] s = "HIGH" -> GradeC
                                [] OTHER -> NoCap]
           all == {one("CRITICAL")} \union {one("HIGH")} \union {one("MEDIUM")}
                    \union {one("LOW")} \union {one("WARN")}
                    \union {one("INFO")} \union {one("OK")}
<1>1. ForwardSecrecyFindings(R) \subseteq all
  BY DEF ForwardSecrecyFindings, TestsslSeverities
<1>2. \A s \in TestsslSeverities :
        one(s).cap \in 0 .. GradeD /\ one(s).code = "forward_secrecy"
  BY DEF GradeC, GradeD, NoCap
<1> HIDE DEF one
<1>3. \A s \in TestsslSeverities : WellFormed({one(s)}) /\ Trustless({one(s)})
  BY <1>2, OneIsWellFormed DEF Trustless
<1>4. WellFormed({one("CRITICAL")} \union {one("HIGH")} \union {one("MEDIUM")}
                   \union {one("LOW")})
  BY <1>3, UnionIsWellFormed DEF TestsslSeverities
<1>5. WellFormed(all)
  BY <1>3, <1>4, UnionIsWellFormed DEF TestsslSeverities
<1>6. Trustless(all)
  BY <1>3 DEF TestsslSeverities, Trustless
<1> QED BY <1>1, <1>5, <1>6, FS_Subset DEF WellFormed, Capped, Trustless

\* What the deep scan adds to a report.
LEMMA DeepFindingsAre ==
  ASSUME NEW R, DOMAIN R.vulnerabilities = Vulnerabilities,
         R.forwardSecrecy \subseteq TestsslSeverities
  PROVE  /\ WellFormed(DeepFindings(R)) /\ Trustless(DeepFindings(R))
         /\ (\E v \in LegacyVersions : Enabled(R, v)) => Legacy \in DeepFindings(R)
<1>1. WellFormed(StaplingFindings(R)) /\ Trustless(StaplingFindings(R))
  BY WhenIsWellFormed, WhenIsTrustless DEF StaplingFindings
<1> QED BY <1>1, ProtocolFindingsAre, VulnerabilityFindingsAre,
           ForwardSecrecyFindingsAre, UnionIsWellFormed, UnionIsTrustless
        DEF DeepFindings

---------------------------------------------------------------------------
(* The invariant                                                           *)

Judged == stage \in {"deep", "done"}

\* What a scan knows of its endpoint stays within what the endpoint has.
Shape ==
  /\ endpoint \in Endpoints
  /\ stage \in Stages
  /\ supported \subseteq Versions
  /\ certificate.trusted \in BOOLEAN
  /\ rows \subseteq DeepVersions
  /\ stage /= "done" => rows = {}

\* The score, the grade and the block beside them are about these findings.
Scored ==
  /\ WellFormed(findings)
  /\ Judged => /\ score = Score(findings)
               /\ grade = Grade(findings)
               /\ russian.ordinary = "problem" <=> ~certificate.trusted

\* What was seen of trust and of old versions is among the findings.
Told ==
  Judged =>
    /\ certificate.trusted => Trustless(findings)
    /\ ~certificate.trusted => Trust \in findings
    /\ (supported \union rows) \intersect LegacyVersions /= {}
         => Legacy \in findings

IInv == Shape /\ Scored /\ Told

\* Every shape is kept: the assumptions on endpoints say what a probe can answer.
LEMMA InitIInv == Init => IInv
<1> SUFFICES ASSUME Init PROVE IInv
  OBVIOUS
<1>1. Shape
  BY DEF Init, Shape, Stages, NoCertificate
<1>2. Scored /\ Told
  BY EmptyIsWellFormed DEF Init, Scored, Told, Judged
<1> QED BY <1>1, <1>2 DEF IInv

\* The verdict on ordinary browsers follows the trust of the certificate.
LEMMA OrdinaryFollowsTrust ==
  ASSUME NEW S, NEW t \in BOOLEAN
  PROVE  OrdinaryStatus(t, S) = "problem" <=> ~t
BY DEF OrdinaryStatus

\* Every step of a scan keeps the invariant.
LEMMA NextIInv == IInv /\ [Next]_vars => IInv'
<1> SUFFICES ASSUME IInv, [Next]_vars PROVE IInv'
  OBVIOUS
<1> USE DEF IInv
<1>1. CASE FetchCertificate
  <2>1. PICK failed \in SUBSET {"handshake", "chain", "leaf"} :
          certificate' = CertificateSeen(endpoint, failed)
    BY <1>1 DEF FetchCertificate
  <2>2. certificate'.trusted \in BOOLEAN
    BY <2>1 DEF CertificateSeen, Verifies, Shape
  <2>3. /\ stage = "certificate" /\ stage' = "versions"
        /\ UNCHANGED <<endpoint, supported, findings, rows>>
    BY <1>1 DEF FetchCertificate, report
  <2>4. Shape'
    BY <2>2, <2>3 DEF Shape, Stages
  <2> QED BY <2>3, <2>4 DEF Scored, Told, Judged
<1>2. CASE CheckProtocols
  <2>1. PICK failed \in SUBSET Versions : supported' = VersionsSeen(endpoint, failed)
    BY <1>2 DEF CheckProtocols
  <2>2. /\ stage = "versions" /\ stage' = "ciphers"
        /\ UNCHANGED <<endpoint, certificate, findings, rows>>
    BY <1>2 DEF CheckProtocols, report
  <2>3. Shape'
    BY <2>1, <2>2 DEF Shape, Stages, VersionsSeen
  <2> QED BY <2>2, <2>3 DEF Scored, Told, Judged
<1>3. CASE CheckCiphers
  <2>1. /\ stage = "ciphers" /\ stage' = "headers"
        /\ UNCHANGED <<endpoint, certificate, supported, findings, rows>>
    BY <1>3 DEF CheckCiphers, report
  <2>2. Shape'
    BY <2>1 DEF Shape, Stages
  <2> QED BY <2>1, <2>2 DEF Scored, Told, Judged
<1>4. CASE FetchHeaders
  <2> DEFINE N == {endpoint.cipher[v] : v \in supported}
             F == Evaluate(certificate, supported, N, accepted, headers')
  <2>1. /\ stage = "headers" /\ stage' = "deep"
        /\ UNCHANGED <<endpoint, certificate, supported, rows>>
        /\ findings' = F /\ score' = Score(F) /\ grade' = Grade(F)
        /\ russian'.ordinary = OrdinaryStatus(certificate.trusted, supported)
    BY <1>4 DEF FetchHeaders, Rescore, AnalyzeRussian
  <2>2. /\ WellFormed(F)
        /\ certificate.trusted => Trustless(F)
        /\ ~certificate.trusted => Trust \in F
        /\ supported \intersect LegacyVersions /= {} => Legacy \in F
    BY EvaluateIs DEF Shape
  <2> HIDE DEF F
  <2>3. Shape'
    BY <2>1 DEF Shape, Stages
  <2>4. russian'.ordinary = "problem" <=> ~certificate.trusted
    BY <2>1, OrdinaryFollowsTrust DEF Shape
  <2>5. Scored'
    BY <2>1, <2>2, <2>4 DEF Scored
  <2>6. rows' = {}
    BY <2>1 DEF Shape
  <2>7. Told'
    BY <2>1, <2>2, <2>6 DEF Told
  <2> QED BY <2>3, <2>5, <2>7
<1>5. CASE MergeDeepScan
  <2>1. PICK untested, absent \in SUBSET DeepVersions :
          LET R == Rows(endpoint, untested, absent) IN
            /\ Rescore(Merged(findings, R))
            /\ rows' = {v \in DeepVersions : Enabled(R, v)}
            /\ AnalyzeRussian(FinalTexts, supported \union SupportedByRows(R))
    BY <1>5 DEF MergeDeepScan
  <2> DEFINE R == Rows(endpoint, untested, absent)
             D == DeepFindings(R)
  <2>2. /\ stage = "deep" /\ stage' = "done"
        /\ UNCHANGED <<endpoint, certificate, supported>>
    BY <1>5 DEF MergeDeepScan, observed
  <2>3. /\ findings' = findings \union D
        /\ score' = Score(findings') /\ grade' = Grade(findings')
        /\ russian'.ordinary =
             OrdinaryStatus(certificate.trusted, supported \union SupportedByRows(R))
        /\ rows' = {v \in DeepVersions : Enabled(R, v)}
    BY <2>1 DEF Rescore, Merged, AnalyzeRussian
  <2>4. /\ DOMAIN R.vulnerabilities = Vulnerabilities
        /\ R.forwardSecrecy \subseteq TestsslSeverities
    <3>1. /\ R.vulnerabilities = endpoint.vulnerabilities
          /\ R.forwardSecrecy = endpoint.forwardSecrecy
      BY DEF Rows
    <3>2. endpoint \in Endpoints
      BY DEF Shape
    <3>3. /\ endpoint.vulnerabilities \in [Vulnerabilities -> TestsslSeverities]
          /\ endpoint.forwardSecrecy \subseteq TestsslSeverities
      BY <3>2, DeepAssumption
    <3> HIDE DEF R
    <3> QED BY <3>1, <3>3
  <2>5. /\ WellFormed(D) /\ Trustless(D)
        /\ (\E v \in LegacyVersions : Enabled(R, v)) => Legacy \in D
    BY <2>4, DeepFindingsAre
  <2> HIDE DEF R, D
  <2>6. Shape'
    BY <2>2, <2>3 DEF Shape, Stages
  <2>7. russian'.ordinary = "problem" <=> ~certificate.trusted
    BY <2>3, OrdinaryFollowsTrust DEF Shape
  <2>8. WellFormed(findings') /\ (certificate.trusted => Trustless(findings'))
    BY <2>2, <2>3, <2>5, UnionIsWellFormed, UnionIsTrustless
       DEF Scored, Told, Judged
  <2>9. Scored'
    BY <2>2, <2>3, <2>7, <2>8 DEF Scored
  <2>10. rows' \intersect LegacyVersions /= {} => Legacy \in D
    BY <2>3, <2>5
  <2>11. /\ ~certificate.trusted => Trust \in findings
         /\ supported \intersect LegacyVersions /= {} => Legacy \in findings
    BY <2>2 DEF Told, Judged
  <2>12. Told'
    BY <2>2, <2>3, <2>8, <2>10, <2>11 DEF Told
  <2> QED BY <2>6, <2>9, <2>12
<1>6. CASE DeepScanMissing
  <2>1. /\ stage = "deep" /\ stage' = "done"
        /\ UNCHANGED <<endpoint, certificate, supported, findings, rows, russian>>
        /\ score' = Score(findings) /\ grade' = Grade(findings)
    BY <1>6 DEF DeepScanMissing, Rescore, WithoutDeep, observed
  <2>2. Shape'
    BY <2>1 DEF Shape, Stages
  <2> QED BY <2>1, <2>2 DEF Scored, Told, Judged
<1>7. CASE DeepScanBreaks \/ DeadlinePasses
  <2>1. /\ stage /= "done" /\ stage' = "failed"
        /\ UNCHANGED <<endpoint, certificate, supported, findings, rows>>
    BY <1>7 DEF DeepScanBreaks, DeadlinePasses, observed, report
  <2>2. Shape'
    BY <2>1 DEF Shape, Stages
  <2> QED BY <2>1, <2>2 DEF Scored, Told, Judged
<1>8. CASE UNCHANGED vars
  BY <1>8 DEF vars, observed, report, Shape, Scored, Told, Judged
<1> QED BY <1>1, <1>2, <1>3, <1>4, <1>5, <1>6, <1>7, <1>8 DEF Next

\* A report never forgets what it was judged on (evaluate, score_report).
THEOREM Invariance == Spec => []IInv
BY InitIInv, NextIInv, PTL DEF Spec

\* Whichever probe fails, an old version that one scanner saw caps the grade, and
\* the score pays for it once although both scanners may report it.
THEOREM OldVersionsCountOnce == Spec => []LegacyCountsOnce
<1>1. IInv => LegacyCountsOnce
  <2> DEFINE L == {f \in findings : f.code = "legacy_tls"}
  <2> SUFFICES ASSUME IInv, stage = "done",
                      (supported \union rows) \intersect LegacyVersions /= {}
               PROVE  grade >= GradeB /\ Cardinality(L) = 1
    BY DEF LegacyCountsOnce
  <2>1. Legacy \in findings /\ grade = Grade(findings) /\ WellFormed(findings)
    BY DEF IInv, Told, Scored, Judged
  <2>2. Legacy.cap = GradeB /\ Legacy.code = "legacy_tls"
    BY DEF Legacy, Finding, GradeCapFor, GradeB
  <2>3. Grade(findings) \in Grades /\ GradeB <= Grade(findings)
    BY <2>1, <2>2, GradeRespectsCaps DEF WellFormed
  <2>4. L = {Legacy}
    BY <2>1, <2>2 DEF WellFormed
  <2>5. Cardinality(L) = 1
    BY <2>4, FS_Singleton
  <2> QED BY <2>1, <2>3, <2>5 DEF Grades, GradeB, GradeD, APlus
<1> QED BY <1>1, Invariance, PTL

\* The grade and the block beside it judge one certificate alike.
THEOREM VerdictsAgree == Spec => []BrowserVerdictAgrees
<1>1. IInv => BrowserVerdictAgrees
  <2> SUFFICES ASSUME IInv, stage = "done"
               PROVE  /\ grade < GradeD => russian.ordinary /= "problem"
                      /\ russian.ordinary /= "problem" =>
                           \A f \in findings : f.code /= "certificate_trust"
    BY DEF BrowserVerdictAgrees
  <2>1. /\ grade = Grade(findings) /\ WellFormed(findings)
        /\ russian.ordinary = "problem" <=> ~certificate.trusted
        /\ certificate.trusted => Trustless(findings)
        /\ ~certificate.trusted => Trust \in findings
    BY DEF IInv, Told, Scored, Judged
  <2>2. Trust.cap = GradeD
    BY DEF Trust, Finding, GradeCapFor, GradeD
  <2>3. Grade(findings) \in Grades /\ (Trust \in findings => GradeD <= Grade(findings))
    BY <2>1, <2>2, GradeRespectsCaps DEF WellFormed
  <2>4. certificate.trusted \in BOOLEAN
    BY DEF IInv, Shape
  <2> QED BY <2>1, <2>3, <2>4 DEF Grades, GradeD, APlus, Trustless
<1> QED BY <1>1, Invariance, PTL

\* The deep scan only adds findings, and a report without it is the
\* baseline's: no score and no grade gets better (merge_testssl_result).
THEOREM DeepScanOnlyAdds == Spec => DeepScanNeverImproves
<1> DEFINE P == stage = "deep" /\ stage' = "done" =>
                  /\ score' <= score /\ grade' >= grade
                  /\ deep' /= "done" => score' = score /\ grade' = grade
<1>1. IInv /\ [Next]_vars => [P]_vars
  <2> SUFFICES ASSUME IInv, Next, stage = "deep", stage' = "done" PROVE P
    BY DEF vars, observed, report
  <2>1. /\ WellFormed(findings) /\ score = Score(findings) /\ grade = Grade(findings)
    BY DEF IInv, Scored, Judged
  <2>2. /\ score \in PublicFloor .. 100
        /\ grade \in Grades
    BY <2>1, ScoreInRange, GradeRespectsCaps DEF WellFormed
  <2>3. CASE MergeDeepScan
    <3>1. /\ findings \subseteq findings' /\ deep' = "done"
          /\ score' = Score(findings') /\ grade' = Grade(findings')
      BY <2>3 DEF MergeDeepScan, Rescore, Merged
    <3>2. WellFormed(findings')
      BY NextIInv DEF IInv, Scored
    <3>3. score' <= score
      BY <2>1, <3>1, <3>2, ScoreNeverGrows DEF WellFormed
    <3>4. grade <= grade' /\ grade' \in Grades
      BY <2>1, <3>1, <3>2, GradeNeverImproves, GradeRespectsCaps DEF WellFormed
    <3> QED BY <2>2, <3>1, <3>3, <3>4 DEF Grades, APlus, GradeD
  <2>4. CASE DeepScanMissing
    <3>1. score' = score /\ grade' = grade
      BY <2>1, <2>4 DEF DeepScanMissing, Rescore, WithoutDeep
    <3> QED BY <2>2, <3>1 DEF Grades, PublicFloor, APlus, GradeD
  <2>5. CASE FetchCertificate \/ CheckProtocols \/ CheckCiphers \/ FetchHeaders
               \/ DeepScanBreaks \/ DeadlinePasses
    BY <2>5 DEF FetchCertificate, CheckProtocols, CheckCiphers, FetchHeaders,
               DeepScanBreaks, DeadlinePasses
  <2> QED BY <2>3, <2>4, <2>5 DEF Next
<1> QED BY <1>1, Invariance, PTL DEF Spec, DeepScanNeverImproves

---------------------------------------------------------------------------
(* What a scan without a failed probe has observed                         *)

\* The suites that the supported versions negotiated.
Negotiated == {endpoint.cipher[v] : v \in supported}

\* As long as no probe failed, every stage behind the scan left what the
\* endpoint shows, and the findings drawn from it are kept to the end.
Observed ==
  faults = 0 =>
    /\ stage \notin {"certificate", "failed"} =>
         certificate = CertificateSeen(endpoint, {})
    /\ stage \in {"ciphers", "headers", "deep", "done"} =>
         supported = VersionsSeen(endpoint, {})
    /\ stage \in {"headers", "deep", "done"} =>
         accepted = CiphersAccepted(endpoint, {})
    /\ Judged =>
         /\ headers = HeadersSeen(endpoint, {})
         /\ Evaluate(certificate, supported, Negotiated, accepted, headers)
              \subseteq findings
    /\ stage = "done" /\ deep = "done" =>
         DeepFindings(Rows(endpoint, {}, {})) \subseteq findings

\* The variables that Shape leaves out.
Typing ==
  /\ list \in ListStates
  /\ faults \in 0 .. MaxFaults
  /\ DOMAIN certificate = DOMAIN NoCertificate
  /\ accepted \subseteq Probes
  /\ DOMAIN headers = DOMAIN NoHeaders
  /\ \A f \in findings : f.severity \in Severities
  /\ grade \in Grades
  /\ deep \in {"none", "disabled", "error", "done"}
  /\ russian.status \in RussianStatuses
  /\ russian.ordinary \in OrdinaryStatuses
  /\ baseline.grade \in Grades

\* Severities of a list of findings.
Graded(F) == \A f \in F : f.severity \in Severities

\* A finding of the baseline scanner is graded when its severity is one.
LEMMA WhenIsGraded ==
  ASSUME NEW condition, NEW severity \in Severities, NEW code
  PROVE  Graded(When(condition, severity, code))
BY DEF Graded, When, Finding

\* What the baseline scanner finds is graded.
LEMMA EvaluateIsGraded ==
  ASSUME NEW c, NEW S, NEW N, NEW A, NEW h
  PROVE  Graded(Evaluate(c, S, N, A, h))
<1>1. Graded(CertificateFindings(c))
  BY DEF Graded, CertificateFindings, When, Finding, Severities
<1>2. Graded(VersionFindings(S))
  <2>1. /\ Graded(When(S = {}, "critical", "no_tls"))
        /\ Graded(When(S \intersect LegacyVersions /= {}, "high", "legacy_tls"))
        /\ Graded(When(S \intersect ModernVersions = {}, "high", "modern_tls_missing"))
        /\ Graded(When("TLS 1.3" \notin S, "medium", "tls13_missing"))
    BY WhenIsGraded DEF Severities
  <2> QED BY <2>1 DEF VersionFindings, Graded
<1>3. Graded(CipherFindings(N, A))
  <2>1. \A cipher, only : CipherFinding(cipher, only) \in CipherKinds
    BY CipherFindingIsAKind
  <2>2. Graded(CipherKinds)
    BY DEF Graded, CipherKinds, Finding, Severities
  <2> QED BY <2>1, <2>2 DEF Graded, CipherFindings
<1>4. Graded(HeaderFindings(h))
  BY DEF Graded, HeaderFindings, When, Finding, Severities
<1> QED BY <1>1, <1>2, <1>3, <1>4 DEF Graded, Evaluate

\* What the deep scan finds is graded.
LEMMA DeepFindingsAreGraded ==
  ASSUME NEW R
  PROVE  Graded(DeepFindings(R))
<1>1. \A value : SeverityFor(value) \in Severities
  BY DEF SeverityFor, Severities
<1>2. Graded(ProtocolFindings(R))
  <2>1. Graded(When(\E v \in LegacyVersions : Enabled(R, v), "high", "legacy_tls"))
    BY WhenIsGraded DEF Severities
  <2>2. Graded({[severity |-> "critical", code |-> "insecure_protocol", title |-> v,
                 cap |-> GradeD] : v \in {w \in {"SSLv2", "SSLv3"} : Enabled(R, w)}})
    BY DEF Graded, Severities
  <2> QED BY <2>1, <2>2 DEF Graded, ProtocolFindings
<1>3. Graded(VulnerabilityFindings(R))
  BY <1>1 DEF Graded, VulnerabilityFindings
<1>4. Graded(StaplingFindings(R))
  BY WhenIsGraded DEF StaplingFindings, Severities
<1>5. Graded(ForwardSecrecyFindings(R))
  BY <1>1 DEF Graded, ForwardSecrecyFindings
<1> QED BY <1>2, <1>3, <1>4, <1>5 DEF Graded, DeepFindings

\* The probes of a scan are finitely many.
LEMMA ProbesAreFinite ==
  /\ IsFiniteSet({"handshake", "chain", "leaf"})
  /\ IsFiniteSet(Versions) /\ IsFiniteSet(Probes)
  /\ IsFiniteSet({"headers"}) /\ IsFiniteSet(DeepVersions)
<1>1. \A x : IsFiniteSet({x})
  BY FS_Singleton
<1>2. \A S, T : IsFiniteSet(S) /\ IsFiniteSet(T) => IsFiniteSet(S \union T)
  BY FS_Union
<1>3. IsFiniteSet({"handshake"} \union {"chain"} \union {"leaf"})
  BY <1>1, <1>2
<1>4. IsFiniteSet({"TLS 1.0"} \union {"TLS 1.1"} \union {"TLS 1.2"} \union {"TLS 1.3"})
  BY <1>1, <1>2
<1>5. IsFiniteSet({"null"} \union {"rc4"} \union {"3des"} \union {"cbc"})
  BY <1>1, <1>2
<1>6. {"handshake", "chain", "leaf"} = {"handshake"} \union {"chain"} \union {"leaf"}
  OBVIOUS
<1>7. Versions = {"TLS 1.0"} \union {"TLS 1.1"} \union {"TLS 1.2"} \union {"TLS 1.3"}
  BY DEF Versions
<1>8. Probes = {"null"} \union {"rc4"} \union {"3des"} \union {"cbc"}
  BY DEF Probes
<1>9. IsFiniteSet(Versions)
  BY <1>4, <1>7
<1>10. DeepVersions = {"SSLv2"} \union {"SSLv3"} \union Versions
  BY DEF DeepVersions
<1>11. IsFiniteSet(DeepVersions)
  <2>1. IsFiniteSet({"SSLv2"} \union {"SSLv3"})
    BY <1>1, <1>2
  <2> QED BY <1>2, <1>9, <1>10, <2>1
<1> QED BY <1>1, <1>3, <1>5, <1>6, <1>8, <1>9, <1>11

\* A scan without failed probes is one in which none failed at any stage.
LEMMA FailsCounts ==
  ASSUME NEW S, IsFiniteSet(S), NEW failed \in SUBSET S, Fails(failed),
         faults \in 0 .. MaxFaults
  PROVE  /\ faults' \in 0 .. MaxFaults
         /\ faults' = 0 => faults = 0 /\ failed = {}
<1>1. IsFiniteSet(failed)
  BY FS_Subset
<1>2. Cardinality(failed) \in Nat /\ (Cardinality(failed) = 0 <=> failed = {})
  BY <1>1, FS_CardinalityType, FS_EmptySet
<1> QED BY <1>2, BoundAssumption DEF Fails

\* The status of russian trust is one of six.
LEMMA AnalyzeIsTyped ==
  ASSUME NEW T, NEW V, AnalyzeRussian(T, V), list \in ListStates,
         certificate.trusted \in BOOLEAN
  PROVE  russian'.status \in RussianStatuses /\ russian'.ordinary \in OrdinaryStatuses
<1>1. \A r, g : RussianStatus(list, r, g) \in RussianStatuses
  BY DEF RussianStatus, RussianStatuses, ListStates
<1>2. OrdinaryStatus(certificate.trusted, V) \in OrdinaryStatuses
  BY DEF OrdinaryStatus, OrdinaryStatuses
<1> QED BY <1>1, <1>2 DEF AnalyzeRussian

\* A new scan has observed nothing.
LEMMA InitObserved == Init => Typing /\ Observed
<1> SUFFICES ASSUME Init PROVE Typing /\ Observed
  OBVIOUS
<1>1. Typing
  BY BoundAssumption
     DEF Init, Typing, Grades, GradeD, APlus, Unscored, RussianStatuses,
         OrdinaryStatuses
<1>2. Observed
  BY DEF Init, Observed, Judged
<1> QED BY <1>1, <1>2

\* Every step of a scan keeps what was observed, and its types.
LEMMA NextObserved ==
  ASSUME IInv, IInv', Typing, Observed, [Next]_vars
  PROVE  Typing' /\ Observed'
<1>0. /\ endpoint \in Endpoints /\ certificate.trusted \in BOOLEAN
      /\ faults \in 0 .. MaxFaults /\ faults \in Nat
  BY BoundAssumption DEF IInv, Shape, Typing
<1>1. CASE FetchCertificate
  <2>1. PICK failed \in SUBSET {"handshake", "chain", "leaf"} :
          Fails(failed) /\ certificate' = CertificateSeen(endpoint, failed)
    BY <1>1 DEF FetchCertificate
  <2>2. /\ stage = "certificate" /\ stage' = "versions"
        /\ UNCHANGED <<endpoint, list, supported, accepted, headers, report>>
    BY <1>1 DEF FetchCertificate
  <2>3. faults' \in 0 .. MaxFaults /\ (faults' = 0 => failed = {})
    BY <1>0, <2>1, FailsCounts, ProbesAreFinite
  <2>4. DOMAIN certificate' = DOMAIN NoCertificate
    BY <2>1 DEF CertificateSeen, NoCertificate
  <2>5. Typing'
    BY <2>2, <2>3, <2>4 DEF Typing, report
  <2>6. Observed'
    BY <2>1, <2>2, <2>3 DEF Observed, Judged
  <2> QED BY <2>5, <2>6
<1>2. CASE CheckProtocols
  <2>1. PICK failed \in SUBSET Versions :
          Fails(failed) /\ supported' = VersionsSeen(endpoint, failed)
    BY <1>2 DEF CheckProtocols
  <2>2. /\ stage = "versions" /\ stage' = "ciphers"
        /\ UNCHANGED <<endpoint, list, certificate, accepted, headers, report>>
    BY <1>2 DEF CheckProtocols
  <2>3. faults' \in 0 .. MaxFaults /\ (faults' = 0 => faults = 0 /\ failed = {})
    BY <1>0, <2>1, FailsCounts, ProbesAreFinite
  <2>4. Typing'
    BY <2>2, <2>3 DEF Typing, report
  <2>5. Observed'
    BY <2>1, <2>2, <2>3 DEF Observed, Judged
  <2> QED BY <2>4, <2>5
<1>3. CASE CheckCiphers
  <2>1. PICK failed \in SUBSET Probes :
          Fails(failed) /\ accepted' = CiphersAccepted(endpoint, failed)
    BY <1>3 DEF CheckCiphers
  <2>2. /\ stage = "ciphers" /\ stage' = "headers"
        /\ UNCHANGED <<endpoint, list, certificate, supported, headers, report>>
    BY <1>3 DEF CheckCiphers
  <2>3. faults' \in 0 .. MaxFaults /\ (faults' = 0 => faults = 0 /\ failed = {})
    BY <1>0, <2>1, FailsCounts, ProbesAreFinite
  <2>4. accepted' \subseteq Probes
    BY <2>1 DEF CiphersAccepted
  <2>5. Typing'
    BY <2>2, <2>3, <2>4 DEF Typing, report
  <2>6. Observed'
    BY <2>1, <2>2, <2>3 DEF Observed, Judged
  <2> QED BY <2>5, <2>6
<1>4. CASE FetchHeaders
  <2> DEFINE F == Evaluate(certificate, supported, Negotiated, accepted, headers')
  <2>1. PICK failed \in SUBSET {"headers"} :
          Fails(failed) /\ headers' = HeadersSeen(endpoint, failed)
    BY <1>4 DEF FetchHeaders
  <2>2. /\ stage = "headers" /\ stage' = "deep"
        /\ UNCHANGED <<endpoint, list, certificate, supported, accepted, deep, rows>>
        /\ findings' = F /\ grade' = Grade(F)
        /\ AnalyzeRussian(CertificateTexts, supported)
        /\ baseline' = [score |-> score', grade |-> grade']
    BY <1>4 DEF FetchHeaders, Rescore, Negotiated
  <2>3. faults' \in 0 .. MaxFaults /\ (faults' = 0 => faults = 0 /\ failed = {})
    BY <1>0, <2>1, FailsCounts, ProbesAreFinite
  <2>4. Negotiated' = Negotiated
    BY <2>2 DEF Negotiated
  <2>5. endpoint.headers \in
          [hsts : {"none", "short", "long"}, subdomains : BOOLEAN,
           preload : BOOLEAN, csp : BOOLEAN, nosniff : BOOLEAN]
    BY <1>0, HeadersAssumption
  <2>6. Graded(F) /\ WellFormed(findings')
    BY EvaluateIsGraded DEF IInv, Scored
  <2> HIDE DEF F
  <2>7. DOMAIN headers' = DOMAIN NoHeaders
    <3>1. DOMAIN endpoint.headers = DOMAIN NoHeaders
      BY <2>5 DEF NoHeaders
    <3> QED BY <2>1, <3>1 DEF HeadersSeen
  <2>8. russian'.status \in RussianStatuses /\ russian'.ordinary \in OrdinaryStatuses
    BY <1>0, <2>2, AnalyzeIsTyped DEF Typing
  <2>9. grade' \in Grades
    BY <2>2, <2>6, GradeRespectsCaps DEF WellFormed
  <2>10. baseline'.grade \in Grades
    BY <2>2, <2>9
  <2>11. Typing'
    BY <2>2, <2>3, <2>6, <2>7, <2>8, <2>9, <2>10 DEF Typing, Graded
  <2>12. stage' # "done" /\ stage # "failed" /\ stage # "certificate"
    BY <2>2
  <2>13. Evaluate(certificate', supported', Negotiated', accepted', headers')
           \subseteq findings'
    BY <2>2, <2>4 DEF F
  <2>14. Observed'
    BY <2>1, <2>2, <2>3, <2>12, <2>13 DEF Observed, Judged
  <2> QED BY <2>11, <2>14
<1>5. CASE MergeDeepScan
  <2>1. PICK untested, absent \in SUBSET DeepVersions :
          /\ Fails(untested \union absent)
          /\ LET R == Rows(endpoint, untested, absent) IN
               /\ Rescore(Merged(findings, R))
               /\ rows' = {v \in DeepVersions : Enabled(R, v)}
               /\ AnalyzeRussian(FinalTexts, supported \union SupportedByRows(R))
    BY <1>5 DEF MergeDeepScan
  <2> DEFINE R == Rows(endpoint, untested, absent)
             D == DeepFindings(R)
  <2>2. /\ stage = "deep" /\ stage' = "done" /\ deep' = "done"
        /\ UNCHANGED <<endpoint, list, certificate, supported, accepted, headers,
                       baseline>>
    BY <1>5 DEF MergeDeepScan, observed
  <2>3. /\ findings' = findings \union D /\ grade' = Grade(findings')
        /\ AnalyzeRussian(FinalTexts, supported \union SupportedByRows(R))
    BY <2>1 DEF Rescore, Merged
  <2>4. untested \union absent \in SUBSET DeepVersions
    OBVIOUS
  <2>5. /\ faults' \in 0 .. MaxFaults
        /\ faults' = 0 => faults = 0 /\ untested \union absent = {}
    BY <1>0, <2>1, <2>4, FailsCounts, ProbesAreFinite
  <2>6. Graded(D) /\ WellFormed(findings')
    BY DeepFindingsAreGraded DEF IInv, Scored
  <2>7. faults' = 0 => R = Rows(endpoint, {}, {})
    <3>1. faults' = 0 => untested = {} /\ absent = {}
      BY <2>5
    <3> QED BY <3>1
  <2>8. russian'.status \in RussianStatuses /\ russian'.ordinary \in OrdinaryStatuses
    <3> HIDE DEF R
    <3> QED BY <1>0, <2>3, AnalyzeIsTyped DEF Typing
  <2>9. faults' = 0 => D = DeepFindings(Rows(endpoint, {}, {}))
    BY <2>7
  <2> HIDE DEF R, D
  <2>10. grade' \in Grades
    BY <2>3, <2>6, GradeRespectsCaps DEF WellFormed
  <2>11. Typing'
    BY <2>2, <2>3, <2>5, <2>6, <2>8, <2>10 DEF Typing, Graded
  <2>12. Negotiated' = Negotiated
    BY <2>2 DEF Negotiated
  <2>13. Observed'
    BY <2>2, <2>3, <2>5, <2>9, <2>12 DEF Observed, Judged
  <2> QED BY <2>11, <2>13
<1>6. CASE DeepScanMissing
  <2>1. /\ stage = "deep" /\ stage' = "done"
        /\ deep' \in {StatusOf("disabled"), StatusOf("timeout"), StatusOf("nothing")}
        /\ UNCHANGED <<endpoint, list, faults, certificate, supported, accepted,
                       headers, findings, rows, russian, baseline>>
        /\ grade' = Grade(findings')
    BY <1>6 DEF DeepScanMissing, Rescore, WithoutDeep, observed
  <2>2. deep' \in {"disabled", "error"}
    BY <2>1 DEF StatusOf
  <2>3. grade' \in Grades
    BY <2>1, GradeRespectsCaps DEF IInv, Scored, WellFormed
  <2>4. Typing'
    BY <2>1, <2>2, <2>3 DEF Typing
  <2>5. Negotiated' = Negotiated
    BY <2>1 DEF Negotiated
  <2>6. Observed'
    BY <2>1, <2>2, <2>5 DEF Observed, Judged
  <2> QED BY <2>4, <2>6
<1>7. CASE DeepScanBreaks \/ DeadlinePasses
  <2>1. /\ stage' = "failed"
        /\ UNCHANGED <<endpoint, list, faults, observed, report>>
    BY <1>7 DEF DeepScanBreaks, DeadlinePasses
  <2> QED BY <2>1 DEF Typing, Observed, Judged, observed, report
<1>8. CASE UNCHANGED vars
  <2>1. Negotiated' = Negotiated
    BY <1>8 DEF vars, observed, Negotiated
  <2> QED BY <1>8, <2>1 DEF vars, Typing, Observed, Judged, observed, report
<1> QED BY <1>1, <1>2, <1>3, <1>4, <1>5, <1>6, <1>7, <1>8 DEF Next

\* What was observed, and the types, hold throughout a scan.
LEMMA ObservedThroughout == Spec => [](IInv /\ Typing /\ Observed)
<1>1. IInv /\ IInv' /\ Typing /\ Observed /\ [Next]_vars => Typing' /\ Observed'
  BY NextObserved
<1> QED BY Invariance, InitObserved, <1>1, PTL DEF Spec

\* Every variable of a scan keeps its type, the score its range.
THEOREM ReportTypes == Spec => []TypeOK
<1>1. IInv /\ Typing => TypeOK
  <2> SUFFICES ASSUME IInv, Typing PROVE TypeOK
    OBVIOUS
  <2>1. \A f \in findings : f.cap \in 0 .. GradeD
    BY DEF IInv, Scored, WellFormed, Capped
  <2>2. stage \in {"deep", "done"} => score \in PublicFloor .. 100
    BY ScoreInRange DEF IInv, Scored, Judged, WellFormed
  <2> QED BY <2>1, <2>2 DEF IInv, Shape, Typing, TypeOK
<1> QED BY <1>1, ObservedThroughout, PTL

\* Lucky13 is a note only when both old versions have a row that says no; the
\* row of a version the server has never does, whatever rows were lost.
LEMMA OldVersionsKeepLucky13 ==
  ASSUME NEW e \in Endpoints, NEW untested, NEW absent,
         e.versions \intersect LegacyVersions /= {},
         SeverityFor(e.vulnerabilities["LUCKY13"]) /= "info"
  PROVE  \E f \in DeepFindings(Rows(e, untested, absent)) :
           f.code = "LUCKY13" /\ f.severity /= "info"
<1> DEFINE R == Rows(e, untested, absent)
           severity(id) == SeverityFor(Effective(R, id))
           capped(id) == id \notin {"BREACH", "LUCKY13"}
                           /\ severity(id) \in {"critical", "high"}
           one(id) == [severity |-> severity(id), code |-> id, title |-> id,
                       cap |-> IF capped(id) THEN GradeD ELSE NoCap]
<1>1. R.vulnerabilities = e.vulnerabilities
  BY DEF Rows
<1>2. DOMAIN R.vulnerabilities = Vulnerabilities
  BY <1>1, DeepAssumption
<1>3. ~Lucky13Closed(R)
  <2>1. PICK v \in LegacyVersions : v \in e.versions
    OBVIOUS
  <2>2. v \in DOMAIN R.protocols => R.protocols[v] /= "not offered"
    BY <2>1 DEF Rows
  <2> QED BY <2>1, <2>2 DEF Lucky13Closed
<1>4. severity("LUCKY13") /= "info"
  BY <1>1, <1>3 DEF Effective
<1>5. one("LUCKY13") \in VulnerabilityFindings(R)
  BY <1>2 DEF VulnerabilityFindings, Vulnerabilities
<1> HIDE DEF R
<1>6. one("LUCKY13") \in DeepFindings(R)
  BY <1>5 DEF DeepFindings
<1> QED BY <1>4, <1>6 DEF R

\* A server that has an old version keeps its Lucky13 finding in every report
\* with a deep scan.
THEOREM Lucky13Theorem == Spec => []Lucky13NoteNeedsModernTls
<1>1. Init => Lucky13NoteNeedsModernTls
  BY DEF Init, Lucky13NoteNeedsModernTls
<1>2. IInv /\ Lucky13NoteNeedsModernTls /\ [Next]_vars
        => Lucky13NoteNeedsModernTls'
  <2> SUFFICES ASSUME IInv, Lucky13NoteNeedsModernTls, [Next]_vars
               PROVE  Lucky13NoteNeedsModernTls'
    OBVIOUS
  <2>1. CASE MergeDeepScan
    <3>1. PICK untested, absent \in SUBSET DeepVersions :
            Rescore(Merged(findings, Rows(endpoint, untested, absent)))
      BY <2>1 DEF MergeDeepScan
    <3>2. DeepFindings(Rows(endpoint, untested, absent)) \subseteq findings'
      BY <3>1 DEF Rescore, Merged
    <3>3. endpoint' = endpoint /\ endpoint \in Endpoints
      BY <2>1 DEF MergeDeepScan, IInv, Shape
    <3> QED BY <3>2, <3>3, OldVersionsKeepLucky13 DEF Lucky13NoteNeedsModernTls
  <2>2. CASE DeepScanMissing
    <3>1. deep' \in {StatusOf("disabled"), StatusOf("timeout"), StatusOf("nothing")}
      BY <2>2 DEF DeepScanMissing
    <3>2. deep' /= "done"
      BY <3>1 DEF StatusOf
    <3> QED BY <3>2 DEF Lucky13NoteNeedsModernTls
  <2>3. CASE FetchCertificate \/ CheckProtocols \/ CheckCiphers \/ FetchHeaders
               \/ DeepScanBreaks \/ DeadlinePasses
    <3>1. stage' /= "done"
      BY <2>3 DEF FetchCertificate, CheckProtocols, CheckCiphers, FetchHeaders,
                  DeepScanBreaks, DeadlinePasses
    <3> QED BY <3>1 DEF Lucky13NoteNeedsModernTls
  <2>4. CASE UNCHANGED vars
    BY <2>4 DEF vars, observed, report, Lucky13NoteNeedsModernTls
  <2> QED BY <2>1, <2>2, <2>3, <2>4 DEF Next
<1> QED BY Invariance, <1>1, <1>2, PTL DEF Spec

\* An A+ leaves room for a low finding, and for none that weighs more.
LEMMA APlusHasNoSerious ==
  ASSUME NEW F, IsFiniteSet(F), Capped(F), Grade(F) = APlus
  PROVE  \A f \in F : f.severity \notin {"critical", "high", "medium"}
<1>1. /\ Grade(F) \in Candidates(F) /\ \A h \in Candidates(F) : h <= Grade(F)
      /\ GradeFromScore(Score(F)) \in Candidates(F)
  BY CandidatesAreGrades, WorstIsGreatest DEF Grade, Candidates
<1>2. Score(F) \in 0 .. 100
  BY ScoreInRange DEF PublicFloor
<1>3. Score(F) >= 95
  <2>1. GradeFromScore(Score(F)) <= 1
    BY <1>1 DEF APlus
  <2> QED BY <1>2, <2>1
          DEF GradeFromScore, APlus, GradeA, GradeB, GradeC, GradeD
<1>4. Penalty(F) \in Nat
  BY PenaltyGrows
<1>5. Penalty(F) <= 5
  BY <1>3, <1>4 DEF Score, RawScore, PublicFloor
<1> DEFINE n(s) == Cardinality(Of(F, s))
<1>6. \A s : IsFiniteSet(Of(F, s)) /\ n(s) \in Nat
  BY FS_Subset, FS_CardinalityType DEF Of
<1>7. Penalty(F) = 100 * n("critical") + 25 * n("high") + 10 * n("medium")
                     + 5 * n("low")
  BY DEF Penalty
<1>8. n("critical") \in Nat /\ n("high") \in Nat /\ n("medium") \in Nat
        /\ n("low") \in Nat
  BY <1>6
<1> HIDE DEF n
<1>9. n("critical") = 0 /\ n("high") = 0 /\ n("medium") = 0
  <2>1. \A a, b, c, d \in Nat : 100 * a + 25 * b + 10 * c + 5 * d <= 5
                                => a = 0 /\ b = 0 /\ c = 0
    OBVIOUS
  <2>2. 100 * n("critical") + 25 * n("high") + 10 * n("medium") + 5 * n("low") <= 5
    BY <1>5, <1>7
  <2> QED BY <1>8, <2>1, <2>2
<1>10. \A s : n(s) = 0 => Of(F, s) = {}
  BY <1>6, FS_EmptySet DEF n
<1> QED BY <1>9, <1>10 DEF Of

\* No weak suite that the worker probes goes with an A+.
LEMMA AcceptedIsSerious ==
  ASSUME NEW N, NEW A \in SUBSET Probes, A /= {}
  PROVE  \E f \in CipherFindings(N, A) :
           f.severity \in {"critical", "high", "medium"}
<1>1. PICK c \in A : TRUE
  OBVIOUS
<1>2. \A only : CipherFinding(c, only) \in CipherKinds
  BY CipherFindingIsAKind
<1>3. \A f \in CipherKinds : f.severity \in {"critical", "high", "medium"}
  BY DEF CipherKinds, Finding
<1>4. \E only : CipherFinding(c, only) \in CipherFindings(N, A)
  BY <1>1 DEF CipherFindings
<1> QED BY <1>2, <1>3, <1>4

\* The expiry date that an A+ was given on is the server's: a chain that
\* verifies has a leaf, and its date was read.
LEMMA DatesAreRead ==
  ASSUME NEW e \in Endpoints, CertificateSeen(e, {}).trusted
  PROVE  /\ e.valid /\ e.days >= 0 /\ e.days \in Int
         /\ CertificateSeen(e, {}).days = e.days
         /\ CertificateSeen(e, {}).san => e.san
<1>1. Verifies(e)
  BY DEF CertificateSeen
<1>2. e.valid /\ e.days >= 0 /\ e.versions \intersect ModernVersions /= {}
  BY <1>1 DEF Verifies
<1>3. e.days \in Int /\ e.sent > 0
  <2>1. e.days \in Int /\ (e.valid => e.sent > 0)
    BY ChainAssumption
  <2> QED BY <1>2, <2>1, Zenon
<1>4. CertificateSeen(e, {}).days = e.days
  BY <1>2, <1>3 DEF CertificateSeen
<1>5. CertificateSeen(e, {}).san => e.san
  BY DEF CertificateSeen
<1> QED BY <1>2, <1>3, <1>4, <1>5

\* An A+ is the server's merit: a complete scan without a failed probe gives
\* it only to a server that has what the methodology asks for.
THEOREM APlusTheorem == Spec => []APlusIsDeserved
<1>1. IInv /\ Typing /\ Observed => APlusIsDeserved
  <2> SUFFICES ASSUME IInv, Typing, Observed, stage = "done", deep = "done",
                      faults = 0, grade = APlus
               PROVE  /\ endpoint.valid /\ endpoint.days > 30 /\ endpoint.san
                      /\ endpoint.versions \intersect
                           ({"SSLv2", "SSLv3"} \union LegacyVersions) = {}
                      /\ "TLS 1.3" \in endpoint.versions
                      /\ endpoint.headers.hsts /= "none"
                      /\ "TLS 1.2" \in endpoint.versions =>
                           endpoint.accepts \intersect Probes \intersect Offerable = {}
    BY DEF APlusIsDeserved
  <2> DEFINE R == Rows(endpoint, {}, {})
             bad(f) == f.severity \in {"critical", "high", "medium"}
  <2>1. /\ certificate = CertificateSeen(endpoint, {})
        /\ supported = VersionsSeen(endpoint, {})
        /\ accepted = CiphersAccepted(endpoint, {})
        /\ headers = HeadersSeen(endpoint, {})
        /\ Evaluate(certificate, supported, Negotiated, accepted, headers)
             \subseteq findings
        /\ DeepFindings(R) \subseteq findings
    BY DEF Observed, Judged
  <2>2. endpoint \in Endpoints
    BY DEF IInv, Shape
  <2>3. \A f \in findings : ~bad(f)
    BY APlusHasNoSerious DEF IInv, Scored, Judged, WellFormed
  <2>4. /\ \A f \in CertificateFindings(certificate) : ~bad(f)
        /\ \A f \in VersionFindings(supported) : ~bad(f)
        /\ \A f \in CipherFindings(Negotiated, accepted) : ~bad(f)
        /\ \A f \in HeaderFindings(headers) : ~bad(f)
        /\ \A f \in ProtocolFindings(R) : ~bad(f)
    BY <2>1, <2>3 DEF Evaluate, DeepFindings
  <2>5. \A condition, severity, code :
          /\ severity \in {"critical", "high", "medium"}
          /\ \A f \in When(condition, severity, code) : ~bad(f)
          => ~condition
    BY DEF When, Finding
  <2>6. certificate.trusted /\ certificate.san
        /\ certificate.days \notin 0 .. 14 /\ certificate.days \notin 15 .. 30
    <3>1. /\ \A f \in When(~certificate.trusted, "critical", "certificate_trust") : ~bad(f)
          /\ \A f \in When(~certificate.san, "medium", "san_missing") : ~bad(f)
          /\ \A f \in When(certificate.days \in 0 .. 14, "high",
                          "certificate_expires_soon") : ~bad(f)
          /\ \A f \in When(certificate.days \in 15 .. 30, "medium",
                          "certificate_expires_soon") : ~bad(f)
      BY <2>4 DEF CertificateFindings
    <3> QED BY <2>5, <3>1
  <2>7. endpoint.valid /\ endpoint.days > 30 /\ endpoint.san
    BY <2>1, <2>2, <2>6, DatesAreRead
  <2>8. supported \intersect LegacyVersions = {} /\ "TLS 1.3" \in supported
    <3>1. /\ \A f \in When(supported \intersect LegacyVersions /= {}, "high",
                          "legacy_tls") : ~bad(f)
          /\ \A f \in When("TLS 1.3" \notin supported, "medium", "tls13_missing") : ~bad(f)
      BY <2>4 DEF VersionFindings
    <3> QED BY <2>5, <3>1
  <2>9. /\ endpoint.versions \intersect LegacyVersions = {}
        /\ "TLS 1.3" \in endpoint.versions
    BY <2>1, <2>8 DEF VersionsSeen, Versions, LegacyVersions
  <2>10. endpoint.versions \intersect {"SSLv2", "SSLv3"} = {}
    <3> SUFFICES ASSUME NEW v \in {"SSLv2", "SSLv3"}, v \in endpoint.versions
                 PROVE  FALSE
      OBVIOUS
    <3>1. Enabled(R, v)
      BY DEF Enabled, Rows, DeepVersions
    <3> DEFINE f == [severity |-> "critical", code |-> "insecure_protocol",
                     title |-> v, cap |-> GradeD]
    <3>2. f \in ProtocolFindings(R)
      <4> HIDE DEF R
      <4> QED BY <3>1 DEF ProtocolFindings
    <3>3. bad(f)
      OBVIOUS
    <3> QED BY <2>4, <3>2, <3>3
  <2>11. endpoint.headers.hsts /= "none"
    <3>1. headers.hsts /= "none"
      <4>1. \A f \in When(headers.hsts = "none", "medium", "hsts_missing") : ~bad(f)
        BY <2>4 DEF HeaderFindings
      <4> QED BY <2>5, <4>1
    <3> QED BY <2>1, <3>1 DEF HeadersSeen, NoHeaders
  <2>12. accepted = {}
    <3>1. accepted \in SUBSET Probes
      BY DEF Typing
    <3> QED BY <2>4, <3>1, AcceptedIsSerious
  <2>13. "TLS 1.2" \in endpoint.versions =>
           endpoint.accepts \intersect Probes \intersect Offerable = {}
    BY <2>1, <2>12 DEF CiphersAccepted
  <2> QED BY <2>7, <2>9, <2>10, <2>11, <2>13
<1> QED BY <1>1, ObservedThroughout, PTL

=============================================================================
