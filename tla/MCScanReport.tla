---------------------------- MODULE MCScanReport ----------------------------
(***************************************************************************)
(* Instances of ScanReport for TLC: a sound server, and servers that       *)
(* differ from it in the certificate, in the protocols and ciphers, in the *)
(* headers, in what the deep scan finds, or in several of these at once.   *)
(***************************************************************************)
EXTENDS ScanReport, TLC

Modern == {"TLS 1.2", "TLS 1.3"}
Ciphers(versions, old) ==
  [v \in versions \intersect Versions |-> IF v = "TLS 1.3" THEN "aead" ELSE old]

LongHsts == [hsts |-> "long", subdomains |-> TRUE, preload |-> TRUE,
             csp |-> TRUE, nosniff |-> TRUE]
ShortHsts == [LongHsts EXCEPT !.hsts = "short", !.preload = FALSE]

NoVulnerabilities == [id \in Vulnerabilities |-> "OK"]

Sound ==
  [valid |-> TRUE, days |-> 90, san |-> TRUE, sent |-> 2,
   weakSignature |-> FALSE, weakKey |-> FALSE,
   versions |-> Modern, cipher |-> Ciphers(Modern, "aead"), accepts |-> {},
   headers |-> LongHsts, vulnerabilities |-> NoVulnerabilities,
   stapling |-> "offered", forwardSecrecy |-> {}, russian |-> {}, gost |-> {}]

Speaking(e, versions, old) ==
  [e EXCEPT !.versions = versions, !.cipher = Ciphers(versions, old)]

BadCertificates ==
  { [Sound EXCEPT !.valid = FALSE], [Sound EXCEPT !.days = -1],
    [Sound EXCEPT !.days = 14], [Sound EXCEPT !.days = 30],
    [Sound EXCEPT !.san = FALSE, !.sent = 1],
    [Sound EXCEPT !.weakSignature = TRUE, !.weakKey = TRUE],
    [Sound EXCEPT !.valid = FALSE, !.sent = 0] }

BadVersions ==
  { Speaking(Sound, {"TLS 1.2"}, "aead"), Speaking(Sound, {"TLS 1.3"}, "aead"),
    Speaking(Sound, Modern \union {"TLS 1.1"}, "aead"),
    Speaking(Sound, Versions, "aead"), Speaking(Sound, {"TLS 1.0"}, "cbc"),
    Speaking(Sound, {"SSLv3"}, "aead"), Speaking(Sound, {}, "aead"),
    Speaking(Sound, Modern \union {"SSLv2", "SSLv3"}, "aead") }

BadCiphers ==
  { [Sound EXCEPT !.accepts = {c}] : c \in Probes }
  \union { [Speaking(Sound, {"TLS 1.2"}, c) EXCEPT !.accepts = {c}] :
             c \in {"cbc", "3des", "anon", "md5"} }

BadHeaders ==
  { [Sound EXCEPT !.headers = h] : h \in {NoHeaders, ShortHsts} }

DeepOnly ==
  { [Sound EXCEPT !.vulnerabilities["HEARTBLEED"] = "CRITICAL"],
    [Sound EXCEPT !.vulnerabilities["BREACH"] = "MEDIUM",
                  !.vulnerabilities["LUCKY13"] = "LOW"],
    [Speaking(Sound, Modern \union {"TLS 1.0"}, "aead")
       EXCEPT !.vulnerabilities["LUCKY13"] = "LOW"],
    [Sound EXCEPT !.stapling = "not offered", !.forwardSecrecy = {"HIGH"}] }

RussianSites ==
  { [Sound EXCEPT !.russian = {"chain"}, !.gost = {"tls"}],
    [Sound EXCEPT !.russian = {"chain"}],
    [Sound EXCEPT !.valid = FALSE, !.russian = {"certificate", "chain"},
                  !.gost = {"certificate"}] }

\* Several flaws at once.
Mixed ==
  { [Speaking(Sound, v, c) EXCEPT !.days = d, !.headers = h] :
      v \in {Modern \union {"TLS 1.0"}, {"TLS 1.2"}}, c \in {"aead", "cbc"},
      d \in {14, 90}, h \in {NoHeaders, ShortHsts} }

AllEndpoints ==
  {Sound} \union BadCertificates \union BadVersions \union BadCiphers
    \union BadHeaders \union DeepOnly \union RussianSites \union Mixed

=============================================================================
