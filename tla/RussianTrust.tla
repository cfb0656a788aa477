---------------------------- MODULE RussianTrust ----------------------------
(***************************************************************************)
(* shared/tls_audit/russian_trust.py: the compatibility block beside the   *)
(* grade.  It matches the texts and fingerprints of a report against the   *)
(* local trust list and looks for GOST markers; here a report says which   *)
(* of its three texts (certificate, chain, TLS rows) hold such a mark.     *)
(***************************************************************************)
EXTENDS DeepScan

\* The trust list: fresh, past stale_after_days or without a readable date,
\* or a file that does not load.
ListStates == {"fresh", "stale", "unreadable"}

Texts == {"certificate", "chain", "tls"}

RussianStatuses == {"data_error", "gost_and_russian_ca", "gost_detected",
                    "russian_ca_detected", "trust_list_stale", "not_detected"}

OrdinaryStatuses == {"likely_ok", "partial", "problem"}

\* russian: the texts that match an entry of the list; gost: the texts
\* with a GOST identifier.  A mark in the chain alone is no GOST evidence.
RussianStatus(list, russian, gost) ==
  LET ca == russian /= {} IN
  CASE list = "unreadable" -> "data_error"
    [] list /= "unreadable" /\ "certificate" \in gost /\ ca ->
         "gost_and_russian_ca"
    [] list /= "unreadable" /\ gost \intersect {"certificate", "tls"} /= {}
         /\ ~("certificate" \in gost /\ ca) -> "gost_detected"
    [] list /= "unreadable" /\ gost \intersect {"certificate", "tls"} = {}
         /\ ca -> "russian_ca_detected"
    [] OTHER -> IF list = "stale" THEN "trust_list_stale" ELSE "not_detected"

\* ordinary_tls_report: TLS 1.2 and 1.3 count when either scanner saw them.
\* Mutant: the verdict forgets to ask whether the certificate is trusted.
OrdinaryByVersions(trusted, supported) ==
  IF supported \intersect ModernVersions /= {} THEN "likely_ok"
  ELSE IF trusted THEN "partial" ELSE "problem"
OrdinaryStatus(trusted, supported) ==
  CASE ~trusted -> "problem"
    [] trusted /\ supported \intersect ModernVersions /= {} -> "likely_ok"
    [] OTHER -> "partial"

\* supported_protocol_names after the deep scan
SupportedByRows(rows) == {v \in ModernVersions : Enabled(rows, v)}

=============================================================================
