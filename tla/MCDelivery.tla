----------------------------- MODULE MCDelivery -----------------------------
(***************************************************************************)
(* Instances of Delivery for TLC: a Pro subscription of a domain that is   *)
(* also scanned without one, and a server that is sound, speaks SSL 3.0,   *)
(* or speaks TLS 1.0 with an untrusted certificate that is about to expire. *)
(***************************************************************************)
EXTENDS Delivery, TLC

CONSTANT pro

Insecure(title) ==
  [severity |-> "critical", code |-> "insecure_protocol", title |-> title,
   cap |-> GradeD]
LegacyTls ==
  [severity |-> "high", code |-> "legacy_tls", title |-> "legacy_tls",
   cap |-> GradeB]
Untrusted ==
  [severity |-> "critical", code |-> "certificate_trust",
   title |-> "certificate_trust", cap |-> GradeD]

Modern == {"TLS 1.2", "TLS 1.3"}

Sound == Report({}, 90, Modern, "long")
SpeaksSsl3 == Report({Insecure("SSLv3")}, 90, Modern, "long")
Aging ==
  Report({LegacyTls, Untrusted}, 20, Modern \union {"TLS 1.0"}, "long")

ThreeReports == {Sound, SpeaksSsl3, Aging}

\* Either of the two has findings the other has not: each change of the server
\* adds some and resolves some.
TwoReports == {SpeaksSsl3, Aging}

WorkerSymmetry == Permutations(Workers)

=============================================================================
