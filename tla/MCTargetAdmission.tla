------------------------- MODULE MCTargetAdmission --------------------------
(***************************************************************************)
(* An instance of TargetAdmission for TLC: a domain, one IPv6 literal,     *)
(* spellings with a capital and a final dot, ports 443 and 8443 that may   *)
(* be scanned, 22 that may not, and 70000 that is none.                    *)
(***************************************************************************)
EXTENDS TargetAdmission, TLC

DnsNames == {"example"}
V6Literals == {"2606:4700::1111"}
Services == {"localhost"}

NormalForms ==
  [s \in DnsNames \union V6Literals \union Services \union {"Example."} |->
     IF s = "Example." THEN "example" ELSE s]

PublicAddrs == {"192.0.2.1", "192.0.2.2"} \union V6Literals
ZoneAnswers == {{}, {"192.0.2.1"}, {"192.0.2.2"}, {"192.0.2.1", "10.0.0.1"},
                {"192.0.2.1", "192.0.2.2"}}
AllAddrs == PublicAddrs \union {"10.0.0.1"}

Text(form, host, port) == [form |-> form, host |-> host, port |-> port]

TypedTexts ==
  { Text("name", "Example.", 8443), Text("name", "example", 22),
    Text("name", "example", 70000), Text("malformed", "example", 0),
    Text("name", "localhost", 0), Text("bracketed", "2606:4700::1111", 0),
    Text("bare", "2606:4700::1111", 0) }

SubdomainOf == {}
DeniedTargets == {[host |-> "2606:4700::1111", port |-> 443, suffix |-> FALSE]}

Symmetry == Permutations(Uuids) \union Permutations(Handlers)

=============================================================================
