-------------------------- MODULE MCDomainSchedule --------------------------
(***************************************************************************)
(* An instance of DomainSchedule for TLC: two subscriptions share a        *)
(* target, the address of a third refuses its mail, and an administrator   *)
(* monitors a target that never validates.                                 *)
(***************************************************************************)
EXTENDS DomainSchedule

CONSTANTS shared, other, dead, s1, s2, refused

TargetOfThree ==
  [s \in {s1, s2, refused} |-> IF s = refused THEN other ELSE shared]

=============================================================================
