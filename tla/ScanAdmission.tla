--------------------------- MODULE ScanAdmission ---------------------------
(***************************************************************************)
(* What the per-target scan lock promises to its callers, with no queue,   *)
(* no TTL and no store: a target is scanned by at most one job that still  *)
(* has the lock's protection.  ScanPipeline implements this specification. *)
(*                                                                         *)
(* A job becomes `exposed' when its lock stops standing for it while it is *)
(* still in flight: the TTL ran out, the push failed after it was applied, *)
(* or an exposed job deleted a lock that was no longer its own.  Nothing   *)
(* is promised to an exposed job; everything else is exclusive.            *)
(***************************************************************************)

CONSTANTS
  Targets,   \* the host:port pairs that may be scanned
  Jobs       \* scan job identifiers

VARIABLES
  scans,     \* scans[t]: the jobs in flight on target t
  exposed    \* the jobs that lost the lock while in flight

admissionVars == <<scans, exposed>>

AdmissionTypeOK ==
  /\ scans \in [Targets -> SUBSET Jobs]
  /\ exposed \in SUBSET Jobs

AdmissionInit ==
  /\ scans = [t \in Targets |-> {}]
  /\ exposed = {}

\* Job j may start on t only when every job already there is exposed.
Admit(t, j) ==
  /\ \A u \in Targets : j \notin scans[u]
  /\ j \notin exposed
  /\ scans[t] \subseteq exposed
  /\ scans' = [scans EXCEPT ![t] = @ \union {j}]
  /\ UNCHANGED exposed

\* Job j finishes, is refused by the queue, or is lost with its process.
Leave(t, j) ==
  /\ j \in scans[t]
  /\ scans' = [scans EXCEPT ![t] = @ \ {j}]
  /\ UNCHANGED exposed

\* Job j is still in flight but no longer holds the lock.
Expose(t, j) ==
  /\ j \in scans[t]
  /\ exposed' = exposed \union {j}
  /\ UNCHANGED scans

\* A release by the exposed job j takes the lock away from job k.  The
\* release may be the last thing j does on the target.
Displace(t, j, k) ==
  /\ j \in scans[t] \intersect exposed
  /\ k \in scans[t] \ {j}
  /\ exposed' = exposed \union {k}
  /\ \/ UNCHANGED scans
     \/ scans' = [scans EXCEPT ![t] = @ \ {j}]

AdmissionNext ==
  \E t \in Targets, j \in Jobs :
    \/ Admit(t, j)
    \/ Leave(t, j)
    \/ Expose(t, j)
    \/ \E k \in Jobs : Displace(t, j, k)

AdmissionSpec == AdmissionInit /\ [][AdmissionNext]_admissionVars

(***************************************************************************)
(* The promise: two different jobs in flight on one target are never both  *)
(* protected by the lock (TargetScanGuard in traffic_control.py).          *)
(***************************************************************************)
OneProtectedJob ==
  \A t \in Targets : \A j, k \in scans[t] \ exposed : j = k

=============================================================================
