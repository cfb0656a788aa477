------------------------ MODULE ScanAdmissionProofs -------------------------
(***************************************************************************)
(* What ScanAdmission promises follows from its steps, for any targets and *)
(* jobs.  With the refinement of ScanRecordsProofs it holds of everything  *)
(* that is shown to implement the guard.                                   *)
(***************************************************************************)
EXTENDS ScanAdmission, TLAPS

\* The promise and the types are kept by every step of the guard.
LEMMA AdmissionInductive ==
  ASSUME AdmissionTypeOK, OneProtectedJob, [AdmissionNext]_admissionVars
  PROVE  AdmissionTypeOK' /\ OneProtectedJob'
<1> USE DEF AdmissionTypeOK, OneProtectedJob
<1>1. ASSUME NEW t \in Targets, NEW j \in Jobs, Admit(t, j)
      PROVE  AdmissionTypeOK' /\ OneProtectedJob'
  BY <1>1 DEF Admit
<1>2. ASSUME NEW t \in Targets, NEW j \in Jobs, Leave(t, j)
      PROVE  AdmissionTypeOK' /\ OneProtectedJob'
  BY <1>2 DEF Leave
<1>3. ASSUME NEW t \in Targets, NEW j \in Jobs, Expose(t, j)
      PROVE  AdmissionTypeOK' /\ OneProtectedJob'
  BY <1>3 DEF Expose
<1>4. ASSUME NEW t \in Targets, NEW j \in Jobs, NEW k \in Jobs, Displace(t, j, k)
      PROVE  AdmissionTypeOK' /\ OneProtectedJob'
  BY <1>4 DEF Displace
<1>5. CASE UNCHANGED admissionVars
  BY <1>5 DEF admissionVars
<1> QED BY <1>1, <1>2, <1>3, <1>4, <1>5 DEF AdmissionNext

\* Two different jobs in flight on one target are never both protected by its
\* lock: what callers of the guard may rely on.
THEOREM AdmissionPromise == AdmissionSpec => []OneProtectedJob
<1>1. AdmissionInit => AdmissionTypeOK /\ OneProtectedJob
  BY DEF AdmissionInit, AdmissionTypeOK, OneProtectedJob
<1>2. AdmissionTypeOK /\ OneProtectedJob /\ [AdmissionNext]_admissionVars
        => AdmissionTypeOK' /\ OneProtectedJob'
  BY AdmissionInductive
<1> QED BY <1>1, <1>2, PTL DEF AdmissionSpec

=============================================================================
