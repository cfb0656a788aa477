-------------------------- MODULE MCScanPipeline ----------------------------
(***************************************************************************)
(* Instances of ScanPipeline for TLC.                                      *)
(***************************************************************************)
EXTENDS ScanPipeline, TLC

\* Job ids, handlers and workers of one kind are interchangeable.
Symmetry ==
  Permutations(ApiJobs) \union Permutations(MonitorJobs)
    \union Permutations(ApiClients) \union Permutations(Workers)
    \union Permutations(Targets)

=============================================================================
