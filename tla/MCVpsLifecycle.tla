-------------------------- MODULE MCVpsLifecycle --------------------------
(* Small instances of VpsLifecycle: one user, so that all agents share a plan. *)
EXTENDS VpsLifecycle, TLC

MCOwner == [a \in Agents |-> CHOOSE u \in Users : TRUE]

\* Ids are interchangeable.
Symmetry ==
  Permutations(Agents) \cup Permutations(Vpses) \cup Permutations(VMs) \cup Permutations(Procs)

=============================================================================
