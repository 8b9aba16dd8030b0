---------------------------- MODULE MCLifecycle ----------------------------
(* Lifecycle for TLC: processes and inodes are interchangeable. *)
EXTENDS LifecycleProperties, TLC

Symmetry == Permutations(Pids) \cup Permutations(Inodes)

=============================================================================
