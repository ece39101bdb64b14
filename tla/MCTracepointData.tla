-------------------------- MODULE MCTracepointData --------------------------
(* Tracepoint samples for TLC: CPUs are interchangeable. *)
EXTENDS TracepointData, TLC

CpuSymmetry == Permutations(Cpus)

=============================================================================
