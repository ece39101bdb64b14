--------------------------- MODULE MCClientContext ---------------------------
(* The client context for TLC: names of tracepoints are interchangeable. *)
EXTENDS ClientContext, TLC

NameSymmetry == Permutations(Names)

=============================================================================
