-------------------------- MODULE MCStreamServer --------------------------
(***************************************************************************)
(* Small instances of StreamServer for TLC.                                *)
(***************************************************************************)
EXTENDS StreamServer, TLC

\* Stream objects are interchangeable: no action compares them but by =.
StreamSymmetry == Permutations(Streams)
===========================================================================
