---------------------------- MODULE MCOaTimeline ----------------------------
(***************************************************************************)
(* OaTimeline for TLC: hardware contexts are interchangeable.              *)
(***************************************************************************)
EXTENDS OaTimeline

HwSymmetry == Permutations(HwIds)
=============================================================================
