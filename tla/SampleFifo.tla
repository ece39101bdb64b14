----------------------------- MODULE SampleFifo -----------------------------
(***************************************************************************)
(* What forwarding a perf stream promises to the client: it receives the   *)
(* units the kernel published, in order, each once and none invented.      *)
(***************************************************************************)
EXTENDS Naturals, Sequences

VARIABLES
    published,  \* how many units the kernel has published; the n-th is n
    received    \* the units the client was sent

Init == published = 0 /\ received = <<>>

Publish == published' \in {n \in Nat : n > published} /\ UNCHANGED received

\* The next units, as many as there are at most.
Receive ==
    /\ Len(received') > Len(received)
    /\ Len(received') <= published
    /\ received' = [n \in 1..Len(received') |->
                      IF n <= Len(received) THEN received[n] ELSE n]
    /\ UNCHANGED published

Next == Publish \/ Receive

Spec == Init /\ [][Next]_<<published, received>>
=============================================================================
