----------------------------- MODULE MCTuicUdp -----------------------------
(* TuicUdp with interchangeable associations, for the safety run. *)
EXTENDS TuicUdp, TLC

AssocSymmetry == Permutations(Assocs)

=============================================================================
