----------------------- MODULE MCRequestTransport -----------------------
(* TLC instances of RequestTransport: the constants come from the cfg, the *)
(* handlers are interchangeable.                                           *)
EXTENDS RequestTransport, TLC

Symmetry == Permutations(Handlers)
=============================================================================
