---------------------------- MODULE MCSession ------------------------------
(* Symmetry for the run of Session: sockets, and request slots, are alike. *)
EXTENDS Session, TLC

MCSymmetry == Permutations(Sockets) \cup Permutations(Requests)

=============================================================================
