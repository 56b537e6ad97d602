---------------------------- MODULE MCMessages ----------------------------
(* Messages for TLC: handlers and WhatsApp's ids are interchangeable.      *)
EXTENDS Messages, TLC

Symmetry == Permutations(Handlers) \cup Permutations(Ids)

=============================================================================
