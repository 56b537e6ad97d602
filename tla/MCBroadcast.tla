---------------------------- MODULE MCBroadcast ----------------------------
(* Symmetry for the safety run of Broadcast. *)
EXTENDS Broadcast, TLC

MCSymmetry ==
    Permutations(Workers) \cup Permutations(Requests) \cup Permutations(Conversations)

=============================================================================
