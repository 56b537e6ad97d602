----------------------------- MODULE MCWallet -----------------------------
(* Values of Wallet's constants for TLC.                                   *)
EXTENDS Wallet

\* Everything moves two, so that the fee of one is more than what is left
\* after a withdrawal.
MCAmount == [x \in Subjects |-> IF x \in Attempts THEN 1 ELSE 2]

=============================================================================
