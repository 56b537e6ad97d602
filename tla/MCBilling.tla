----------------------------- MODULE MCBilling -----------------------------
(* Values of Billing's constants for TLC.                                  *)
EXTENDS Billing

\* A renewal pays for less than a new business.
MCDays == [o \in Orders |-> IF o \in Charges THEN 1 ELSE 2]

=============================================================================
