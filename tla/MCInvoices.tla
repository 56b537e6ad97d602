---------------------------- MODULE MCInvoices ----------------------------
(* Values of Invoices's constants for TLC: the milestones by their names.  *)
EXTENDS Invoices

MCMilestones == {"DP", "FINAL"}

=============================================================================
