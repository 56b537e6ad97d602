------------------------------ MODULE MCRules ------------------------------
(* Rules for TLC: a broadcast's message whose READ comes twice, to two      *)
(* processes, in a conversation with up to two enrollments in one flow,     *)
(* while two workers go through the checks.                                 *)
EXTENDS Rules

\* The first of the actions may fail when it is for the check.  (One that is
\* for a READ may be left in the middle, as its handler dies.)
MCFallible == {"DIDNT_READ_MESSAGE"} \X Messages \X {Own} \X {1}

=============================================================================
