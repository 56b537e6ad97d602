---------------------------- MODULE MCPublicApi ----------------------------
(* The module of PublicApi's run: its constants are plain model values.   *)
EXTENDS PublicApi

=============================================================================
