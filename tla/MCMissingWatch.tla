--------------------------- MODULE MCMissingWatch ---------------------------
(***************************************************************************)
(* Instances of MissingWatch for TLC.                                      *)
(***************************************************************************)
EXTENDS MissingWatch

AllLookedUp == 1..Subscriptions
=============================================================================
