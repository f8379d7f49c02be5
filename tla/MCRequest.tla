----------------------------- MODULE MCRequest -----------------------------
(***************************************************************************)
(* Instances of Request for TLC.  Two calls share only the connection and  *)
(* c.closed, which no call changes, so one call has all the behaviours.    *)
(***************************************************************************)
EXTENDS Request

CONSTANT c1
=============================================================================
