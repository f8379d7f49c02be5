---------------------------- MODULE MCRedelivery ----------------------------
(***************************************************************************)
(* Instances of Redelivery for TLC: two processes of one group.             *)
(***************************************************************************)
EXTENDS Redelivery

CONSTANTS i1, i2

\* Two delays, and a third delivery, which uses the last of them.
Alike == [i \in Instances |-> [ackWait |-> 1, backoff |-> <<1, 2>>, maxDeliver |-> 3]]
\* The new version of a service, i2, allows one delivery more.
Rolling == [i \in Instances |->
              [ackWait |-> 1, backoff |-> <<>>, maxDeliver |-> IF i = i1 THEN 1 ELSE 2]]
============================================================================
