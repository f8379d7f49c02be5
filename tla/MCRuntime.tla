----------------------------- MODULE MCRuntime -----------------------------
(***************************************************************************)
(* Instances of Runtime for TLC: a few messages, on a runtime with two      *)
(* subscriptions.                                                          *)
(***************************************************************************)
EXTENDS Runtime

CONSTANTS m1, m2, m3

AckAndEndpoint == <<"ack", "endpoint">>
NoAckAndSubscriber == <<"noack", "subscriber">>
DoubleAndSubscriber == <<"double", "subscriber">>

\* m1 and m2 are for the first subscription, m3 for the second.
TwoAndOne == [m \in Messages |-> IF m = m3 THEN 2 ELSE 1]
============================================================================
