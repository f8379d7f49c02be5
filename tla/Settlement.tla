----------------------------- MODULE Settlement -----------------------------
(***************************************************************************)
(* What a Runtime promises about each delivery, whatever goroutines it      *)
(* takes: a handler begins at most once and only on what is not given up;   *)
(* whoever settles a delivery first decides what is sent about it, its      *)
(* handler's result or an abandoning nak; that is sent once, an ack only    *)
(* for a handler that succeeded and a reply only for one that has returned; *)
(* and what was taken from a consumer that acks is not let go of while its  *)
(* answer is undecided (src/nats/jetstream.go, type delivery;               *)
(* docs/jetstream.md, Handler Results and Stopping).                        *)
(***************************************************************************)
CONSTANTS
    Deliveries,
    Acks     \* those of consumers that ack

VARIABLES
    stage,   \* how far each delivery is
    owed,    \* what has been decided to send about it and is not sent
    answer   \* what was sent about it; "lost" if the connection was closed

vars == <<stage, owed, answer>>

Init ==
    /\ stage = [d \in Deliveries |-> "unseen"]
    /\ owed = [d \in Deliveries |-> "undecided"]
    /\ answer = [d \in Deliveries |-> "none"]

Goes(d, to) == stage' = [stage EXCEPT ![d] = to]
Owes(d, what) == owed' = [owed EXCEPT ![d] = what]

\* a is sent, once.
Sends(d, a) ==
    /\ answer[d] = "none"
    /\ \E sent \in {a, "lost"} : answer' = [answer EXCEPT ![d] = sent]

Take(d) == stage[d] = "unseen" /\ Goes(d, "taken") /\ UNCHANGED <<owed, answer>>

\* When a receiver or the connection ends, nats.go drops what no callback has
\* seen.
Drop(D) ==
    /\ \A d \in D : stage[d] = "unseen"
    /\ stage' = [d \in Deliveries |-> IF d \in D THEN "over" ELSE stage[d]]
    /\ UNCHANGED <<owed, answer>>

Begin(d) ==
    /\ stage[d] = "taken" /\ owed[d] = "undecided"
    /\ Goes(d, "running")
    /\ UNCHANGED <<owed, answer>>

Finish(d) ==
    /\ stage[d] = "running"
    /\ \E how \in {"succeeded", "failed"} : Goes(d, how)
    /\ UNCHANGED <<owed, answer>>

\* Its handler's result is what will be sent.
Settle(d) ==
    /\ d \in Acks /\ owed[d] = "undecided" /\ stage[d] \in {"succeeded", "failed"}
    /\ Owes(d, "result")
    /\ UNCHANGED <<stage, answer>>

\* A nak is what will be sent, wherever the delivery is.
GiveUp(d) ==
    /\ d \in Acks /\ owed[d] = "undecided" /\ stage[d] \notin {"unseen", "over"}
    /\ Owes(d, "nak")
    /\ UNCHANGED <<stage, answer>>

SendResult(d) ==
    /\ owed[d] = "result"
    /\ Sends(d, IF stage[d] = "succeeded" THEN "ack" ELSE "nak")
    /\ Owes(d, "nothing") /\ Goes(d, "over")

\* The delivery may be over by now, or end with its nak.
SendNak(d) ==
    /\ owed[d] = "nak"
    /\ Sends(d, "nak")
    /\ Owes(d, "nothing")
    /\ UNCHANGED stage \/ Goes(d, "over")

Reply(d) ==
    /\ d \notin Acks /\ stage[d] \in {"succeeded", "failed"}
    /\ Sends(d, "reply")
    /\ Goes(d, "over") /\ UNCHANGED owed

\* Refused, or its handler's result discarded, or there is nothing to send.
LetGo(d) ==
    /\ stage[d] \in {"taken", "succeeded", "failed"}
    /\ d \in Acks => owed[d] \in {"nak", "nothing"}
    /\ Goes(d, "over")
    /\ UNCHANGED <<owed, answer>>

DeliveryStep(d) ==
    \/ Take(d) \/ Begin(d) \/ Finish(d) \/ LetGo(d)
    \/ Settle(d) \/ GiveUp(d) \/ SendResult(d) \/ SendNak(d) \/ Reply(d)

Next ==
    \/ \E D \in SUBSET Deliveries : Drop(D)
    \/ \E d \in Deliveries : DeliveryStep(d)

Spec == Init /\ [][Next]_vars
=============================================================================
