----------------------------- MODULE MCSettings -----------------------------
(***************************************************************************)
(* An instance of Settings for TLC.                                        *)
(***************************************************************************)
EXTENDS Settings

\* Two accepted targets, and two that checkSegment rejects, of which one would
\* have the second's subject.
SomeSegments ==
    {<<<<"a">>>>, <<<<"a">>, <<"a">>>>, <<<<"a", ".", "a">>>>, <<<<"a", "wildcard">>>>}

\* The key unset, or set to one of values; and two groups of settings.
Maybe(key, values) == {<<>>} \cup {key :> v : v \in values}
Both(A, B) == {f @@ g : f \in A, g \in B}

SomeTargets ==
    Both(Maybe("stream", {"S"}),
    Both(Maybe("max_deliver", {2}),
    Both(Maybe("backoff", {<<1, 2>>, <<1, Bad>>}), Maybe("pull_expiry", {1}))))

SomeSubscribers ==
    Both(Maybe("stream", {"", "T"}),
    Both(Maybe("create_consumer", {"false", "maybe"}),
    Both(Maybe("ack_policy", {"explicit", "none", "all"}),
    Both(Maybe("max_deliver", {1, 3, Bad}),
    Both(Maybe("pull_expiry", {2}), Maybe("pull_max_bytes", {7}))))))

Deployment == "deployment_group" :> "d"
SomeConfigs ==
    {<<>>, Deployment, Deployment @@ ("max_deliver" :> 4) @@ ("pull_expiry" :> 3)
                      @@ ("pull_max_messages" :> 6)}

SomeConsumers ==
    [ackPolicy : {"explicit", "none"},
     ack : {[wait |-> Unset, maxDeliver |-> m, maxAckPending |-> Unset, backoff |-> b] :
            m \in {-1, 2}, b \in {<<>>, <<1, 2, 3>>}}]

\* Subscribers with all combinations of settings, and of targets.
Subscribers ==
    [role : {"subscriber"}, kind : {"topic"}, segments : {<<<<"a">>>>}, target : SomeTargets,
     own : SomeSubscribers, group : {"", "none", "g"}, cfg : SomeConfigs]
Targets ==
    [role : {"endpoint", "subscriber", "request", "publish"}, kind : {"route", "topic"},
     segments : SomeSegments, target : Maybe("stream", {"S"}), own : Maybe("stream", {"", "T"}),
     group : {"", "none", "g"}, cfg : SomeConfigs]

\* Calls of a client with and without a timeout of its own.
Calls ==
    [role : {"request", "publish"}, kind : {"route", "topic"}, segments : {<<<<"a">>>>},
     target : Both(Maybe("stream", {"S"}), Maybe("request_timeout", {4})),
     own : Both(Maybe("stream", {"", "T"}), Maybe("request_timeout", {5, Bad})),
     group : {""}, cfg : Both(Maybe("request_timeout", {6, Bad}), Maybe("connect_timeout", {Bad}))]

SomeGivens == Subscribers \cup Targets \cup Calls
=============================================================================
