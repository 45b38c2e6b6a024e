------------------------------ MODULE MCOutbox ------------------------------
(* Instances of Outbox for TLC: which destination wants which event.        *)
EXTENDS OutboxRefinement, TLC

CONSTANTS s1, s2, env, env2, studio

Nothing == {}
OneServer == {s1}
TwoServers == {s1, s2}
EnvOnly == {env}
EnvAndStudio == {env, studio}
StudioOnly == {studio}

(* The environment's destinations take everything, the Studio's the first   *)
(* event only.                                                              *)
SomeInterest ==
    [u \in Urls |-> IF u \in EnvUrls THEN Events ELSE {e \in Events : e = 1}]

ServerSymmetry == Permutations(Servers)
=============================================================================
