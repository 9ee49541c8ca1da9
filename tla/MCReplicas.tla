------------------------------- MODULE MCReplicas ------------------------------
(***************************************************************************)
(* Small instances of Replicas: one or two units, one value the operator *)
(* may give, and as many generated values as there can be generations.     *)
(***************************************************************************)
EXTENDS Replicas, TLC

CONSTANT given

Plain == [valid |-> TRUE, key |-> [k \in Keys |-> None], root |-> None]
TokenGiven == [Plain EXCEPT !.key["secret-token"] = given]
KeysGiven == [Plain EXCEPT !.key = [k \in Keys |-> given]]
RootUrl == [Plain EXCEPT !.root = RootHost]
Broken(c) == [c EXCEPT !.valid = FALSE]

OnlyPlain == {Plain}
OnlyKeysGiven == {KeysGiven}
PlainOrToken == {Plain, TokenGiven}
SingleConfigs == {Plain, TokenGiven, RootUrl, Broken(TokenGiven)}

NoRelations == {}
AllRelations == {"debarchive", "task-handler", "haproxy-route", "website"}
RouteOnly == {"haproxy-route"}
HostReaders == {"debarchive", "task-handler"}

\* Generated values are interchangeable.
GeneratedSymmetry == Permutations(Generated)
================================================================================
