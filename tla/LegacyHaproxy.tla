----------------------------- MODULE LegacyHaproxy -----------------------------
(***************************************************************************)
(* What the legacy haproxy charm is told over the website relation         *)
(* (src/src/haproxy.py): one frontend per port, whose rules choose the     *)
(* backend of a request by its path.                                       *)
(***************************************************************************)
EXTENDS CharmConfig

\* The paths the rules speak of, each for all that begin with it, and "/" for the
\* rest.  Left out: /debarchive, which has a route of the debarchive charm's own.
RequestPaths == {"/", "/hash-id-databases", "/ping", "/message-system", "/attachment",
                 "/api", "/upload", "/repository", "/metrics"}

\* The deny rules.  Left out: a path under another one that only ends in /metrics.
Denied == {"/metrics"}

\* The use_backend rules; the appservers are the default.
Backend(path) ==
  CASE path \in {"/message-system", "/attachment"} -> "message-server"
    [] path = "/api"    -> "api"
    [] path = "/ping"   -> "pingserver"
    [] path = "/upload" -> "package-upload"
    [] path = "/hash-id-databases" -> "hashid-databases"
    [] OTHER            -> "appserver"

\* The service whose processes are a backend's servers.
BackendService(backend) == IF backend = "hashid-databases" THEN "appserver" ELSE backend

\* _configure_redirect_https, and DEFAULT_REDIRECT_SCHEME.
RedirectsToHttps(redirect, path) ==
  \/ redirect = "all"
  \/ redirect = "default" /\ path \notin {"/ping", "/repository"}

\* PORTS: the default base ports, whatever ports are configured.
LegacyPorts == Options[Default].base

\* The backends with servers on the leader only.
LeaderOnly == {"package-upload", "hashid-databases"}

\* create_http_service, create_https_service: the ports of a unit's servers in the
\* backend of a path.
LegacyServers(workers, isLeader, path) ==
  IF Backend(path) \in LeaderOnly /\ ~isLeader
  THEN {}
  ELSE PortsOf(LegacyPorts, workers, BackendService(Backend(path)))

================================================================================
