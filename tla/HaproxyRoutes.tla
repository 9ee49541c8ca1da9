----------------------------- MODULE HaproxyRoutes -----------------------------
(***************************************************************************)
(* The haproxy-route relations of the Landscape units: what the charm asks *)
(* for (src/src/charm.py, _provide_all_haproxy_route_requirements), the    *)
(* library that publishes it and reads it at HAProxy's end                 *)
(* (src/lib/charms/haproxy/v2/haproxy_route.py), the ports each unit opens *)
(* and those its service.conf makes the services listen on.                *)
(*                                                                         *)
(* The data of a route are a function of the leader's configuration, and   *)
(* the databag is written as the name of that configuration.               *)
(***************************************************************************)
EXTENDS LegacyHaproxy

CONSTANTS
  Units,            \* the units; a unit's address is written as the unit
  FirstLeader,      \* the unit that leads first
  AllRoutes,        \* the integrations there are from the beginning
  MovingRoutes,     \* bound: the routes that are integrated or removed later
  MaxMoves,         \* bound: how often leadership moves
  MaxReconfigures,  \* bound: how often the operator reconfigures
  MaxIntegrations,  \* bound: how often a route is integrated or removed
  MaxFaults,        \* bound: how many config-changed hooks return early or are killed
  MaxEvents         \* bound: how many of all these there are

Routes == HttpRoutes \cup GrpcServices

\* _set_ports: the ports of a unit that is the leader or is not, in a configuration.
SetPorts ==
  [isLeader \in BOOLEAN |-> [n \in Configs |->
     LET c == Options[n]
     IN  (UNION {PortsOf(c.base, c.workers, s) : s \in WorkerServices \cup c.grpc})
           \cup IF isLeader THEN {c.base["package-upload"]} ELSE {}]]

\* set_ports raises for a port that Juju does not open.
CanOpen(isLeader, n) == SetPorts[isLeader][n] \subseteq 1..65535

\* The hooks of no unit raise for the configuration: those that are accepted and that
\* set_ports and urlparse can work with.
Usable == {n \in Accepted : CanOpen(TRUE, n) /\ Options[n].root # "unparsable"}

ASSUME RoutesAssumption ==
  /\ AllRoutes \cup MovingRoutes \subseteq Routes
  /\ FirstLeader \in Units
  /\ Default \in Usable
  /\ {MaxMoves, MaxReconfigures, MaxIntegrations, MaxFaults, MaxEvents} \subseteq Nat

VARIABLES
  leader,    \* the unit Juju holds for the leader
  config,    \* the application's configuration
  pending,   \* per unit, the hooks Juju has yet to run
  published, \* leader-ip in the peer relation's databag: a set of at most one unit
  knows,     \* the units with a leader_ip in StoredState
  conf,      \* per unit, what its service.conf says of ports and sign-on
  opened,    \* per unit, the ports opened in Juju
  tls,       \* per unit, the gRPC services that are ready to be routed
  related,   \* the routes that are integrated with HAProxy
  app,       \* the application databags: the published routes' configurations
  members,   \* the unit databags: per route, the units that gave their address
  cut,       \* the units whose last config-changed returned early
  count      \* how often leadership moved, and so on

databags == <<app, members>>
machine  == <<conf, opened, tls>>
peer     == <<published, knows>>
vars == <<leader, config, pending, peer, machine, related, databags, cut, count>>

CountNames == {"moves", "reconfigures", "integrations", "faults"}
HookNames  == {"config-changed", "leader-elected", "replicas-changed", "certificates", "route"}

\* The application is deployed with a usable configuration and the routes have been integrated.  The leader may not have heard of its own address,
\* which it takes from a change of the peer relation that another unit makes.
Init ==
  /\ leader = FirstLeader
  /\ config \in Usable
  /\ pending = [u \in Units |-> {"route"}]
  /\ published = {leader}
  /\ knows \in {Units, Units \ {leader}}
  /\ conf = [u \in Units |-> ServiceConf(ShippedConf, Options[config])]
  /\ opened = [u \in Units |-> SetPorts[u = leader][config]]
  /\ tls = [u \in Units |-> {}]
  /\ related = AllRoutes
  /\ app = [r \in {} |-> Default]
  /\ members = [r \in Routes |-> {}]
  /\ cut = {}
  /\ count = [n \in CountNames |-> 0]

Events == count["moves"] + count["reconfigures"] + count["integrations"] + count["faults"]

Count(n, max) ==
  /\ count[n] < max /\ Events < MaxEvents
  /\ count' = [count EXCEPT ![n] = @ + 1]

--------------------------------------------------------------------------------
(***************************************************************************)
(* What a route asks for.                                                  *)
(***************************************************************************)

ServiceOf(r) == IF r = "repository" THEN "appserver" ELSE r

OwnPaths(r) ==
  CASE r = "appserver"      -> {"/", "/hash-id-databases"}
    [] r = "pingserver"     -> {"/ping"}
    [] r = "message-server" -> {"/message-system", "/attachment"}
    [] r = "api"            -> {"/api"}
    [] r = "package-upload" -> {"/upload"}
    [] r = "repository"     -> {"/repository"}

\* Mutant: the repository is not denied.
DenyPathsButRepository(r) ==
  IF r = "appserver"
  THEN {"/ping", "/message-system", "/attachment", "/api", "/upload", "/debarchive"}
  ELSE {}

\* The appserver's route has the path "/", which would swallow the others.
DenyPaths(r) ==
  IF r = "appserver"
  THEN {"/ping", "/message-system", "/attachment", "/api", "/upload", "/repository",
        "/debarchive"}
  ELSE {}

AllowHttp(r, redirect) ==
  IF r \in {"pingserver", "repository"} THEN redirect # "all" ELSE redirect = "none"

\* The host of root_url if it is a domain name.
Sni(c) == IF c.root = "domain" THEN {"domain"} ELSE {}

HttpRoute(r, c) ==
  [service |-> r, ports |-> PortsOf(c.base, c.workers, ServiceOf(r)), protocol |-> "http",
   paths |-> OwnPaths(r), deny |-> DenyPaths(r), hostname |-> Sni(c),
   check |-> c.check[r], timeout |-> c.timeout[r], allowHttp |-> AllowHttp(r, c.redirect),
   grpcPort |-> 0]

\* Mutant: the protocol is left at its default.
GrpcRoutePlain(s, c) ==
  [service |-> s, ports |-> {c.base[s]}, protocol |-> "http",
   paths |-> {}, deny |-> {}, hostname |-> Sni(c), check |-> "none", timeout |-> 60,
   allowHttp |-> FALSE, grpcPort |-> IF s = "hostagent-messenger" THEN 6554 ELSE 50051]

GrpcRoute(s, c) ==
  [service |-> s, ports |-> {c.base[s]}, protocol |-> "https",
   paths |-> {}, deny |-> {}, hostname |-> Sni(c), check |-> "none", timeout |-> 60,
   allowHttp |-> FALSE, grpcPort |-> IF s = "hostagent-messenger" THEN 6554 ELSE 50051]

RouteData(r, c) == IF r \in HttpRoutes THEN HttpRoute(r, c) ELSE GrpcRoute(r, c)

RoutesData == [r \in Routes |-> [c \in Configs |-> RouteData(r, Options[c])]]

\* RequirerApplicationData, with TimeoutConfiguration and ServerHealthCheck: what
\* the library accepts at both ends.
Valid(data) ==
  /\ data.hostname \subseteq {"domain"}
  /\ data.check # "spaced"
  /\ data.timeout > 0
  /\ data.grpcPort <= 65535

--------------------------------------------------------------------------------
(***************************************************************************)
(* What HAProxy makes of the databags (HaproxyRouteProvider.get_data).     *)
(***************************************************************************)

Published(r) == RoutesData[r][app[r]]

Loaded == {r \in related : r \in DOMAIN app /\ Valid(Published(r))}

Clash(r, s) ==
  /\ r # s
  /\ \/ Published(r).service = Published(s).service
     \/ Published(r).grpcPort = Published(s).grpcPort /\ Published(r).grpcPort # 0

\* relation_ids_with_invalid_data: unreadable data, a service or an external gRPC
\* port that another relation has as well, gRPC over plain HTTP.
InvalidRelations ==
  (related \ Loaded)
    \cup {r \in Loaded : \/ \E s \in Loaded : Clash(r, s)
                         \/ Published(r).grpcPort # 0 /\ Published(r).protocol # "https"}

\* The servers behind a route: the ports on every unit that gave its address.
Servers(r) == IF r \in InvalidRelations THEN {} ELSE members[r] \X Published(r).ports

Under(path, prefix) == prefix \in {"/", path}

\* The routes that take a request for a path.
Taking(path) ==
  {r \in HttpRoutes \ InvalidRelations :
     /\ \E prefix \in Published(r).paths : Under(path, prefix)
     /\ ~ \E prefix \in Published(r).deny : Under(path, prefix)}

--------------------------------------------------------------------------------
(***************************************************************************)
(* The environment.                                                        *)
(***************************************************************************)

LeadershipMoves ==
  /\ Count("moves", MaxMoves)
  /\ leader' \in Units \ {leader}
  /\ pending' = [pending EXCEPT ![leader'] = @ \cup {"leader-elected"}]
  /\ UNCHANGED <<config, peer, machine, related, databags, cut>>

OperatorConfigures ==
  /\ Count("reconfigures", MaxReconfigures)
  /\ config' \in Configs \ {config}
  /\ pending' = [u \in Units |-> pending[u] \cup {"config-changed"}]
  /\ UNCHANGED <<leader, peer, machine, related, databags, cut>>

\* relation-joined and -changed come once HAProxy is in the relation.
Integrate(r) ==
  /\ Count("integrations", MaxIntegrations)
  /\ r \notin related
  /\ related' = related \cup {r}
  /\ pending' = [u \in Units |-> pending[u] \cup {"route"}]
  /\ UNCHANGED <<leader, config, peer, machine, databags, cut>>

\* The databags go with the relation; the charm does nothing (_on_relation_broken).
Remove(r) ==
  /\ Count("integrations", MaxIntegrations)
  /\ r \in related
  /\ related' = related \ {r}
  /\ app' = [s \in DOMAIN app \ {r} |-> app[s]]
  /\ members' = [members EXCEPT ![r] = {}]
  /\ UNCHANGED <<leader, config, pending, peer, machine, cut>>

\* A certificate is issued or renewed for a unit, or its certificates relation breaks.
CertificatesChange(u) ==
  /\ Count("integrations", MaxIntegrations)
  /\ pending' = [pending EXCEPT ![u] = @ \cup {"certificates"}]
  /\ UNCHANGED <<leader, config, peer, machine, related, databags, cut>>

--------------------------------------------------------------------------------
(***************************************************************************)
(* _provide_all_haproxy_route_requirements, with the configuration c in    *)
(* force and the gRPC services t that are ready.  knowing: the unit has a  *)
(* leader_ip.  Only the leader writes, and validates, the application's    *)
(* data; data that are not valid fail the hook, and so does a root_url     *)
(* that urlparse cannot parse, on any unit.                                *)
(***************************************************************************)

\* Mutant: routes that are not integrated are written as well.
AskedAnyway(t, c) == HttpRoutes \cup (t \cap Options[c].grpc)

Asked(t, c)     == related \cap (HttpRoutes \cup (t \cap Options[c].grpc))
Withdrawn(t, c) == related \cap (GrpcServices \ (t \cap Options[c].grpc))

ValidData == {p \in Routes \X Configs : Valid(RoutesData[p[1]][p[2]])}

Unparsable(c) == Options[c].root = "unparsable"

PublishingFails(u, knowing, t, c) ==
  /\ knowing
  /\ Unparsable(c) \/ (u = leader /\ \E r \in Asked(t, c) : <<r, c>> \notin ValidData)

\* Mutant: the application's data are written once.
ApplicationDataOnce(u, t, c) ==
  IF u # leader THEN app
  ELSE [r \in (DOMAIN app \ Withdrawn(t, c)) \cup Asked(t, c) |->
          IF r \in DOMAIN app THEN app[r] ELSE c]

\* _update_application_data, _clear_route_relation_data.
ApplicationData(u, t, c) ==
  IF u # leader THEN app
  ELSE LET asked == Asked(t, c)
       IN  [r \in (DOMAIN app \ Withdrawn(t, c)) \cup asked |->
              IF r \in asked THEN c ELSE app[r]]

\* _update_unit_data, _clear_route_relation_data.
UnitData(u, t, c) ==
  LET asked     == Asked(t, c)
      withdrawn == Withdrawn(t, c)
  IN  [r \in Routes |-> IF r \in asked THEN members[r] \cup {u}
                        ELSE IF r \in withdrawn THEN members[r] \ {u} ELSE members[r]]

Provide(u, knowing, t, c) ==
  IF knowing THEN app' = ApplicationData(u, t, c) /\ members' = UnitData(u, t, c)
             ELSE UNCHANGED databags

\* _sync_grpc_tls: module GrpcTls tells which services become ready, and when.  If
\* there is a certificates relation, root_url is parsed for the certificate's request.
SyncTls(c) == IF Unparsable(c) THEN {{}} ELSE SUBSET Options[c].grpc

SyncFails(c) == Unparsable(c) /\ Options[c].grpc # {}

--------------------------------------------------------------------------------
(***************************************************************************)
(* The hooks.  One that fails, or is killed, keeps what it did to the      *)
(* machine, loses its databags, ports and StoredState, and is run again.   *)
(* If it has done nothing to the machine, as where set_ports raises, there *)
(* is no step: it just stays pending.                                      *)
(***************************************************************************)

Runs(u, h) == h \in pending[u]

Returns(u, h, told) ==
  pending' = [w \in Units |-> (IF w = u THEN pending[u] \ {h} ELSE pending[w])
                                \cup IF w \in told THEN {"replicas-changed"} ELSE {}]

Fails == UNCHANGED <<pending, peer, opened, databags, cut>>

\* _on_config_changed, until _set_ports and then to service.conf's ports and workers.
ConfigWritten(u) ==
  /\ Runs(u, "config-changed") /\ config \in Accepted
  /\ CanOpen(u = leader, config)
  /\ conf' = [conf EXCEPT ![u] = ServiceConf(@, Options[config])]

\* _on_config_changed.
ConfigChanged(u) ==
  /\ ConfigWritten(u)
  /\ \/ SyncFails(config) /\ UNCHANGED tls /\ Fails
     \/ \E t \in SyncTls(config) :
          /\ tls' = [tls EXCEPT ![u] = t]
          /\ IF PublishingFails(u, u \in knows, t, config)
             THEN Fails
             ELSE /\ Provide(u, u \in knows, t, config)
                  /\ opened' = [opened EXCEPT ![u] = SetPorts[u = leader][config]]
                  /\ cut' = cut \ {u}
                  /\ Returns(u, "config-changed", {})
                  /\ UNCHANGED peer
  /\ UNCHANGED <<leader, config, related, count>>

\* The configuration is not valid, or a snap or a package could not be installed.
ConfigChangedEarlyReturn(u) ==
  /\ Runs(u, "config-changed")
  /\ IF config \in Accepted THEN Count("faults", MaxFaults) ELSE UNCHANGED count
  /\ cut' = cut \cup {u}
  /\ Returns(u, "config-changed", {})
  /\ UNCHANGED <<leader, config, peer, machine, related, databags>>

\* The schema migration of the operator's database has failed: the ports and
\* service.conf are written, the routes are not published.
ConfigChangedNoDatabase(u) ==
  /\ ConfigWritten(u)
  /\ Count("faults", MaxFaults)
  /\ opened' = [opened EXCEPT ![u] = SetPorts[u = leader][config]]
  /\ \E t \in SyncTls(config) : tls' = [tls EXCEPT ![u] = t]
  /\ cut' = cut \cup {u}
  /\ Returns(u, "config-changed", {})
  /\ UNCHANGED <<leader, config, peer, related, databags>>

ConfigChangedKilled(u) ==
  /\ ConfigWritten(u)
  /\ Count("faults", MaxFaults)
  /\ UNCHANGED tls /\ Fails
  /\ UNCHANGED <<leader, config, related>>

\* _leader_changed, in a hook h after which StoredState has a leader_ip or not, the
\* peer relation's databag says who leads, and other units are told.
LeaderChanged(u, h, knowing, leaderIp, told) ==
  LET c == InForce(config)
  IN  /\ IF ~CanOpen(u = leader, c) \/ PublishingFails(u, knowing, tls[u], c)
         THEN Fails
         ELSE /\ opened' = [opened EXCEPT ![u] = SetPorts[u = leader][c]]
              /\ Provide(u, knowing, tls[u], c)
              /\ knows' = IF knowing THEN knows \cup {u} ELSE knows
              /\ published' = leaderIp
              /\ Returns(u, h, told)
              /\ UNCHANGED cut
      /\ UNCHANGED <<leader, config, conf, tls, related, count>>

\* _leader_elected: the leader publishes its address; it is not told of it.
LeaderElected(u) ==
  /\ Runs(u, "leader-elected")
  /\ IF u = leader
     THEN LeaderChanged(u, "leader-elected", u \in knows, {u},
                        IF published = {u} THEN {} ELSE Units \ {u})
     ELSE LeaderChanged(u, "leader-elected", u \in knows, published, {})

\* _on_replicas_relation_changed.
ReplicasRelationChanged(u) ==
  /\ Runs(u, "replicas-changed")
  /\ LeaderChanged(u, "replicas-changed", published # {} \/ u \in knows, published, {})

\* Handlers that publish the routes and do nothing else: relation-joined and
\* -changed of a route, upgrade-charm; and, once TLS is synchronised, those of the
\* certificates relation.
Publishes(u, h, t) ==
  LET c == InForce(config)
  IN  /\ tls' = [tls EXCEPT ![u] = t]
      /\ IF PublishingFails(u, u \in knows, t, c)
         THEN Fails
         ELSE /\ Provide(u, u \in knows, t, c)
              /\ Returns(u, h, {})
              /\ UNCHANGED <<peer, opened, cut>>
      /\ UNCHANGED <<leader, config, conf, related, count>>

RouteRelationChanged(u) == Runs(u, "route") /\ Publishes(u, "route", tls[u])

CertificatesHook(u) ==
  /\ Runs(u, "certificates")
  /\ \E t \in SyncTls(InForce(config)) : Publishes(u, "certificates", t)

Hook(u) ==
  \/ ConfigChanged(u)
  \/ ConfigChangedEarlyReturn(u)
  \/ ConfigChangedNoDatabase(u)
  \/ LeaderElected(u)
  \/ ReplicasRelationChanged(u)
  \/ RouteRelationChanged(u)
  \/ CertificatesHook(u)

Next ==
  \/ LeadershipMoves
  \/ OperatorConfigures
  \/ \E r \in MovingRoutes : Integrate(r) \/ Remove(r)
  \/ \E u \in Units : CertificatesChange(u) \/ Hook(u) \/ ConfigChangedKilled(u)

Spec == Init /\ [][Next]_vars

\* Juju runs the hooks that are due, and again those that failed.
Fairness == \A u \in Units : WF_vars(Hook(u))

FairSpec == Spec /\ Fairness

--------------------------------------------------------------------------------
(***************************************************************************)
(* Properties.                                                             *)
(***************************************************************************)

\* Every variable has its type, and there are databags of integrated routes only.
TypeOK ==
  /\ leader \in Units
  /\ config \in Configs
  /\ pending \in [Units -> SUBSET HookNames]
  /\ published \in SUBSET Units /\ knows \in SUBSET Units /\ cut \in SUBSET Units
  /\ conf \in [Units -> ServiceConfType]
  /\ opened \in [Units -> SUBSET Int]
  /\ tls \in [Units -> SUBSET GrpcServices]
  /\ related \in SUBSET Routes
  /\ DOMAIN app \subseteq related
  /\ \A r \in DOMAIN app : app[r] \in Configs
  /\ members \in [Routes -> SUBSET Units]
  /\ \A r \in Routes \ related : members[r] = {}
  /\ count \in [CountNames -> Nat]

\* No two processes of a unit are told to listen on one port.
NoPortTwice ==
  \A u \in Units :
    LET ports == [s \in Services |-> PortsOf(conf[u].base, conf[u].workers, s)]
    IN  \A s, t \in Services : s # t => ports[s] \cap ports[t] = {}

\* A sign-on that is configured is configured completely.
SignOnComplete ==
  \A u \in Units : /\ AllOrNone(conf[u].signOn, OpenId)
                  /\ AllOrNone(conf[u].signOn, OidcRequired)

\* service.conf stays usable through whatever valid and invalid configurations, early
\* returns and killed hooks, although it is only added to and another configuration
\* may be in force in the other hooks (haproxy_backend_port_validation,
\* openid_minimum_fields, oidc_minimum_fields).
ServiceConfSound == NoPortTwice /\ SignOnComplete

\* No hook is left to run, the last configuration was applied everywhere, and the
\* leader has heard of its address.
Settled ==
  /\ \A u \in Units : pending[u] = {}
  /\ cut = {}
  /\ leader \in knows

\* Once all is settled, HAProxy sends the requests of a route only to ports that the
\* unit has opened and that its service.conf gives to the route's service, whoever
\* published what in which order (_provide_all_haproxy_route_requirements,
\* _set_ports, _on_config_changed).  The package-upload service runs on the leader;
\* on the other units HAProxy's health check takes it out, if there is one.
RoutedServersListen ==
  Settled =>
    \A r \in related : \A server \in Servers(r) :
      LET u == server[1] port == server[2]
      IN  \/ /\ port \in PortsOf(conf[u].base, conf[u].workers, ServiceOf(r))
             /\ port \in opened[u]
          \/ r = "package-upload" /\ u # leader

\* Once all is settled, the validation of HAProxy's end of the library
\* (relation_ids_with_invalid_data) excludes no route but the gRPC routes that the
\* leader is not ready for; every HTTP route has all units that know of the leader, and
\* a gRPC route those that are ready for it.  Whether the file that the haproxy charm
\* then renders is valid is not said: with redirect_https "none" it is not, for a line
\* is too long (tests/integration/test_bundle.py).
RoutesAccepted ==
  Settled =>
    \A r \in related :
      LET ready == {u \in Units : r \in HttpRoutes \/ r \in tls[u] \cap Options[config].grpc}
      IN  /\ members[r] \cap knows = ready \cap knows
          /\ r \in InvalidRelations <=> leader \notin ready

\* Once all is settled, a request is taken by one route.  If the legacy haproxy does not
\* deny its path, that is the route of the service it would choose, both redirect the
\* request to HTTPS or neither does, and with the default ports it goes to the same
\* ports of every unit that the legacy haproxy has servers on.  Two differences are left
\* out: the appserver's route takes /metrics, which the legacy haproxy denies, and a
\* route has servers on all units where it has some backends' on the leader only.
SameAsLegacyHaproxy ==
  Settled /\ HttpRoutes \subseteq related =>
    \A path \in RequestPaths :
      \E r \in HttpRoutes :
        /\ Taking(path) = {r}
        /\ path \notin Denied =>
             /\ ServiceOf(r) = BackendService(Backend(path))
             /\ Published(r).allowHttp = ~RedirectsToHttps(Options[config].redirect, path)
             /\ Options[config].base = LegacyPorts =>
                  \A u \in members[r] : u = leader \/ Backend(path) \notin LeaderOnly =>
                    Published(r).ports
                      = LegacyServers(Options[config].workers, u = leader, path)

\* If the configuration in force is usable in the end, every hook returns in the end,
\* those included that an unusable one has made fail: no data are published that the
\* library refuses (config.py's validators), which would fail the leader's hooks for ever.
EveryHookReturns ==
  <>[](InForce(config) \in Usable) => <>[](\A u \in Units : pending[u] = {})

================================================================================
