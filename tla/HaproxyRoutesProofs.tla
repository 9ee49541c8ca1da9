-------------------------- MODULE HaproxyRoutesProofs --------------------------
(***************************************************************************)
(* What holds of HaproxyRoutes for any number of units, any configurations *)
(* and any ports: service.conf never gives one port to two services and    *)
(* never has half a sign-on.  The first is what the validator's count of   *)
(* the processes on a port amounts to; the second needs that adding two    *)
(* sets of options, each complete or empty, gives such a set again.        *)
(*                                                                         *)
(* And once the hooks are done the routes, the ports and service.conf go   *)
(* together: each unit's part and the leader's are as the configuration    *)
(* says, or one of its hooks is pending or its last config-changed has     *)
(* returned early.  A hook may fail for a configuration that is accepted   *)
(* and not usable, but never for its routes' data: what the charm's        *)
(* validators accept the library accepts.                                  *)
(***************************************************************************)
EXTENDS HaproxyRoutes, FiniteSetTheorems, TLAPS

\* What NoPortTwice and SignOnComplete say of the service.conf of one unit.
Disjoint(f) ==
  \A s, t \in Services : s # t => PortsOf(f.base, f.workers, s) \cap PortsOf(f.base, f.workers, t) = {}
Complete(f) == AllOrNone(f.signOn, OpenId) /\ AllOrNone(f.signOn, OidcRequired)
Sound(f) == f \in ServiceConfType /\ Disjoint(f) /\ Complete(f)

IInv ==
  /\ config \in Configs
  /\ conf \in [Units -> ServiceConfType]
  /\ \A u \in Units : Sound(conf[u])

--------------------------------------------------------------------------------
(***************************************************************************)
(* haproxy_backend_port_validation.                                        *)
(***************************************************************************)

\* The processes on one port can be counted: a service has at most one of each number.
LEMMA BindingFinite ==
  ASSUME NEW c \in ConfigType, NEW port \in Int
  PROVE  IsFiniteSet(Binding(c, port))
<1> DEFINE On(s) == <<s, port - c.base[s]>>
           Http   == {On("appserver"), On("pingserver"), On("message-server"), On("api")}
           Single == {On("package-upload"), On("hostagent-messenger"),
                      On("ubuntu-installer-attach")}
           All    == Http \cup Single
<1>1. IsFiniteSet(All)
  <2> HIDE DEF On
  <2>1. \A x, y, z : IsFiniteSet({x, y, z})
    <3> TAKE x, y, z
    <3>1. IsFiniteSet({x} \cup {y})
      BY FS_Singleton, FS_AddElement
    <3>2. IsFiniteSet(({x} \cup {y}) \cup {z})
      BY <3>1, FS_AddElement
    <3>3. ({x} \cup {y}) \cup {z} = {x, y, z}
      OBVIOUS
    <3> QED BY <3>2, <3>3
  <2>2. \A x, y, z, w : IsFiniteSet({x, y, z, w})
    <3> TAKE x, y, z, w
    <3>1. IsFiniteSet({x, y, z} \cup {w})
      BY <2>1, FS_AddElement
    <3>2. {x, y, z} \cup {w} = {x, y, z, w}
      OBVIOUS
    <3> QED BY <3>1, <3>2
  <2> QED BY <2>1, <2>2, FS_Union
<1>2. ASSUME NEW p \in Binding(c, port)
      PROVE  p \in All
  <2>1. PICK s \in Services : p \in {s} \X Workers(c.workers, s)
    BY DEF Binding, Processes
  <2>2. p = <<s, p[2]>> /\ p[2] \in Int /\ p[1] = s
    BY <2>1 DEF Workers, ConfigType
  <2>3. c.base[s] + p[2] = port
    BY <2>2 DEF Binding
  <2>4. c.base[s] \in Int
    BY DEF ConfigType
  <2>5. p[2] = port - c.base[s]
    BY <2>2, <2>3, <2>4
  <2>6. p = On(s)
    BY <2>2, <2>5
  <2> QED BY <2>6 DEF Services, SingleServices, WorkerServices, GrpcServices
<1>3. Binding(c, port) \in SUBSET All
  BY <1>2
<1> QED BY <1>1, <1>3, FS_Subset

\* Two processes on a port make it overused.
LEMMA TwoOnAPort ==
  ASSUME NEW c \in ConfigType, NEW port \in Int,
         NEW p \in Binding(c, port), NEW q \in Binding(c, port), p # q
  PROVE  Cardinality(Binding(c, port)) > 1
<1>1. IsFiniteSet({p}) /\ Cardinality({p}) = 1
  BY FS_Singleton
<1>2. IsFiniteSet({p} \cup {q}) /\ Cardinality({p} \cup {q}) = 2
  <2>1. q \notin {p}
    OBVIOUS
  <2>2. Cardinality({p} \cup {q}) = Cardinality({p}) + 1 /\ IsFiniteSet({p} \cup {q})
    BY <1>1, <2>1, FS_AddElement
  <2> QED BY <1>1, <2>2
<1>3. IsFiniteSet(Binding(c, port))
  BY BindingFinite
<1>4. {p} \cup {q} \in SUBSET Binding(c, port)
  OBVIOUS
<1>5. Cardinality({p} \cup {q}) <= Cardinality(Binding(c, port))
  BY <1>3, <1>4, FS_Subset
<1>6. Cardinality(Binding(c, port)) \in Nat
  BY <1>3, FS_CardinalityType
<1> QED BY <1>2, <1>5, <1>6

\* A process of a service, with the port it listens on.
LEMMA ProcessOfPort ==
  ASSUME NEW c \in ConfigType, NEW s \in Services,
         NEW port \in PortsOf(c.base, c.workers, s)
  PROVE  port \in Int /\ <<s, port - c.base[s]>> \in Binding(c, port)
<1>1. c.base[s] \in Int /\ c.workers \in Int
  BY DEF ConfigType
<1>2. PICK i \in Workers(c.workers, s) : port = c.base[s] + i
  BY DEF PortsOf
<1>3. i \in Int
  BY <1>1 DEF Workers
<1>4. port \in Int /\ i = port - c.base[s]
  BY <1>1, <1>2, <1>3
<1>5. <<s, i>> \in Processes(c)
  BY DEF Processes
<1> QED BY <1>1, <1>2, <1>4, <1>5 DEF Binding

\* A configuration that passes the validation gives no port to two services.
LEMMA ValidatedPortsDisjoint ==
  ASSUME NEW c \in ConfigType, OverusedPorts(c) = {}
  PROVE  Disjoint(c)
<1> SUFFICES ASSUME NEW s \in Services, NEW t \in Services, s # t,
                    NEW port \in PortsOf(c.base, c.workers, s),
                    port \in PortsOf(c.base, c.workers, t)
             PROVE  FALSE
  BY DEF Disjoint
<1>1. /\ port \in Int
      /\ <<s, port - c.base[s]>> \in Binding(c, port)
      /\ <<t, port - c.base[t]>> \in Binding(c, port)
  BY ProcessOfPort
<1>2. <<s, port - c.base[s]>> # <<t, port - c.base[t]>>
  OBVIOUS
<1>3. Cardinality(Binding(c, port)) > 1
  BY <1>1, <1>2, TwoOnAPort
<1>4. port \in OverusedPorts(c)
  BY <1>3 DEF OverusedPorts
<1> QED BY <1>4

\* As shipped, with one worker a service, there are no more ports than by default.
LEMMA ShippedSound == Sound(ShippedConf)
<1> DEFINE d == Options[Default]
<1>1. d \in ConfigType /\ OverusedPorts(d) = {} /\ 1 <= d.workers /\ d.workers \in Int
  BY ConfigAssumption DEF Accepted, Accepts, ConfigType
<1>2. ShippedConf \in ServiceConfType
  BY <1>1 DEF ShippedConf, ServiceConfType, ConfigType
<1>3. ASSUME NEW s \in Services
      PROVE  PortsOf(d.base, 1, s) \subseteq PortsOf(d.base, d.workers, s)
  <2>1. Workers(1, s) \subseteq Workers(d.workers, s)
    BY <1>1 DEF Workers
  <2> QED BY <2>1 DEF PortsOf
<1>4. Disjoint(d)
  BY <1>1, ValidatedPortsDisjoint
<1>5. ShippedConf.base = d.base /\ ShippedConf.workers = 1 /\ ShippedConf.signOn = {}
  BY DEF ShippedConf
<1>6. Disjoint(ShippedConf)
  BY <1>3, <1>4, <1>5 DEF Disjoint
<1>7. Complete(ShippedConf)
  BY <1>5 DEF Complete, AllOrNone, Neither
<1> QED BY <1>2, <1>6, <1>7 DEF Sound

--------------------------------------------------------------------------------
(***************************************************************************)
(* openid_minimum_fields, oidc_minimum_fields.                             *)
(***************************************************************************)

\* Of an accepted configuration each sign-on is written as a whole or not at all.
LEMMA WrittenComplete ==
  ASSUME NEW c \in ConfigType, SignOnAccepted(c)
  PROVE  /\ AllOrNone(SignOnWritten(c), OpenId)
         /\ AllOrNone(SignOnWritten(c), OidcRequired)
<1>1. OpenId \cap OidcRequired = {} /\ OidcRequired \subseteq Oidc
  BY DEF OpenId, OidcRequired, Oidc
<1>2. "openid_provider_url" \in OpenId /\ "oidc_issuer" \in OidcRequired
  BY DEF OpenId, OidcRequired
<1> QED BY <1>1, <1>2 DEF SignOnAccepted, AllOrNone, Neither, SignOnWritten, OpenId,
                          Oidc, OidcRequired

\* config-changed leaves a sound service.conf sound.
LEMMA ServiceConfKeepsSound ==
  ASSUME NEW f, Sound(f), NEW n \in Accepted
  PROVE  Sound(ServiceConf(f, Options[n]))
<1> DEFINE c == Options[n]
           g == ServiceConf(f, c)
<1>1. c \in ConfigType /\ OverusedPorts(c) = {} /\ SignOnAccepted(c)
  BY ConfigAssumption DEF Accepted, Accepts
<1>2. /\ g.base = c.base /\ g.workers = c.workers
      /\ g.signOn = f.signOn \cup SignOnWritten(c)
  BY DEF ServiceConf
<1>3. g \in ServiceConfType
  BY <1>1 DEF Sound, ServiceConf, ServiceConfType, ConfigType, SignOnWritten
<1>4. Disjoint(g)
  BY <1>1, <1>2, ValidatedPortsDisjoint DEF Disjoint
<1>5. Complete(g)
  BY <1>1, <1>2, WrittenComplete DEF Sound, Complete, AllOrNone, Neither
<1> QED BY <1>3, <1>4, <1>5 DEF Sound

--------------------------------------------------------------------------------

LEMMA InitInv == Init => IInv
<1> SUFFICES ASSUME Init PROVE IInv
  OBVIOUS
<1>1. config \in Accepted /\ conf = [u \in Units |-> ServiceConf(ShippedConf, Options[config])]
  BY DEF Init, Usable
<1>2. Sound(ServiceConf(ShippedConf, Options[config]))
  BY <1>1, ShippedSound, ServiceConfKeepsSound
<1> QED BY <1>1, <1>2 DEF IInv, Sound, Accepted

\* A hook that rewrites a unit's service.conf does it with an accepted configuration.
LEMMA WriterKeeps ==
  ASSUME IInv, NEW u \in Units,
         \/ ConfigChanged(u) \/ ConfigChangedNoDatabase(u) \/ ConfigChangedKilled(u)
  PROVE  IInv'
<1>1. /\ config \in Accepted /\ config' = config
      /\ conf' = [conf EXCEPT ![u] = ServiceConf(@, Options[config])]
  BY DEF ConfigChanged, ConfigChangedNoDatabase, ConfigChangedKilled, ConfigWritten
<1>2. Sound(ServiceConf(conf[u], Options[config]))
  BY <1>1, ServiceConfKeepsSound DEF IInv
<1> QED BY <1>1, <1>2 DEF IInv, Sound

\* Every other step leaves it alone.
LEMMA OthersKeep ==
  ASSUME IInv, conf' = conf, config' \in Configs
  PROVE  IInv'
BY DEF IInv

LEMMA NextInv ==
  ASSUME IInv, [Next]_vars
  PROVE  IInv'
<1>1. CASE LeadershipMoves
  BY <1>1, OthersKeep DEF LeadershipMoves, IInv, machine
<1>2. CASE OperatorConfigures
  BY <1>2, OthersKeep DEF OperatorConfigures, machine
<1>3. ASSUME NEW r \in MovingRoutes, Integrate(r) \/ Remove(r)
      PROVE  IInv'
  BY <1>3, OthersKeep DEF Integrate, Remove, IInv, machine
<1>4. ASSUME NEW u \in Units, CertificatesChange(u)
      PROVE  IInv'
  BY <1>4, OthersKeep DEF CertificatesChange, IInv, machine
<1>5. ASSUME NEW u \in Units, Hook(u)
      PROVE  IInv'
  <2>1. CASE ConfigChanged(u) \/ ConfigChangedNoDatabase(u)
    BY <2>1, WriterKeeps
  <2>2. CASE ConfigChangedEarlyReturn(u)
    BY <2>2, OthersKeep DEF ConfigChangedEarlyReturn, IInv, machine
  <2>3. CASE LeaderElected(u)
    BY <2>3, OthersKeep DEF LeaderElected, LeaderChanged, IInv
  <2>4. CASE ReplicasRelationChanged(u)
    BY <2>4, OthersKeep DEF ReplicasRelationChanged, LeaderChanged, IInv
  <2>5. CASE RouteRelationChanged(u)
    BY <2>5, OthersKeep DEF RouteRelationChanged, Publishes, IInv
  <2>6. CASE CertificatesHook(u)
    BY <2>6, OthersKeep DEF CertificatesHook, Publishes, IInv
  <2> QED BY <1>5, <2>1, <2>2, <2>3, <2>4, <2>5, <2>6 DEF Hook
<1>6. ASSUME NEW u \in Units, ConfigChangedKilled(u)
      PROVE  IInv'
  BY <1>6, WriterKeeps
<1>7. CASE UNCHANGED vars
  BY <1>7, OthersKeep DEF vars, machine, IInv
<1> QED BY <1>1, <1>2, <1>3, <1>4, <1>5, <1>6, <1>7 DEF Next

\* Whatever valid and invalid configurations are set, with whatever early returns and
\* killed hooks, service.conf gives no port to two services and has no half sign-on
\* (haproxy_backend_port_validation, openid_minimum_fields, oidc_minimum_fields).
THEOREM ServiceConfAlwaysSound == Spec => []ServiceConfSound
<1>1. IInv => ServiceConfSound
  BY DEF IInv, Sound, Disjoint, Complete, ServiceConfSound, NoPortTwice, SignOnComplete
<1> QED BY InitInv, NextInv, <1>1, PTL DEF Spec

--------------------------------------------------------------------------------
(***************************************************************************)
(* The data of the routes.                                                 *)
(***************************************************************************)

LEMMA RouteOf ==
  ASSUME NEW r \in Routes, NEW n \in Configs
  PROVE  RoutesData[r][n] = RouteData(r, Options[n])
BY DEF RoutesData

LEMMA InForceAccepted ==
  ASSUME NEW n \in Configs
  PROVE  /\ InForce(n) \in Accepted /\ InForce(n) \in Configs
         /\ n \in Accepted => InForce(n) = n
BY ConfigAssumption DEF InForce, Accepted

\* What the charm accepts, the library accepts: no hook fails for its routes' data.
LEMMA AcceptedValid ==
  ASSUME NEW n \in Accepted, NEW r \in Routes
  PROVE  Valid(RoutesData[r][n]) /\ <<r, n>> \in ValidData
<1> DEFINE c == Options[n]
<1>1. n \in Configs /\ c \in ConfigType /\ Accepts(c)
  BY ConfigAssumption DEF Accepted
<1>2. RoutesData[r][n] = RouteData(r, c)
  BY <1>1, RouteOf
<1>3. Sni(c) \subseteq {"domain"}
  BY DEF Sni
<1>4. CASE r \in HttpRoutes
  <2>1. c.check[r] # "spaced" /\ c.timeout[r] > 0
    <3>1. c.check[r] \in {"none", "absolute"} /\ c.timeout[r] >= 1 /\ c.timeout[r] \in Int
      BY <1>1, <1>4 DEF Accepts, HealthCheckAccepted, TimeoutAccepted, ConfigType
    <3> QED BY <3>1
  <2> QED BY <1>1, <1>2, <1>3, <1>4, <2>1 DEF RouteData, HttpRoute, Valid, ValidData
<1>5. CASE r \notin HttpRoutes
  <2>1. RoutesData[r][n] = GrpcRoute(r, c)
    BY <1>2, <1>5 DEF RouteData
  <2> QED BY <1>1, <1>3, <2>1 DEF GrpcRoute, Valid, ValidData
<1> QED BY <1>4, <1>5

LEMMA PortTypes ==
  SetPorts \in [BOOLEAN -> [Configs -> SUBSET Int]]
<1> SUFFICES ASSUME NEW b \in BOOLEAN, NEW n \in Configs
             PROVE  (UNION {PortsOf(Options[n].base, Options[n].workers, s) :
                              s \in WorkerServices \cup Options[n].grpc})
                      \cup (IF b THEN {Options[n].base["package-upload"]} ELSE {}) \in SUBSET Int
  BY DEF SetPorts
<1>1. Options[n] \in ConfigType
  BY ConfigAssumption
<1>2. Options[n].base \in [Services -> Int] /\ Options[n].grpc \subseteq GrpcServices
  BY <1>1 DEF ConfigType
<1>3. "package-upload" \in Services /\ WorkerServices \cup GrpcServices \subseteq Services
  BY DEF Services, SingleServices
<1>4. ASSUME NEW s \in Services PROVE PortsOf(Options[n].base, Options[n].workers, s) \subseteq Int
  <2>1. Workers(Options[n].workers, s) \subseteq Int
    BY <1>1 DEF Workers, ConfigType
  <2> QED BY <1>2, <2>1 DEF PortsOf
<1> QED BY <1>2, <1>3, <1>4

--------------------------------------------------------------------------------
(***************************************************************************)
(* Publishing the routes.                                                  *)
(***************************************************************************)

\* What a unit asks for and what it withdraws are all the routes there are.
LEMMA ProvideEffect ==
  ASSUME TypeOK, NEW u \in Units, NEW n \in Accepted, NEW t \in SUBSET GrpcServices,
         Provide(u, TRUE, t, n)
  PROVE  /\ members' \in [Routes -> SUBSET Units]
         /\ \A r \in Routes : members'[r] \ {u} = members[r] \ {u}
         /\ \A r \in Routes \ related : members'[r] = {}
         /\ \A r \in related : u \in members'[r] <=> r \in HttpRoutes \/ r \in t \cap Options[n].grpc
         /\ DOMAIN app' \subseteq related /\ \A r \in DOMAIN app' : app'[r] \in Configs
         /\ u # leader => app' = app
         /\ u = leader =>
              \A r \in related :
                /\ r \in DOMAIN app' <=> r \in HttpRoutes \/ r \in t \cap Options[n].grpc
                /\ r \in DOMAIN app' => app'[r] = n
<1>1. /\ n \in Configs /\ related \subseteq Routes /\ DOMAIN app \subseteq related
      /\ members \in [Routes -> SUBSET Units]
      /\ \A r \in Routes \ related : members[r] = {}
  BY DEF Accepted, TypeOK
<1>2. /\ Asked(t, n) \cup Withdrawn(t, n) = related /\ Asked(t, n) \cap Withdrawn(t, n) = {}
      /\ \A r \in related :
           r \in Asked(t, n) <=> r \in HttpRoutes \/ r \in t \cap Options[n].grpc
  BY <1>1
  DEF Asked, Withdrawn, Routes, HttpRoutes, GrpcServices, WorkerServices
<1>3. members' = UnitData(u, t, n) /\ app' = ApplicationData(u, t, n)
  BY DEF Provide
<1>4. /\ members' \in [Routes -> SUBSET Units]
      /\ \A r \in Routes : members'[r] \ {u} = members[r] \ {u}
      /\ \A r \in Routes \ related : members'[r] = {}
      /\ \A r \in related : u \in members'[r] <=> r \in Asked(t, n)
  BY <1>1, <1>2, <1>3 DEF UnitData
<1>5. CASE u # leader
  BY <1>1, <1>2, <1>3, <1>4, <1>5 DEF ApplicationData, TypeOK
<1>6. CASE u = leader
  <2>1. app' = [r \in (DOMAIN app \ Withdrawn(t, n)) \cup Asked(t, n) |->
                  IF r \in Asked(t, n) THEN n ELSE app[r]]
    BY <1>3, <1>6 DEF ApplicationData
  <2>2. (DOMAIN app \ Withdrawn(t, n)) \cup Asked(t, n) = Asked(t, n)
    BY <1>1, <1>2
  <2>3. DOMAIN app' = Asked(t, n) /\ \A r \in Asked(t, n) : app'[r] = n
    BY <2>1, <2>2
  <2> QED BY <1>1, <1>2, <1>4, <1>6, <2>3
<1> QED BY <1>5, <1>6

\* A hook h of a unit u that publishes, or would if it knew of the leader.
Publication(u, h, knowing, t, n, told) ==
  /\ u \in knows => knowing
  /\ tls' = [tls EXCEPT ![u] = t]
  /\ Provide(u, knowing, t, n)
  /\ knows' = IF knowing THEN knows \cup {u} ELSE knows
  /\ h \in pending[u] /\ Returns(u, h, told)
  /\ UNCHANGED <<leader, config, related, count>>

\* What else it does: config-changed, a change of the leader, or nothing.
Configures(u, h, n) ==
  /\ h = "config-changed" /\ config \in Accepted
  /\ conf' = [conf EXCEPT ![u] = ServiceConf(@, Options[n])]
  /\ opened' = [opened EXCEPT ![u] = SetPorts[u = leader][n]]
  /\ cut' = cut \ {u}
  /\ published' = published

OpensPorts(u, h, n) ==
  /\ h \in {"leader-elected", "replicas-changed"}
  /\ opened' = [opened EXCEPT ![u] = SetPorts[u = leader][n]]
  /\ published' \in SUBSET Units
  /\ UNCHANGED <<conf, cut>>

OnlyPublishes(h) ==
  /\ h \in {"route", "certificates"}
  /\ UNCHANGED <<conf, opened, cut, published>>

\* It raises: it has perhaps written service.conf, and a hook that synchronises TLS has
\* perhaps done so, and is pending still.
Raises(u) ==
  /\ Fails
  /\ \/ conf' = conf
     \/ /\ config \in Accepted
        /\ conf' = [conf EXCEPT ![u] = ServiceConf(@, Options[config])]
  /\ \E t \in SUBSET GrpcServices :
       /\ tls' = [tls EXCEPT ![u] = t]
       /\ pending[u] \cap {"config-changed", "certificates"} # {} \/ t = tls[u]
  /\ UNCHANGED <<leader, config, related>>
  /\ count' \in [CountNames -> Nat]

\* Every hook that does not return early is one of these.
LEMMA HookEffect ==
  ASSUME TypeOK, NEW u \in Units, Hook(u),
         ~ConfigChangedEarlyReturn(u), ~ConfigChangedNoDatabase(u), ~Raises(u)
  PROVE  \E h \in HookNames, knowing \in BOOLEAN, t \in SUBSET GrpcServices, n \in Accepted,
            told \in SUBSET Units :
           /\ Publication(u, h, knowing, t, n, told)
           /\ config \in Accepted => n = config
           /\ Configures(u, h, n) \/ OpensPorts(u, h, n) \/ OnlyPublishes(h)
<1> DEFINE c == InForce(config)
<1>1. /\ config \in Configs /\ related \subseteq Routes /\ published \in SUBSET Units
      /\ knows \in SUBSET Units /\ tls \in [Units -> SUBSET GrpcServices]
  BY DEF TypeOK
<1>2. c \in Accepted /\ c \in Configs /\ (config \in Accepted => c = config)
  BY <1>1, InForceAccepted
<1>3. count \in [CountNames -> Nat]
  BY DEF TypeOK
<1>4. \A n \in Configs : SyncTls(n) \subseteq SUBSET GrpcServices
  BY ConfigAssumption DEF SyncTls, ConfigType
<1>5. tls = [tls EXCEPT ![u] = tls[u]] /\ tls[u] \in SUBSET GrpcServices
  BY <1>1
<1>6. /\ {"config-changed", "leader-elected", "replicas-changed", "route", "certificates"}
           \subseteq HookNames
      /\ (u \in knows) \in BOOLEAN
  BY DEF HookNames
<1> HIDE DEF c
<1>7. CASE ConfigChanged(u)
  <2>1. /\ config \in Accepted /\ "config-changed" \in pending[u]
        /\ conf' = [conf EXCEPT ![u] = ServiceConf(@, Options[config])]
        /\ UNCHANGED <<leader, config, related, count>>
    BY <1>7 DEF ConfigChanged, ConfigWritten, Runs
  <2>2. PICK t \in SUBSET GrpcServices :
          /\ tls' = [tls EXCEPT ![u] = t]
          /\ \/ Fails
             \/ /\ Provide(u, u \in knows, t, config)
                /\ opened' = [opened EXCEPT ![u] = SetPorts[u = leader][config]]
                /\ cut' = cut \ {u}
                /\ Returns(u, "config-changed", {})
                /\ UNCHANGED peer
    <3>1. CASE UNCHANGED tls /\ Fails
      BY <1>5, <3>1
    <3>2. CASE ~(UNCHANGED tls /\ Fails)
      BY <1>1, <1>4, <1>7, <3>2 DEF ConfigChanged
    <3> QED BY <3>1, <3>2
  <2>6. ~Fails
    BY <1>3, <2>1, <2>2 DEF Raises
  <2>3. Publication(u, "config-changed", u \in knows, t, config, {})
    BY <2>1, <2>2, <2>6 DEF Publication, peer
  <2>4. Configures(u, "config-changed", config)
    BY <2>1, <2>2, <2>6 DEF Configures, peer
  <2>5. t \in SUBSET GrpcServices /\ {} \in SUBSET Units
    BY <1>1, <1>4, <2>2
  <2> QED BY <1>6, <2>1, <2>3, <2>4, <2>5
<1>8. ASSUME NEW h \in {"leader-elected", "replicas-changed"}, NEW knowing \in BOOLEAN,
             NEW leaderIp \in SUBSET Units, NEW told \in SUBSET Units,
             h \in pending[u], u \in knows => knowing,
             LeaderChanged(u, h, knowing, leaderIp, told)
      PROVE  Publication(u, h, knowing, tls[u], c, told) /\ OpensPorts(u, h, c)
  <2>1. /\ opened' = [opened EXCEPT ![u] = SetPorts[u = leader][c]]
        /\ Provide(u, knowing, tls[u], c)
        /\ knows' = IF knowing THEN knows \cup {u} ELSE knows
        /\ published' = leaderIp
        /\ Returns(u, h, told)
        /\ UNCHANGED <<cut, leader, config, conf, tls, related, count>>
    <3>1. UNCHANGED <<leader, config, conf, tls, related, count>>
      BY <1>8 DEF LeaderChanged
    <3>2. ~Fails
      BY <1>3, <1>5, <3>1 DEF Raises
    <3> QED BY <1>8, <3>1, <3>2 DEF LeaderChanged, c
  <2> QED BY <1>5, <1>8, <2>1 DEF Publication, OpensPorts
<1>9. CASE LeaderElected(u)
  <2>1. "leader-elected" \in pending[u]
    BY <1>9 DEF LeaderElected, Runs
  <2>2. PICK leaderIp \in SUBSET Units, told \in SUBSET Units :
          LeaderChanged(u, "leader-elected", u \in knows, leaderIp, told)
    <3>1. CASE u = leader
      <4>1. {u} \in SUBSET Units
            /\ (IF published = {u} THEN {} ELSE Units \ {u}) \in SUBSET Units
        OBVIOUS
      <4> QED BY <1>9, <3>1, <4>1 DEF LeaderElected
    <3>2. CASE u # leader
      <4>1. {} \in SUBSET Units
        OBVIOUS
      <4> QED BY <1>1, <1>9, <3>2, <4>1 DEF LeaderElected
    <3> QED BY <3>1, <3>2
  <2>3. /\ Publication(u, "leader-elected", u \in knows, tls[u], c, told)
        /\ OpensPorts(u, "leader-elected", c)
    BY <1>6, <1>8, <2>1, <2>2
  <2> QED BY <1>2, <1>5, <1>6, <2>3
<1>10. CASE ReplicasRelationChanged(u)
  <2> DEFINE knowing == published # {} \/ u \in knows
  <2>1. /\ "replicas-changed" \in pending[u] /\ (u \in knows => knowing) /\ knowing \in BOOLEAN
        /\ LeaderChanged(u, "replicas-changed", knowing, published, {})
    BY <1>10 DEF ReplicasRelationChanged, Runs
  <2>2. {} \in SUBSET Units
    OBVIOUS
  <2> HIDE DEF knowing
  <2>3. /\ Publication(u, "replicas-changed", knowing, tls[u], c, {})
        /\ OpensPorts(u, "replicas-changed", c)
    BY <1>1, <1>8, <2>1, <2>2
  <2> QED BY <1>2, <1>5, <1>6, <2>1, <2>2, <2>3
<1>11. ASSUME NEW h \in {"route", "certificates"}, NEW t \in SUBSET GrpcServices,
              h \in pending[u], h = "certificates" \/ t = tls[u], Publishes(u, h, t)
       PROVE  Publication(u, h, u \in knows, t, c, {}) /\ OnlyPublishes(h)
  <2>1. /\ tls' = [tls EXCEPT ![u] = t]
        /\ Provide(u, u \in knows, t, c)
        /\ Returns(u, h, {})
        /\ UNCHANGED <<published, knows, opened, cut, leader, config, conf, related, count>>
    <3>1. /\ tls' = [tls EXCEPT ![u] = t]
          /\ UNCHANGED <<leader, config, conf, related, count>>
      BY <1>11 DEF Publishes
    <3>2. ~Fails
      BY <1>3, <1>11, <3>1 DEF Raises
    <3> QED BY <1>11, <3>1, <3>2 DEF Publishes, peer, c
  <2> QED BY <1>11, <2>1 DEF Publication, OnlyPublishes
<1>12. CASE RouteRelationChanged(u)
  <2>1. "route" \in pending[u] /\ Publishes(u, "route", tls[u])
    BY <1>12 DEF RouteRelationChanged, Runs
  <2>2. Publication(u, "route", u \in knows, tls[u], c, {}) /\ OnlyPublishes("route")
    BY <1>5, <1>11, <2>1
  <2>3. {} \in SUBSET Units
    OBVIOUS
  <2> QED BY <1>2, <1>5, <1>6, <2>2, <2>3
<1>13. CASE CertificatesHook(u)
  <2>1. PICK t \in SyncTls(c) : Publishes(u, "certificates", t)
    BY <1>13 DEF CertificatesHook, c
  <2>2. "certificates" \in pending[u] /\ t \in SUBSET GrpcServices
    BY <1>2, <1>4, <1>13 DEF CertificatesHook, Runs
  <2>3. Publication(u, "certificates", u \in knows, t, c, {}) /\ OnlyPublishes("certificates")
    BY <1>11, <2>1, <2>2
  <2>4. {} \in SUBSET Units
    OBVIOUS
  <2> QED BY <1>2, <1>6, <2>2, <2>3, <2>4
<1> QED BY <1>7, <1>9, <1>10, <1>12, <1>13 DEF Hook

--------------------------------------------------------------------------------

\* Count gives a number of steps so far, and the databags go with the relations.
LEMMA InitTyped == Init => TypeOK
<1> SUFFICES ASSUME Init PROVE TypeOK
  OBVIOUS
<1>1. config \in Accepted /\ config \in Configs /\ leader \in Units
  BY RoutesAssumption DEF Init, Usable, Accepted
<1>2. conf \in [Units -> ServiceConfType]
  BY InitInv DEF IInv
<1>3. opened \in [Units -> SUBSET Int]
  BY <1>1, PortTypes DEF Init
<1>4. related \in SUBSET Routes
  BY RoutesAssumption DEF Init
<1>5. pending \in [Units -> SUBSET HookNames] /\ tls \in [Units -> SUBSET GrpcServices]
  BY DEF Init, HookNames
<1>6. /\ published \in SUBSET Units /\ knows \in SUBSET Units /\ cut \in SUBSET Units
      /\ members \in [Routes -> SUBSET Units] /\ \A r \in Routes \ related : members[r] = {}
  BY <1>1 DEF Init
<1>7. DOMAIN app = {} /\ count \in [CountNames -> Nat]
  BY DEF Init
<1> QED BY <1>1, <1>2, <1>3, <1>4, <1>5, <1>6, <1>7 DEF TypeOK

LEMMA Counted ==
  ASSUME count \in [CountNames -> Nat], NEW n \in CountNames, NEW max, Count(n, max)
  PROVE  count' \in [CountNames -> Nat]
BY DEF Count

LEMMA CountedNames ==
  {"moves", "reconfigures", "integrations", "faults"} \subseteq CountNames
BY DEF CountNames

\* The hooks that publish.
LEMMA PublicationTyped ==
  ASSUME TypeOK, conf' \in [Units -> ServiceConfType], NEW u \in Units, NEW h \in HookNames,
         NEW knowing \in BOOLEAN, NEW t \in SUBSET GrpcServices, NEW n \in Accepted,
         NEW told \in SUBSET Units, Publication(u, h, knowing, t, n, told),
         Configures(u, h, n) \/ OpensPorts(u, h, n) \/ OnlyPublishes(h)
  PROVE  TypeOK'
<1>1. /\ leader' \in Units /\ config' \in Configs /\ related' \in SUBSET Routes
      /\ count' \in [CountNames -> Nat] /\ tls' \in [Units -> SUBSET GrpcServices]
      /\ knows' \in SUBSET Units
  BY DEF Publication, TypeOK
<1>2. pending' \in [Units -> SUBSET HookNames]
  BY DEF Publication, Returns, TypeOK, HookNames
<1>3. /\ members' \in [Routes -> SUBSET Units] /\ \A r \in Routes \ related : members'[r] = {}
      /\ DOMAIN app' \subseteq related /\ \A r \in DOMAIN app' : app'[r] \in Configs
  <2>1. CASE knowing
    BY <2>1, ProvideEffect DEF Publication
  <2>2. CASE ~knowing
    BY <2>2 DEF Publication, Provide, databags, TypeOK
  <2> QED BY <2>1, <2>2
<1>4. opened' \in [Units -> SUBSET Int] /\ published' \in SUBSET Units /\ cut' \in SUBSET Units
  <2>1. SetPorts[u = leader][n] \in SUBSET Int
    <3>1. n \in Configs /\ (u = leader) \in BOOLEAN
      BY DEF Accepted
    <3> QED BY <3>1, PortTypes
  <2> QED BY <2>1 DEF Configures, OpensPorts, OnlyPublishes, TypeOK
<1>5. related' = related
  BY DEF Publication
<1> QED BY <1>1, <1>2, <1>3, <1>4, <1>5 DEF TypeOK

\* A config-changed that returns early, or is killed.
LEMMA EarlyReturnTyped ==
  ASSUME TypeOK, conf' \in [Units -> ServiceConfType], NEW u \in Units,
         ConfigChangedEarlyReturn(u) \/ ConfigChangedNoDatabase(u) \/ ConfigChangedKilled(u)
  PROVE  TypeOK'
<1>1. UNCHANGED <<leader, config, published, knows, related, app, members>>
  BY DEF ConfigChangedEarlyReturn, ConfigChangedNoDatabase, ConfigChangedKilled, ConfigWritten,
         Fails, peer, databags
<1>2. pending' \in [Units -> SUBSET HookNames]
  BY DEF ConfigChangedEarlyReturn, ConfigChangedNoDatabase, ConfigChangedKilled, Fails, Returns,
         TypeOK
<1>3. count' \in [CountNames -> Nat]
  BY Counted, CountedNames
  DEF ConfigChangedEarlyReturn, ConfigChangedNoDatabase, ConfigChangedKilled, TypeOK
<1>4. cut' \in SUBSET Units
  BY DEF ConfigChangedEarlyReturn, ConfigChangedNoDatabase, ConfigChangedKilled, Fails, TypeOK
<1>5. opened' \in [Units -> SUBSET Int] /\ tls' \in [Units -> SUBSET GrpcServices]
  <2>1. CASE ConfigChangedNoDatabase(u)
    <3>1. config \in Configs /\ (u = leader) \in BOOLEAN
      BY DEF TypeOK
    <3>2. SetPorts[u = leader][config] \in SUBSET Int
      BY <3>1, PortTypes
    <3>3. SyncTls(config) \subseteq SUBSET GrpcServices
      BY <3>1, ConfigAssumption DEF SyncTls, ConfigType
    <3> QED BY <2>1, <3>2, <3>3 DEF ConfigChangedNoDatabase, TypeOK
  <2>2. CASE ConfigChangedEarlyReturn(u) \/ ConfigChangedKilled(u)
    BY <2>2 DEF ConfigChangedEarlyReturn, ConfigChangedKilled, Fails, machine, TypeOK
  <2> QED BY <2>1, <2>2
<1> QED BY <1>1, <1>2, <1>3, <1>4, <1>5 DEF TypeOK

LEMMA RaisesTyped ==
  ASSUME TypeOK, conf' \in [Units -> ServiceConfType], NEW u \in Units, Raises(u)
  PROVE  TypeOK'
BY DEF Raises, Fails, peer, databags, TypeOK

LEMMA EnvironmentTyped ==
  ASSUME TypeOK,
         \/ LeadershipMoves \/ OperatorConfigures
         \/ \E r \in MovingRoutes : Integrate(r) \/ Remove(r)
         \/ \E u \in Units : CertificatesChange(u)
  PROVE  TypeOK'
<1>1. CASE LeadershipMoves
  <2>1. /\ leader' \in Units /\ UNCHANGED <<config, published, knows, conf, opened, tls, related,
                                            app, members, cut>>
        /\ pending' = [pending EXCEPT ![leader'] = @ \cup {"leader-elected"}]
    BY <1>1 DEF LeadershipMoves, peer, machine, databags
  <2>2. count' \in [CountNames -> Nat]
    BY <1>1, Counted, CountedNames DEF LeadershipMoves, TypeOK
  <2>3. pending' \in [Units -> SUBSET HookNames]
    BY <2>1 DEF TypeOK, HookNames
  <2> QED BY <2>1, <2>2, <2>3 DEF TypeOK
<1>2. CASE OperatorConfigures
  <2>1. /\ config' \in Configs /\ UNCHANGED <<leader, published, knows, conf, opened, tls,
                                              related, app, members, cut>>
        /\ pending' = [u \in Units |-> pending[u] \cup {"config-changed"}]
    BY <1>2 DEF OperatorConfigures, peer, machine, databags
  <2>2. count' \in [CountNames -> Nat]
    BY <1>2, Counted, CountedNames DEF OperatorConfigures, TypeOK
  <2>3. pending' \in [Units -> SUBSET HookNames]
    BY <2>1 DEF TypeOK, HookNames
  <2> QED BY <2>1, <2>2, <2>3 DEF TypeOK
<1>3. ASSUME NEW r \in MovingRoutes, Integrate(r)
      PROVE  TypeOK'
  <2>1. /\ r \in Routes /\ related' = related \cup {r}
        /\ UNCHANGED <<leader, config, published, knows, conf, opened, tls, app, members, cut>>
        /\ pending' = [u \in Units |-> pending[u] \cup {"route"}]
    BY <1>3, RoutesAssumption DEF Integrate, peer, machine, databags
  <2>2. count' \in [CountNames -> Nat]
    BY <1>3, Counted, CountedNames DEF Integrate, TypeOK
  <2>3. pending' \in [Units -> SUBSET HookNames]
    BY <2>1 DEF TypeOK, HookNames
  <2> QED BY <2>1, <2>2, <2>3 DEF TypeOK
<1>4. ASSUME NEW r \in MovingRoutes, Remove(r)
      PROVE  TypeOK'
  <2>1. /\ related' = related \ {r}
        /\ UNCHANGED <<leader, config, pending, published, knows, conf, opened, tls, cut>>
        /\ app' = [s \in DOMAIN app \ {r} |-> app[s]] /\ members' = [members EXCEPT ![r] = {}]
    BY <1>4 DEF Remove, peer, machine
  <2>2. count' \in [CountNames -> Nat]
    BY <1>4, Counted, CountedNames DEF Remove, TypeOK
  <2>3. DOMAIN app' \subseteq related' /\ \A s \in DOMAIN app' : app'[s] \in Configs
    BY <2>1 DEF TypeOK
  <2>4. members' \in [Routes -> SUBSET Units] /\ \A s \in Routes \ related' : members'[s] = {}
    BY <2>1 DEF TypeOK
  <2> QED BY <2>1, <2>2, <2>3, <2>4 DEF TypeOK
<1>5. ASSUME NEW u \in Units, CertificatesChange(u)
      PROVE  TypeOK'
  <2>1. /\ UNCHANGED <<leader, config, published, knows, conf, opened, tls, related, app,
                       members, cut>>
        /\ pending' = [pending EXCEPT ![u] = @ \cup {"certificates"}]
    BY <1>5 DEF CertificatesChange, peer, machine, databags
  <2>2. count' \in [CountNames -> Nat]
    BY <1>5, Counted, CountedNames DEF CertificatesChange, TypeOK
  <2>3. pending' \in [Units -> SUBSET HookNames]
    BY <2>1 DEF TypeOK, HookNames
  <2> QED BY <2>1, <2>2, <2>3 DEF TypeOK
<1> QED BY <1>1, <1>2, <1>3, <1>4, <1>5

LEMMA NextTyped ==
  ASSUME IInv, TypeOK, [Next]_vars
  PROVE  TypeOK'
<1>1. conf' \in [Units -> ServiceConfType]
  BY NextInv DEF IInv
<1>2. CASE \/ LeadershipMoves \/ OperatorConfigures
           \/ \E r \in MovingRoutes : Integrate(r) \/ Remove(r)
           \/ \E u \in Units : CertificatesChange(u)
  BY <1>2, EnvironmentTyped
<1>3. ASSUME NEW u \in Units,
             ConfigChangedEarlyReturn(u) \/ ConfigChangedNoDatabase(u) \/ ConfigChangedKilled(u)
      PROVE  TypeOK'
  BY <1>1, <1>3, EarlyReturnTyped
<1>4. ASSUME NEW u \in Units, Hook(u),
             ~ConfigChangedEarlyReturn(u), ~ConfigChangedNoDatabase(u)
      PROVE  TypeOK'
  <2>1. CASE Raises(u)
    BY <1>1, <2>1, RaisesTyped
  <2>2. CASE ~Raises(u)
    BY <1>1, <1>4, <2>2, HookEffect, PublicationTyped
  <2> QED BY <2>1, <2>2
<1>5. CASE UNCHANGED vars
  BY <1>5 DEF vars, peer, machine, databags, TypeOK
<1> QED BY <1>2, <1>3, <1>4, <1>5 DEF Next

\* Every variable has its type, and there are databags of integrated routes only.
THEOREM TypeCorrect == Spec => []TypeOK
BY InitInv, NextInv, InitTyped, NextTyped, PTL DEF Spec

--------------------------------------------------------------------------------
(***************************************************************************)
(* What the hooks bring about: until they have, one of them is pending or  *)
(* config-changed has returned early.                                      *)
(***************************************************************************)

Quiet(u, hooks) == pending[u] \cap hooks = {} /\ u \notin cut

Ready(u, r) == r \in HttpRoutes \/ r \in tls[u] \cap Options[config].grpc

\* What a unit's service.conf says, and the ports it has opened.
ConfiguredInv ==
  \A u \in Units : Quiet(u, {"config-changed"}) =>
    /\ config \in Accepted
    /\ conf[u].base = Options[config].base /\ conf[u].workers = Options[config].workers
    /\ SetPorts[FALSE][config] \subseteq opened[u]

LeaderPortsInv ==
  Quiet(leader, {"config-changed", "leader-elected"}) =>
    SetPorts[TRUE][config] \subseteq opened[leader]

\* A unit gives its address to the routes it is ready for.
MembersInv ==
  /\ \A r \in Routes : members[r] \subseteq knows
  /\ \A u \in knows : Quiet(u, {"config-changed", "route", "certificates"}) =>
       \A r \in related : u \in members[r] <=> Ready(u, r)

\* The leader publishes the routes that it is ready for, in the present configuration.
AppInv ==
  leader \in knows /\ Quiet(leader, {"config-changed", "leader-elected", "route", "certificates"}) =>
    \A r \in related : /\ r \in DOMAIN app <=> Ready(leader, r)
                       /\ r \in DOMAIN app => app[r] = config

RestInv == ConfiguredInv /\ LeaderPortsInv /\ MembersInv /\ AppInv


LEMMA OpenedPorts ==
  ASSUME NEW n \in Configs, NEW b \in BOOLEAN
  PROVE  SetPorts[FALSE][n] \subseteq SetPorts[b][n] /\ (b => SetPorts[b][n] = SetPorts[TRUE][n])
<1> DEFINE others == UNION {PortsOf(Options[n].base, Options[n].workers, s) :
                              s \in WorkerServices \cup Options[n].grpc}
<1>1. SetPorts[FALSE][n] = others \cup {}
  BY DEF SetPorts
<1>2. SetPorts[b][n] = others \cup IF b THEN {Options[n].base["package-upload"]} ELSE {}
  BY DEF SetPorts
<1> HIDE DEF others
<1> QED BY <1>1, <1>2

LEMMA InitRest == Init => RestInv
<1> SUFFICES ASSUME Init PROVE RestInv
  OBVIOUS
<1>1. config \in Accepted /\ config \in Configs /\ leader \in Units
  BY RoutesAssumption DEF Init, Usable, Accepted
<1>2. /\ pending = [u \in Units |-> {"route"}]
      /\ conf = [u \in Units |-> ServiceConf(ShippedConf, Options[config])]
      /\ opened = [u \in Units |-> SetPorts[u = leader][config]]
      /\ members = [r \in Routes |-> {}] /\ knows \subseteq Units
  BY DEF Init
<1>3. ConfiguredInv
  <2> SUFFICES ASSUME NEW u \in Units
               PROVE  /\ conf[u].base = Options[config].base
                      /\ conf[u].workers = Options[config].workers
                      /\ SetPorts[FALSE][config] \subseteq opened[u]
    BY <1>1 DEF ConfiguredInv
  <2>1. opened[u] = SetPorts[u = leader][config] /\ (u = leader) \in BOOLEAN
    BY <1>2
  <2> QED BY <1>1, <1>2, <2>1, OpenedPorts DEF ServiceConf
<1>4. LeaderPortsInv
  <2>1. opened[leader] = SetPorts[leader = leader][config] /\ (leader = leader) \in BOOLEAN
    BY <1>1, <1>2
  <2>2. SetPorts[TRUE][config] = SetPorts[leader = leader][config]
    BY <1>1, OpenedPorts
  <2> QED BY <2>1, <2>2 DEF LeaderPortsInv
<1>5. ~Quiet(leader, {"config-changed", "leader-elected", "route", "certificates"})
      /\ \A u \in knows : ~Quiet(u, {"config-changed", "route", "certificates"})
  BY <1>1, <1>2 DEF Quiet
<1>6. MembersInv /\ AppInv
  BY <1>2, <1>5 DEF MembersInv, AppInv
<1> QED BY <1>3, <1>4, <1>6 DEF RestInv

\* What is not pending after a hook was not pending before, but for that hook.
LEMMA QuietBefore ==
  ASSUME NEW u \in Units, NEW h, NEW told, Returns(u, h, told), NEW w \in Units,
         w \in cut => w \in cut'
  PROVE  /\ w # u \/ h # "config-changed" =>
              (Quiet(w, {"config-changed"})' => Quiet(w, {"config-changed"}))
         /\ w # u \/ h \notin {"config-changed", "leader-elected"} =>
              (Quiet(w, {"config-changed", "leader-elected"})'
                 => Quiet(w, {"config-changed", "leader-elected"}))
         /\ w # u \/ h \notin {"config-changed", "route", "certificates"} =>
              (Quiet(w, {"config-changed", "route", "certificates"})' => Quiet(w, {"config-changed", "route", "certificates"}))
         /\ w # u \/ h \notin {"config-changed", "leader-elected", "route", "certificates"} =>
              (Quiet(w, {"config-changed", "leader-elected", "route", "certificates"})'
                 => Quiet(w, {"config-changed", "leader-elected", "route", "certificates"}))
<1>1. pending'[w] = (IF w = u THEN pending[u] \ {h} ELSE pending[w])
                      \cup IF w \in told THEN {"replicas-changed"} ELSE {}
  BY DEF Returns
<1> QED BY <1>1 DEF Quiet

\* A hook of one unit leaves what is said of the others.
LEMMA PublicationMachine ==
  ASSUME TypeOK, ConfiguredInv, LeaderPortsInv, NEW u \in Units, NEW h \in HookNames,
         NEW knowing \in BOOLEAN, NEW t, NEW n \in Accepted, NEW told,
         Publication(u, h, knowing, t, n, told), config \in Accepted => n = config,
         Configures(u, h, n) \/ OpensPorts(u, h, n) \/ OnlyPublishes(h)
  PROVE  ConfiguredInv' /\ LeaderPortsInv' /\ (Quiet(u, {"config-changed"})' => n = config)
<1>1. /\ Returns(u, h, told) /\ UNCHANGED <<leader, config>> /\ leader \in Units
      /\ n \in Configs
      /\ conf \in [Units -> ServiceConfType] /\ opened \in [Units -> SUBSET Int]
  BY DEF Publication, Accepted, TypeOK
<1>2. \A w \in Units : w # u => /\ w \in cut' <=> w \in cut
                                /\ conf'[w] = conf[w] /\ opened'[w] = opened[w]
  BY <1>1 DEF Configures, OpensPorts, OnlyPublishes
<1>3. CASE Configures(u, h, n)
  <2>1. /\ config \in Accepted /\ n = config
        /\ conf'[u] = ServiceConf(conf[u], Options[config])
        /\ opened'[u] = SetPorts[u = leader][config] /\ (u = leader) \in BOOLEAN
    BY <1>1, <1>3 DEF Configures
  <2>2. SetPorts[FALSE][config] \subseteq opened'[u]
        /\ (u = leader => opened'[u] = SetPorts[TRUE][config])
    BY <1>1, <2>1, OpenedPorts
  <2>3. /\ conf'[u].base = Options[config].base /\ conf'[u].workers = Options[config].workers
    BY <2>1 DEF ServiceConf
  <2>4. ConfiguredInv'
    <3> SUFFICES ASSUME NEW w \in Units, w # u, Quiet(w, {"config-changed"})'
                 PROVE  Quiet(w, {"config-changed"})
      BY <1>1, <1>2, <2>1, <2>2, <2>3 DEF ConfiguredInv
    <3> QED BY <1>1, <1>2, QuietBefore
  <2>5. LeaderPortsInv'
    <3>1. CASE u = leader
      BY <1>1, <2>2, <3>1 DEF LeaderPortsInv
    <3>2. CASE u # leader
      <4>1. Quiet(leader, {"config-changed", "leader-elected"})'
              => Quiet(leader, {"config-changed", "leader-elected"})
        BY <1>1, <1>2, <3>2, QuietBefore
      <4> QED BY <1>1, <1>2, <3>2, <4>1 DEF LeaderPortsInv
    <3> QED BY <3>1, <3>2
  <2> QED BY <2>1, <2>4, <2>5
<1>4. CASE OpensPorts(u, h, n) \/ OnlyPublishes(h)
  <2>1. /\ h # "config-changed" /\ UNCHANGED <<conf, cut>>
        /\ h = "leader-elected" => OpensPorts(u, h, n)
    BY <1>4 DEF OpensPorts, OnlyPublishes
  <2>2. \A w \in Units : Quiet(w, {"config-changed"})' => Quiet(w, {"config-changed"})
    BY <1>1, <2>1, QuietBefore
  <2>3. Quiet(u, {"config-changed"})' => n = config /\ config \in Accepted
    BY <2>2 DEF ConfiguredInv
  <2>4. OpensPorts(u, h, n) \/ opened' = opened
    BY <1>4 DEF OnlyPublishes
  <2>5. OpensPorts(u, h, n) => /\ SetPorts[FALSE][n] \subseteq opened'[u]
                               /\ u = leader => opened'[u] = SetPorts[TRUE][n]
    <3>1. OpensPorts(u, h, n) => opened'[u] = SetPorts[u = leader][n]
      BY <1>1 DEF OpensPorts
    <3>2. (u = leader) \in BOOLEAN
      OBVIOUS
    <3> QED BY <1>1, <3>1, <3>2, OpenedPorts
  <2>6. ConfiguredInv'
    <3> SUFFICES ASSUME NEW w \in Units, Quiet(w, {"config-changed"})'
                 PROVE  SetPorts[FALSE][config] \subseteq opened'[w]
      BY <1>1, <2>1, <2>2 DEF ConfiguredInv
    <3>1. SetPorts[FALSE][config] \subseteq opened[w]
      BY <2>2 DEF ConfiguredInv
    <3> QED BY <1>1, <1>2, <2>3, <2>4, <2>5, <3>1
  <2>7. LeaderPortsInv'
    <3> SUFFICES ASSUME Quiet(leader, {"config-changed", "leader-elected"})'
                 PROVE  SetPorts[TRUE][config] \subseteq opened'[leader]
      BY <1>1 DEF LeaderPortsInv
    <3>1. CASE u = leader /\ OpensPorts(u, h, n)
      <4>1. Quiet(u, {"config-changed"})'
        BY <1>1, <3>1 DEF Quiet
      <4> QED BY <2>3, <2>5, <3>1, <4>1
    <3>2. CASE u # leader \/ ~OpensPorts(u, h, n)
      <4>1. u # leader \/ h \notin {"config-changed", "leader-elected"}
        BY <2>1, <3>2
      <4>2. Quiet(leader, {"config-changed", "leader-elected"})
        BY <1>1, <2>1, <4>1, QuietBefore
      <4> QED BY <1>1, <1>2, <2>4, <3>2, <4>2 DEF LeaderPortsInv
    <3> QED BY <3>1, <3>2
  <2> QED BY <2>3, <2>6, <2>7
<1> QED BY <1>3, <1>4

\* What one unit publishes is its own, and the leader's.
LEMMA PublicationRoutes ==
  ASSUME TypeOK, RestInv, NEW u \in Units, NEW h \in HookNames,
         NEW knowing \in BOOLEAN, NEW t \in SUBSET GrpcServices, NEW n \in Accepted, NEW told,
         Publication(u, h, knowing, t, n, told), config \in Accepted => n = config,
         Configures(u, h, n) \/ OpensPorts(u, h, n) \/ OnlyPublishes(h)
  PROVE  MembersInv' /\ AppInv'
<1>1. /\ Returns(u, h, told) /\ UNCHANGED <<leader, config, related>> /\ leader \in Units
      /\ related \subseteq Routes
      /\ tls \in [Units -> SUBSET GrpcServices] /\ tls' = [tls EXCEPT ![u] = t]
      /\ knows' = IF knowing THEN knows \cup {u} ELSE knows
      /\ knows \subseteq Units
  BY DEF Publication, TypeOK
<1>2. \A w \in Units : w # u => (w \in cut' <=> w \in cut)
  BY DEF Configures, OpensPorts, OnlyPublishes
<1>3. Quiet(u, {"config-changed"})' => n = config
  BY PublicationMachine DEF RestInv
<1>4. \A w \in Units, r \in related : w # u => (Ready(w, r)' <=> Ready(w, r))
  BY <1>1 DEF Ready
<1>5. CASE ~knowing
  <2>1. u \notin knows /\ UNCHANGED <<knows, app, members>>
    BY <1>5 DEF Publication, Provide, databags
  <2>2. MembersInv'
    <3> SUFFICES ASSUME NEW w \in knows, w # u, Quiet(w, {"config-changed", "route", "certificates"})'
                 PROVE  Quiet(w, {"config-changed", "route", "certificates"}) /\ w \in Units
      BY <1>1, <1>4, <2>1 DEF RestInv, MembersInv
    <3> QED BY <1>1, <1>2, QuietBefore
  <2>3. AppInv'
    <3> SUFFICES ASSUME leader \in knows,
                        Quiet(leader, {"config-changed", "leader-elected", "route", "certificates"})'
                 PROVE  Quiet(leader, {"config-changed", "leader-elected", "route", "certificates"})
      BY <1>1, <1>4, <2>1 DEF RestInv, AppInv
    <3> QED BY <1>1, <1>2, <2>1, QuietBefore
  <2> QED BY <2>2, <2>3
<1>6. CASE knowing
  <2>1. /\ \A r \in Routes : members'[r] \ {u} = members[r] \ {u}
        /\ \A r \in related : u \in members'[r] <=> r \in HttpRoutes \/ r \in t \cap Options[n].grpc
        /\ u # leader => app' = app
        /\ u = leader =>
             \A r \in related :
               /\ r \in DOMAIN app' <=> r \in HttpRoutes \/ r \in t \cap Options[n].grpc
               /\ r \in DOMAIN app' => app'[r] = n
    BY <1>6, ProvideEffect DEF Publication
  <2>2. n = config => \A r \in related :
           Ready(u, r)' <=> r \in HttpRoutes \/ r \in t \cap Options[n].grpc
    BY <1>1 DEF Ready
  <2>3. knows' = knows \cup {u}
    BY <1>1, <1>6
  <2>4. MembersInv'
    <3>1. \A r \in Routes : members'[r] \subseteq knows'
      BY <2>1, <2>3 DEF RestInv, MembersInv
    <3>2. ASSUME NEW w \in knows', Quiet(w, {"config-changed", "route", "certificates"})', NEW r \in related
          PROVE  w \in members'[r] <=> Ready(w, r)'
      <4>1. CASE w = u
        <5>1. n = config
          BY <1>3, <3>2, <4>1 DEF Quiet
        <5> QED BY <2>1, <2>2, <4>1, <5>1
      <4>2. CASE w # u
        <5>1. w \in knows /\ w \in Units
          BY <1>1, <2>3, <4>2
        <5>2. Quiet(w, {"config-changed", "route", "certificates"})
          BY <1>1, <1>2, <3>2, <4>2, <5>1, QuietBefore
        <5>3. w \in members[r] <=> Ready(w, r)
          BY <5>1, <5>2 DEF RestInv, MembersInv
        <5> QED BY <1>1, <1>4, <2>1, <4>2, <5>1, <5>3
      <4> QED BY <4>1, <4>2
    <3> QED BY <1>1, <3>1, <3>2 DEF MembersInv
  <2>5. AppInv'
    <3> SUFFICES ASSUME leader \in knows', NEW r \in related,
                        Quiet(leader, {"config-changed", "leader-elected", "route", "certificates"})'
                 PROVE  /\ r \in DOMAIN app' <=> Ready(leader, r)'
                        /\ r \in DOMAIN app' => app'[r] = config
      BY <1>1 DEF AppInv
    <3>1. CASE u = leader
      <4>1. n = config
        BY <1>1, <1>3, <3>1 DEF Quiet
      <4> QED BY <1>1, <2>1, <2>2, <3>1, <4>1
    <3>2. CASE u # leader
      <4>1. leader \in knows
        BY <2>3, <3>2
      <4>2. Quiet(leader, {"config-changed", "leader-elected", "route", "certificates"})
        BY <1>1, <1>2, <3>2, QuietBefore
      <4> QED BY <1>1, <1>4, <2>1, <3>2, <4>1, <4>2 DEF RestInv, AppInv
    <3> QED BY <3>1, <3>2
  <2> QED BY <2>4, <2>5
<1> QED BY <1>5, <1>6

\* A config-changed that returns early says so; one that is killed stays pending.
LEMMA EarlyReturnRest ==
  ASSUME TypeOK, RestInv, NEW u \in Units,
         ConfigChangedEarlyReturn(u) \/ ConfigChangedNoDatabase(u) \/ ConfigChangedKilled(u)
  PROVE  RestInv'
<1>1. /\ UNCHANGED <<leader, config, knows, related, app, members>>
      /\ leader \in Units /\ knows \subseteq Units /\ related \subseteq Routes
      /\ conf \in [Units -> ServiceConfType] /\ opened \in [Units -> SUBSET Int]
      /\ tls \in [Units -> SUBSET GrpcServices]
  BY DEF ConfigChangedEarlyReturn, ConfigChangedNoDatabase, ConfigChangedKilled, Fails, peer,
         databags, TypeOK
<1>2. \A w \in Units : w # u => conf'[w] = conf[w] /\ opened'[w] = opened[w] /\ tls'[w] = tls[w]
  BY <1>1
  DEF ConfigChangedEarlyReturn, ConfigChangedNoDatabase, ConfigChangedKilled, ConfigWritten,
      Fails, machine
<1>3. ASSUME NEW w \in Units,
             NEW hooks \in SUBSET {"config-changed", "leader-elected", "route", "certificates"},
             Quiet(w, hooks)'
      PROVE  Quiet(w, hooks) /\ (w = u => ConfigChangedKilled(u))
  <2>1. CASE ConfigChangedEarlyReturn(u) \/ ConfigChangedNoDatabase(u)
    <3>1. Returns(u, "config-changed", {}) /\ cut' = cut \cup {u}
      BY <2>1 DEF ConfigChangedEarlyReturn, ConfigChangedNoDatabase
    <3>2. w # u
      BY <1>3, <3>1 DEF Quiet
    <3>3. pending'[w] = pending[w] \cup {}
      BY <3>1, <3>2 DEF Returns
    <3> QED BY <1>3, <3>1, <3>2, <3>3 DEF Quiet
  <2>2. CASE ConfigChangedKilled(u)
    BY <1>3, <2>2 DEF ConfigChangedKilled, Fails, Quiet
  <2> QED BY <2>1, <2>2
<1>4. ConfigChangedKilled(u) =>
        /\ UNCHANGED <<opened, tls>> /\ config \in Accepted
        /\ conf'[u].base = Options[config].base /\ conf'[u].workers = Options[config].workers
  BY <1>1 DEF ConfigChangedKilled, ConfigWritten, Fails, ServiceConf
<1>5. ConfiguredInv'
  <2> SUFFICES ASSUME NEW w \in Units, Quiet(w, {"config-changed"})'
               PROVE  /\ config \in Accepted
                      /\ conf'[w].base = Options[config].base
                      /\ conf'[w].workers = Options[config].workers
                      /\ SetPorts[FALSE][config] \subseteq opened'[w]
    BY <1>1 DEF ConfiguredInv
  <2>1. Quiet(w, {"config-changed"}) /\ (w = u => ConfigChangedKilled(u))
    BY <1>3
  <2> QED BY <1>2, <1>4, <2>1 DEF RestInv, ConfiguredInv
<1>6. LeaderPortsInv'
  <2> SUFFICES ASSUME Quiet(leader, {"config-changed", "leader-elected"})'
               PROVE  SetPorts[TRUE][config] \subseteq opened'[leader]
    BY <1>1 DEF LeaderPortsInv
  <2>1. Quiet(leader, {"config-changed", "leader-elected"})
        /\ (leader = u => ConfigChangedKilled(u))
    BY <1>1, <1>3
  <2> QED BY <1>1, <1>2, <1>4, <2>1 DEF RestInv, LeaderPortsInv
<1>7. MembersInv'
  <2> SUFFICES ASSUME NEW w \in knows, Quiet(w, {"config-changed", "route", "certificates"})', NEW r \in related
               PROVE  w \in members[r] <=> Ready(w, r)'
    BY <1>1 DEF RestInv, MembersInv
  <2>1. w \in Units /\ Quiet(w, {"config-changed", "route", "certificates"}) /\ (w = u => ConfigChangedKilled(u))
    BY <1>1, <1>3
  <2>2. Ready(w, r)' <=> Ready(w, r)
    BY <1>1, <1>2, <1>4, <2>1 DEF Ready
  <2> QED BY <2>1, <2>2 DEF RestInv, MembersInv
<1>8. AppInv'
  <2> SUFFICES ASSUME leader \in knows, NEW r \in related,
                      Quiet(leader, {"config-changed", "leader-elected", "route", "certificates"})'
               PROVE  /\ r \in DOMAIN app <=> Ready(leader, r)'
                      /\ r \in DOMAIN app => app[r] = config
    BY <1>1 DEF AppInv
  <2>1. Quiet(leader, {"config-changed", "leader-elected", "route", "certificates"})
        /\ (leader = u => ConfigChangedKilled(u))
    BY <1>1, <1>3
  <2>2. Ready(leader, r)' <=> Ready(leader, r)
    BY <1>1, <1>2, <1>4, <2>1 DEF Ready
  <2> QED BY <2>1, <2>2 DEF RestInv, AppInv
<1> QED BY <1>5, <1>6, <1>7, <1>8 DEF RestInv

\* A hook that raises is pending still, so that nothing is said of what it has done.
LEMMA RaisesRest ==
  ASSUME TypeOK, RestInv, NEW u \in Units, Raises(u)
  PROVE  RestInv'
<1>1. /\ UNCHANGED <<leader, config, knows, related, app, members, pending, opened, cut>>
      /\ leader \in Units /\ knows \subseteq Units /\ related \subseteq Routes
      /\ conf \in [Units -> ServiceConfType] /\ tls \in [Units -> SUBSET GrpcServices]
  BY DEF Raises, Fails, peer, databags, TypeOK
<1>2. \A w, hooks : Quiet(w, hooks)' <=> Quiet(w, hooks)
  BY <1>1 DEF Quiet
<1>3. ASSUME NEW w \in Units, Quiet(w, {"config-changed"})
      PROVE  /\ config \in Accepted
             /\ conf'[w].base = Options[config].base
             /\ conf'[w].workers = Options[config].workers
             /\ SetPorts[FALSE][config] \subseteq opened[w]
  <2>1. /\ config \in Accepted
        /\ conf[w].base = Options[config].base /\ conf[w].workers = Options[config].workers
        /\ SetPorts[FALSE][config] \subseteq opened[w]
    BY <1>3 DEF RestInv, ConfiguredInv
  <2>2. conf'[w] = conf[w] \/ conf'[w] = ServiceConf(conf[w], Options[config])
    BY <1>1 DEF Raises
  <2>3. /\ ServiceConf(conf[w], Options[config]).base = Options[config].base
        /\ ServiceConf(conf[w], Options[config]).workers = Options[config].workers
    BY DEF ServiceConf
  <2> QED BY <2>1, <2>2, <2>3
<1>4. ASSUME NEW w \in Units, NEW r \in Routes,
             \/ Quiet(w, {"config-changed", "route", "certificates"})
             \/ Quiet(w, {"config-changed", "leader-elected", "route", "certificates"})
      PROVE  Ready(w, r)' <=> Ready(w, r)
  <2>1. tls'[w] = tls[w]
    BY <1>1, <1>4 DEF Raises, Quiet
  <2> QED BY <1>1, <2>1 DEF Ready
<1>5. ConfiguredInv' /\ LeaderPortsInv'
  BY <1>1, <1>2, <1>3 DEF RestInv, ConfiguredInv, LeaderPortsInv
<1>6. MembersInv'
  <2> SUFFICES ASSUME NEW w \in knows,
                      Quiet(w, {"config-changed", "route", "certificates"}), NEW r \in related
               PROVE  w \in members[r] <=> Ready(w, r)'
    BY <1>1, <1>2 DEF RestInv, MembersInv
  <2>1. w \in members[r] <=> Ready(w, r)
    BY DEF RestInv, MembersInv
  <2> QED BY <1>1, <1>4, <2>1
<1>7. AppInv'
  <2> SUFFICES ASSUME leader \in knows, NEW r \in related,
                      Quiet(leader, {"config-changed", "leader-elected", "route", "certificates"})
               PROVE  /\ r \in DOMAIN app <=> Ready(leader, r)'
                      /\ r \in DOMAIN app => app[r] = config
    BY <1>1, <1>2 DEF AppInv
  <2> QED BY <1>1, <1>4 DEF RestInv, AppInv
<1> QED BY <1>5, <1>6, <1>7 DEF RestInv

\* What changes makes a hook pending for those it concerns.
LEMMA EnvironmentRest ==
  ASSUME TypeOK, RestInv,
         \/ LeadershipMoves \/ OperatorConfigures
         \/ \E r \in MovingRoutes : Integrate(r) \/ Remove(r)
         \/ \E u \in Units : CertificatesChange(u)
  PROVE  RestInv'
<1>1. UNCHANGED <<knows, conf, opened, tls, cut>>
  BY DEF LeadershipMoves, OperatorConfigures, Integrate, Remove, CertificatesChange, peer, machine
<1>2. /\ leader \in Units /\ knows \subseteq Units /\ related \subseteq Routes
      /\ pending \in [Units -> SUBSET HookNames] /\ members \in [Routes -> SUBSET Units]
  BY DEF TypeOK
<1>3. CASE LeadershipMoves
  <2>1. /\ leader' \in Units /\ UNCHANGED <<config, related, app, members>>
        /\ pending' = [pending EXCEPT ![leader'] = @ \cup {"leader-elected"}]
    BY <1>3 DEF LeadershipMoves, databags
  <2>2. \A w \in Units : Quiet(w, {"config-changed"})' => Quiet(w, {"config-changed"})
    BY <1>1, <1>2, <2>1 DEF Quiet
  <2>3. \A w \in Units : Quiet(w, {"config-changed", "route", "certificates"})' => Quiet(w, {"config-changed", "route", "certificates"})
    BY <1>1, <1>2, <2>1 DEF Quiet
  <2>4. "leader-elected" \in pending'[leader']
    BY <1>2, <2>1
  <2>5. ConfiguredInv'
    BY <1>1, <2>1, <2>2 DEF RestInv, ConfiguredInv
  <2>6. MembersInv'
    BY <1>1, <1>2, <2>1, <2>3 DEF RestInv, MembersInv, Ready
  <2>7. LeaderPortsInv' /\ AppInv'
    BY <2>4 DEF LeaderPortsInv, AppInv, Quiet
  <2> QED BY <2>5, <2>6, <2>7 DEF RestInv
<1>4. CASE OperatorConfigures
  <2>1. /\ UNCHANGED <<leader, related, app, members>>
        /\ \A w \in Units : "config-changed" \in pending'[w]
    BY <1>4 DEF OperatorConfigures, databags
  <2>2. \A w \in Units : /\ ~Quiet(w, {"config-changed"})'
                         /\ ~Quiet(w, {"config-changed", "leader-elected"})'
                         /\ ~Quiet(w, {"config-changed", "route", "certificates"})'
                         /\ ~Quiet(w, {"config-changed", "leader-elected", "route", "certificates"})'
    BY <2>1 DEF Quiet
  <2> QED BY <1>1, <1>2, <2>1, <2>2
          DEF RestInv, ConfiguredInv, LeaderPortsInv, MembersInv, AppInv
<1>5. ASSUME NEW r \in MovingRoutes, Integrate(r)
      PROVE  RestInv'
  <2>1. /\ UNCHANGED <<leader, config, app, members>>
        /\ pending' = [u \in Units |-> pending[u] \cup {"route"}]
    BY <1>5 DEF Integrate, databags
  <2>2. \A w \in Units : /\ Quiet(w, {"config-changed"})' => Quiet(w, {"config-changed"})
                         /\ Quiet(w, {"config-changed", "leader-elected"})'
                              => Quiet(w, {"config-changed", "leader-elected"})
                         /\ ~Quiet(w, {"config-changed", "route", "certificates"})'
                         /\ ~Quiet(w, {"config-changed", "leader-elected", "route", "certificates"})'
    BY <1>1, <2>1 DEF Quiet
  <2> QED BY <1>1, <1>2, <2>1, <2>2
          DEF RestInv, ConfiguredInv, LeaderPortsInv, MembersInv, AppInv
<1>6. ASSUME NEW r \in MovingRoutes, Remove(r)
      PROVE  RestInv'
  <2>1. /\ UNCHANGED <<leader, config, pending>> /\ related' = related \ {r}
        /\ app' = [s \in DOMAIN app \ {r} |-> app[s]] /\ members' = [members EXCEPT ![r] = {}]
    BY <1>6 DEF Remove
  <2>2. \A w, hooks : Quiet(w, hooks)' <=> Quiet(w, hooks)
    BY <1>1, <2>1 DEF Quiet
  <2>3. /\ \A s \in related' : members'[s] = members[s] /\ s \in related
        /\ \A s \in Routes : members'[s] \subseteq members[s]
    BY <1>2, <2>1
  <2>4. \A s \in related' : /\ s \in DOMAIN app' <=> s \in DOMAIN app
                            /\ s \in DOMAIN app' => app'[s] = app[s]
    BY <2>1
  <2>5. \A w, s : Ready(w, s)' <=> Ready(w, s)
    BY <1>1, <2>1 DEF Ready
  <2>6. ConfiguredInv' /\ LeaderPortsInv'
    BY <1>1, <2>1, <2>2 DEF RestInv, ConfiguredInv, LeaderPortsInv
  <2>7. MembersInv'
    BY <1>1, <2>1, <2>2, <2>3, <2>5 DEF RestInv, MembersInv
  <2>8. AppInv'
    BY <1>1, <2>1, <2>2, <2>3, <2>4, <2>5 DEF RestInv, AppInv
  <2> QED BY <2>6, <2>7, <2>8 DEF RestInv
<1>7. ASSUME NEW u \in Units, CertificatesChange(u)
      PROVE  RestInv'
  <2>1. /\ UNCHANGED <<leader, config, related, app, members>>
        /\ pending' = [pending EXCEPT ![u] = @ \cup {"certificates"}]
    BY <1>7 DEF CertificatesChange, databags
  <2>2. \A w \in Units : /\ Quiet(w, {"config-changed"})' => Quiet(w, {"config-changed"})
                         /\ Quiet(w, {"config-changed", "leader-elected"})'
                              => Quiet(w, {"config-changed", "leader-elected"})
                         /\ Quiet(w, {"config-changed", "route", "certificates"})'
                              => Quiet(w, {"config-changed", "route", "certificates"})
                         /\ Quiet(w, {"config-changed", "leader-elected", "route", "certificates"})'
                              => Quiet(w, {"config-changed", "leader-elected", "route", "certificates"})
    BY <1>1, <1>2, <2>1 DEF Quiet
  <2>3. \A w, s : Ready(w, s)' <=> Ready(w, s)
    BY <1>1, <2>1 DEF Ready
  <2>4. ConfiguredInv' /\ LeaderPortsInv'
    BY <1>1, <1>2, <2>1, <2>2 DEF RestInv, ConfiguredInv, LeaderPortsInv
  <2>5. MembersInv'
    BY <1>1, <1>2, <2>1, <2>2, <2>3 DEF RestInv, MembersInv
  <2>6. AppInv'
    BY <1>1, <1>2, <2>1, <2>2, <2>3 DEF RestInv, AppInv
  <2> QED BY <2>4, <2>5, <2>6 DEF RestInv
<1> QED BY <1>3, <1>4, <1>5, <1>6, <1>7

LEMMA NextRest ==
  ASSUME TypeOK, RestInv, [Next]_vars
  PROVE  RestInv'
<1>1. CASE \/ LeadershipMoves \/ OperatorConfigures
           \/ \E r \in MovingRoutes : Integrate(r) \/ Remove(r)
           \/ \E u \in Units : CertificatesChange(u)
  BY <1>1, EnvironmentRest
<1>2. ASSUME NEW u \in Units,
             ConfigChangedEarlyReturn(u) \/ ConfigChangedNoDatabase(u) \/ ConfigChangedKilled(u)
      PROVE  RestInv'
  BY <1>2, EarlyReturnRest
<1>3. ASSUME NEW u \in Units, Hook(u),
             ~ConfigChangedEarlyReturn(u), ~ConfigChangedNoDatabase(u), ~Raises(u)
      PROVE  RestInv'
  <2>1. PICK h \in HookNames, knowing \in BOOLEAN, t \in SUBSET GrpcServices, n \in Accepted,
             told \in SUBSET Units :
           /\ Publication(u, h, knowing, t, n, told)
           /\ config \in Accepted => n = config
           /\ Configures(u, h, n) \/ OpensPorts(u, h, n) \/ OnlyPublishes(h)
    BY <1>3, HookEffect
  <2>2. ConfiguredInv' /\ LeaderPortsInv'
    BY <2>1, PublicationMachine DEF RestInv
  <2>3. MembersInv' /\ AppInv'
    BY <2>1, PublicationRoutes
  <2> QED BY <2>2, <2>3 DEF RestInv
<1>5. ASSUME NEW u \in Units, Raises(u)
      PROVE  RestInv'
  BY <1>5, RaisesRest
<1>4. CASE UNCHANGED vars
  BY <1>4
  DEF vars, peer, machine, databags, RestInv, ConfiguredInv, LeaderPortsInv, MembersInv, AppInv,
      Quiet, Ready
<1> QED BY <1>1, <1>2, <1>3, <1>4, <1>5 DEF Next


LEMMA RestInvariant == Spec => [](TypeOK /\ RestInv)
BY InitInv, NextInv, InitTyped, NextTyped, InitRest, NextRest, PTL DEF Spec

--------------------------------------------------------------------------------
(***************************************************************************)
(* When all is settled.                                                    *)
(***************************************************************************)

\* Routes of one configuration differ in their service and their external gRPC port.
LEMMA NoClash ==
  ASSUME NEW c, NEW r \in Routes, NEW s \in Routes, r # s,
         Published(r) = RouteData(r, c), Published(s) = RouteData(s, c)
  PROVE  ~Clash(r, s)
<1>1. ASSUME NEW q \in Routes
      PROVE  /\ RouteData(q, c).service = q
             /\ q \in HttpRoutes => RouteData(q, c).grpcPort = 0
             /\ q \notin HttpRoutes =>
                  RouteData(q, c).grpcPort = IF q = "hostagent-messenger" THEN 6554 ELSE 50051
  BY DEF RouteData, HttpRoute, GrpcRoute
<1>2. r \notin HttpRoutes /\ s \notin HttpRoutes
        => {r, s} = {"hostagent-messenger", "ubuntu-installer-attach"}
  BY DEF Routes, GrpcServices
<1> QED BY <1>1, <1>2 DEF Clash

LEMMA SettledRoutes ==
  ASSUME TypeOK, RestInv, Settled
  PROVE  /\ config \in Accepted /\ config \in Configs
         /\ \A u \in Units : /\ conf[u].base = Options[config].base
                             /\ conf[u].workers = Options[config].workers
                             /\ SetPorts[FALSE][config] \subseteq opened[u]
         /\ SetPorts[TRUE][config] \subseteq opened[leader]
         /\ \A r \in related : /\ members[r] \subseteq knows
                               /\ \A u \in knows : u \in members[r] <=> Ready(u, r)
         /\ \A r \in related : r \in InvalidRelations <=> ~Ready(leader, r)
         /\ \A r \in related \ InvalidRelations : Published(r) = RouteData(r, Options[config])
<1>1. /\ leader \in Units /\ leader \in knows /\ knows \subseteq Units /\ related \subseteq Routes
      /\ config \in Configs
  BY DEF TypeOK, Settled
<1>2. \A u \in Units : \A hooks : Quiet(u, hooks)
  BY DEF Settled, Quiet
<1>3. /\ config \in Accepted
      /\ \A u \in Units : /\ conf[u].base = Options[config].base
                          /\ conf[u].workers = Options[config].workers
                          /\ SetPorts[FALSE][config] \subseteq opened[u]
  BY <1>1, <1>2 DEF RestInv, ConfiguredInv
<1>4. SetPorts[TRUE][config] \subseteq opened[leader]
  BY <1>1, <1>2 DEF RestInv, LeaderPortsInv
<1>5. \A r \in related : /\ members[r] \subseteq knows
                         /\ \A u \in knows : u \in members[r] <=> Ready(u, r)
  BY <1>1, <1>2 DEF RestInv, MembersInv
<1>6. \A r \in related : /\ r \in DOMAIN app <=> Ready(leader, r)
                         /\ r \in DOMAIN app => app[r] = config
  BY <1>1, <1>2 DEF RestInv, AppInv
<1>7. ASSUME NEW r \in related, r \in DOMAIN app
      PROVE  Published(r) = RouteData(r, Options[config]) /\ Valid(Published(r))
  BY <1>1, <1>3, <1>6, <1>7, RouteOf, AcceptedValid DEF Published
<1>8. Loaded = {r \in related : r \in DOMAIN app}
  BY <1>7 DEF Loaded
<1>9. ASSUME NEW r \in Loaded
      PROVE  r \notin InvalidRelations
  <2>1. \A s \in Loaded : Published(s) = RouteData(s, Options[config]) /\ s \in Routes
    BY <1>1, <1>7, <1>8
  <2>2. \A s \in Loaded : ~Clash(r, s)
    BY <2>1, NoClash DEF Clash
  <2>3. ~(Published(r).grpcPort # 0 /\ Published(r).protocol # "https")
    BY <2>1 DEF RouteData, HttpRoute, GrpcRoute
  <2> QED BY <2>2, <2>3 DEF InvalidRelations
<1>10. \A r \in related : r \in InvalidRelations <=> r \notin DOMAIN app
  BY <1>8, <1>9 DEF InvalidRelations
<1> QED BY <1>1, <1>3, <1>4, <1>5, <1>6, <1>7, <1>10

\* The ports of a route are those of its service.
LEMMA RoutePorts ==
  ASSUME NEW n \in Configs, NEW r \in Routes
  PROVE  RouteData(r, Options[n]).ports
           = PortsOf(Options[n].base, Options[n].workers, ServiceOf(r))
<1> DEFINE c == Options[n]
<1>1. CASE r \in HttpRoutes
  BY <1>1 DEF RouteData, HttpRoute
<1>2. CASE r \notin HttpRoutes
  <2>1. r \in GrpcServices /\ r \notin WorkerServices /\ ServiceOf(r) = r /\ r \in Services
    BY <1>2 DEF Routes, GrpcServices, HttpRoutes, WorkerServices, ServiceOf, Services,
                SingleServices
  <2>2. c.base[r] \in Int
    BY <2>1, ConfigAssumption DEF ConfigType
  <2>3. PortsOf(c.base, c.workers, r) = {c.base[r] + i : i \in {0}}
    BY <2>1 DEF PortsOf, Workers
  <2>4. c.base[r] + 0 = c.base[r]
    BY <2>2
  <2>5. PortsOf(c.base, c.workers, r) = {c.base[r]}
    BY <2>3, <2>4
  <2> QED BY <1>2, <2>1, <2>5 DEF RouteData, GrpcRoute
<1> QED BY <1>1, <1>2

\* Once all is settled, HAProxy sends the requests of a route only to ports that the
\* unit has opened and that its service.conf gives to the route's service, with any
\* number of units, configurations and routes, whoever published what in which order
\* (_provide_all_haproxy_route_requirements, _set_ports, _on_config_changed).
THEOREM RoutedServersAlwaysListen == Spec => []RoutedServersListen
<1>1. TypeOK /\ RestInv => RoutedServersListen
  <2> SUFFICES ASSUME TypeOK, RestInv, Settled, NEW r \in related, NEW server \in Servers(r),
                      ~(r = "package-upload" /\ server[1] # leader)
               PROVE  /\ server[2] \in PortsOf(conf[server[1]].base, conf[server[1]].workers,
                                               ServiceOf(r))
                      /\ server[2] \in opened[server[1]]
    BY DEF RoutedServersListen
  <2> DEFINE u == server[1]
             port == server[2]
             c == Options[config]
  <2>1. r \in Routes /\ config \in Configs /\ leader \in Units /\ leader \in knows
        /\ knows \subseteq Units
    BY DEF TypeOK, Settled
  <2>2. r \notin InvalidRelations /\ u \in members[r] /\ port \in Published(r).ports
    BY DEF Servers
  <2>3. u \in Units /\ Ready(leader, r) /\ Published(r) = RouteData(r, c)
    BY <2>1, <2>2, SettledRoutes
  <2>4. /\ conf[u].base = c.base /\ conf[u].workers = c.workers
        /\ SetPorts[FALSE][config] \subseteq opened[u]
        /\ SetPorts[TRUE][config] \subseteq opened[leader]
    BY <2>3, SettledRoutes
  <2>5. port \in PortsOf(c.base, c.workers, ServiceOf(r))
    BY <2>1, <2>2, <2>3, RoutePorts
  <2>6. port \in opened[u]
    <3>1. CASE ServiceOf(r) \in WorkerServices \cup c.grpc
      <4>1. port \in SetPorts[FALSE][config]
        BY <2>1, <2>5, <3>1 DEF SetPorts
      <4> QED BY <2>4, <4>1
    <3>2. CASE ServiceOf(r) \notin WorkerServices \cup c.grpc
      <4>1. r = "package-upload"
        BY <2>1, <2>3, <3>2
        DEF Ready, Routes, HttpRoutes, WorkerServices, GrpcServices, ServiceOf
      <4>2. u = leader
        BY <4>1
      <4>3. port \in {c.base["package-upload"] + i : i \in {0}}
        BY <2>5, <4>1 DEF PortsOf, Workers, ServiceOf, WorkerServices
      <4>4. c.base["package-upload"] \in Int
        BY <2>1, ConfigAssumption DEF ConfigType, Services, SingleServices
      <4>5. port = c.base["package-upload"]
        BY <4>3, <4>4
      <4>6. port \in SetPorts[TRUE][config]
        BY <2>1, <4>5 DEF SetPorts
      <4> QED BY <2>4, <4>2, <4>6
    <3> QED BY <3>1, <3>2
  <2> QED BY <2>4, <2>5, <2>6
<1> QED BY RestInvariant, <1>1, PTL

\* Once all is settled, the library's validation at HAProxy's end
\* (relation_ids_with_invalid_data) excludes no route but the gRPC routes that the leader
\* is not ready for; every HTTP route has all units that know of the leader, and a gRPC
\* route those that are ready for it.
THEOREM RoutesAlwaysAccepted == Spec => []RoutesAccepted
<1>1. TypeOK /\ RestInv => RoutesAccepted
  <2> SUFFICES ASSUME TypeOK, RestInv, Settled, NEW r \in related
               PROVE  LET ready == {u \in Units : \/ r \in HttpRoutes
                                                  \/ r \in tls[u] \cap Options[config].grpc}
                      IN  /\ members[r] \cap knows = ready \cap knows
                          /\ r \in InvalidRelations <=> leader \notin ready
    BY DEF RoutesAccepted
  <2>1. knows \subseteq Units /\ leader \in Units
    BY DEF TypeOK
  <2>2. /\ \A u \in knows : u \in members[r] <=> Ready(u, r)
        /\ r \in InvalidRelations <=> ~Ready(leader, r)
    BY SettledRoutes
  <2> QED BY <2>1, <2>2 DEF Ready
<1> QED BY RestInvariant, <1>1, PTL

\* The route whose service the legacy haproxy would choose for a path.
RouteTo(path) == IF path = "/repository" THEN "repository" ELSE BackendService(Backend(path))

\* Its paths, and what the appserver's route denies, leave it the only one.
LEMMA OneRouteTakes ==
  ASSUME NEW path \in RequestPaths
  PROVE  /\ RouteTo(path) \in HttpRoutes /\ ServiceOf(RouteTo(path)) = BackendService(Backend(path))
         /\ \A r \in HttpRoutes :
              r = RouteTo(path) <=>
                /\ \E prefix \in OwnPaths(r) : Under(path, prefix)
                /\ ~ \E prefix \in DenyPaths(r) : Under(path, prefix)
<1>1. path \in {"/", "/hash-id-databases", "/ping", "/message-system", "/attachment",
                "/api", "/upload", "/repository", "/metrics"}
  BY DEF RequestPaths
<1>2. HttpRoutes = {"appserver", "pingserver", "message-server", "api", "package-upload",
                    "repository"}
  BY DEF HttpRoutes, WorkerServices
<1>3. RouteTo(path) = CASE path \in {"/message-system", "/attachment"} -> "message-server"
                        [] path = "/api"        -> "api"
                        [] path = "/ping"       -> "pingserver"
                        [] path = "/upload"     -> "package-upload"
                        [] path = "/repository" -> "repository"
                        [] OTHER                -> "appserver"
  BY <1>1 DEF RouteTo, Backend, BackendService
<1>4. RouteTo(path) \in HttpRoutes /\ ServiceOf(RouteTo(path)) = BackendService(Backend(path))
  BY <1>1, <1>2, <1>3 DEF ServiceOf, Backend, BackendService
<1>5. ASSUME NEW r \in HttpRoutes
      PROVE  r = RouteTo(path) <=>
               /\ \E prefix \in OwnPaths(r) : Under(path, prefix)
               /\ ~ \E prefix \in DenyPaths(r) : Under(path, prefix)
  <2>1. CASE r = "appserver"
    BY <1>1, <1>3, <2>1 DEF OwnPaths, DenyPaths, Under
  <2>2. CASE r # "appserver"
    <3>1. DenyPaths(r) = {}
      BY <2>2 DEF DenyPaths
    <3>2. (\E prefix \in OwnPaths(r) : Under(path, prefix)) <=> path \in OwnPaths(r)
      BY <1>2, <2>2 DEF OwnPaths, Under
    <3>3. path \in OwnPaths(r) <=> r = RouteTo(path)
      BY <1>1, <1>2, <1>3, <2>2 DEF OwnPaths
    <3> QED BY <3>1, <3>2, <3>3
  <2> QED BY <2>1, <2>2
<1> QED BY <1>4, <1>5

\* Once all is settled, a request is taken by one route; unless the legacy haproxy
\* denies its path (/metrics), it is the route of the service that it would choose, with
\* the same redirect to HTTPS, and with the default ports the same ports of every unit
\* that it has servers on (src/haproxy.py).
THEOREM AlwaysSameAsLegacyHaproxy == Spec => []SameAsLegacyHaproxy
<1>1. TypeOK /\ RestInv => SameAsLegacyHaproxy
  <2> SUFFICES ASSUME TypeOK, RestInv, Settled, HttpRoutes \subseteq related,
                      NEW path \in RequestPaths
               PROVE  LET r == RouteTo(path)
                      IN  /\ r \in HttpRoutes
                          /\ Taking(path) = {r}
                          /\ ServiceOf(r) = BackendService(Backend(path))
                          /\ path \notin Denied =>
                               Published(r).allowHttp =
                                 ~RedirectsToHttps(Options[config].redirect, path)
                          /\ Options[config].base = LegacyPorts =>
                               \A u : u = leader \/ Backend(path) \notin LeaderOnly =>
                                 Published(r).ports
                                   = LegacyServers(Options[config].workers, u = leader, path)
    BY DEF SameAsLegacyHaproxy
  <2> DEFINE r == RouteTo(path)
             c == Options[config]
  <2>1. config \in Accepted /\ config \in Configs
    BY SettledRoutes
  <2>2. \A s \in HttpRoutes : s \notin InvalidRelations /\ Published(s) = HttpRoute(s, c)
    <3>1. \A s \in HttpRoutes : s \notin InvalidRelations
      BY SettledRoutes DEF Ready
    <3> QED BY <3>1, SettledRoutes DEF RouteData
  <2>3. r \in HttpRoutes /\ ServiceOf(r) = BackendService(Backend(path)) /\ r \in Routes
    BY OneRouteTakes DEF Routes
  <2>4. \A s \in HttpRoutes : Published(s).paths = OwnPaths(s) /\ Published(s).deny = DenyPaths(s)
    BY <2>2 DEF HttpRoute
  <2>5. Taking(path) = {r}
    BY <2>2, <2>3, <2>4, OneRouteTakes DEF Taking
  <2>6. Published(r).allowHttp = ~RedirectsToHttps(c.redirect, path)
    <3>1. c.redirect \in Redirects
      BY <2>1 DEF Accepted, Accepts
    <3>2. r \in {"pingserver", "repository"} <=> path \in {"/ping", "/repository"}
      BY DEF RouteTo, Backend, BackendService
    <3>3. Published(r).allowHttp = AllowHttp(r, c.redirect)
      BY <2>2, <2>3 DEF HttpRoute
    <3> QED BY <3>1, <3>2, <3>3 DEF AllowHttp, RedirectsToHttps, Redirects
  <2>7. c.base = LegacyPorts =>
          \A u : u = leader \/ Backend(path) \notin LeaderOnly =>
            Published(r).ports = LegacyServers(c.workers, u = leader, path)
    BY <2>2, <2>3 DEF HttpRoute, LegacyServers
  <2> QED BY <2>3, <2>5, <2>6, <2>7
<1> QED BY RestInvariant, <1>1, PTL

================================================================================
