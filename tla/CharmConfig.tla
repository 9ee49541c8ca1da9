------------------------------ MODULE CharmConfig ------------------------------
(***************************************************************************)
(* The charm's configuration (src/src/config.py): which options            *)
(* LandscapeCharmConfiguration accepts, the ports they give the services,  *)
(* and what config-changed makes of them in service.conf.                  *)
(***************************************************************************)
EXTENDS Integers, FiniteSets

CONSTANTS
  Configs,  \* names of the configurations the operator may set
  Options,  \* their options
  Default   \* the one that config.yaml gives: DEFAULT_CONFIGURATION

\* Services that run worker_counts processes on consecutive ports, and the others.
WorkerServices == {"appserver", "pingserver", "message-server", "api"}
GrpcServices   == {"hostagent-messenger", "ubuntu-installer-attach"}
SingleServices == {"package-upload"} \cup GrpcServices
Services       == WorkerServices \cup SingleServices

\* The routes with options for health checks and timeouts.
HttpRoutes == WorkerServices \cup {"package-upload", "repository"}

OpenId       == {"openid_provider_url", "openid_logout_url"}
OidcRequired == {"oidc_issuer", "oidc_client_id", "oidc_client_secret"}
Oidc         == OidcRequired \cup {"oidc_logout_url"}

Redirects  == {"all", "none", "default"}
CheckPaths == {"none", "absolute", "relative", "spaced"}

\* root: what the host of root_url is, "unparsable" if urlparse raises; grpc: the gRPC services that are enabled;
\* check: the paths of the health checks; signOn: the OpenID and OIDC options that
\* are set.
ConfigType ==
  [workers : Int, base : [Services -> Int],
   redirect : STRING, root : {"none", "domain", "address", "unparsable"}, grpc : SUBSET GrpcServices,
   check : [HttpRoutes -> CheckPaths], timeout : [HttpRoutes -> Int],
   signOn : SUBSET (OpenId \cup Oidc), minInstall : BOOLEAN, mode : STRING]

--------------------------------------------------------------------------------
(***************************************************************************)
(* Ports.                                                                  *)
(***************************************************************************)

Workers(workers, s) == IF s \in WorkerServices THEN 0..(workers - 1) ELSE {0}

PortsOf(base, workers, s) == {base[s] + i : i \in Workers(workers, s)}

\* The processes of all services, as service and number.
Processes(c) == UNION {{s} \X Workers(c.workers, s) : s \in Services}

Binding(c, port) == {p \in Processes(c) : c.base[p[1]] + p[2] = port}

\* Mutant: two processes may share a port.
OverusedPortsLax(c) ==
  {port \in UNION {PortsOf(c.base, c.workers, s) : s \in Services} :
     Cardinality(Binding(c, port)) > 2}

\* haproxy_backend_port_validation.
OverusedPorts(c) ==
  {port \in UNION {PortsOf(c.base, c.workers, s) : s \in Services} :
     Cardinality(Binding(c, port)) > 1}

--------------------------------------------------------------------------------
(***************************************************************************)
(* The validators.                                                         *)
(***************************************************************************)

Neither(options, set) == options \cap set = {}
AllOrNone(options, set) == set \subseteq options \/ Neither(options, set)

\* openid_oidc_exclusive, openid_minimum_fields, oidc_minimum_fields.
SignOnAccepted(c) ==
  /\ Neither(OpenId, c.signOn) \/ Neither(Oidc, c.signOn)
  /\ AllOrNone(c.signOn, OpenId)
  /\ AllOrNone(c.signOn, OidcRequired)

\* check_deployment_mode_min_install.
MinInstallAccepted(c) == c.minInstall => c.mode = "standalone"

\* HealthCheck: an empty path switches the check off.
HealthCheckAccepted(path) == path \in {"none", "absolute"}

\* Mutant: a timeout of 0 is accepted.
TimeoutAcceptedFromZero(seconds) == seconds >= 0

\* Timeouts.
TimeoutAccepted(seconds) == seconds >= 1

\* Neither root_url nor the range of a port is looked at.
Accepts(c) ==
  /\ c.redirect \in Redirects
  /\ \A r \in HttpRoutes : HealthCheckAccepted(c.check[r]) /\ TimeoutAccepted(c.timeout[r])
  /\ SignOnAccepted(c)
  /\ MinInstallAccepted(c)
  /\ OverusedPorts(c) = {}

Accepted == {n \in Configs : Accepts(Options[n])}

ASSUME ConfigAssumption ==
  /\ Options \in [Configs -> ConfigType]
  /\ Default \in Accepted
  /\ 1 <= Options[Default].workers

\* self.charm_config: an invalid configuration is replaced by the defaults.
InForce(n) == IF n \in Accepted THEN n ELSE Default

--------------------------------------------------------------------------------
(***************************************************************************)
(* What config-changed writes to service.conf.                             *)
(***************************************************************************)

ServiceConfType == [base : [Services -> Int], workers : Int, signOn : SUBSET (OpenId \cup Oidc)]

\* As the package ships it.
ShippedConf == [base |-> Options[Default].base, workers |-> 1, signOn |-> {}]

\* _configure_openid, _configure_oidc: nothing if the option that decides is unset.
SignOnWritten(c) ==
  {o \in c.signOn : \/ o \in OpenId /\ "openid_provider_url" \in c.signOn
                    \/ o \in Oidc /\ "oidc_issuer" \in c.signOn}

\* update_service_conf only adds to the file.  Left out: additional_service_config,
\* which may put any other ports over these.
ServiceConf(old, c) ==
  [base |-> c.base, workers |-> c.workers, signOn |-> old.signOn \cup SignOnWritten(c)]

================================================================================
