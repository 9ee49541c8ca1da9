-------------------------------- MODULE GrpcTls --------------------------------
(***************************************************************************)
(* TLS for the two gRPC services of one unit, hostagent-messenger and      *)
(* ubuntu-installer-attach (src/src/charm.py, src/src/settings_files.py):  *)
(* the certificate they share, the files and the service.conf settings     *)
(* that make them serve it, the restarts, and the HTTPS routes published   *)
(* to haproxy, which re-encrypts to them.                                  *)
(*                                                                         *)
(* A hook that synchronises TLS is a sequence of steps, because it can     *)
(* fail between two of them: what it wrote to the machine stays, its       *)
(* databag writes are lost, and Juju runs it again.                        *)
(***************************************************************************)
EXTENDS Naturals, Sequences

CONSTANTS
  Hosts,        \* the host names the certificate may be requested for
  UnitHost,     \* the one of them that is the unit's own address
  Certs,        \* the certificates the provider may issue
  None,         \* no host, no certificate
  Plain,        \* what a service serves without TLS
  Stopped,      \* what a service serves when it does not run
  Configs,      \* the configurations the operator may set
  Servers,      \* sets of services: whose TLS settings the server may support
  Lsctl,        \* the services that lsctl starts, stops and restarts
  MaxReconfigures, MaxBreaks, MaxRenewals, MaxPauses,  \* bounds: environment
  MaxCrashes,   \* bound: how many hooks fail half-way
  MaxErrors,    \* bound: how many writes, restarts, pauses and resumes fail
  MaxCuts       \* bound: how many config-changed hooks return early

Services == {"hostagent-messenger", "ubuntu-installer-attach"}

\* _sync_grpc_tls takes the services in this order.
SyncOrder == <<"ubuntu-installer-attach", "hostagent-messenger">>

\* valid: the configuration passes LandscapeCharmConfiguration; enabled: the
\* services whose enable_ option is set; host: what the certificate is for.
ConfigType == [valid : BOOLEAN, enabled : SUBSET Services, host : Hosts]

ASSUME ConstantsAssumption ==
  /\ UnitHost \in Hosts /\ Configs \subseteq ConfigType
  /\ Servers \subseteq SUBSET Services /\ Lsctl \subseteq Services
  /\ None \notin Certs \cup Hosts /\ {Plain, Stopped} \cap (Certs \cup {None}) = {}
  /\ {MaxReconfigures, MaxBreaks, MaxRenewals, MaxPauses, MaxCrashes, MaxErrors,
      MaxCuts} \subseteq Nat

VARIABLES
  config,     \* the application's configuration
  supporting, \* the services whose TLS settings the installed server keeps
  installed,  \* _stored.enable_ubuntu_installer_attach
  paused,     \* _stored.paused
  related,    \* the certificates relation is active
  asked,      \* the host of the certificate request in the relation, or None
  assigned,   \* the certificate the provider has issued for it, or None
  files,      \* per service, the certificate in server.crt, or None
  settings,   \* the services whose section of service.conf names the TLS files
  serves,     \* per service, what the running process serves
  early,      \* history: ubuntu-installer-attach was started by its package on a
              \* paused unit, and has been neither stopped nor restarted since
  routes,     \* the services whose HTTPS route is published
  pending,    \* the hooks Juju has yet to run
  hook,       \* the hook that is running, or "none"
  failed,     \* the hook that failed and that Juju will run next, or "none"
  todo,       \* the services it has yet to synchronise
  step,       \* how far the first of them is
  changed,    \* the changed flag of the first of them
  cut,        \* the last config-changed returned early
  faults      \* how often the operator reconfigured, and so on

relation == <<related, asked, assigned>>
processes == <<serves, early>>
machine  == <<files, settings, processes>>
progress == <<hook, failed, todo, step, changed>>
vars == <<config, supporting, installed, paused, relation, machine, routes,
          pending, progress, cut, faults>>

HookNames == {"config-changed", "certificate-available", "certificates-broken"}
Queues == {<<>>, <<"hostagent-messenger">>, SyncOrder}
Steps == {"decide", "cleared", "written", "restart"}
FaultNames == {"reconfigures", "breaks", "renewals", "pauses", "crashes", "errors",
               "cuts"}

Init ==
  /\ config \in Configs
  /\ supporting \in Servers
  /\ installed = FALSE
  /\ paused = FALSE
  /\ related \in BOOLEAN
  /\ asked = None
  /\ assigned = None
  /\ files = [s \in Services |-> None]
  /\ settings = {}
  /\ serves = [s \in Services |->
                 IF s = "hostagent-messenger" THEN Plain ELSE Stopped]
  /\ early = FALSE
  /\ routes = {}
  /\ pending = {"config-changed"}
  /\ hook = "none"
  /\ failed = "none"
  /\ todo = <<>>
  /\ step = "decide"
  /\ changed = FALSE
  /\ cut = FALSE
  /\ faults = [what \in FaultNames |-> 0]

Idle == hook = "none"
MayRun(h) == Idle /\ failed \in {"none", h}
Count(what, max) == faults[what] < max /\ faults' = [faults EXCEPT ![what] = @ + 1]

--------------------------------------------------------------------------------
(***************************************************************************)
(* What the charm reads.                                                   *)
(***************************************************************************)

\* The services charm_config enables: none by default, so none when the
\* configuration is invalid and DEFAULT_CONFIGURATION stands in for it.
EnabledByConfig == IF config.valid THEN config.enabled ELSE {}

\* _stored.enable_ubuntu_installer_attach as the running hook sees it:
\* config-changed sets it before it synchronises TLS.
InstallerOn == IF hook = "config-changed"
               THEN "ubuntu-installer-attach" \in EnabledByConfig ELSE installed

\* _ubuntu_installer_attach_tls_wanted, _hostagent_messenger_tls_wanted
Wanted(s) == s \in EnabledByConfig /\ related

\* Whether _sync_grpc_tls restarts the service.
Enabled(s) == IF s = "ubuntu-installer-attach" THEN InstallerOn
                                               ELSE s \in EnabledByConfig

\* _get_certificate_requests: one request, for the host of root_url or the unit.
Request == IF InstallerOn \/ "hostagent-messenger" \in EnabledByConfig
           THEN IF config.valid THEN config.host ELSE UnitHost ELSE None

\* _grpc_tls_material: the certificate assigned to the request, if there is one.
TlsMaterial ==
  IF related /\ Request # None /\ asked = Request THEN assigned ELSE None

\* What a service serves when it starts.
ServesNow(s) == IF s \in settings THEN files[s] ELSE Plain

\* Mutant: an assigned certificate is enough for either route.
RoutesByMaterial == {s \in Services : Wanted(s) /\ TlsMaterial # None}

\* _provide_all_haproxy_route_requirements: hostagent-messenger has its route
\* when service.conf has the TLS settings, ubuntu-installer-attach when a
\* certificate is assigned.
RoutesNow ==
  {s \in Services : Wanted(s) /\ IF s = "hostagent-messenger"
                                 THEN s \in settings ELSE TlsMaterial # None}

\* The certificates library drops a request that is no longer made, and with it
\* the certificate, and makes the new one.
Ask == /\ asked' = IF related THEN Request ELSE None
       /\ assigned' = IF asked' = asked THEN assigned ELSE None
       /\ UNCHANGED related

--------------------------------------------------------------------------------
(***************************************************************************)
(* The environment, between hooks.                                         *)
(***************************************************************************)

OperatorConfigures ==
  /\ Idle /\ Count("reconfigures", MaxReconfigures)
  /\ config' \in Configs \ {config}
  /\ pending' = pending \cup {"config-changed"}
  /\ UNCHANGED <<supporting, installed, paused, relation, machine, routes,
                 progress, cut>>

\* The library requests the certificate as soon as it is related.
CertificatesRelated ==
  /\ MayRun("relation-created") /\ ~related
  /\ related' = TRUE
  /\ asked' = Request
  /\ assigned' = None
  /\ UNCHANGED <<config, supporting, installed, paused, machine, routes, pending,
                 progress, cut, faults>>

ProviderIssues ==
  /\ Idle /\ related /\ asked # None /\ assigned = None
  /\ assigned' \in Certs \ {files[s] : s \in Services}
  /\ pending' = pending \cup {"certificate-available"}
  /\ UNCHANGED <<config, supporting, installed, paused, related, asked, machine,
                 routes, progress, cut, faults>>

\* The certificate nears its end: the library makes a new request for the same host.
CertificateRenewed ==
  /\ Idle /\ assigned # None /\ Count("renewals", MaxRenewals)
  /\ assigned' = None
  /\ pending' = pending \ {"certificate-available"}
  /\ UNCHANGED <<config, supporting, installed, paused, related, asked, machine,
                 routes, progress, cut>>

--------------------------------------------------------------------------------
(***************************************************************************)
(* Hooks and actions that do not synchronise TLS.                          *)
(***************************************************************************)

\* A route, leadership or peer hook publishes or withdraws the routes.
OtherHook ==
  /\ MayRun("haproxy-route-changed")
  /\ routes' = RoutesNow
  /\ UNCHANGED <<config, supporting, installed, paused, relation, machine,
                 pending, progress, cut, faults>>

\* lsctl stop, of the services in S.
LsctlStops(S) ==
  /\ serves' = [s \in Services |-> IF s \in S THEN Stopped ELSE serves[s]]
  /\ early' = (early /\ "ubuntu-installer-attach" \notin S)

\* lsctl restart, of what is installed.
LsctlRestarts ==
  /\ serves' = [s \in Services |->
       IF s \in Lsctl /\ (s = "ubuntu-installer-attach" => InstallerOn)
       THEN ServesNow(s) ELSE serves[s]]
  /\ early' = (early /\ ~(InstallerOn /\ "ubuntu-installer-attach" \in Lsctl))

\* lsctl start, of what is installed; a service that runs is left as it is.
LsctlStarts ==
  /\ serves' = [s \in Services |->
       IF /\ s \in Lsctl /\ serves[s] = Stopped
          /\ s = "ubuntu-installer-attach" => InstallerOn
       THEN ServesNow(s) ELSE serves[s]]
  /\ UNCHANGED early

ActionLeaves == UNCHANGED <<config, supporting, installed, relation, files, settings,
                            routes, pending, progress, cut>>

Pause ==
  /\ Idle /\ Count("pauses", MaxPauses)
  /\ paused' = TRUE
  /\ LsctlStops(Lsctl)
  /\ ActionLeaves

\* lsctl stops only some services, or all of them before the outbox snap fails.
PauseFails ==
  /\ Idle /\ Count("errors", MaxErrors)
  /\ \E S \in SUBSET Lsctl : LsctlStops(S)
  /\ ActionLeaves /\ UNCHANGED paused

Resume ==
  /\ Idle
  /\ paused' = FALSE
  /\ LsctlStarts
  /\ ActionLeaves /\ UNCHANGED faults

\* The services start and the outbox snap fails, or lsctl does, and what it may have
\* started is to be stopped again: paused says what it said before.
ResumeFails ==
  /\ Idle /\ Count("errors", MaxErrors)
  /\ LsctlStarts \/ \E S \in SUBSET Lsctl : LsctlStops(S)
  /\ ActionLeaves /\ UNCHANGED paused

--------------------------------------------------------------------------------
(***************************************************************************)
(* The hooks that synchronise TLS.                                         *)
(***************************************************************************)

\* config-changed: the ubuntu-installer-attach package is installed or removed when
\* the option has changed, and its service started or stopped with it.
ConfigChanged ==
  /\ MayRun("config-changed") /\ "config-changed" \in pending /\ config.valid
  /\ hook' = "config-changed"
  /\ todo' = SyncOrder
  /\ LET on == "ubuntu-installer-attach" \in config.enabled
         starts == ~installed /\ on /\ serves["ubuntu-installer-attach"] = Stopped
     IN  /\ serves' = [serves EXCEPT !["ubuntu-installer-attach"] =
              IF installed /\ ~on THEN Stopped
              ELSE IF starts THEN ServesNow("ubuntu-installer-attach") ELSE @]
         /\ early' = (~(installed /\ ~on) /\ IF starts THEN paused ELSE early)
  /\ failed' = "none"
  /\ UNCHANGED <<config, supporting, installed, paused, relation, files, settings,
                 routes, pending, step, changed, cut, faults>>

\* It returns before that: the configuration is invalid, or the outbox snap or the
\* package has failed.  The library's own handler runs all the same.
ConfigChangedEarlyReturn ==
  /\ MayRun("config-changed") /\ "config-changed" \in pending
  /\ \/ ~config.valid /\ UNCHANGED faults
     \/ config.valid /\ Count("cuts", MaxCuts)
  /\ Ask
  /\ pending' = pending \ {"config-changed"}
  /\ cut' = TRUE
  /\ failed' = "none"
  /\ UNCHANGED <<config, supporting, installed, paused, machine, routes, hook,
                 todo, step, changed>>

CertificateAvailable ==
  /\ MayRun("certificate-available") /\ "certificate-available" \in pending
  /\ failed' = "none"
  /\ IF TlsMaterial # None
       THEN /\ hook' = "certificate-available"
            /\ todo' = SyncOrder
            /\ UNCHANGED <<step, changed, pending>>
       ELSE pending' = pending \ {"certificate-available"}
            /\ UNCHANGED <<hook, todo, step, changed>>
  /\ UNCHANGED <<config, supporting, installed, paused, relation, machine, routes,
                 cut, faults>>

\* The relation is not active while its broken event is handled.
CertificatesRelationBroken ==
  /\ MayRun("certificates-broken")
  /\ \/ related /\ Count("breaks", MaxBreaks)
     \/ "certificates-broken" \in pending /\ UNCHANGED faults
  /\ related' = FALSE
  /\ asked' = None
  /\ assigned' = None
  /\ pending' = (pending \ {"certificate-available"}) \cup {"certificates-broken"}
  /\ hook' = "certificates-broken"
  /\ todo' = SyncOrder
  /\ failed' = "none"
  /\ UNCHANGED <<config, supporting, installed, paused, machine, routes, step,
                 changed, cut>>

--------------------------------------------------------------------------------
(***************************************************************************)
(* _sync_grpc_tls, for the first service in todo.                          *)
(***************************************************************************)

Syncing(at) == todo # <<>> /\ step = at
Service == Head(todo)
Within == UNCHANGED <<config, supporting, installed, paused, relation, routes,
                      pending, hook, failed, cut>>

NextService == /\ todo' = Tail(todo)
               /\ step' = "decide"
               /\ changed' = FALSE
At(s, ch) == step' = s /\ changed' = ch /\ UNCHANGED todo

\* Mutant: the files are removed under a service.conf that names them.
KeepSettings ==
  /\ Syncing("decide") /\ ~Wanted(Service)
  /\ At("cleared", Service \in settings)
  /\ Within /\ UNCHANGED <<machine, faults>>

\* _remove_grpc_server_tls points service.conf away from the files ...
PointAway ==
  /\ Syncing("decide") /\ ~Wanted(Service)
  /\ settings' = settings \ {Service}
  /\ At("cleared", Service \in settings)
  /\ Within /\ UNCHANGED <<files, processes, faults>>

\* ... and then removes them.
RemoveFiles ==
  /\ Syncing("cleared")
  /\ files' = [files EXCEPT ![Service] = None]
  /\ At("restart", changed)
  /\ Within /\ UNCHANGED <<settings, processes, faults>>

\* Mutant: without a certificate the TLS settings are withdrawn.
WithdrawCertificate ==
  /\ Syncing("decide") /\ Wanted(Service) /\ TlsMaterial = None
  /\ settings' = settings \ {Service}
  /\ At("cleared", Service \in settings)
  /\ Within /\ UNCHANGED <<files, processes, faults>>

\* Until a certificate is issued the service is left as it is.
AwaitCertificate ==
  /\ Syncing("decide") /\ Wanted(Service) /\ TlsMaterial = None
  /\ NextService
  /\ Within /\ UNCHANGED <<machine, faults>>

\* Mutant: only the settings count as a change.
WriteFilesQuietly ==
  /\ Syncing("decide") /\ Wanted(Service) /\ TlsMaterial # None
  /\ files' = [files EXCEPT ![Service] = TlsMaterial]
  /\ At("written", FALSE)
  /\ Within /\ UNCHANGED <<settings, processes, faults>>

\* _write_grpc_server_tls writes the files ...
WriteFiles ==
  /\ Syncing("decide") /\ Wanted(Service) /\ TlsMaterial # None
  /\ files' = [files EXCEPT ![Service] = TlsMaterial]
  /\ At("written", files[Service] # TlsMaterial)
  /\ Within /\ UNCHANGED <<settings, processes, faults>>

\* ... and points service.conf at them, unless it already does.  A server that
\* cannot serve TLS drops the settings again, and then the files go too.
PointAtFiles ==
  /\ Syncing("written")
  /\ IF Service \in settings
     THEN At("restart", changed) /\ UNCHANGED <<files, settings>>
     ELSE IF Service \in supporting
     THEN /\ At("restart", TRUE)
          /\ settings' = settings \cup {Service}
          /\ UNCHANGED files
     ELSE /\ At("restart", FALSE)
          /\ files' = [files EXCEPT ![Service] = None]
          /\ UNCHANGED settings
  /\ Within /\ UNCHANGED <<processes, faults>>

\* An OSError or ServiceConfMissing: the unit is blocked and the next service has
\* its turn.
WriteFails ==
  /\ \/ Syncing("decide") /\ ~Wanted(Service) /\ Service \in settings
     \/ Syncing("decide") /\ Wanted(Service) /\ TlsMaterial # None
     \/ Syncing("written")
  /\ Count("errors", MaxErrors)
  /\ NextService
  /\ Within /\ UNCHANGED machine

Due == changed /\ Enabled(Service) /\ ~paused

Restart ==
  /\ Syncing("restart")
  /\ serves' = [serves EXCEPT ![Service] = IF Due THEN ServesNow(Service) ELSE @]
  /\ early' = (early /\ ~(Due /\ Service = "ubuntu-installer-attach"))
  /\ NextService
  /\ Within /\ UNCHANGED <<files, settings, faults>>

\* A restart that fails is logged.
RestartFails ==
  /\ Syncing("restart") /\ Due
  /\ Count("errors", MaxErrors)
  /\ NextService
  /\ Within /\ UNCHANGED machine

SyncGrpcTls == \/ PointAway \/ RemoveFiles \/ AwaitCertificate \/ WriteFiles
               \/ PointAtFiles \/ WriteFails \/ Restart \/ RestartFails

--------------------------------------------------------------------------------
(***************************************************************************)
(* A hook that has synchronised TLS ends.                                  *)
(***************************************************************************)

Returns(h) == /\ hook = h /\ todo = <<>>
              /\ hook' = "none"
              /\ pending' = pending \ {h}
              /\ UNCHANGED <<config, supporting, paused, files, settings, failed,
                             todo, step, changed>>

\* config-changed: _update_ready_status restarts the services of a unit that is
\* ready and not paused, the routes are published, and the library asks for the
\* certificate that is wanted now.
ConfigChangedReturns ==
  /\ Returns("config-changed")
  /\ installed' = InstallerOn
  /\ \/ ~paused /\ LsctlRestarts
     \/ UNCHANGED processes
  /\ routes' = RoutesNow
  /\ Ask
  /\ cut' = FALSE
  /\ UNCHANGED faults

\* The database's schema could not be migrated: the rest is skipped.
ConfigChangedCut ==
  /\ Returns("config-changed")
  /\ Count("cuts", MaxCuts)
  /\ installed' = InstallerOn
  /\ Ask
  /\ cut' = TRUE
  /\ UNCHANGED <<processes, routes>>

CertificatesHookReturns ==
  /\ \E h \in {"certificate-available", "certificates-broken"} : Returns(h)
  /\ routes' = RoutesNow
  /\ UNCHANGED <<installed, relation, processes, cut, faults>>

\* The hook raises or is killed; Juju will run it again, before any other.
HookFails ==
  /\ ~Idle /\ Count("crashes", MaxCrashes)
  /\ hook' = "none"
  /\ failed' = hook
  /\ todo' = <<>>
  /\ step' = "decide"
  /\ changed' = FALSE
  /\ UNCHANGED <<config, supporting, installed, paused, relation, machine, routes,
                 pending, cut>>

Environment == \/ OperatorConfigures \/ CertificatesRelated \/ ProviderIssues
               \/ CertificateRenewed

Next ==
  \/ Environment
  \/ OtherHook \/ Pause \/ PauseFails \/ Resume \/ ResumeFails
  \/ ConfigChanged \/ ConfigChangedEarlyReturn
  \/ CertificateAvailable \/ CertificatesRelationBroken
  \/ SyncGrpcTls
  \/ ConfigChangedReturns \/ ConfigChangedCut \/ CertificatesHookReturns
  \/ HookFails

Spec == Init /\ [][Next]_vars

--------------------------------------------------------------------------------
(***************************************************************************)
(* Properties.                                                             *)
(***************************************************************************)

\* Every variable has its type: what Juju, the files and the hooks may hold.
TypeOK ==
  /\ config \in ConfigType /\ supporting \subseteq Services
  /\ installed \in BOOLEAN /\ paused \in BOOLEAN /\ related \in BOOLEAN
  /\ early \in BOOLEAN /\ changed \in BOOLEAN /\ cut \in BOOLEAN
  /\ asked \in Hosts \cup {None} /\ assigned \in Certs \cup {None}
  /\ files \in [Services -> Certs \cup {None}]
  /\ settings \subseteq Services /\ routes \subseteq Services
  /\ serves \in [Services -> Certs \cup {Plain, Stopped}]
  /\ pending \subseteq HookNames /\ hook \in HookNames \cup {"none"}
  /\ failed \in HookNames \cup {"none"}
  /\ todo \in Queues /\ step \in Steps
  /\ faults \in [FaultNames -> Nat]

\* No hook runs or has to be run.
Rest == Idle /\ pending = {}

\* service.conf never names TLS files that are not there, wherever a hook fails:
\* the service would not start (_write_grpc_server_tls, _remove_grpc_server_tls).
SettingsHaveFiles == \A s \in settings : files[s] # None

\* "A certificate being renewed keeps being served until its replacement arrives"
\* (_sync_grpc_tls): no step takes TLS away from a service that wants it.
ServedUntilReplaced ==
  [][ \A s \in Services :
        Wanted(s)' /\ Wanted(s) =>
          /\ s \in settings => s \in settings'
          /\ s \in settings /\ serves[s] \in Certs
               => serves'[s] \in Certs \cup {Stopped} ]_vars

\* Once every hook has run, the route of hostagent-messenger is published only
\* with the TLS settings in service.conf, also after a hook has failed between
\* changing them and publishing; an early return of config-changed is excepted.
RouteNeedsSettings ==
  Rest /\ ~cut /\ "hostagent-messenger" \in routes =>
    "hostagent-messenger" \in settings

\* Once every hook has run, and no hook, write, restart, pause or resume has failed,
\* the services that run and want TLS serve the certificate that was issued last, also
\* after a pause if lsctl starts them (_on_certificate_available, _resume).  Excepted is
\* ubuntu-installer-attach if its package started it on a paused unit: lsctl start
\* leaves it with what it loaded then.
NewestServed ==
  Rest /\ ~cut /\ ~paused /\ TlsMaterial # None
  /\ faults.crashes + faults.errors = 0 =>
    \A s \in supporting \cap Lsctl :
      Wanted(s) /\ serves[s] # Stopped /\ ~(early /\ s = "ubuntu-installer-attach")
        => serves[s] = TlsMaterial

(***************************************************************************)
(* What comments say of the program, and a run refutes.                    *)
(***************************************************************************)

\* "Whether hostagent-messenger serves TLS, so haproxy can re-encrypt to it"
\* (_hostagent_messenger_tls_serving): once every hook has run, its route is not
\* published for a process that serves plaintext.
RouteServesTls ==
  Rest /\ ~cut /\ "hostagent-messenger" \in routes =>
    serves["hostagent-messenger"] # Plain
================================================================================
