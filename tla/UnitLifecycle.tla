----------------------------- MODULE UnitLifecycle -----------------------------
(***************************************************************************)
(* One unit of the Landscape Server charm (src/src/charm.py): the hooks    *)
(* and actions that decide its workload status and start and stop its      *)
(* services.                                                               *)
(*                                                                         *)
(* Juju runs one hook at a time on a unit.  A hook works on a copy of the  *)
(* charm's StoredState (here cur) that replaces the stored one only if the *)
(* hook returns; a hook that raises or is killed is run again from the old *)
(* StoredState, while what it did to the machine (services) and the status *)
(* it set are not undone.                                                  *)
(***************************************************************************)

CONSTANT Configs   \* the charm configurations the operator may set

(***************************************************************************)
(* A configuration, reduced to what the handlers branch on.  valid: it     *)
(* passes LandscapeCharmConfiguration; db: a db_* option is set; demo:     *)
(* demo data is wanted in standalone mode; license: a license file is      *)
(* given; sso: OpenID or OIDC is configured; gpg: a GPG secret is named;   *)
(* cert: an SSL certificate is given.                                      *)
(***************************************************************************)
ConfigType == [valid : BOOLEAN, db : BOOLEAN, demo : BOOLEAN,
               license : BOOLEAN, sso : BOOLEAN, gpg : BOOLEAN, cert : BOOLEAN]

\* DEFAULT_CONFIGURATION, which replaces an invalid configuration.
DefaultConfig == [valid |-> TRUE, db |-> FALSE, demo |-> FALSE,
                  license |-> FALSE, sso |-> FALSE, gpg |-> FALSE, cert |-> FALSE]

ASSUME ConfigsAssumption == Configs \subseteq ConfigType

VARIABLES
  config,       \* the model's configuration, as the operator left it
  configDirty,  \* config has changed since the last config-changed hook
  leader,       \* this unit is the application's leader
  phase,        \* the next hook of the unit's setup, or "live"
  retry,        \* the hook Juju must run again because it failed, or NoHook
  hook,         \* the hook or action that is running, or NoHook
  step,         \* where the running handler is, or "idle"
  call,         \* arguments of the pending _update_ready_status call
  prev,         \* prev_status of the upgrade and migrate-schema actions
  cur,          \* the running hook's copy of StoredState
  stored,       \* StoredState as last committed
  status,       \* the unit's workload status
  services,     \* what runs: main (lsctl's services, but for LEADER_SERVICES, see
                \* Replicas, and the next), grpc (those _sync_grpc_tls restarts)
  withdrawn     \* history: a hook run again found its relation's data withdrawn,
                \* and the status has not been evaluated since

vars == <<config, configDirty, leader, phase, retry, hook, step, call, prev,
          cur, stored, status, services, withdrawn>>

--------------------------------------------------------------------------------

Relations == {"db", "inbound-amqp", "outbound-amqp"}
Statuses  == {"active", "blocked", "maintenance", "waiting"}

\* The part of StoredState that gates the services; ready holds the relations
\* whose _stored.ready entry is True.
StoredType == [ready : SUBSET Relations, running : BOOLEAN, paused : BOOLEAN]

AllReady(s) == s.ready = Relations

ServicesType == [main : BOOLEAN, grpc : BOOLEAN]

(***************************************************************************)
(* The hooks and actions.  data says what the relation or the action call  *)
(* carries: whether the database fields, the broker's password or          *)
(* haproxy's certificate are there, whether the changed secret is the GPG  *)
(* one, whether migrate-schema allows connections.                         *)
(***************************************************************************)
Hook(name, rel, data) == [name |-> name, rel |-> rel, data |-> data]
NoHook == Hook("none", "none", FALSE)

SetupHooks == {"install", "config-changed", "start"}
Actions    == {"pause", "resume", "upgrade", "migrate-schema"}
DataHooks  == {"db-changed", "database-changed", "website-changed",
               "secret-changed", "migrate-schema"}
PlainHooks == {"install", "config-changed", "start", "update-status",
               "website-joined", "smtp-data-available", "certificates", "task-handler",
               "leader-elected", "replicas-changed", "other",
               "pause", "resume", "upgrade"}

Hooks ==
  {Hook(n, "none", FALSE) : n \in PlainHooks}
    \cup {Hook(n, "none", d) : n \in DataHooks, d \in BOOLEAN}
    \cup {Hook("amqp-joined", r, FALSE) : r \in Relations \ {"db"}}
    \cup {Hook("amqp-changed", r, d) : r \in Relations \ {"db"}, d \in BOOLEAN}

(***************************************************************************)
(* A hook that is run again has the same name and relation as the run that *)
(* died, but reads the relation anew: its data may have come or gone.      *)
(***************************************************************************)
RereadHooks == {"db-changed", "database-changed", "amqp-changed", "website-changed"}

RunAgain(h) ==
  /\ h.name = retry.name /\ h.rel = retry.rel
  /\ h.data = retry.data \/ h.name \in RereadHooks

Phases == {"install", "config-changed", "start", "live"}
Steps  == {"idle", "body", "account", "migrate", "grant", "wsl", "gpg", "ready",
           "start", "token", "upgrading", "migrating", "done"}
NoCall == [restart |-> FALSE, then |-> "done"]
Calls  == [restart : BOOLEAN, then : {"done", "token"}]

\* self.charm_config: the configuration the handlers see.
CharmConfig == IF config.valid THEN config ELSE DefaultConfig

\* Install comes first, then config-changed, then start; a leader may be elected
\* in between, and every other hook runs on a unit that has started.
MayRun(h) ==
  CASE phase = "live"                  -> h.name \notin {"install", "start"}
    [] h.name = "leader-elected"       -> phase # "install"
    [] OTHER                           -> h.name = phase

Init ==
  /\ config \in Configs
  /\ configDirty = FALSE
  /\ leader \in BOOLEAN
  /\ phase = "install"
  /\ retry = NoHook
  /\ hook = NoHook
  /\ step = "idle"
  /\ call = NoCall
  /\ prev = "maintenance"
  /\ stored = [ready |-> {}, running |-> FALSE, paused |-> FALSE]
  /\ cur = stored
  /\ status = "waiting"
  /\ services = [main |-> FALSE, grpc |-> FALSE]
  /\ withdrawn = FALSE

--------------------------------------------------------------------------------
(***************************************************************************)
(* The environment: Juju moves leadership, the operator reconfigures.      *)
(***************************************************************************)

LeadershipMoves ==
  /\ leader' = ~leader
  /\ UNCHANGED <<config, configDirty, phase, retry, hook, step, call, prev, cur,
                 stored, status, services, withdrawn>>

OperatorConfigures ==
  /\ step = "idle"
  /\ \E c \in Configs \ {config} : config' = c
  /\ configDirty' = TRUE
  /\ UNCHANGED <<leader, phase, retry, hook, step, call, prev, cur, stored,
                 status, services, withdrawn>>

--------------------------------------------------------------------------------
(***************************************************************************)
(* A hook starts, returns, raises.                                         *)
(***************************************************************************)

\* LandscapeServerCharm.__init__: an invalid configuration blocks the unit,
\* whatever the hook; StoredState is loaded as committed.
Begin(h) ==
  /\ step = "idle"
  /\ retry = NoHook \/ RunAgain(h)
  /\ MayRun(h)
  /\ hook' = h
  /\ step' = "body"
  /\ cur' = stored
  /\ status' = IF config.valid THEN status ELSE "blocked"
  /\ withdrawn' = (withdrawn \/ (retry.data /\ ~h.data))
  /\ UNCHANGED <<config, configDirty, leader, phase, retry, call, prev, stored,
                 services>>

Commit ==
  /\ step = "done"
  /\ stored' = cur
  /\ phase' = CASE hook.name = "install" -> "config-changed"
                [] hook.name = "config-changed" /\ phase = "config-changed" -> "start"
                [] hook.name = "start" -> "live"
                [] OTHER -> phase
  /\ configDirty' = (configDirty /\ hook.name # "config-changed")
  /\ retry' = NoHook
  /\ hook' = NoHook
  /\ step' = "idle"
  /\ call' = NoCall
  /\ prev' = "maintenance"
  /\ withdrawn' = (withdrawn /\ status = "active")
  /\ UNCHANGED <<config, leader, cur, status, services>>

\* The hook ends without a commit and will be run again.
Abandon ==
  /\ hook.name \notin Actions
  /\ retry' = hook
  /\ hook' = NoHook
  /\ step' = "idle"
  /\ call' = NoCall
  /\ cur' = stored
  /\ UNCHANGED <<config, configDirty, leader, phase, prev, stored, withdrawn>>

\* The unit agent dies or is restarted while a hook runs.
HookKilled ==
  /\ step # "idle"
  /\ Abandon
  /\ UNCHANGED <<status, services>>

\* What a step of a handler leaves alone, and the ways it can go on;
\* _update_ready_status looks at every relation's flag again.
Within ==
  /\ UNCHANGED <<config, configDirty, leader, phase, retry, hook, stored>>
  /\ withdrawn' = (withdrawn /\ step \notin {"ready", "start"})
Goto(s) == step' = s /\ UNCHANGED <<call, prev>>
CallReady(restart, then) ==
  /\ step' = "ready"
  /\ call' = [restart |-> restart, then |-> then]
  /\ UNCHANGED prev

\* The handler called name is at its first step.
In(name) == step = "body" /\ hook.name = name

--------------------------------------------------------------------------------
(***************************************************************************)
(* _update_ready_status and _start_services                                *)
(***************************************************************************)

\* A unit that is Blocked or in Maintenance is left as it is.
LeaveStatus ==
  /\ status \in {"blocked", "maintenance"}
  /\ Goto(call.then)
  /\ UNCHANGED status

ReportWaiting ==
  /\ status \in {"active", "waiting"}
  /\ ~AllReady(cur)
  /\ status' = "waiting"
  /\ Goto(call.then)

ReportActive ==
  /\ status \in {"active", "waiting"}
  /\ AllReady(cur)
  /\ cur.running /\ ~call.restart
  /\ status' = "active"
  /\ Goto(call.then)

ReportStopped ==
  /\ status \in {"active", "waiting"}
  /\ AllReady(cur)
  /\ ~cur.running \/ call.restart
  /\ cur.paused
  /\ status' = "maintenance"
  /\ Goto(call.then)

\* Mutant of GoStartServices: a paused unit is not told apart.
GoStartServicesAlways ==
  /\ status \in {"active", "waiting"}
  /\ AllReady(cur)
  /\ ~cur.running \/ call.restart
  /\ status' = "maintenance"
  /\ Goto("start")

GoStartServices ==
  /\ status \in {"active", "waiting"}
  /\ AllReady(cur)
  /\ ~cur.running \/ call.restart
  /\ ~cur.paused
  /\ status' = "maintenance"
  /\ Goto("start")

\* Mutant: a unit that is Waiting is left as it is, too.
UpdateReadyStatusUnlessWaiting ==
  /\ step = "ready"
  /\ Within
  /\ UNCHANGED <<cur, services>>
  /\ \/ status # "active" /\ Goto(call.then) /\ UNCHANGED status
     \/ status = "active" /\ (ReportWaiting \/ ReportActive \/ ReportStopped \/ GoStartServices)

UpdateReadyStatus ==
  /\ step = "ready"
  /\ Within
  /\ UNCHANGED <<cur, services>>
  /\ \/ LeaveStatus
     \/ ReportWaiting
     \/ ReportActive
     \/ ReportStopped
     \/ GoStartServices

\* `lsctl restart` and then `snap restart`.  A failing lsctl may leave the
\* services up or down; a failing snap leaves them up.
StartServices ==
  /\ step = "start"
  /\ Within
  /\ Goto(call.then)
  /\ \/ /\ services' \in [main : {TRUE}, grpc : BOOLEAN]
        /\ status' = "active"
        /\ cur' = [cur EXCEPT !.running = TRUE]
     \/ /\ services' \in ServicesType
        /\ status' = "blocked"
        /\ cur' = [cur EXCEPT !.running = FALSE]

--------------------------------------------------------------------------------
(***************************************************************************)
(* install and config-changed                                              *)
(***************************************************************************)

\* The package and snap installs raise when they fail.
Install ==
  /\ In("install")
  /\ UNCHANGED services
  /\ \/ /\ Within
        /\ status' = IF CharmConfig.license THEN "waiting" ELSE "maintenance"
        /\ Goto("gpg")
        /\ UNCHANGED cur
     \/ /\ Abandon
        /\ status' = "maintenance"

\* _sync_grpc_tls restarts a gRPC service whose TLS settings changed, on a unit
\* that is not paused, whatever its relations; systemd's refusal is only logged.
SyncGrpcTls ==
  services' \in IF cur.paused THEN {services}
                             ELSE {[services EXCEPT !.grpc = up] : up \in BOOLEAN}

(***************************************************************************)
(* Up to the db_* options: an invalid configuration, a snap or a package   *)
(* that does not install end the handler; a port that cannot be opened, a  *)
(* file that cannot be written and a license that cannot be read raise.    *)
(* The license, OpenID and OIDC steps end in Waiting, whatever             *)
(* _sync_grpc_tls set before them.                                         *)
(***************************************************************************)
ConfigChanged ==
  /\ In("config-changed")
  /\ \/ /\ Within
        /\ ~config.valid
        /\ status' = "blocked"
        /\ Goto("done")
        /\ UNCHANGED <<cur, services>>
     \/ /\ Within
        /\ config.valid
        /\ status' = "maintenance"
        /\ Goto("done")
        /\ UNCHANGED <<cur, services>>
     \/ /\ config.valid
        /\ Abandon
        /\ \/ status' = "waiting" /\ UNCHANGED services
           \/ status' \in {"waiting", "blocked", "maintenance"} /\ SyncGrpcTls
     \/ /\ Within
        /\ config.valid
        /\ status' \in IF config.license \/ config.sso THEN {"waiting"}
                                                       ELSE {"waiting", "blocked"}
        /\ Goto(IF config.db THEN "migrate" ELSE "account")
        /\ SyncGrpcTls
        /\ UNCHANGED cur

\* The leader's _bootstrap_account raises PgHbaNotReadyError when the database
\* does not let it in yet.
PgHbaNotReady ==
  /\ step \in {"migrate", "account"}
  /\ leader
  /\ Abandon
  /\ UNCHANGED <<status, services>>

BootstrapAccount ==
  /\ step = "account"
  /\ Within
  /\ Goto("gpg")
  /\ UNCHANGED <<cur, status, services>>

\* The secret may be missing, lack a field or hold a key that is not importable.
ConfigureGpg ==
  /\ step = "gpg"
  /\ Within
  /\ UNCHANGED <<cur, services>>
  /\ status' \in IF CharmConfig.gpg THEN {"waiting", "blocked"} ELSE {status}
  /\ IF hook.name = "secret-changed" /\ status' = "blocked"
       THEN Goto("done")
       ELSE CallReady(hook.name # "install", "done")

SecretChanged ==
  /\ In("secret-changed")
  /\ Within
  /\ Goto(IF hook.data /\ CharmConfig.gpg THEN "gpg" ELSE "done")
  /\ UNCHANGED <<cur, status, services>>

--------------------------------------------------------------------------------
(***************************************************************************)
(* The database                                                            *)
(***************************************************************************)

\* Mutant of DbIsReady: the flag is kept under the name of the new endpoint.
DbIsReadyByEndpoint(dbReady) ==
  cur' = [cur EXCEPT !.ready = IF dbReady THEN @ \cup {"database"} ELSE @ \ {"database"}]

DbIsReady(dbReady) ==
  cur' = [cur EXCEPT !.ready = IF dbReady THEN @ \cup {"db"} ELSE @ \ {"db"}]

\* Legacy `db` relation: without the required keys, or while this unit is not in
\* allowed-units, nothing is set up.
DbRelationChanged ==
  /\ In("db-changed")
  /\ Within
  /\ UNCHANGED services
  /\ \/ /\ ~hook.data
        /\ status' = "active"
        /\ CallReady(FALSE, "done")
        /\ UNCHANGED cur
     \/ /\ hook.data
        /\ status' = "maintenance"
        /\ DbIsReady(FALSE)
        /\ Goto("migrate")

\* Modern `database` relation: only the leader migrates the schema.
DatabaseRelationChanged ==
  /\ In("database-changed")
  /\ Within
  /\ UNCHANGED services
  /\ \/ /\ ~hook.data
        /\ DbIsReady(FALSE)
        /\ status' = "active"
        /\ CallReady(FALSE, "done")
     \/ /\ hook.data /\ ~leader
        /\ DbIsReady(TRUE)
        /\ status' = "active"
        /\ CallReady(TRUE, "done")
     \/ /\ hook.data /\ leader
        /\ DbIsReady(FALSE)
        /\ status' = "maintenance"
        /\ Goto("migrate")

\* The database is set up: config-changed goes on to the account, the relation
\* handlers to the services.
DatabaseSetUp ==
  /\ DbIsReady(TRUE)
  /\ IF hook.name = "config-changed"
       THEN status' = "waiting" /\ Goto("account")
       ELSE status' = "active" /\ CallReady(TRUE, "done")

MigrateSchemaBootstrap ==
  /\ step = "migrate"
  /\ Within
  /\ UNCHANGED services
  /\ \/ /\ status' = "blocked"
        /\ Goto("done")
        /\ UNCHANGED cur
     \/ /\ hook.name = "config-changed" /\ ~CharmConfig.demo
        /\ DatabaseSetUp
     \/ /\ hook.name # "config-changed" \/ CharmConfig.demo
        /\ Goto(IF hook.name = "database-changed" THEN "grant" ELSE "wsl")
        /\ UNCHANGED <<cur, status>>

\* grant_role lets the errors of the database driver through.
GrantRole ==
  /\ step = "grant"
  /\ UNCHANGED <<status, services>>
  /\ \/ Within /\ Goto("wsl") /\ UNCHANGED cur
     \/ Abandon

UpdateWslDistributions ==
  /\ step = "wsl"
  /\ Within
  /\ UNCHANGED services
  /\ \/ DatabaseSetUp
     \/ Goto("done") /\ UNCHANGED <<cur, status>>

--------------------------------------------------------------------------------
(***************************************************************************)
(* AMQP, haproxy, SMTP, certificates                                       *)
(***************************************************************************)

\* Mutant of AmqpRelationJoined: the status is left to the next update-status.
AmqpRelationJoinedQuietly ==
  /\ In("amqp-joined")
  /\ Within
  /\ cur' = [cur EXCEPT !.ready = @ \ {hook.rel}]
  /\ Goto("done")
  /\ UNCHANGED <<status, services>>

AmqpRelationJoined ==
  /\ In("amqp-joined")
  /\ Within
  /\ cur' = [cur EXCEPT !.ready = @ \ {hook.rel}]
  /\ status' = "maintenance"
  /\ Goto("done")
  /\ UNCHANGED services

AmqpRelationChanged ==
  /\ In("amqp-changed")
  /\ Within
  /\ UNCHANGED services
  /\ IF hook.data
       THEN /\ cur' = [cur EXCEPT !.ready = @ \cup {hook.rel}]
            /\ IF {"inbound-amqp", "outbound-amqp"} \subseteq cur'.ready
                 THEN status' = "active" /\ CallReady(FALSE, "done")
                 ELSE status' = "maintenance" /\ Goto("done")
       ELSE Goto("done") /\ UNCHANGED <<cur, status>>

\* _update_haproxy_connection ends in Waiting, or in Blocked when the
\* configured certificate comes without a usable key.
WebsiteRelationJoined ==
  /\ In("website-joined")
  /\ Within
  /\ status' \in IF CharmConfig.cert THEN {"waiting", "blocked"} ELSE {"waiting"}
  /\ CallReady(FALSE, "done")
  /\ UNCHANGED <<cur, services>>

WebsiteRelationChanged ==
  /\ In("website-changed")
  /\ Within
  /\ UNCHANGED <<cur, services>>
  /\ \/ /\ CharmConfig.cert \/ ~hook.data
        /\ Goto("done") /\ UNCHANGED status
     \/ /\ ~CharmConfig.cert /\ hook.data
        /\ \/ status' = "blocked" /\ Goto("done")
           \/ status' = "waiting" /\ CallReady(FALSE, "done")

\* The relation data may be empty, postfix may not reload, postmap may raise.
SmtpDataAvailable ==
  /\ In("smtp-data-available")
  /\ UNCHANGED services
  /\ \/ Within /\ Goto("done") /\ status' \in {status, "waiting", "blocked"} /\ UNCHANGED cur
     \/ Abandon /\ status' \in {"waiting", "blocked"}

\* The certificates hooks; _sync_grpc_tls blocks the unit when it cannot write the
\* TLS settings.
Certificates ==
  /\ In("certificates")
  /\ Within
  /\ SyncGrpcTls
  /\ status' \in {status, "blocked"}
  /\ Goto("done")
  /\ UNCHANGED cur

\* _consume_task_handler_certs blocks the unit when it cannot write the outbox
\* snap's certificates or configure the snap.
TaskHandler ==
  /\ In("task-handler")
  /\ Within
  /\ status' \in {status, "blocked"}
  /\ Goto("done")
  /\ UNCHANGED <<cur, services>>

\* start and update-status only look at the relations again.
UpdateStatus ==
  /\ In("start") \/ In("update-status")
  /\ Within
  /\ CallReady(FALSE, "done")
  /\ UNCHANGED <<cur, status, services>>

\* Handlers that touch neither the status, the flags nor the services.
OtherHook ==
  /\ In("other")
  /\ Within
  /\ Goto("done")
  /\ UNCHANGED <<cur, status, services>>

--------------------------------------------------------------------------------
(***************************************************************************)
(* Leadership and peers.  _leader_changed resumes the leader's services    *)
(* one by one, or pauses them (see Replicas), and restarts the others.     *)
(***************************************************************************)

LeaderChanged(then) == CallReady(TRUE, then) /\ UNCHANGED services

LeaderElected ==
  /\ In("leader-elected")
  /\ Within
  /\ LeaderChanged("done")
  /\ UNCHANGED <<cur, status>>

ReplicasRelationChanged ==
  /\ In("replicas-changed")
  /\ Within
  /\ LeaderChanged("token")
  /\ UNCHANGED <<cur, status>>

\* A new secret token or cookie key restarts the services a second time.
ReplicasToken ==
  /\ step = "token"
  /\ Within
  /\ Goto("done") \/ CallReady(TRUE, "done")
  /\ UNCHANGED <<cur, status, services>>

--------------------------------------------------------------------------------
(***************************************************************************)
(* Actions                                                                 *)
(***************************************************************************)

\* What a completed pause and a completed resume record.
Paused(s) == [s EXCEPT !.running = FALSE, !.paused = TRUE]

\* Mutant of Resumed: paused is not reset.
ResumedStillPaused(s) == [s EXCEPT !.running = TRUE]

Resumed(s) == [s EXCEPT !.running = TRUE, !.paused = FALSE]

Pause ==
  /\ In("pause")
  /\ Within
  /\ Goto("done")
  /\ \/ /\ services' \in [main : {services.main, FALSE}, grpc : {services.grpc, FALSE}]
        /\ status' = "blocked"
        /\ UNCHANGED cur
     \/ /\ services' = [main |-> FALSE, grpc |-> FALSE]
        /\ \/ status' = "blocked" /\ UNCHANGED cur
           \/ /\ status' = "maintenance"
              /\ cur' = Paused(cur)

\* When lsctl cannot start the services it is told to stop them, and whether it
\* did is not looked at; when the snap does not start they stay up.
Resume ==
  /\ In("resume")
  /\ Within
  /\ \/ /\ services' \in ServicesType
        /\ status' = "blocked"
        /\ Goto("done")
        /\ UNCHANGED cur
     \/ /\ services' \in [main : {TRUE}, grpc : BOOLEAN]
        /\ \/ status' = "blocked" /\ Goto("done") /\ UNCHANGED cur
           \/ /\ status' = "active"
              /\ cur' = Resumed(cur)
              /\ CallReady(FALSE, "done")

Upgrade ==
  /\ In("upgrade")
  /\ Within
  /\ UNCHANGED <<cur, services, call>>
  /\ \/ /\ cur.running
        /\ step' = "done"
        /\ UNCHANGED <<status, prev>>
     \/ /\ ~cur.running
        /\ prev' = status
        /\ status' = "maintenance"
        /\ step' = "upgrading"

\* An apt error that is not caught fails the action with the unit in Maintenance.
UpgradePackages ==
  /\ step = "upgrading"
  /\ Within
  /\ status' \in {prev, "blocked", "maintenance"}
  /\ Goto("done")
  /\ UNCHANGED <<cur, services>>

MigrateSchema ==
  /\ In("migrate-schema")
  /\ Within
  /\ UNCHANGED <<cur, services, call>>
  /\ \/ /\ cur.running /\ ~hook.data
        /\ step' = "done"
        /\ UNCHANGED <<status, prev>>
     \/ /\ ~cur.running \/ hook.data
        /\ prev' = status
        /\ status' = "maintenance"
        /\ step' = "migrating"

RunSchemaScript ==
  /\ step = "migrating"
  /\ Within
  /\ status' \in {prev, "blocked"}
  /\ Goto("done")
  /\ UNCHANGED <<cur, services>>

--------------------------------------------------------------------------------

Handlers ==
  \/ Install \/ ConfigChanged \/ PgHbaNotReady \/ BootstrapAccount
  \/ ConfigureGpg \/ SecretChanged
  \/ DbRelationChanged \/ DatabaseRelationChanged \/ MigrateSchemaBootstrap
  \/ GrantRole \/ UpdateWslDistributions
  \/ AmqpRelationJoined \/ AmqpRelationChanged
  \/ WebsiteRelationJoined \/ WebsiteRelationChanged
  \/ SmtpDataAvailable \/ Certificates \/ TaskHandler \/ UpdateStatus \/ OtherHook
  \/ LeaderElected \/ ReplicasRelationChanged \/ ReplicasToken
  \/ Pause \/ Resume \/ Upgrade \/ UpgradePackages
  \/ MigrateSchema \/ RunSchemaScript

HookStep == Handlers \/ UpdateReadyStatus \/ StartServices \/ Commit

Next ==
  \/ LeadershipMoves
  \/ OperatorConfigures
  \/ \E h \in Hooks : Begin(h)
  \/ HookStep
  \/ HookKilled

Spec == Init /\ [][Next]_vars

(***************************************************************************)
(* A hook that has begun goes on, Juju retries the hook that failed, and   *)
(* its update-status timer is served again and again.                      *)
(***************************************************************************)
Fairness ==
  /\ WF_vars(HookStep)
  /\ WF_vars(\E h \in Hooks : retry # NoHook /\ Begin(h))
  /\ SF_vars(Begin(Hook("update-status", "none", FALSE)))

FairSpec == Spec /\ Fairness

--------------------------------------------------------------------------------
(***************************************************************************)
(* Properties                                                              *)
(***************************************************************************)

\* Every variable holds a value the code can give it.
TypeOK ==
  /\ config \in ConfigType
  /\ configDirty \in BOOLEAN
  /\ leader \in BOOLEAN
  /\ phase \in Phases
  /\ retry \in Hooks \cup {NoHook}
  /\ hook \in Hooks \cup {NoHook}
  /\ step \in Steps
  /\ call \in Calls
  /\ prev \in Statuses
  /\ cur \in StoredType
  /\ stored \in StoredType
  /\ status \in Statuses
  /\ services \in ServicesType
  /\ withdrawn \in BOOLEAN

\* No hook is running, none has to be retried, and config-changed has run for
\* the configuration in force.
Settled == step = "idle" /\ retry = NoHook /\ ~configDirty

\* The unit may say "Unit is ready".
Serviceable(s) == AllReady(s) /\ s.running /\ ~s.paused

(***************************************************************************)
(* A unit at rest that shows Active ("Unit is ready") has all three        *)
(* relations ready, its services recorded as running, and is not paused:   *)
(* no handler that sets ActiveStatus provisionally leaves it there, even   *)
(* when a hook was killed after setting it and run again.  The one case    *)
(* left out is named by withdrawn: the hook died after setting Active, and *)
(* its second run returned early because the relation's data were gone;    *)
(* Active then stays until a hook next calls _update_ready_status.         *)
(***************************************************************************)
ActiveImpliesServiceable ==
  Settled /\ status = "active" /\ ~withdrawn => Serviceable(stored)

\* running and paused are two flags for one fact, written by pause, resume and
\* _start_services: they are never both set, in a hook or at rest.
NeverRunningAndPaused ==
  /\ ~(stored.running /\ stored.paused)
  /\ ~(cur.running /\ cur.paused)

\* The services lsctl starts come up only on a unit that is not paused and whose
\* relations are all ready, or at the operator's resume action: no hook, retried
\* or not, undoes a pause or starts Landscape without its database and broker.
\* The gRPC services, which _sync_grpc_tls restarts by name, come up on a unit
\* that is not ready too, but never on a paused one.
ServicesStartOnlyWhenReady ==
  [][ /\ services'.main /\ ~services.main
           => hook.name = "resume" \/ (AllReady(cur) /\ ~cur.paused)
      /\ services'.grpc /\ ~services.grpc
           => hook.name = "resume" \/ ~cur.paused ]_vars

\* Once its relations are all ready the unit does not stay in Waiting: the
\* periodic update-status hook reports it ready, stopped, or starts it.
NeverStuckWaiting ==
  []<>(status # "waiting" \/ ~AllReady(stored) \/ retry # NoHook)

\* actions.yaml says of migrate-schema that the unit must already be paused, and
\* the code's own message is "Cannot migrate schema while running": a migration
\* that does not allow connections never runs beside the unit's services.
MigrationNeedsStoppedServices ==
  step = "migrating" /\ ~hook.data => ~services.main
================================================================================
