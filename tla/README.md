# Verification of the Landscape Server charm

TLA+ models of the charm in `src/` (the code is `src/src/charm.py` and the helper
modules beside it), TLC configurations that check them on small instances, and
proofs for TLAPS. `PROJECT.json` lists the runs, the mutants, the theorems, the
source lines behind every definition, the hazards and the findings.

Line numbers below are of `src/src/charm.py` unless another file is named.

## 1. The system

The charm is run by Juju: a *hook* (an event handler) or an *action* at a time on
each unit, while hooks of different units run concurrently. Between two hooks the
charm keeps nothing in memory. What survives is

- **StoredState** (`_stored`: `ready`, `running`, `paused`, `leader_ip`,
  `secret_token`, `cookie_encryption_key`, `account_bootstrapped`,
  `enable_ubuntu_installer_attach`), committed only when a hook returns;
- **databags** and secrets of the relations, sent only when a hook returns;
- **the machine**: `service.conf` and other files, packages, systemd services and
  the `landscape-outbox` snap. What a hook does to it happens at once and stays,
  also when the hook fails;
- the **workload status** of the unit.

A hook that raises or is killed is run again from the old StoredState, before any
other hook of the unit. This gap between the machine and StoredState, leadership
that moves at any time, and handlers that decide from a comparison with StoredState
are what makes the charm hard.

| Component | State | Operations | Talks to |
|---|---|---|---|
| Unit lifecycle | `ready`, `running`, `paused`, status, services | every hook and action that ends in `_update_ready_status` (1030-1050), `_start_services` (1052-1090), pause, resume, upgrade, migrate-schema (2614-2811) | database, AMQP, website, SMTP and certificates relations by their completeness |
| Replicas | peer databag (leader-ip, keys, unit data), `leader_ip`, keys in StoredState and `service.conf`, LEADER_SERVICES | config-changed (570-742), leader-elected, leader-settings-changed, replicas-joined and -changed (2264-2388) | debarchive and task-handler charms, haproxy routes, legacy haproxy |
| gRPC TLS | certificate request, TLS files, `service.conf` sections, running processes, two HTTPS routes | `_sync_grpc_tls` (1824-1881) from config-changed and the certificates hooks; `settings_files.py` 235-343 | certificate provider, systemd, haproxy |
| Configuration | `charm_config` | validators in `config.py`; `__init__` replaces an invalid configuration by the defaults (460-474) | every other component |
| Database | both databags of the `database` relation, the provider's secrets, the data saved for the library's diff, the database section of `service.conf`, the schema | the provider's and the requirer's side of `data_interfaces.py`; `_on_database_relation_changed` (1158-1246), config-changed's part of it, `_migrate_schema_bootstrap`, WSL distributions | PostgreSQL, its proxies, the task-handler charm, unit lifecycle |
| Outbox and task-handler | three client certificate files, the snap's configuration, what the running snap has loaded | `_on_task_handler_relation_changed`, `_consume_task_handler_certs` (2093-2262) | task-handler charm, snapd |
| SMTP relay | `main.cf`, what postfix has loaded, `sasl_passwd` and its map | `smtp.py` on both sides, `_configure_smtp` and on (2390-2486) | SMTP integrator, postfix |
| haproxy routes | databags of eight route relations, ports opened in Juju, ports in `service.conf` | `_provide_all_haproxy_route_requirements` and `_set_ports` (744-767, 1589-1822); `haproxy_route.py` on both sides; `haproxy.py` | haproxy charms |
| Account and autoregistration | `account_bootstrapped` | `_bootstrap_account`, `autoregistration.py` | database, server's script |
| NRPE, dashboards, COS | files and databags | written from configuration | monitoring charms |

Behaviours that tests hardly reach, and that the models have: hooks killed between
two steps and run again; leadership that moves between any two hooks and is read
again in each; hooks of several units in every order Juju allows; early returns of
config-changed; the operator pausing, resuming and reconfiguring at any point; a
certificate renewed, lost or reissued for another host; failed writes and restarts; a
provider that publishes its fields one at a time, fails over or changes the password
while a hook is retried; relation data that are invalid for a while; secrets whose new
revision nobody announces.

What makes each part correct:

- *Lifecycle*: Active only on a unit that is ready, running and not paused; nothing
  but resume undoes a pause; a unit with everything it needs leaves Waiting.
- *Replicas*: one key for all units, the operator's if given; a key that was
  published is final; leader services, package search and what related charms are
  told follow the leader.
- *gRPC TLS*: `service.conf` never names files that are gone; TLS is not dropped
  while it is wanted; the newest certificate ends up served; no HTTPS route to a
  service without TLS.
- *Configuration*: no two services of a unit share a port, a sign-on is configured
  completely or not at all, in `service.conf` and not only in the options.
- *Database*: the library's diff swallows no news; a unit that is pointed at a primary has
  the password in force; a ready leader has migrated the schema of the database it uses.
- *Outbox*: the snap is pointed at an address only when all three files go with it.
- *SMTP*: postfix uses the published relay with its newest password, and none when the
  relation is gone.
- *Routes*: HAProxy's end of the library accepts what is published; a request is sent to one
  service, the one the legacy haproxy would choose if it does not deny the path, and only where
  that service listens on an opened port.

## 2. Modules

| Module | What it is |
|---|---|
| `UnitLifecycle` | one unit: hooks, actions, status, services |
| `UnitLifecycleProofs` | its inductive invariant and four theorems |
| `SharedKeys` | what the units promise about the shared keys (abstract) |
| `Replicas` | several units, the peer relation, leadership; implements `SharedKeys` |
| `ReplicasProofs` | types, finality of published keys, the refinement |
| `ReplicasRestProofs` | what the units and the related charms come to rest in |
| `GrpcTls` | certificate, files, settings, processes and routes of one unit, step by step |
| `GrpcTlsProofs` | types, files and settings, TLS not taken away, the route, the newest certificate |
| `DataInterfaces` | what the data_interfaces library computes: secrets, fields, diff, events |
| `DatabaseContract` | what the `database` relation promises (abstract) |
| `Database` | several units and a provider; implements `DatabaseContract` |
| `DatabaseProofs` | types, passwords, the refinement; the primary, the schema and the task-handler at rest |
| `UnitHooks` | how Juju runs the hooks of one unit, for handlers modelled step by step |
| `SmtpRelay` | the SMTP relation and postfix |
| `OutboxSnap` | the task-handler's certificates and the outbox snap |
| `Relays` | both in one unit, sharing its hooks |
| `RelaysProofs` | types, the order of files and address, what both relations come to rest in |
| `CharmConfig` | the validators, ports, and config-changed's part of `service.conf` |
| `LegacyHaproxy` | which backend, servers and redirects the legacy haproxy is told of |
| `HaproxyRoutes` | several units, eight route relations, HAProxy's reading of them |
| `HaproxyRoutesProofs` | types, `service.conf` sound for all ports, what HAProxy does once all is settled |
| `MC*` | instances for TLC: configurations, related charms, symmetry |

### UnitLifecycle

A hook is a sequence of steps (`step`), so that it can be killed between any two. `cur` is the
hook's copy of StoredState, `stored` the committed one; `HookKilled` and the raising branches
(`Abandon`) drop `cur` and set `retry`. `services` is the machine. `Begin` is `__init__`, then each
handler has an action of its name (`DbRelationChanged` is `_db_relation_changed`, and so on); shared
tails are steps of their own: `MigrateSchemaBootstrap`, `UpdateWslDistributions`,
`BootstrapAccount`, `ConfigureGpg`, `UpdateReadyStatus`, `StartServices`, `Commit`. Setup hooks come
in Juju's order (`phase`). Leadership may move at any step; `_start_services`, which is one step,
reads it once. A relation hook carries one bit, whether its data are complete, and reads it anew
when it is run again (`RunAgain`); `withdrawn` remembers a second run that found less than the
first. `services` tells the services of `lsctl` (`main`) from the gRPC services, which
`_sync_grpc_tls` restarts by name (1877-1879). A configuration has one bit per branch the handlers
take. Workload status texts, file contents and the smaller files are left out.

### Replicas

A hook is one atomic step on a *view* (`View(u)`): what one unit can read and write. The helpers
`SyncKeys`, `LeaderChanged`, `ProvideRoutes`, `UpdateDebarchive` and so on take views to views, as
the methods they stand for change StoredState, databags and `service.conf` in place, and a handler
composes them in the order of the code. This is enough because hooks of two units meet only in what
Juju holds, and Juju sends a hook's databag writes when it returns. A hook that fails (`Crashes`)
keeps the machine changes up to some point and loses StoredState and databags. `pending` are the
hooks Juju owes each unit; `Notified`, `FollowUps` and `Entering` are Juju's rules for joined and
changed events. A unit is told of its peers' changes and never of its own (2010-2012). The constant
`LeaderSettings` says whether Juju sends leader-settings-changed. A pause or resume of the leader's
services that systemd refuses is only logged (2330-2339); `refused` are the units where the last one
was. `keyless` and `addressless` remember that leadership moved, before there were keys or an
address, to a unit that was past the hook which makes them. The root URL is reduced to its host; one
related charm per endpoint; the task-handler's database credentials are taken as known; a website
hook is that of a unit with a valid certificate. Configuration changes only between hooks.

### GrpcTls

`todo`, `step` and `changed` are the loop of `_sync_grpc_tls`: service, position and
local flag. `WriteFiles`, `PointAtFiles`, `PointAway`, `RemoveFiles` split
`_write_grpc_server_tls` and `_remove_grpc_server_tls` where a failure matters;
`WriteFails` and `RestartFails` are the two `except` branches, `HookFails` a hook that
raises or is killed (its routes and the package flag are lost; Juju runs it again first,
`failed`). `serves` is what the process has loaded, as opposed to `files` and
`settings`. The certificate library is external: it asks at the end of config-changed
for the request of `_get_certificate_requests`, drops the certificate of a request no
longer made, and renews. `supporting` says whether the installed server keeps the TLS
settings in its `service.conf` migration. `Lsctl` are the services `lsctl` handles;
its start leaves a running service with what it has loaded (2644). Pause and resume have the branches
of their failures (2614-2665); after a failed resume the services are up and the unit counts as paused. A
certificate and its key are one item, as the library keeps one private key per unit;
the unit's address and the leader's are taken as known, and
`additional_service_config` does not touch the TLS sections.

### Database

`DataInterfaces` translates the library's pure part: a databag is a function from fields to values,
`Diff` and `RequirerEvent` decide which one event a relation-changed hook emits, `FetchRelationData`
reads a field from the secret of its group or from the databag, `ProvideDatabag` and
`ProvideSecrets` write. `Database` is the rest. `seen` is the data the library saved at its last
diff; a hook that raises loses that write and sees the same event again. A hook is one step with an
action for each point where it can end: `MissingField` (KeyError), `MigrationFails`, `SetupRaises`,
`WslFails`, `LeaderReady`, and `FollowerReady` for the others. The schema script is a set of
databases it has run against, so that running it against the wrong one shows. A configuration has
the database options: host, port, password, and user and password for the schema; each overrides
what the relation says (`RelationConf`) and is written by config-changed (`ConfigConf`). `told` is
what the task-handler's databag says. The provider decides for itself: at once, staggered, or with a
proxy beside each unit; it is external but for the library, whose provider side it uses
(`MayProvide`).

### Relays

`UnitHooks` has what Juju does: `pending`, the hook that failed and comes first, `step` of the
handler that runs. A handler in `SmtpRelay` or `OutboxSnap` is a step per effect on the machine, so
it can be killed between any two, and events come while it runs. `postfix` and `running` are what
the processes have loaded, as opposed to `mainCf` and `settings`. The revision of the certificates
and the address they were published with are numbered alike, which makes "older" a comparison.
`missed` is what the last handler of the outbox gave up: the address, the restart. `Relays` composes
the two: they share nothing but the unit's hooks, where a hook that fails holds up the other
relation.

### HaproxyRoutes

The configuration that a route was published with determines its data, so a databag holds the
configuration's name and `RoutesData` its content. `Asked` and `Withdrawn` are the loop of
`_provide_all_haproxy_route_requirements`, `PublishingFails` the library's validation, and the
URL parser's (1621), that fail the leader's hook; `SyncFails` and `CanOpen` are what fails every unit's,
a root URL that does not parse (1767) and a port that Juju cannot open. `Usable` are the
configurations in which nothing of this happens, and `ConfigWritten` what config-changed has done by
the time it fails. `cut` records an early return of config-changed. What `_sync_grpc_tls` decides is
a free choice here (`SyncTls`); `GrpcTls` has the decision. `InvalidRelations`, `Servers` and
`Taking` are HAProxy's side. `LegacyHaproxy` translates the rules of `haproxy.py` and is what the
routes are compared with. `service.conf` is reduced to ports, workers and sign-on options, which
are only ever added.

## 3. Runs

Every property of a passing run has a mutant of the code's translation that TLC
refutes under the same configuration.

| Run | Instance | Shows |
|---|---|---|
| `unit_safety` | 4 configurations (plain, invalid, manual database with demo data, everything optional); no bound: 1,062,232 states | `TypeOK`, `ActiveImpliesServiceable`, `NeverRunningAndPaused`, `ServicesStartOnlyWhenReady` for every order of hooks, kills and retries; `NeverStuckWaiting` |
| `replicas_keys` | 2 units, 1 leadership move, 1 reconfiguration, 1 failed hook, operator with or without a token: 442,388 states | `KeysAgree`, `KeyExists`, `PublishedKeyIsFinal`, and that `Replicas` implements `SharedKeys` |
| `replicas_handover` | 2 units, 2 moves, 1 early return, 1 refused service, haproxy related, leader-settings-changed sent: 1,105,266 states | `LeaderServicesOnLeader`, `SearchFollowsLeader`, `RoutesPublished` |
| `replicas_single` | 1 unit with every related charm, reconfigured once, one failed hook, one early return, one refused service: 46,000 states | `DebarchiveHasToken`, `HostnameIsLeaders` |
| `grpc_safety` | 5 configurations, old or new server, one each of: reconfiguration, broken relation, renewal, pause, failed hook, failed write, restart, pause or resume, early return; 2 certificates: 4,261,239 states | `SettingsHaveFiles`, `RouteNeedsSettings`, `NewestServed`, `ServedUntilReplaced` |
| `database_safety` | 2 units, 2 hosts, 5 sets of options in 7 pairs with a provider, and any two of: a move, failovers, a rotation, a fault, a reconfiguration: 250,581 states | `PointsAtPrimary`, `ReadyLeaderMigrated`, `TaskHandlerFollowsLeader`, `NewestPasswordWithPrimary`, `CredentialsReachEveryUnit`, and that `Database` implements `DatabaseContract` |
| `relays_safety` | 4 offers (open, starttls with a password, tls with a secret, invalid), 4 changes, 2 kinds of faults at any step: 1,338,448 states | `FilesBeforeAddress`, `AnnouncedCertificates`, `OutboxFollowsAddress`, `CredentialsAsPublished`, `RelayAsPublished`, `HooksGetTheirTurn` |
| `routes_safety` | 2 units, 1 or 2 workers, 7 configurations (3 usable; clashing ports, a timeout of 0, a port of 65536, an unparsable root URL), any three of: two reconfigurations, a move, a route integrated or removed or a certificate, an early return or a kill: 280,665 states | `ServiceConfSound`, `RoutedServersListen`, `RoutesAccepted`, `SameAsLegacyHaproxy`, `EveryHookReturns` |

Why the bounds are enough. `UnitLifecycle` is finite without any: its only constant is
the set of configurations, and each branch a handler takes on one is taken in the
four. In `Replicas` two moves are needed for leadership to leave and come back, two
units for a leader and a follower, and two generated values for two leaders that each
generate; each failed hook or early return needs one later hook to be repaired, so one of
each shows whether it is. The keys are independent of one another and of the other
units' hooks except through the databag, which is in the instance. In `GrpcTls` two
certificates distinguish the newest from an older one, and two hosts a changed request. In
`Database` a property breaks by one event that comes between two others (a failover while a
hook is retried, a rotation before a handler reads), so two of the five kinds in one behaviour
have every such pair; two hosts tell the primary from its predecessor. In `Relays` four changes
let each relation change twice, once while a handler runs; each fault can strike at any step,
and two kinds let one hit the repair of another. In `HaproxyRoutes` the ports are close enough
together for two services to meet and two configurations exchange theirs, so a databag, an
opened port or a `service.conf` that is left over from the other configuration is seen; two
reconfigurations are one to an unusable configuration and its correction.
`MaxLines` caps the lines of `main.cf` that are counted; no passing property reads them.

Some properties exclude a case in which the code does not keep them. The exclusion is a
conjunct of the property, not of the model:

- `KeysAgree`: a key changed and changed back around a failed hook. `service.conf` is
  written before StoredState is committed (726), so the next hook compares with the old
  key and leaves the failed hook's key in the file.
- `SearchFollowsLeader`: leadership that moves away and back, with no
  leader-settings-changed. The peer databag's leader-ip then never changes, so a unit
  that was the leader in between is not told to search on the other again.
- `ActiveImpliesServiceable`: `withdrawn`, a hook that died after it set Active (1453) and whose second run
  found the relation's data withdrawn and returned early (1425). Active stays until a hook next
  evaluates the status.
- `LeaderServicesOnLeader`: units whose services refused to stop or start when last told to.
- `RoutesPublished`: the leader of a single unit, which hears of no peer and so never learns the leader's
  address from the databag (2010-2012), and a leader that had heard of its peers before
  there was an address (`addressless`).
- `KeyExists`: an early return of config-changed, and leadership that moves before there are keys to a unit
  that has run its config-changed (`keyless`): nothing else generates keys (706-708).
- `DebarchiveHasToken`: more than one unit, and a configuration that changes twice. A replicas-changed
  hook on the leader, between the operator's change and config-changed, stores the new token;
  config-changed then sees no change (722) and does not republish the secret. Nor does it when the
  operator changes the token back before it runs, and another hook has made a new secret in between.
- `HostnameIsLeaders`: checked of a single unit, as in `replicas_hostname` a move of leadership breaks it.
- `NewestServed`: failed hooks, writes, restarts, pauses and resumes, and an early return: a restart is
  due only if this run of the hook changed something, and `lsctl start` is none. For the same reason
  ubuntu-installer-attach, if its package started it on a unit that was paused.
- `ReadyLeaderMigrated`: leadership that has moved. A follower whose news were consumed while it
  was not the leader never migrates, and is ready.
- `PointsAtPrimary`, `TaskHandlerFollowsLeader`: options changed after the deployment. Options that are set
  afterwards replace what the relation said, and options that are unset afterwards stay. Also a
  fault together with two failovers (`NoFailback`), for which section 7 has the one behaviour that
  breaks them. The second also leaves out a leader that waits for its proxy, which keeps the former
  primary while the task-handler may have been told of another; and, in a deployment with database
  options, a leader whose config-changed wrote them (689) and then returned early at the schema
  (697) or the WSL distributions (`cut`), before it would have told the task-handler (742).
- `OutboxFollowsAddress`: an address that the last handler gave up before it set it (certificates it could
  not read or write, a configuration of the snap it could not read; all of them are only logged), and
  a restart of the snap that failed or before which the hook was killed. The retry finds the
  address set and does not restart it (2251-2252).
- `RelayAsPublished`: a reload that failed. Nothing reloads postfix until the next change.
- `RoutedServersListen`: package-upload off the leader, where HAProxy's health check takes the
  server out unless the operator has switched the check off.
- `RoutesAccepted` is about the library's validation. The file that the haproxy charm renders is another
  matter: with `redirect_https` none a line of it exceeds HAProxy's limit of 64 words, and the
  configuration is invalid (tests/integration/test_bundle.py:152-156).
- `SameAsLegacyHaproxy`: /metrics, which the legacy haproxy denies (haproxy.py:101-104) and the
  appserver's route takes; the legacy backends with servers on the leader only (haproxy.py:293-301),
  where the routes have all units; and servers if the ports are not the default ones.
- `EveryHookReturns`: a configuration that stays unusable. Its hooks fail until the operator corrects it.
- `CredentialsReachEveryUnit`: leadership that moves between the relation-created hooks of the units; see
  section 7.

`HostnameIsLeaders` is proved for any number of units as long as leadership has not moved; all others as
they are checked.

### What comments, docs or tests say and the code does not do

| Run | Says | Does |
|---|---|---|
| `unit_migration` | actions.yaml:11: the unit "must already be paused" for migrate-schema | a start or resume that failed half-way leaves `running` unset with the services up, and the migration is let through |
| `replicas_hostname` | 2071: "root_url host, else leader IP" | leader-elected publishes the address of the previous leader, from StoredState |
| `grpc_route` | 1815: the route is published if "hostagent-messenger serves TLS" | the retry of a failed certificate hook changes nothing, so the service is not restarted, and the HTTPS route goes to a plaintext server |
| `relays_main_cf` | tests/unit/test_charm.py:2291-2294: rewriting `main.cf` changes the settings' lines and leaves the others | every line that is kept gains an empty line at each rewrite |

## 4. Fairness

`NeverStuckWaiting` is checked under `FairSpec`: weak fairness of the steps of a running
hook (a hook runs to its end unless killed; kills are not fair), weak fairness of the
retry of a failed hook (Juju retries until it returns), strong fairness of starting
update-status (Juju fires it periodically on a live unit, in between other hooks). Nothing
is assumed of the operator, of leadership or of the relations.

`CredentialsReachEveryUnit` is under weak fairness of `Owed`: Juju runs the hooks it owes
and retries those that fail, and the provider, once it has been asked, publishes what it held
back and its proxies come up. It is one condition over all of these, so no order among them is
assumed; faults, failovers and rotations are bounded and owed by nobody. `HooksGetTheirTurn` is
under weak fairness of the steps of the two handlers, `EveryHookReturns` under weak fairness of
the hooks of each unit (units run concurrently and none can hold up another). A fault is in none of
them unless the code has no other way to end; the bounds on faults stand for "not for ever".
`Replicas` and `GrpcTls` state no fairness; their properties are safety.

## 5. Proofs

All theorems hold for every value of the constants under the named assumptions of the
modules (`ConfigsAssumption`, `ConstantsAssumption`: configurations are well-typed, the
special values differ from ordinary ones, bounds are natural numbers; `DatabaseAssumption`: the
provider is none of the units and publishes no host named as the options are; `ConfigAssumption`:
the default configuration is an accepted one and has a worker; `RoutesAssumption`: it is a usable one;
`SmtpAssumption`, `BoundsAssumption`: types).

**UnitLifecycleProofs** — `TypeCorrect`, `FlagsExclusive`, `ActiveIsServiceable`,
`StartsOnlyWhenReady`. `ActiveImpliesServiceable` speaks of a unit at rest, and a status
set provisionally by one hook survives its death; so the inductive invariant `IInv` says
for each stage of a hook what an Active status rests on: `IdleInv` (at rest: the unit is
serviceable, or the hook to be retried looks at the relations again), `BodyInv` and
`MidInv` (in the handler), `DoneInv` (before the commit), `RunningInv` (if the hook dies
now, `Reevaluates` says its rerun repairs the status). `StartInv` says that the start step
is reached only ready and not paused. `TypeStep`, `FlagsStep` and `StatusStep` prove the
parts with one case per handler.

**ReplicasProofs** — `TypeCorrect`, `KeyIsFinal`, `KeysShared`. The helpers take views to
views, so lemmas about them are stated once (`...Facts`), and each handler's outcome is
shown to be typed and a *key step*: it publishes only keys that are neither configured nor
published, and adopts only keys that are due (`...Outcome`, `HookOutcome`). `StepOnKeys`
concludes that every step of `Replicas` is such a step of one unit, an operator's offer or
leaves the keys alone; `KeyIsFinal` and the refinement `KeysShared` (`Spec` implies
`SharedKeys!Spec` under `offered <- CharmConfig.key`, `published <- bag.key`,
`adopted <- StoredState's keys`) follow.

**ReplicasRestProofs** — `ServicesOnLeader`, `SearchOnLeader`, `RoutesOfAllUnits`, `UnitsAgreeOnKeys`,
`KeysExist`, `FirstLeadersHostname`, `TokenReachesDebarchive`. Each property speaks of the state
when no hook is pending, so the invariant has to say, of a unit that is behind, which pending hook
will repair it. One lemma per handler shows its `Effect` in the terms that the invariants need
(`AddressEffect`, `ServicesEffect`, `SearchEffect`, `RoutesEffect`, `KeysEffect`, `RelatedEffect`), and
`StepEffect` concludes for every step; `QueuedAfter` is what a hook leaves pending. `LeadershipInv`
then has the leader, its address and who will hear of it: `AddressPublished` (a leader whose address is
not the published one has leader-elected pending), `ServicesInv`, `SearchInv`, `RoutesInv`. `KeysInv` is
about two records that a failed hook takes apart: `FileAsStored` and `NoStaleFile` (a unit that remembers
the key in force has it in `service.conf`), `KeysInSync` (one that does not has a hook pending that
synchronises).
`RelatedInv` adds the related charms of a leader that stays, and `AloneInv` the token of a single unit.

**GrpcTlsProofs** — `TypeCorrect`, `SettingsFilesThere`, `NeverTakenAway`, `RouteHasSettings`,
`NewestIsServed`. What a service loads when it
starts is a certificate only if the settings name existing files, so the first two are proved
together with `BetweenSteps`: written files are there before `service.conf` names them, it
is pointed away before they are removed, and no turn is left over between hooks. One
lemma per group of actions, one case per action. `NeverTakenAway` is an action property and follows
from that invariant. `RouteInv` says that a route without settings, or for a service that no longer
wants TLS, is owed another publication (`RouteOwed`: the loop is running, a hook that ends in it is
pending, or config-changed returned early). `FullInv` adds how the newest certificate gets to the
processes: `WrittenInv` (it is in the files, or a hook will write it), `TurnInOrder` (the service whose turn
it is has new files before it is restarted) and `LoadedInv` (a process has loaded what the
settings name, or is about to be restarted).

**DatabaseProofs** — `TypeCorrect`, `NewestPasswordAlways`, `ContractImplemented`, `UnitsPointAtPrimary`,
`ReadyMeansMigrated`, `TaskHandlerUpToDate`. The first three rest on
`SecretKept`: the user's name and password are in the relation's secret and nowhere else, the
databag names the secret exactly when there is one, and there is one only after the database was
requested (`MayProvide` is what keeps this when a provider writes early). `ProvideKeeps` proves it
of any write, `Fetched` that the reader then sees the secret's newest content. `StepKeeps` says all
there is to say of a step (the invariant, one step of the contract, the password), and is proved for
three kinds of steps: those that write neither a databag nor `service.conf`
(`BystandersKeep`), the provider's (`ProviderKeeps`) and a unit's (`WriterKeeps`). The other three rest on
`RestInv`, which is about the data each unit has saved for the diff: `SavedInv` (what is saved is an
earlier databag, and the present one unless relation-changed is due or a proxy is awaited), `PointedInv` (a
unit points at the primary, or the databag still has news for it; without a fault it points at the
primary it has saved), `MigratedInv` and `ToldInv`. That `PointedInv` could not be proved with a fault and a
second failover is how the failback of section 7 was found.

**RelaysProofs** — `FilesBeforeAddressAlways`, `TypeCorrect`, `CertificatesUpToDate`, `OutboxOnAddress`,
`CredentialsUpToDate`, `RelayUpToDate`. The first is not inductive: writing a
file could lower it below the address that is set. `HandlerInOrder` says that a running handler holds
a revision no older than any file, that the files of the steps behind it are from that revision, and
that its address is no newer; `NothingTooNew` bounds everything by the newest revision. The last four
rest on `RestInv`: `HookOfStep` ties where a handler is to the hook that runs, so that a unit at rest has no
handler half-way; `OutboxInv` (files and address are the announced ones, or a hook or the running handler
will see to it, but for the faults the properties name) and `RelayOwed` with `RelationInv` (what postfix
has is what is published, or a hook that will read it is pending, or the handler underway has read
it and has the steps left that make it so).

**HaproxyRoutesProofs** — `ServiceConfAlwaysSound`, `TypeCorrect`, `RoutedServersAlwaysListen`,
`RoutesAlwaysAccepted`, `AlwaysSameAsLegacyHaproxy`. `ValidatedPortsDisjoint` shows that the
validator's count of processes on a port being at most one is what it is meant to be, disjoint
ports for any two services; `ShippedSound` that the file as shipped is sound;
`ServiceConfKeepsSound` that adding an accepted configuration keeps it so. The invariant then says
so of every unit, and one case per action shows that nothing else writes the file. The last three rest
on `RestInv`: `ConfiguredInv` (a unit's ports and file are as configured, or config-changed is pending or
returned early), `LeaderPortsInv`, `MembersInv` (a unit gives its address to the routes
it is ready for, or will)
and `AppInv` (the leader's application data are those of the present configuration, or will be). They
need that what the charm accepts the library accepts (`AcceptedValid`, a lemma about the two
validations), and that a hook that raises stays pending, so that nothing is settled in an
unusable configuration (`Raises`). That exactly one route takes a request is proved path by path.

Only model-checked: the liveness properties `NeverStuckWaiting`, `CredentialsReachEveryUnit`,
`HooksGetTheirTurn` and `EveryHookReturns`, which need fairness and ENABLED. Every invariant and every other
temporal property of a passing run is a theorem, `HostnameIsLeaders` for a leadership that has not moved.

## 6. Not modelled

- NRPE checks, the application dashboard, metrics and the COS agent: files and databags written
  once from configuration and leadership, which no handler reads back.
- The legacy `db` relation beyond whether its data are complete (in `UnitLifecycle`).
- Validators of single strings (`deployment_mode`, `analytics_id`), the default-settings file, systemd
  overrides, license and SSL files, cron jobs: written from the configuration, read by nothing modelled.
- `additional_service_config`, which may put anything into `service.conf`: every property about
  that file holds only without it.
- `account_bootstrapped` and the autoregistration script's write, which no other part reads.
- Of the libraries, what the charm does not use; the certificates library is part of `GrpcTls`'
  environment. Terraform modules and bundles have no behaviour of their own.
- Actions killed half-way (Juju does not run them again), removal of a unit; `upgrade-charm` is
  `OtherHook` in `UnitLifecycle` and a publication of the routes in `HaproxyRoutes`.
- Broken or departed database and broker relations have no handler, so the model never
  withdraws `ready` for them either.

`PROJECT.json` has the reasons for each component.

## 7. Observations

Behaviours met while modelling that no run of their own shows. Some are choices, some may surprise.

*Lifecycle.* amqp-changed sets Active (1453) before it calls `_update_ready_status`; if it is killed there and
the password is withdrawn before Juju runs it again, it returns at 1425 and Active stays. A
certificate hook starts hostagent-messenger on a unit whose relations are not ready (1877-1879).
After a resume that fails at the snap (2660) the services are up on a unit recorded as paused.
leader-elected and replicas-changed resume the leader's services on a paused unit (2328), although
actions.yaml:27 says that pause pauses "the Landscape services". A package that fails to install leaves
the unit in Maintenance until the operator's next change (606). A Blocked that a failed postfix reload
sets is overwritten by Waiting in the same hook (2437).

*Leadership.* Keys are generated in config-changed only: leadership that moves to a unit past its
own leaves everybody without a key (706-708). A pause or resume of the leader's services that
systemd refuses is logged and not tried again (2330-2339), so they may stay on the former leader. A
single unit publishes its haproxy routes only if the debarchive or task-handler charm has made it
store the leader's address; a leader that had heard of its peers before there was an address
publishes none. The legacy haproxy's leader-only backends are not rewritten when leadership moves
(haproxy.py:251-252), nor its services when the configuration changes. When leadership moves between
two units' relation-created hooks, such that neither led during its own, the database is never
requested. A new leader that consumed database_created as a follower never migrates the schema, and
is ready.

*Database.* A field the provider has not published yet is a KeyError that fails the hook
(1184-1196), retried until it is there. `db_port` without `db_host` is dropped, but the migration
runs (config.yaml:155-160). A failed migration in config-changed leaves `ready["db"]` set; it comes
after the options are in `service.conf` (689) and before the task-handler is told (742), which keeps
the former database. config.yaml says of `db_schema_password` that the relation's value comes before
`db_landscape_password`; the code takes that option first (1207-1213, 1228-1234).

A *failback* can be missed: a hook writes the new primary to `service.conf` (1238) and then raises (1267), so
the file stays and the data saved for the library's diff is rolled back. If the provider returns to the
former primary before Juju retries, the retry sees no change, emits no event and succeeds: the unit stays on
the other host, recorded as ready. TLC shows it in eight states when `PointsAtPrimary` is checked without
`NoFailback`, with a fault and two failovers.

*Configuration.* After a switch from OpenID to OIDC both are in `service.conf` (the validator of
config.py:254-273 sees the options only, 2488-2521 only add). `worker_counts` of 0 or less are
accepted, and so are ports outside 1 to 65535 and a `root_url` such as `http://[x`: opening the
ports (613, 767) or parsing the URL (1621, 1767) then fails every hook that does, until the operator
corrects them. Options that are unset leave their values.

*Relays.* SMTP settings are never removed from `main.cf`: wrapper mode, SASL and the relay host stay
when the relation asks for less or ends. `main.cf` is truncated and rewritten in place. A restart of
the outbox snap that fails, or that a kill prevents, is not repeated by the retried hook; an
unreadable certificates secret is skipped with a warning; a certificates secret with a new revision
but the old URI reaches the unit with the next change of the task-handler's databag only.

*gRPC.* After a failed resume, or with an ubuntu-installer-attach whose package started it on a paused unit, a
renewal before the next resume leaves the old certificate served: `lsctl start` restarts nothing.

*Routes.* The appserver's route serves /metrics, which the legacy haproxy denies, and with
`redirect_https` none HAProxy's file becomes invalid (section 3). The legacy haproxy is given the
default ports whatever is configured. The package-upload route lists all units. When one haproxy
unit leaves, the website relation's services are cleared (1587). Two Landscape applications behind
one HAProxy clash on the external gRPC ports.

## 8. Plan

Done, in this order: `UnitLifecycle` (the centre: every other part acts through it), `Replicas` with
`SharedKeys`, `GrpcTls`; `Database` with `DatabaseContract`; `SmtpRelay` and `OutboxSnap`, composed in
`Relays`; `CharmConfig`, `LegacyHaproxy` and `HaproxyRoutes`; the proofs of section 5, of the invariants
first and then of what holds at rest. What is left:

1. Proofs beside liveness: `KeyExists` without `keyless`, and `HostnameIsLeaders` for a leadership that
   moves, if the code comes to generate keys and publish its address in leader-elected.
2. The variant behind each liveness property (what every step of a retried hook brings closer) as an
   action property, which could be proved where the liveness itself cannot.
3. NRPE and the dashboard, if a handler ever reads back what they write.
