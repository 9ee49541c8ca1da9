-------------------------------- MODULE Database -------------------------------
(***************************************************************************)
(* The `database` relation of Landscape Server with a PostgreSQL provider: *)
(* the data_interfaces library on both sides, the charm's handler of the   *)
(* events it emits (src/src/charm.py, database.py, settings_files.py), and *)
(* the database section of every unit's service.conf.                      *)
(*                                                                         *)
(* A hook is one step; it may fail at the points where the code can raise. *)
(* Then service.conf and the database keep what the hook did, its databag  *)
(* and stored-state writes are lost, and Juju runs the hook again before   *)
(* any other of that unit.                                                 *)
(***************************************************************************)
EXTENDS DataInterfaces

CONSTANTS
  Units,     \* Landscape's units
  FirstLeader, \* the unit that leads when Landscape is deployed
  Provider,  \* the provider's application
  Hosts,     \* the hosts the provider may publish as its primary
  LandscapePassword, SchemaPassword, \* the passwords the operator may choose
  Configs,   \* the database options the operator may set
  Scenarios, \* the options the charm is deployed with, and the provider it meets
  MaxMoves, MaxFailovers, MaxRotations, MaxFaults, MaxReconfigures, \* bounds
  MaxTotal   \* bound: how much of that happens in one behaviour

\* db_host, db_port, db_landscape_password, db_schema_user and db_schema_password;
\* "none" or 0 is an option that is not set.
ConfigType == [host : {"none", "manual"}, port : {"none", "configured"},
               password : {0, LandscapePassword},
               schemaUser : {"none", "configured"}, schemaPassword : {0, SchemaPassword}]

\* staggered: it may publish its endpoint and version in hooks of their own;
\* subordinate: it has a proxy beside each Landscape unit.
ProviderType == [staggered : BOOLEAN, subordinate : BOOLEAN]

ASSUME DatabaseAssumption ==
  /\ Provider \notin Units /\ FirstLeader \in Units /\ Configs \subseteq ConfigType
  /\ Scenarios \subseteq [config : Configs, provider : ProviderType]
  /\ Hosts \cap {"none", "manual"} = {}
  /\ {LandscapePassword, SchemaPassword} \cap Nat = {}
  /\ {MaxMoves, MaxFailovers, MaxRotations, MaxFaults, MaxReconfigures, MaxTotal}
       \subseteq Nat

VARIABLES
  config,    \* the application's configuration
  provider,  \* the kind of provider
  leader,    \* the unit that leads Landscape
  request,   \* Landscape's application databag
  bag,       \* the provider's application databag
  secrets,   \* the provider's secrets, by group
  proxy,     \* the units whose proxy says "ready" in its unit databag
  seen,      \* the data each party saved at its last diff
  pending,   \* the hooks Juju has yet to run for each party
  failed,    \* the hook a unit has to run again, or "none"
  tracked,   \* the password in the secret revision a unit tracks, 0 before any
  conf,      \* the stores section of a unit's service.conf
  schema,    \* its schema section: the user and password that migrate
  ready,     \* _stored.ready["db"]
  told,      \* the database the task-handler charm has been told to use
  migrated,  \* the databases whose schema is migrated
  cut,       \* history: the units whose config-changed ended early, at the schema,
             \* and that have not come to tell the task-handler since
  count      \* how often the leader moved, and so on

relation == <<request, bag, secrets, proxy, seen, tracked>>
machine  == <<conf, schema, ready, migrated, told, cut>>
vars == <<config, provider, leader, relation, machine, pending, failed, count>>

Parties   == Units \cup {Provider}
Hooks     == {"config-changed", "created", "changed", "leader-elected"}
Databases == {"relation", "manual"}
CountNames == {"moves", "failovers", "rotations", "faults", "reconfigures"}

NoConf == [host |-> "none", port |-> "none", password |-> 0]
NoSchema == [user |-> "none", password |-> 0]

\* config-changed does nothing for the database when no option is set.
NoOption == [host |-> "none", port |-> "none", password |-> 0,
             schemaUser |-> "none", schemaPassword |-> 0]
ConfigHook(c) == IF c = NoOption THEN {} ELSE {"config-changed"}

Init ==
  /\ \E s \in Scenarios : config = s.config /\ provider = s.provider
  /\ leader = FirstLeader
  /\ request = NoData
  /\ bag = NoData
  /\ secrets = NoData
  /\ proxy = {}
  /\ seen = [p \in Parties |-> NoData]
  /\ pending = [p \in Parties |-> IF p = Provider THEN {}
                                  ELSE {"created", "changed"} \cup ConfigHook(config)]
  /\ failed = [u \in Units |-> "none"]
  /\ tracked = [u \in Units |-> 0]
  /\ conf = [u \in Units |-> NoConf]
  /\ schema = [u \in Units |-> NoSchema]
  /\ ready = [u \in Units |-> FALSE]
  /\ told = NoConf
  /\ migrated = {}
  /\ cut = {}
  /\ count = [what \in CountNames |-> 0]

Total == count["moves"] + count["failovers"] + count["rotations"] + count["faults"]
         + count["reconfigures"]

Count(what, max) ==
  /\ count[what] < max /\ Total < MaxTotal
  /\ count' = [count EXCEPT ![what] = @ + 1]

\* A hook that has to be run again comes first, and relation-created precedes
\* every relation-changed.
Runs(u, h) ==
  /\ h \in pending[u]
  /\ failed[u] \in {"none", h}
  /\ h = "changed" => "created" \notin pending[u]

Consumed(p, h) == [pending EXCEPT ![p] = @ \ {h}]
Returns(u, h)  == pending' = Consumed(u, h) /\ failed' = [failed EXCEPT ![u] = "none"]
Raises(u, h)   == failed' = [failed EXCEPT ![u] = h] /\ UNCHANGED pending

\* Juju runs relation-changed for the units when the provider's databag changed.
NotifyUnits(new) ==
  pending' = IF new = bag THEN pending
             ELSE [p \in Parties |-> IF p \in Units THEN pending[p] \cup {"changed"}
                                                    ELSE pending[p]]

--------------------------------------------------------------------------------
(***************************************************************************)
(* The provider.                                                           *)
(***************************************************************************)

Credentials(n) == [f \in {"username", "password"} |-> IF f = "username" THEN 1 ELSE n]

\* All a provider shares with a new database: credentials, primary, version.
AtOnce == {"username", "password"} \cup (IF provider.subordinate THEN {"subordinated"} ELSE {})
Everything(host) ==
  Update(Credentials(1),
         [f \in {"endpoints", "version", "subordinated"} |-> IF f = "endpoints" THEN host ELSE f])

\* update_relation_data of the provider's leader.
Provide(data) ==
  /\ MayProvide(request, data)
  /\ bag' = ProvideDatabag(bag, secrets, request, data)
  /\ secrets' = ProvideSecrets(bag, secrets, request, data)

\* The handler of database_requested creates the database and shares it, in one
\* hook or, when staggered, beginning with some of the fields.
ProviderRelationChanged ==
  /\ "changed" \in pending[Provider]
  /\ seen' = [seen EXCEPT ![Provider] = request]
  /\ IF ProviderEvent(Diff(seen[Provider], request)) = "database_requested"
     THEN \E host \in Hosts, later \in SUBSET {"endpoints", "version"} :
            /\ provider.staggered \/ later = {}
            /\ LET fields == AtOnce \cup ({"endpoints", "version"} \ (later \cup DOMAIN bag))
               IN  Provide(Only(Everything(host), fields))
            /\ pending' = [p \in Parties |->
                             IF p = Provider THEN pending[p] \ {"changed"}
                                             ELSE pending[p] \cup {"changed"}]
     ELSE pending' = Consumed(Provider, "changed") /\ UNCHANGED <<bag, secrets>>
  /\ UNCHANGED <<config, provider, leader, request, proxy, tracked, machine, failed, count>>

\* A staggered provider writes its first endpoint, its version or the user on its
\* own; the library refuses all but the endpoint until the database is requested.
ProviderUpdates ==
  /\ provider.staggered
  /\ \E host \in Hosts, fields \in {{"endpoints"}, {"version"}, {"username", "password"}} :
       /\ fields \cap DOMAIN FetchRelationData(bag, secrets) = {}
       /\ Provide(Only(Everything(host), fields))
       /\ NotifyUnits(bag')
  /\ UNCHANGED <<config, provider, leader, request, proxy, seen, tracked, machine, failed, count>>

\* Another host becomes the primary.
Failover ==
  /\ "endpoints" \in DOMAIN bag
  /\ Count("failovers", MaxFailovers)
  /\ \E host \in Hosts \ {bag["endpoints"]} : Provide([f \in {"endpoints"} |-> host])
  /\ NotifyUnits(bag')
  /\ UNCHANGED <<config, provider, leader, request, proxy, seen, tracked, machine, failed>>

\* The provider changes the user's password.  The databag still holds the same
\* URI; the secret-changed hook this causes runs handlers that do nothing.
RotatePassword ==
  /\ "user" \in DOMAIN secrets
  /\ Count("rotations", MaxRotations)
  /\ Provide(Credentials(secrets["user"]["password"] + 1))
  /\ NotifyUnits(bag')
  /\ UNCHANGED <<config, provider, leader, request, proxy, seen, tracked, machine, failed>>

\* The proxy beside a unit is up and says so in its own databag.
ProxyReady(u) ==
  /\ provider.subordinate /\ u \notin proxy /\ "subordinated" \in DOMAIN bag
  /\ proxy' = proxy \cup {u}
  /\ pending' = [pending EXCEPT ![u] = @ \cup {"changed"}]
  /\ UNCHANGED <<config, provider, leader, request, bag, secrets, seen, tracked,
                 machine, failed, count>>

--------------------------------------------------------------------------------
(***************************************************************************)
(* Landscape: the hooks of a unit.                                         *)
(***************************************************************************)

\* The leader asks for a database; every unit that joins wakes the provider.
RelationCreated(u) ==
  /\ Runs(u, "created")
  /\ request' = OnRelationCreated(request, leader = u)
  /\ pending' = [Consumed(u, "created") EXCEPT ![Provider] = @ \cup {"changed"}]
  /\ failed' = [failed EXCEPT ![u] = "none"]
  /\ UNCHANGED <<config, provider, leader, bag, secrets, proxy, seen, tracked, machine, count>>

\* Beside a proxy the unit waits for it, and leaves the databag's news for later.
Waits(u) == "subordinated" \in DOMAIN bag /\ u \notin proxy

Event(u) == RequirerEvent(Diff(seen[u], bag), FALSE)
Saves(u) == seen' = [seen EXCEPT ![u] = bag]

\* Mutant of NoEvent: the diff is saved although the proxy is not ready.
NoEventSaves(u) ==
  /\ Runs(u, "changed")
  /\ Waits(u) \/ Event(u) \notin {"database_created", "endpoints_changed"}
  /\ Saves(u) /\ Returns(u, "changed")
  /\ UNCHANGED <<config, provider, leader, request, bag, secrets, proxy, tracked, machine,
                 count>>

\* The hook ends without a custom event the charm observes.
NoEvent(u) ==
  /\ Runs(u, "changed")
  /\ \/ Waits(u) /\ UNCHANGED seen
     \/ ~Waits(u) /\ Event(u) \notin {"database_created", "endpoints_changed"} /\ Saves(u)
  /\ Returns(u, "changed")
  /\ UNCHANGED <<config, provider, leader, request, bag, secrets, proxy, tracked, machine, count>>

Emits(u) ==
  /\ Runs(u, "changed")
  /\ ~Waits(u)
  /\ Event(u) \in {"database_created", "endpoints_changed"}

\* Mutant of Content: the revision the unit already tracks.
ContentTracked(u) ==
  IF tracked[u] = 0 THEN secrets
  ELSE [secrets EXCEPT !["user"]["password"] = tracked[u]]

\* get_content(refresh=True): the newest revision, which the unit tracks from now on.
Content(u) == secrets
Tracks(u) == tracked' = [tracked EXCEPT ![u] = secrets["user"]["password"]]

\* fetch_postgres_relation_data indexes these fields of the relation's data.
Required == {"endpoints", "username", "password", "version"}
Shared == Has(FetchRelationData(bag, secrets), Required)

\* Mutant of MissingField: the handler returns, and the diff is saved.
MissingFieldReturns(u) ==
  /\ Emits(u) /\ ~Shared
  /\ Saves(u) /\ Returns(u, "changed")
  /\ UNCHANGED <<config, provider, leader, request, bag, secrets, proxy, tracked, machine,
                 count>>

\* An absent field is a KeyError: the hook fails before it changes anything.
MissingField(u) ==
  /\ Emits(u)
  /\ ~Shared
  /\ Raises(u, "changed")
  /\ UNCHANGED <<config, provider, leader, relation, machine, count>>

\* Mutant of UpdateDbConf: the port is written without a host.
UpdateDbConfPort(old, host, port, password) ==
  [host |-> IF host = "none" THEN old.host ELSE host, port |-> port,
   password |-> IF password = 0 THEN old.password ELSE password]

\* update_db_conf: without a host the port is not written either.
UpdateDbConf(old, host, port, password) ==
  [host     |-> IF host = "none" THEN old.host ELSE host,
   port     |-> IF host = "none" THEN old.port ELSE port,
   password |-> IF password = 0 THEN old.password ELSE password]

\* The schema's own password, or else the password, which is then written here too.
UpdateSchema(old, user, password, schemaPassword) ==
  [user     |-> IF user = "none" THEN old.user ELSE user,
   password |-> IF schemaPassword # 0 THEN schemaPassword
                ELSE IF password = 0 THEN old.password ELSE password]

\* The options of the operator come before what the relation says.
RelationPassword(u) ==
  IF config.password = 0 THEN FetchRelationData(bag, Content(u))["password"]
  ELSE config.password

RelationConf(u) ==
  UpdateDbConf(conf[u],
               IF config.host = "none" THEN FetchRelationData(bag, Content(u))["endpoints"]
               ELSE config.host,
               IF config.port = "none" THEN "published" ELSE config.port,
               RelationPassword(u))

RelationSchema(u) ==
  UpdateSchema(schema[u],
               IF config.schemaUser = "none" THEN "published" ELSE config.schemaUser,
               RelationPassword(u), config.schemaPassword)

WritesRelation(u) ==
  /\ conf' = [conf EXCEPT ![u] = RelationConf(u)]
  /\ schema' = [schema EXCEPT ![u] = RelationSchema(u)]

\* The database service.conf points at: the schema script runs against it.
DatabaseOf(c) == IF c.host \in Hosts THEN "relation" ELSE "manual"

Fault == Count("faults", MaxFaults)
NoFault == UNCHANGED count

\* Mutant of Tell: what is shared already is not shared again.
TellOnce(u) ==
  /\ told' = IF leader = u /\ conf'[u].password # 0 /\ told = NoConf THEN conf'[u] ELSE told
  /\ cut' = cut \ {u}

\* _update_task_handler_relations: the leader shares its own service.conf, once
\* that has a password.
Tell(u) ==
  /\ told' = IF leader = u /\ conf'[u].password # 0 THEN conf'[u] ELSE told
  /\ cut' = cut \ {u}

\* A follower is ready as soon as service.conf is written.
FollowerReady(u) ==
  /\ Emits(u) /\ Shared /\ leader # u
  /\ WritesRelation(u)
  /\ ready' = [ready EXCEPT ![u] = TRUE]
  /\ Saves(u) /\ Tracks(u) /\ Returns(u, "changed") /\ NoFault
  /\ UNCHANGED <<config, provider, leader, request, bag, secrets, proxy, migrated, told, cut>>

LeaderWrites(u) ==
  /\ Emits(u) /\ Shared /\ leader = u
  /\ WritesRelation(u)
  /\ Tracks(u)
  /\ UNCHANGED <<config, provider, leader, request, bag, secrets, proxy>>

\* Mutant of MigrationFails: the handler goes on to the end.
MigrationFailsUnnoticed(u) ==
  /\ LeaderWrites(u)
  /\ Tell(u)
  /\ ready' = [ready EXCEPT ![u] = TRUE]
  /\ Saves(u) /\ Returns(u, "changed") /\ Fault
  /\ UNCHANGED migrated

\* The schema script fails: the unit is blocked and the hook is over.
MigrationFails(u) ==
  /\ LeaderWrites(u)
  /\ Tell(u)
  /\ ready' = [ready EXCEPT ![u] = FALSE]
  /\ Saves(u) /\ Returns(u, "changed") /\ Fault
  /\ UNCHANGED migrated

Migrated(u) == migrated' = migrated \cup {DatabaseOf(conf'[u])}

\* The account script finds pg_hba.conf not ready, or, with charmed roles, a
\* role cannot be granted: the hook fails with the schema migrated.
SetupRaises(u) ==
  /\ LeaderWrites(u)
  /\ Migrated(u)
  /\ Raises(u, "changed") /\ Fault
  /\ UNCHANGED <<seen, ready, told, cut>>

\* The WSL distributions cannot be updated: the hook is over, ready stays FALSE.
WslFails(u) ==
  /\ LeaderWrites(u)
  /\ Tell(u)
  /\ Migrated(u)
  /\ ready' = [ready EXCEPT ![u] = FALSE]
  /\ Saves(u) /\ Returns(u, "changed") /\ Fault

LeaderReady(u) ==
  /\ LeaderWrites(u)
  /\ Tell(u)
  /\ Migrated(u)
  /\ ready' = [ready EXCEPT ![u] = TRUE]
  /\ Saves(u) /\ Returns(u, "changed") /\ NoFault

\* config-changed writes the options that are set, with the default port for a
\* host of its own, and then has the schema migrated, on any unit.
ConfigConf(u) ==
  UpdateDbConf(conf[u], config.host,
               IF config.port = "none" THEN "default" ELSE config.port, config.password)

ConfigSchema(u) ==
  UpdateSchema(schema[u], config.schemaUser, config.password, config.schemaPassword)

\* Without a host there is no database, and the script fails; then, or when the WSL
\* distributions cannot be updated after it, the hook returns before it tells the
\* task-handler.
ConfigChanged(u) ==
  /\ Runs(u, "config-changed")
  /\ conf' = [conf EXCEPT ![u] = ConfigConf(u)]
  /\ schema' = [schema EXCEPT ![u] = ConfigSchema(u)]
  /\ \/ /\ conf'[u].host # "none" /\ Migrated(u)
        /\ ready' = [ready EXCEPT ![u] = TRUE]
        /\ Tell(u)
        /\ Returns(u, "config-changed") /\ NoFault
     \/ /\ conf'[u].host # "none" /\ Migrated(u)
        /\ Raises(u, "config-changed") /\ Fault
        /\ UNCHANGED <<ready, told, cut>>
     \/ /\ \/ conf'[u].host = "none" /\ NoFault /\ UNCHANGED migrated
           \/ conf'[u].host # "none" /\ Fault /\ (Migrated(u) \/ UNCHANGED migrated)
        /\ Returns(u, "config-changed")
        /\ cut' = cut \cup {u}
        /\ UNCHANGED <<ready, told>>
  /\ UNCHANGED <<config, provider, leader, relation>>

--------------------------------------------------------------------------------

OperatorConfigures ==
  /\ Count("reconfigures", MaxReconfigures)
  /\ config' \in Configs
  /\ pending' = [p \in Parties |-> IF p \in Units THEN pending[p] \cup ConfigHook(config')
                                                  ELSE pending[p]]
  /\ UNCHANGED <<provider, leader, relation, machine, failed>>

\* The new leader shares its service.conf with the task-handler.
LeaderElected(u) ==
  /\ Runs(u, "leader-elected")
  /\ UNCHANGED <<conf, schema>>
  /\ Tell(u)
  /\ Returns(u, "leader-elected")
  /\ UNCHANGED <<config, provider, leader, relation, ready, migrated, count>>

LeaderMoves ==
  /\ Count("moves", MaxMoves)
  /\ leader' \in Units \ {leader}
  /\ pending' = [pending EXCEPT ![leader'] = @ \cup {"leader-elected"}]
  /\ UNCHANGED <<config, provider, relation, machine, failed>>

RelationChanged(u) ==
  \/ NoEvent(u) \/ MissingField(u) \/ FollowerReady(u)
  \/ MigrationFails(u) \/ SetupRaises(u) \/ WslFails(u) \/ LeaderReady(u)

UnitHook(u) ==
  RelationCreated(u) \/ RelationChanged(u) \/ ConfigChanged(u) \/ LeaderElected(u)

\* What is owed: the hooks, and what the provider and its proxies have promised.
Owed ==
  \/ \E u \in Units : UnitHook(u) \/ ProxyReady(u)
  \/ ProviderRelationChanged \/ ProviderUpdates

Next == Owed \/ Failover \/ RotatePassword \/ OperatorConfigures \/ LeaderMoves

Spec == Init /\ [][Next]_vars

\* Juju runs the hooks it owes and retries those that failed; the provider answers,
\* publishes what it held back, and its proxies come up.
Fairness == WF_vars(Owed)

FairSpec == Spec /\ Fairness

--------------------------------------------------------------------------------
(***************************************************************************)
(* Properties                                                              *)
(***************************************************************************)

\* A host is always written with a port.
ConfType ==
  {c \in [host : Hosts \cup {"none", "manual"},
          port : {"none", "default", "published", "configured"},
          password : Nat \cup {LandscapePassword}] :
     (c.host = "none") = (c.port = "none")}

SchemaType == [user : {"none", "published", "configured"},
               password : Nat \cup {LandscapePassword, SchemaPassword}]

\* Every variable holds a value the code can give it.
TypeOK ==
  /\ config \in ConfigType /\ provider \in ProviderType /\ leader \in Units
  /\ proxy \subseteq Units
  /\ pending \in [Parties -> SUBSET Hooks]
  /\ failed \in [Units -> Hooks \cup {"none"}]
  /\ tracked \in [Units -> Nat]
  /\ conf \in [Units -> ConfType]
  /\ schema \in [Units -> SchemaType]
  /\ ready \in [Units -> BOOLEAN]
  /\ told \in ConfType
  /\ migrated \subseteq Databases /\ cut \subseteq Units
  /\ count \in [CountNames -> Nat]

AtRest(u) == pending[u] = {} /\ failed[u] = "none"

\* The operator has set the database options once, before the deployment.
OptionsKept == count["reconfigures"] = 0

\* No primary can have come back after the handler of another one failed.
NoFailback == count["faults"] = 0 \/ count["failovers"] <= 1

(***************************************************************************)
(* A unit at rest points at the primary the provider publishes now, or at  *)
(* the operator's: no order of the provider's writes, no late proxy and no *)
(* failed migration makes the library's diff swallow the news of an        *)
(* endpoint (_on_relation_changed_event, _database_relation_changed).      *)
(* Excepted is one order of events: service.conf keeps what a failed hook  *)
(* wrote, the saved data is rolled back, and before the retry the provider *)
(* returns to the primary of the saved data, so the retry sees no change.  *)
(***************************************************************************)
PointsAtPrimary ==
  NoFailback =>
    \A u \in Units : AtRest(u) /\ Shared /\ ~Waits(u) /\ OptionsKept =>
      conf[u].host = IF config.host = "none" THEN bag["endpoints"] ELSE config.host

\* While it leads from the start, a leader whose database is ready has had the
\* schema of that very database migrated.
ReadyLeaderMigrated ==
  count["moves"] = 0 /\ OptionsKept /\ ready[leader] => DatabaseOf(conf[leader]) \in migrated

\* When the leader is at rest, and does not wait for its proxy, the task-handler uses
\* the very database, and password, of the leader's service.conf, whoever told it last
\* and whatever was rolled back (_update_task_handler_relations); a primary that comes
\* back after a failed hook is excepted as above.  Excepted is also a leader whose
\* config-changed wrote options of the operator's to service.conf and then failed to
\* migrate the schema, or to update the WSL distributions: that hook returns before it
\* tells the task-handler, which is not told until the leader comes to do so again.
TaskHandlerFollowsLeader ==
  AtRest(leader) /\ ~Waits(leader) /\ OptionsKept /\ NoFailback /\ leader \notin cut
    => (conf[leader].password # 0 => told = conf[leader])

\* A unit that is pointed at a primary is given the password in force with it: the
\* operator's if one is set, or else the provider's, also when that was rotated between
\* the event and its handler, between two retries, or without an event at all since the
\* last one.  The schema is migrated with the same password, or the operator's for that.
NewestPasswordWithPrimary ==
  [][\A u \in Units : conf'[u].host # conf[u].host /\ conf'[u].host \in Hosts =>
       /\ conf'[u].password = IF config.password = 0 THEN secrets["user"]["password"]
                              ELSE config.password
       /\ schema'[u].password = IF config.schemaPassword = 0 THEN conf'[u].password
                                ELSE config.schemaPassword]_vars

\* The relation keeps its contract.
Contract == INSTANCE DatabaseContract WITH
  asked  <- "database" \in DOMAIN request,
  shared <- Has(FetchRelationData(bag, secrets), {"username", "password"}),
  using  <- {u \in Units : tracked[u] # 0}

ContractKept == Contract!Spec

\* As long as the leader that joins the relation keeps leading, every unit ends
\* up with a database and a password for it in service.conf: the hooks that fail
\* because a field is not published yet, or are skipped because the proxy is not
\* ready, are made up for.
CredentialsReachEveryUnit ==
  <>(count["moves"] > 0
     \/ \A u \in Units : conf[u].host # "none" /\ conf[u].password # 0)

================================================================================
