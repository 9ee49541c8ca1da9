-------------------------------- MODULE Replicas -------------------------------
(***************************************************************************)
(* The units of one Landscape Server application (src/src/charm.py): how   *)
(* they share the leader's address and the two secret keys through the     *)
(* peer relation, how the leader's services and the leader's address       *)
(* follow leadership, and what the leader tells the related charms.        *)
(*                                                                         *)
(* A hook is one step, because the hooks of two units meet only in what    *)
(* Juju holds (databags, leadership, configuration), and Juju hands out a  *)
(* hook's databag writes when the hook has returned.  A hook that fails    *)
(* loses its databag writes and its StoredState, keeps what it did to the  *)
(* machine, and is run again.                                              *)
(***************************************************************************)
EXTENDS Naturals, Sequences, FiniteSets

CONSTANTS
  Units,            \* the units; a unit's address is written as the unit
  Given,            \* the values the operator may give a key
  Generated,        \* the values generate_secret_token and its like return
  None,             \* an option, field or key that is not set
  Localhost,        \* the host a leader searches packages on
  RootHost,         \* the host of a configured root_url
  Configs,          \* the configurations the operator may set
  Integrations,     \* the endpoints that are related
  LeaderSettings,   \* Juju still sends leader-settings-changed (before 3.x)
  MaxMoves,         \* bound: how often leadership moves
  MaxReconfigures,  \* bound: how often the operator reconfigures
  MaxCrashes,       \* bound: how many hooks fail
  MaxCuts,          \* bound: how many config-changed hooks return early
  MaxRefused        \* bound: how many units' services refuse to move at a time

\* The keys all units must share, named as in the peer relation's databag.
Keys == {"secret-token", "cookie-encryption-key"}

Values  == Given \cup Generated
KeyBags == [Keys -> Values \cup {None}]
NoKeys  == [k \in Keys |-> None]
Hosts   == Units \cup {Localhost, RootHost, None}

\* valid: the configuration passes LandscapeCharmConfiguration; key: the
\* secret_token and cookie_encryption_key options; root: the host of root_url.
ConfigType == [valid : BOOLEAN, key : [Keys -> Given \cup {None}],
               root : {RootHost, None}]

ASSUME ConstantsAssumption ==
  /\ Configs \subseteq ConfigType
  /\ None \notin Values /\ None \notin Units
  /\ Localhost \notin Units
  /\ Given \cap Generated = {}
  /\ Integrations \subseteq {"debarchive", "task-handler", "haproxy-route", "website"}
  /\ LeaderSettings \in BOOLEAN
  /\ {MaxMoves, MaxReconfigures, MaxCrashes, MaxCuts, MaxRefused} \subseteq Nat

VARIABLES
  leader,      \* the unit Juju holds for the leader
  config,      \* the application's configuration
  pending,     \* per unit, the hooks Juju has yet to run
  up,          \* the units that are in the peer relation
  conf,        \* per unit, service.conf: package-search host and keys
  stored,      \* per unit, StoredState: leader_ip and keys
  bag,         \* the peer relation: the application's leader-ip and keys, and
               \* the units that have written their unit-data
  serving,     \* the units that run LEADER_SERVICES
  routed,      \* the units that have published their haproxy routes
  backends,    \* the units listed in the legacy haproxy's leader-only backends
  debarchive,  \* what the debarchive charm sees
  taskHost,    \* the hostname the task-handler charm sees
  cut,         \* the units whose last config-changed returned early
  refused,     \* the units whose LEADER_SERVICES did not move when last told to
  keyless,     \* history: leadership moved, before there were keys, to a unit that
               \* has no config-changed left to run
  addressless, \* history: leadership moved before a leader's address was published
  faults       \* how often leadership moved, and so on

vars == <<leader, config, pending, up, conf, stored, bag, serving, routed,
          backends, debarchive, taskHost, cut, refused, keyless,
          addressless, faults>>

--------------------------------------------------------------------------------

HookNames == {"config-changed", "leader-elected", "leader-settings-changed",
              "replicas-joined", "replicas-changed",
              "debarchive", "task-handler", "haproxy-route", "website"}

\* self.charm_config: an invalid configuration is replaced by the default one.
CharmConfig == IF config.valid THEN config ELSE [config EXCEPT !.key = NoKeys,
                                                               !.root = None]

Init ==
  /\ leader \in Units
  /\ config \in Configs
  /\ pending = [u \in Units |->
       {"config-changed"}
         \cup IF u = leader THEN {"leader-elected"}
              ELSE IF LeaderSettings THEN {"leader-settings-changed"} ELSE {}]
  /\ up = {}
  /\ conf = [u \in Units |-> [search |-> None, key |-> NoKeys]]
  /\ stored = [u \in Units |-> [leaderIp |-> None, key |-> NoKeys]]
  /\ bag = [leaderIp |-> None, key |-> NoKeys, unitData |-> {}]
  /\ serving = {}
  /\ routed = {}
  /\ backends = {}
  /\ debarchive = [hostname |-> None, token |-> None, revision |-> 0]
  /\ taskHost = None
  /\ cut = {}
  /\ refused = {}
  /\ keyless = FALSE
  /\ addressless = FALSE
  /\ faults = [moves |-> 0, reconfigures |-> 0, crashes |-> 0, cuts |-> 0]

--------------------------------------------------------------------------------
(***************************************************************************)
(* The environment: Juju moves leadership, the operator reconfigures.      *)
(***************************************************************************)

\* Neither the operator nor the peer relation has a key for some use.
KeysMissing == \E k \in Keys : CharmConfig.key[k] = None /\ bag.key[k] = None

LeadershipMoves ==
  /\ faults.moves < MaxMoves
  /\ faults' = [faults EXCEPT !.moves = @ + 1]
  /\ leader' \in Units \ {leader}
  /\ pending' = [u \in Units |->
       pending[u] \cup IF u = leader' THEN {"leader-elected"}
                       ELSE IF LeaderSettings THEN {"leader-settings-changed"} ELSE {}]
  /\ keyless' = (KeysMissing /\ "config-changed" \notin pending[leader'])
  /\ addressless' = (addressless \/ bag.leaderIp = None)
  /\ UNCHANGED <<config, up, conf, stored, bag, serving, routed, backends,
                 debarchive, taskHost, cut, refused>>

OperatorConfigures ==
  /\ faults.reconfigures < MaxReconfigures
  /\ faults' = [faults EXCEPT !.reconfigures = @ + 1]
  /\ config' \in Configs \ {config}
  /\ pending' = [u \in Units |-> pending[u] \cup {"config-changed"}]
  /\ keyless' = FALSE
  /\ UNCHANGED <<leader, up, conf, stored, bag, serving, routed, backends,
                 debarchive, taskHost, cut, refused, addressless>>

--------------------------------------------------------------------------------
(***************************************************************************)
(* What a hook of unit u works on, and what the handlers' helpers do to    *)
(* it: each takes a view and gives the view after the call.                *)
(***************************************************************************)

View(u) ==
  [ip |-> u, isLeader |-> u = leader, conf |-> conf[u], stored |-> stored[u],
   bag |-> bag, serves |-> u \in serving, refused |-> u \in refused,
   routed |-> u \in routed,
   listed |-> u \in backends, debarchive |-> debarchive, taskHost |-> taskHost]

\* Mutant: the key in the peer relation wins over the operator's.
DueKeyPeersFirst(v, k) == IF v.bag.key[k] # None THEN v.bag.key[k]
                                                 ELSE CharmConfig.key[k]

\* _get_secret_token, _get_cookie_encryption_key: the operator's key, else the
\* one in the peer relation.
DueKey(v, k) == IF CharmConfig.key[k] # None THEN CharmConfig.key[k]
                                             ELSE v.bag.key[k]

\* Mutant: the leader looks for the key in the configuration only.
WithGeneratedKeysIgnoringPeers(v) ==
  IF v.isLeader
  THEN { [v EXCEPT !.bag.key = keys] : keys \in
           { keys \in KeyBags : \A k \in Keys :
               IF CharmConfig.key[k] = None
               THEN keys[k] \in Generated \ {conf[u].key[k] : u \in Units}
               ELSE keys[k] = v.bag.key[k] } }
  ELSE {v}

\* Mutant: the leader generates keys only if there is none at all.
WithGeneratedKeysAllOrNone(v) ==
  IF v.isLeader /\ \A k \in Keys : DueKey(v, k) = None
  THEN { [v EXCEPT !.bag.key = keys] : keys \in
           { keys \in KeyBags : \A k \in Keys :
               keys[k] \in Generated \ {conf[u].key[k] : u \in Units} } }
  ELSE {v}

\* The leader generates the keys that nobody has (a set of views: a generated
\* key is any that no unit has seen yet).
WithGeneratedKeys(v) ==
  IF v.isLeader
  THEN { [v EXCEPT !.bag.key = keys] : keys \in
           { keys \in KeyBags : \A k \in Keys :
               IF DueKey(v, k) = None
               THEN keys[k] \in Generated \ {conf[u].key[k] : u \in Units}
               ELSE keys[k] = v.bag.key[k] } }
  ELSE {v}

\* Mutant: a key is written when there was none.
ChangedFromNone(v, k) == DueKey(v, k) # None /\ v.stored.key[k] = None

\* A due key that differs from the one remembered in StoredState is written.
Changed(v, k) == DueKey(v, k) # None /\ DueKey(v, k) # v.stored.key[k]

KeysWritten(v, old) == [k \in Keys |-> IF Changed(v, k) THEN DueKey(v, k) ELSE old[k]]

SyncKeys(v) == [v EXCEPT !.conf.key = KeysWritten(v, @),
                         !.stored.key = KeysWritten(v, @)]

\* Mutant: the leader publishes the address it searches packages on.
PublishSearchHost(v) == [v EXCEPT !.bag.leaderIp = Localhost]

PublishLeaderIp(v) == [v EXCEPT !.bag.leaderIp = v.ip]

SearchPackagesOn(v, host) == [v EXCEPT !.conf.search = host]

\* _provide_all_haproxy_route_requirements: nothing before the leader is known.
ProvideRoutes(v) ==
  [v EXCEPT !.routed = @ \/ ("haproxy-route" \in Integrations
                               /\ v.stored.leaderIp # None)]

\* Mutant: a unit that is not the leader leaves its services alone.
StartLeaderServices(v) ==
  {[v EXCEPT !.serves = @ \/ v.isLeader, !.refused = FALSE]}

\* _start_services and _leader_changed: LEADER_SERVICES run on the leader and are
\* stopped elsewhere.  A service that does not move is only logged, a restart that
\* fails only blocks the unit: the hook goes on and is not run again.
SetLeaderServices(v) ==
  {[v EXCEPT !.serves = v.isLeader, !.refused = FALSE]}
    \cup IF Cardinality(refused \cup {v.ip}) <= MaxRefused
         THEN {[v EXCEPT !.serves = some, !.refused = TRUE] : some \in BOOLEAN}
         ELSE {}

\* Mutant: the routes are left as they are.
LeaderChangedKeepsRoutes(v) == SetLeaderServices(v)

\* The views a unit may have after _leader_changed.
LeaderChanged(v) == {ProvideRoutes(w) : w \in SetLeaderServices(v)}

\* The leader's address as this unit knows it, else its own.
EnsureLeaderIp(v) ==
  IF v.stored.leaderIp = None THEN [v EXCEPT !.stored.leaderIp = v.ip] ELSE v

\* Mutant: root_url is not looked at.
HostnameOfLeader(v) == v.stored.leaderIp

\* The host of root_url, else the leader's address in StoredState.
Hostname(v) == IF CharmConfig.root # None THEN CharmConfig.root
                                          ELSE v.stored.leaderIp

(***************************************************************************)
(* _update_debarchive_relations.  The content of the shared secret is set  *)
(* when the secret is created, when the caller says the token has changed, *)
(* and when the old secret cannot be read (lost) and a new one replaces it.*)
(***************************************************************************)
PublishToDebarchive(v, notify, lost) ==
  LET token  == DueKey(v, "secret-token")
      create == v.debarchive.token = None \/ lost
  IN  [v EXCEPT !.debarchive =
         IF token = None THEN @
         ELSE [hostname |-> Hostname(v),
               token    |-> IF create \/ notify THEN token ELSE @.token,
               revision |-> IF notify THEN @.revision + 1 ELSE @.revision]]

\* Whether the secret can be read is Juju's to say.
SecretLost == IF "debarchive" \in Integrations THEN BOOLEAN ELSE {FALSE}

\* Mutant: the caller's word that the token has changed is dropped.
UpdateDebarchiveQuietly(v, notify, lost) ==
  IF v.isLeader /\ "debarchive" \in Integrations
  THEN PublishToDebarchive(EnsureLeaderIp(v), FALSE, lost)
  ELSE v

UpdateDebarchive(v, notify, lost) ==
  IF v.isLeader /\ "debarchive" \in Integrations
  THEN PublishToDebarchive(EnsureLeaderIp(v), notify, lost)
  ELSE v

\* _update_task_handler_relations, once the database's credentials are known.
UpdateTaskHandler(v) ==
  IF v.isLeader /\ "task-handler" \in Integrations
  THEN LET w == EnsureLeaderIp(v) IN [w EXCEPT !.taskHost = Hostname(w)]
  ELSE v

--------------------------------------------------------------------------------
(***************************************************************************)
(* A hook returns, or fails.                                               *)
(***************************************************************************)

\* Juju tells the units in the relation of a changed databag, but for the writer.
Notified(u, v) ==
  IF v.bag = bag THEN {} ELSE up \ {u}

\* What follows a hook on its own unit: relation-joined is followed by
\* relation-changed, the first config-changed by the relations' hooks.
FollowUps(u, h) ==
  CASE h = "replicas-joined" -> {"replicas-changed"}
    [] h = "config-changed" /\ u \notin up ->
         Integrations \cup IF up # {} THEN {"replicas-joined"} ELSE {}
    [] OTHER -> {}

\* A unit that enters the peer relation is announced to the units in it.
Entering(u, h) == IF h = "config-changed" /\ u \notin up THEN up ELSE {}

Enqueue(u, h, told) ==
  [w \in Units |->
     (IF w = u THEN (pending[u] \ {h}) \cup FollowUps(u, h) ELSE pending[w])
       \cup (IF w \in Entering(u, h) THEN {"replicas-joined"} ELSE {})
       \cup (IF w \in told THEN {"replicas-changed"} ELSE {})]

With(S, u, cond) == IF cond THEN S \cup {u} ELSE S \ {u}

Commits(u, h, v) ==
  /\ pending' = Enqueue(u, h, Notified(u, v))
  /\ up' = IF h = "config-changed" THEN up \cup {u} ELSE up
  /\ conf' = [conf EXCEPT ![u] = v.conf]
  /\ stored' = [stored EXCEPT ![u] = v.stored]
  /\ bag' = v.bag
  /\ serving' = With(serving, u, v.serves)
  /\ refused' = With(refused, u, v.refused)
  /\ keyless' = (keyless /\ ~(h = "config-changed" /\ u = leader))
  /\ routed' = With(routed, u, v.routed)
  /\ backends' = With(backends, u, v.listed)
  /\ debarchive' = v.debarchive
  /\ taskHost' = v.taskHost
  /\ UNCHANGED <<leader, config, addressless, faults>>

\* The order in which a handler changes the machine.
MachineChanges(h) ==
  IF h = "config-changed"
  THEN <<"secret-token", "cookie-encryption-key", "services">>
  ELSE <<"search", "services", "secret-token", "cookie-encryption-key">>

\* The hook fails after the first n changes to the machine and stays pending.
Crashes(u, h, v) ==
  /\ faults.crashes < MaxCrashes
  /\ faults' = [faults EXCEPT !.crashes = @ + 1]
  /\ \E n \in 0..Len(MachineChanges(h)) :
       LET done == {MachineChanges(h)[i] : i \in 1..n}
       IN  /\ conf' = [conf EXCEPT ![u] =
                [search |-> IF "search" \in done THEN v.conf.search ELSE @.search,
                 key |-> [k \in Keys |-> IF k \in done THEN v.conf.key[k]
                                                       ELSE @.key[k]]]]
           /\ IF "services" \in done
              THEN /\ serving' = With(serving, u, v.serves)
                   /\ refused' = With(refused, u, v.refused)
              ELSE UNCHANGED <<serving, refused>>
  /\ UNCHANGED <<leader, config, pending, up, stored, bag, routed, backends,
                 debarchive, taskHost, cut, keyless, addressless>>

Ends(u, h, v) == (Commits(u, h, v) /\ UNCHANGED cut) \/ Crashes(u, h, v)

--------------------------------------------------------------------------------
(***************************************************************************)
(* The handlers.                                                           *)
(***************************************************************************)

\* _on_config_changed from the keys on.  _update_ready_status restarts the
\* services of a unit that is ready and not paused.
ConfigChanged(u) ==
  /\ "config-changed" \in pending[u]
  /\ config.valid
  /\ \E v \in WithGeneratedKeys(View(u)), lost \in SecretLost :
     \E w \in {SyncKeys(v)} \cup SetLeaderServices(SyncKeys(v)) :
       LET notify == Changed(v, "secret-token")
           x == UpdateTaskHandler(UpdateDebarchive(ProvideRoutes(w), notify, lost))
       IN  \/ Commits(u, "config-changed", x) /\ cut' = cut \ {u}
           \/ Crashes(u, "config-changed", x)

\* _on_config_changed returns before it looks at the keys: the configuration is
\* invalid, or a snap, a package or the database's schema has failed.
ConfigChangedEarlyReturn(u) ==
  /\ "config-changed" \in pending[u]
  /\ \/ ~config.valid /\ faults' = faults
     \/ config.valid /\ faults.cuts < MaxCuts
                     /\ faults' = [faults EXCEPT !.cuts = @ + 1]
  /\ pending' = Enqueue(u, "config-changed", {})
  /\ up' = up \cup {u}
  /\ cut' = cut \cup {u}
  /\ UNCHANGED <<leader, config, conf, stored, bag, serving, routed, backends,
                 debarchive, taskHost, refused, keyless, addressless>>

LeaderElected(u) ==
  /\ "leader-elected" \in pending[u]
  /\ \E lost \in SecretLost :
       LET v == View(u)
           w == SearchPackagesOn(PublishLeaderIp(v), Localhost)
           x == UpdateTaskHandler(UpdateDebarchive(w, FALSE, lost))
       IN  \E y \in LeaderChanged(IF v.isLeader THEN x ELSE v) :
             Ends(u, "leader-elected", y)

\* Mutant: the leader, too, takes the host from the peer relation.
FollowLeaderOnLeader(v) ==
  IF v.bag.leaderIp # None
  THEN SearchPackagesOn(v, v.bag.leaderIp) ELSE v

\* A follower takes the package-search host from the peer relation.
FollowLeader(v) ==
  IF ~v.isLeader /\ v.bag.leaderIp # None
  THEN SearchPackagesOn(v, v.bag.leaderIp) ELSE v

LeaderSettingsChanged(u) ==
  /\ "leader-settings-changed" \in pending[u]
  /\ \E x \in LeaderChanged(FollowLeader(View(u))) :
       Ends(u, "leader-settings-changed", x)

ReplicasRelationJoined(u) ==
  /\ "replicas-joined" \in pending[u]
  /\ LET v == View(u)
         w == IF v.isLeader THEN PublishLeaderIp(v) ELSE v
     IN  Ends(u, "replicas-joined", [w EXCEPT !.bag.unitData = @ \cup {u}])

RememberLeader(v) ==
  IF v.bag.leaderIp # None THEN [v EXCEPT !.stored.leaderIp = v.bag.leaderIp] ELSE v

\* _on_replicas_relation_changed.
ReplicasRelationChanged(u) ==
  /\ "replicas-changed" \in pending[u] /\ u \in up
  /\ \E x \in LeaderChanged(FollowLeader(RememberLeader(View(u)))) :
       Ends(u, "replicas-changed", SyncKeys(x))

DebarchiveRelation(u) ==
  /\ "debarchive" \in pending[u]
  /\ \E lost \in SecretLost :
       Ends(u, "debarchive", UpdateDebarchive(View(u), FALSE, lost))

TaskHandlerRelation(u) ==
  /\ "task-handler" \in pending[u]
  /\ Ends(u, "task-handler", UpdateTaskHandler(View(u)))

HaproxyRouteRelation(u) ==
  /\ "haproxy-route" \in pending[u]
  /\ Ends(u, "haproxy-route", ProvideRoutes(View(u)))

\* The legacy haproxy: only the leader lists servers in the package-upload and
\* hashid-databases backends.
WebsiteRelation(u) ==
  /\ "website" \in pending[u]
  /\ LET v == View(u) IN Ends(u, "website", [v EXCEPT !.listed = v.isLeader])

Hook(u) ==
  \/ ConfigChanged(u)
  \/ ConfigChangedEarlyReturn(u)
  \/ LeaderElected(u)
  \/ LeaderSettingsChanged(u)
  \/ ReplicasRelationJoined(u)
  \/ ReplicasRelationChanged(u)
  \/ DebarchiveRelation(u)
  \/ TaskHandlerRelation(u)
  \/ HaproxyRouteRelation(u)
  \/ WebsiteRelation(u)

Next == LeadershipMoves \/ OperatorConfigures \/ \E u \in Units : Hook(u)

Spec == Init /\ [][Next]_vars

--------------------------------------------------------------------------------
(***************************************************************************)
(* Properties.                                                             *)
(***************************************************************************)

ViewType ==
  [ip : Units, isLeader : BOOLEAN, conf : [search : Hosts, key : KeyBags],
   stored : [leaderIp : Units \cup {None}, key : KeyBags],
   bag : [leaderIp : Units \cup {None}, key : KeyBags, unitData : SUBSET Units],
   serves : BOOLEAN, refused : BOOLEAN, routed : BOOLEAN, listed : BOOLEAN,
   debarchive : [hostname : Hosts, token : Values \cup {None}, revision : Nat],
   taskHost : Hosts]

\* Every variable has its type: what units, databags and StoredState may hold.
TypeOK ==
  /\ leader \in Units
  /\ config \in ConfigType
  /\ pending \in [Units -> SUBSET HookNames]
  /\ \A S \in {up, serving, routed, backends, cut, refused} : S \subseteq Units
  /\ conf \in [Units -> [search : Hosts, key : KeyBags]]
  /\ stored \in [Units -> [leaderIp : Units \cup {None}, key : KeyBags]]
  /\ bag \in [leaderIp : Units \cup {None}, key : KeyBags, unitData : SUBSET Units]
  /\ debarchive \in [hostname : Hosts, token : Values \cup {None}, revision : Nat]
  /\ taskHost \in Hosts
  /\ {keyless, addressless} \subseteq BOOLEAN
  /\ faults \in [moves : Nat, reconfigures : Nat, crashes : Nat, cuts : Nat]

\* No unit has a hook left to run.
Rest == \A u \in Units : pending[u] = {}

KeyInForce(k) == DueKey([bag |-> bag], k)

\* Once every hook has run, each unit whose last config-changed went through has
\* the key in force, the operator's or else the published one, in service.conf,
\* whatever leadership, a failed hook or an early return did on the way
\* (_on_config_changed and _on_replicas_relation_changed).  Excepted is a key that
\* is changed and changed back around a failed hook: the file then keeps the key
\* of the failed hook, because StoredState has forgotten it.
KeysAgree ==
  Rest /\ (faults.crashes = 0 \/ faults.reconfigures < 2) =>
          \A u \in up \ cut, k \in Keys :
            KeyInForce(k) # None => conf[u].key[k] = KeyInForce(k)

\* Once every hook has run, the leader's services run on the leader and nowhere
\* else, but on the units whose services did not move when _leader_changed or
\* _start_services last told them to: the code logs that, and does not try again.
LeaderServicesOnLeader == Rest => \A u \in Units \ refused : u \in serving <=> u = leader

\* A key the peers may have read is never replaced by another one: no later
\* leader generates it again (_on_config_changed).
PublishedKeyIsFinal ==
  [][ \A k \in Keys : bag.key[k] # None => bag'.key[k] = bag.key[k] ]_vars

\* Once every hook has run, the leader searches packages on itself and every
\* other unit on the leader (_leader_elected, _on_replicas_relation_changed).
\* Excepted is leadership that has moved away and back without Juju sending
\* leader-settings-changed: the peer databag has then not changed.
SearchFollowsLeader ==
  Rest /\ (LeaderSettings \/ faults.moves < 2) =>
          \A u \in Units :
            conf[u].search = IF u = leader THEN Localhost ELSE leader

\* Once every hook has run, every follower has published its haproxy routes, which it
\* cannot do before it has heard of the leader's address
\* (_provide_all_haproxy_route_requirements).  So has the leader of several units, which
\* Juju does not tell of its own write, but of its peers: unless leadership moved before
\* there was an address, and the new leader had by then heard of its peers.
RoutesPublished ==
  Rest /\ "haproxy-route" \in Integrations =>
    /\ Units \ {leader} \subseteq routed
    /\ Units # {leader} /\ ~addressless => leader \in routed

\* Once every hook has run, the debarchive charm of a single unit has the token in
\* force (_update_debarchive_relations).  Excepted is a token that is changed back before
\* config-changed runs, if another hook has made a new secret of it in between.
DebarchiveHasToken ==
  Rest /\ cut = {} /\ Units = {leader} /\ faults.reconfigures < 2 =>
    debarchive.token \in {None, KeyInForce("secret-token")}

\* Once every hook has run, the application has both keys, wherever leadership went:
\* the leader generates those that neither the operator nor a peer gave ("the leader
\* needs to generate one for all of the units to use", _on_config_changed).  Excepted
\* are a config-changed that returned early, and keyless: only config-changed
\* generates, and a unit that becomes the leader after its own has none.
KeyExists == Rest /\ cut = {} /\ ~keyless => ~KeysMissing

Shared == INSTANCE SharedKeys WITH
            offered <- CharmConfig.key, published <- bag.key,
            adopted <- [u \in Units |-> stored[u].key]

\* The units share the keys as SharedKeys promises: what StoredState remembers is
\* only ever the key that was due, and a published key stays.
SharesKeys == Shared!Spec

(***************************************************************************)
(* What comments and tests say of the program, and a run refutes.          *)
(***************************************************************************)

\* "external Landscape hostname (root_url host, else leader IP)"
\* (_landscape_hostname): once every hook has run, the related charms have it.
HostnameIsLeaders ==
  Rest /\ cut = {} => \A host \in {debarchive.hostname, taskHost} :
            host \in {None, IF CharmConfig.root # None THEN CharmConfig.root
                                                     ELSE leader}
================================================================================
