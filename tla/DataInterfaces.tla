---------------------------- MODULE DataInterfaces -----------------------------
(***************************************************************************)
(* What the data_interfaces charm library computes for a `database`        *)
(* relation (src/lib/charms/data_platform_libs/v0/data_interfaces.py).     *)
(*                                                                         *)
(* A databag, and the content of a secret, is a function from the fields   *)
(* it holds to their values.  A store is a function from the secret groups *)
(* that have a secret in the relation to the content of its latest         *)
(* revision; the databag refers to it by the field "secret-<group>".       *)
(***************************************************************************)
EXTENDS Naturals

NoData == [f \in {} |-> {}]
Has(data, fields) == fields \subseteq DOMAIN data
Only(data, fields) == [f \in DOMAIN data \cap fields |-> data[f]]
Without(data, fields) == [f \in DOMAIN data \ fields |-> data[f]]

\* dict.update
Update(old, new) ==
  [f \in DOMAIN old \cup DOMAIN new |-> IF f \in DOMAIN new THEN new[f] ELSE old[f]]

--------------------------------------------------------------------------------
(***************************************************************************)
(* Secret fields and their groups.                                         *)
(***************************************************************************)

UserGroup   == {"username", "password", "uris", "read-only-uris"}
TlsGroup    == {"tls", "tls-ca"}
EntityGroup == {"entity-name", "entity-password"}

\* The fields a requirer asks to receive in secrets, and the one it may send.
SecretFields      == UserGroup \cup TlsGroup \cup EntityGroup
LocalSecretFields == {"mtls-cert"}

SecretGroups == {"user", "tls", "mtls", "entity", "extra"}

GroupOf(field) ==
  CASE field \in UserGroup         -> "user"
    [] field \in TlsGroup          -> "tls"
    [] field \in LocalSecretFields -> "mtls"
    [] field \in EntityGroup       -> "entity"
    [] OTHER                       -> "extra"

UriField(group) ==
  CASE group = "user"   -> "secret-user"
    [] group = "tls"    -> "secret-tls"
    [] group = "mtls"   -> "secret-mtls"
    [] group = "entity" -> "secret-entity"
    [] OTHER            -> "secret-extra"

UriFields == {UriField(g) : g \in SecretGroups}

\* The fields of data that belong to the secret of a group.
ContentForGroup(data, fields, group) ==
  Only(data, {f \in fields : GroupOf(f) = group})

--------------------------------------------------------------------------------
(***************************************************************************)
(* Requirer: what it reads from the provider's databag.                    *)
(***************************************************************************)

\* The groups whose secret the databag names and has requested fields to offer.
OfferedGroups(bag, store) ==
  {g \in DOMAIN store : UriField(g) \in DOMAIN bag /\ DOMAIN store[g] \cap SecretFields # {}}

\* A secret field comes from the secret of its group, and from the databag when
\* that secret has nothing to offer; any other field comes from the databag.
FetchRelationData(bag, store) ==
  LET groups == OfferedGroups(bag, store)
      secret == UNION {DOMAIN store[g] \cap SecretFields : g \in groups}
      plain  == {f \in DOMAIN bag \ UriFields : f \in SecretFields => GroupOf(f) \notin groups}
  IN  [f \in plain \cup secret |-> IF f \in secret THEN store[GroupOf(f)][f] ELSE bag[f]]

\* What changed in the databag since the data saved by the last call.
Diff(saved, bag) ==
  [added   |-> DOMAIN bag \ DOMAIN saved,
   changed |-> {f \in DOMAIN saved \cap DOMAIN bag : saved[f] # bag[f]},
   deleted |-> DOMAIN saved \ DOMAIN bag]

MainCredentialsShared(d) ==
  "secret-user" \in d.added \/ {"username", "password"} \subseteq d.added

EntityCredentialsShared(d) == {"secret-entity", "entity-name"} \cap d.added # {}

\* The one event a relation-changed hook of a database requirer emits: the first
\* that applies, "none" when no custom event does.
RequirerEvent(d, entity) ==
  IF MainCredentialsShared(d) /\ ~entity THEN "database_created"
  ELSE IF EntityCredentialsShared(d) /\ entity THEN "database_entity_created"
  ELSE IF "endpoints" \in d.added \cup d.changed THEN "endpoints_changed"
  ELSE IF "read-only-endpoints" \in d.added \cup d.changed THEN "read_only_endpoints_changed"
  ELSE "none"

--------------------------------------------------------------------------------
(***************************************************************************)
(* Requirer: what it writes.  The library writes to the application's      *)
(* databag from the leader only.                                           *)
(***************************************************************************)

\* relation-created: which fields shall be secret, and the database requested.
SecretRequest == [f \in {"requested-secrets", "provided-secrets"} |->
                    IF f = "requested-secrets" THEN SecretFields ELSE LocalSecretFields]

DatabaseRequest == [f \in {"database", "extra-user-roles"} |->
                      IF f = "database" THEN "database" ELSE "SUPERUSER"]

OnRelationCreated(request, leader) ==
  IF leader THEN Update(request, Update(SecretRequest, DatabaseRequest)) ELSE request

--------------------------------------------------------------------------------
(***************************************************************************)
(* Provider: what it may write, and where.                                 *)
(***************************************************************************)

\* Mutant of MayProvide: the guard is missing.
MayProvideAnything(request, data) == TRUE

\* Only the endpoints may be written before the requirer has asked for a database.
MayProvide(request, data) ==
  \/ "database" \in DOMAIN request
  \/ DOMAIN data \subseteq {"endpoints", "read-only-endpoints", "replset"}

RequestedSecrets(request) ==
  IF "requested-secrets" \in DOMAIN request THEN request["requested-secrets"] ELSE {}

\* The fields that go to secrets: the requested ones, unless the relation already
\* holds one of those in its databag.
ToSecrets(bag, request, data) ==
  LET requested == RequestedSecrets(request)
  IN  IF requested \cap DOMAIN bag # {} THEN {} ELSE requested \cap DOMAIN data

\* A group with fields to write gets a secret, or its secret a new revision.
ProvideSecrets(bag, store, request, data) ==
  LET fields == ToSecrets(bag, request, data)
      groups == {GroupOf(f) : f \in fields}
      Old(g) == IF g \in DOMAIN store THEN store[g] ELSE NoData
  IN  [g \in DOMAIN store \cup groups |-> Update(Old(g), ContentForGroup(data, fields, g))]

\* A new secret's URI, and every field that is not secret, go to the databag.
ProvideDatabag(bag, store, request, data) ==
  LET fields == ToSecrets(bag, request, data)
      added  == {GroupOf(f) : f \in fields} \ DOMAIN store
  IN  Update(Update(bag, Without(data, fields)),
             [f \in {UriField(g) : g \in added} |-> "uri"])

\* The event a relation-changed hook of a database provider emits.
ProviderEvent(d) ==
  IF "database" \in d.added
  THEN IF "entity-type" \in d.added THEN "database_entity_requested" ELSE "database_requested"
  ELSE IF "entity-type" \notin d.added /\ "entity-permissions" \in d.added \cup d.changed
  THEN "database_entity_permissions_changed"
  ELSE "none"

================================================================================
