---------------------------- MODULE DatabaseProofs -----------------------------
(***************************************************************************)
(* What holds of the `database` relation for any number of units, hosts,   *)
(* failovers, rotations and faults.  The types, the contract of            *)
(* DatabaseContract, and that a unit is pointed at a primary with the      *)
(* password in force rest on one invariant of the library's data: the      *)
(* user's name and password are in the secret and nowhere else, once the   *)
(* database has been requested and not before.  What a unit at rest uses   *)
(* rests on a second one, of what each unit has saved of the databag:      *)
(* where service.conf, the schema or the task-handler is not as it should  *)
(* be, the hook that will see to it is due.                                *)
(***************************************************************************)
EXTENDS Database, TLAPS

UserFields  == {"username", "password"}
PlainFields == {"endpoints", "version", "subordinated"}

\* Where the library keeps what the provider has shared.
SecretKept ==
  /\ RequestedSecrets(request) \subseteq SecretFields
  /\ "database" \in DOMAIN request => RequestedSecrets(request) = SecretFields
  /\ DOMAIN bag \subseteq PlainFields \cup {"secret-user"}
  /\ "endpoints" \in DOMAIN bag => bag["endpoints"] \in Hosts
  /\ DOMAIN secrets \subseteq {"user"}
  /\ "secret-user" \in DOMAIN bag <=> "user" \in DOMAIN secrets
  /\ "user" \in DOMAIN secrets =>
       /\ "database" \in DOMAIN request
       /\ DOMAIN secrets["user"] = UserFields
       /\ secrets["user"]["password"] \in Nat \ {0}

IInv == TypeOK /\ SecretKept

\* What a provider writes: name and password together or neither.
Writable(data) ==
  /\ DOMAIN data \subseteq PlainFields \cup UserFields
  /\ "endpoints" \in DOMAIN data => data["endpoints"] \in Hosts
  /\ UserFields \cap DOMAIN data # {} =>
       UserFields \subseteq DOMAIN data /\ data["password"] \in Nat \ {0}

LEMMA FieldNames ==
  /\ UserFields \subseteq SecretFields
  /\ SecretFields \cap (PlainFields \cup UriFields) = {}
  /\ PlainFields \cap UriFields = {} /\ "secret-user" \in UriFields
  /\ \A f \in UserFields : GroupOf(f) = "user"
  /\ UriField("user") = "secret-user"
<1>1. UriFields \subseteq {"secret-user", "secret-tls", "secret-mtls", "secret-entity",
                           "secret-extra"}
  BY DEF UriFields, UriField
<1>2. "user" \in SecretGroups /\ UriField("user") = "secret-user"
  BY DEF SecretGroups, UriField
<1>3. "secret-user" \in UriFields
  BY <1>2 DEF UriFields
<1>4. \A f \in UserFields : GroupOf(f) = "user"
  <2>1. GroupOf("username") = "user"
    BY DEF UserGroup, TlsGroup, LocalSecretFields, EntityGroup, GroupOf
  <2>2. GroupOf("password") = "user"
    BY DEF UserGroup, TlsGroup, LocalSecretFields, EntityGroup, GroupOf
  <2> QED BY <2>1, <2>2 DEF UserFields
<1>5. /\ UserFields \subseteq SecretFields
      /\ SecretFields \cap PlainFields = {}
      /\ SecretFields \cap {"secret-user", "secret-tls", "secret-mtls", "secret-entity",
                           "secret-extra"} = {}
      /\ PlainFields \cap {"secret-user", "secret-tls", "secret-mtls", "secret-entity",
                          "secret-extra"} = {}
  BY DEF UserFields, PlainFields, SecretFields, UserGroup, TlsGroup, EntityGroup
<1> QED BY <1>1, <1>2, <1>3, <1>4, <1>5

--------------------------------------------------------------------------------
(***************************************************************************)
(* The library's reading and writing.                                      *)
(***************************************************************************)

\* The user's fields go to the secret, and only once the database is requested.
LEMMA WrittenSecretly ==
  ASSUME SecretKept, NEW data, Writable(data), MayProvide(request, data)
  PROVE  /\ ToSecrets(bag, request, data) = UserFields \cap DOMAIN data
         /\ UserFields \cap DOMAIN data # {} => "database" \in DOMAIN request
<1>1. RequestedSecrets(request) \cap DOMAIN bag = {}
  BY FieldNames DEF SecretKept
<1>2. ToSecrets(bag, request, data) = RequestedSecrets(request) \cap DOMAIN data
  BY <1>1 DEF ToSecrets
<1>3. SecretFields \cap DOMAIN data = UserFields \cap DOMAIN data
  BY FieldNames DEF Writable
<1>4. CASE "database" \in DOMAIN request
  BY <1>2, <1>3, <1>4 DEF SecretKept
<1>5. CASE "database" \notin DOMAIN request
  <2>1. UserFields \cap DOMAIN data = {}
    BY <1>5 DEF MayProvide, UserFields
  <2> QED BY <1>2, <1>3, <2>1 DEF SecretKept
<1> QED BY <1>4, <1>5

\* What a write makes of the secrets and of the databag.
LEMMA ProvideSecretsOf ==
  ASSUME SecretKept, NEW data, Writable(data), MayProvide(request, data),
         NEW new, new = ProvideSecrets(bag, secrets, request, data)
  PROVE  /\ DOMAIN new \subseteq {"user"} /\ DOMAIN secrets \subseteq DOMAIN new
         /\ "user" \in DOMAIN new <=>
              "user" \in DOMAIN secrets \/ UserFields \cap DOMAIN data # {}
         /\ "user" \in DOMAIN new => /\ DOMAIN new["user"] = UserFields
                                     /\ new["user"]["password"] \in Nat \ {0}
<1> DEFINE fields == UserFields \cap DOMAIN data
           groups == {GroupOf(f) : f \in fields}
           Old(g) == IF g \in DOMAIN secrets THEN secrets[g] ELSE NoData
           content == ContentForGroup(data, fields, "user")
<1>1. ToSecrets(bag, request, data) = fields
  BY WrittenSecretly
<1>2. new = [g \in DOMAIN secrets \cup groups |-> Update(Old(g), ContentForGroup(data, fields, g))]
  BY <1>1 DEF ProvideSecrets
<1>3. groups = IF fields = {} THEN {} ELSE {"user"}
  BY FieldNames
<1>4. DOMAIN new = DOMAIN secrets \cup groups
  BY <1>2
<1>5. /\ DOMAIN content = fields
      /\ \A f \in fields : content[f] = data[f]
  <2>1. {f \in fields : GroupOf(f) = "user"} = fields
    BY FieldNames
  <2> QED BY <2>1 DEF ContentForGroup, Only
<1>6. ASSUME "user" \in DOMAIN new
      PROVE  DOMAIN new["user"] = UserFields /\ new["user"]["password"] \in Nat \ {0}
  <2>1. new["user"] = Update(Old("user"), content)
    BY <1>2, <1>4, <1>6
  <2>2. DOMAIN NoData = {}
    BY DEF NoData
  <2>3. DOMAIN new["user"] = DOMAIN Old("user") \cup fields
    BY <1>5, <2>1 DEF Update
  <2>4. "password" \in DOMAIN new["user"] =>
          new["user"]["password"] = IF "password" \in fields THEN data["password"]
                                    ELSE Old("user")["password"]
    BY <1>5, <2>1, <2>3 DEF Update
  <2>5. CASE fields = {}
    <3>1. "user" \in DOMAIN secrets
      BY <1>3, <1>4, <1>6, <2>5
    <3> QED BY <2>3, <2>4, <2>5, <3>1 DEF SecretKept, UserFields
  <2>6. CASE fields # {}
    <3>1. fields = UserFields /\ data["password"] \in Nat \ {0} /\ "password" \in fields
      BY <2>6 DEF Writable, UserFields
    <3>2. DOMAIN Old("user") \subseteq UserFields
      BY <2>2 DEF SecretKept
    <3> QED BY <2>3, <2>4, <3>1, <3>2
  <2> QED BY <2>5, <2>6
<1> QED BY <1>3, <1>4, <1>6 DEF SecretKept

LEMMA ProvideDatabagOf ==
  ASSUME SecretKept, NEW data, Writable(data), MayProvide(request, data),
         NEW new, new = ProvideDatabag(bag, secrets, request, data)
  PROVE  /\ DOMAIN new \subseteq PlainFields \cup {"secret-user"}
         /\ "endpoints" \in DOMAIN new => new["endpoints"] \in Hosts
         /\ "secret-user" \in DOMAIN new <=>
              "user" \in DOMAIN secrets \/ UserFields \cap DOMAIN data # {}
         /\ DOMAIN bag \subseteq DOMAIN new
         /\ "endpoints" \in DOMAIN bag =>
              new["endpoints"] = IF "endpoints" \in DOMAIN data THEN data["endpoints"]
                                 ELSE bag["endpoints"]
<1> DEFINE fields == UserFields \cap DOMAIN data
           added  == {GroupOf(f) : f \in fields} \ DOMAIN secrets
           uris   == [f \in {UriField(g) : g \in added} |-> "uri"]
           plain  == Without(data, fields)
<1>1. ToSecrets(bag, request, data) = fields
  BY WrittenSecretly
<1>2. new = Update(Update(bag, plain), uris)
  BY <1>1 DEF ProvideDatabag
<1>3. DOMAIN uris = IF fields = {} \/ "user" \in DOMAIN secrets THEN {} ELSE {"secret-user"}
  <2>1. {GroupOf(f) : f \in fields} = IF fields = {} THEN {} ELSE {"user"}
    BY FieldNames
  <2> QED BY <2>1, FieldNames
<1>4. DOMAIN plain \subseteq PlainFields /\ \A f \in DOMAIN plain : plain[f] = data[f]
  BY DEF Without, Writable
<1>5. DOMAIN new = DOMAIN bag \cup DOMAIN plain \cup DOMAIN uris
  BY <1>2 DEF Update
<1>6. "endpoints" \notin DOMAIN uris /\ "secret-user" \notin PlainFields
  BY <1>3 DEF PlainFields
<1>7. "endpoints" \in DOMAIN new =>
        new["endpoints"] = IF "endpoints" \in DOMAIN plain THEN data["endpoints"]
                           ELSE bag["endpoints"]
  BY <1>2, <1>4, <1>5, <1>6 DEF Update
<1>8. DOMAIN plain \subseteq DOMAIN data
  BY DEF Without
<1>9. "endpoints" \in DOMAIN new => new["endpoints"] \in Hosts
  BY <1>5, <1>6, <1>7, <1>8 DEF SecretKept, Writable
<1>10. "endpoints" \in DOMAIN plain <=> "endpoints" \in DOMAIN data
  BY DEF Without, UserFields
<1>11. "endpoints" \in DOMAIN bag =>
         new["endpoints"] = IF "endpoints" \in DOMAIN data THEN data["endpoints"]
                            ELSE bag["endpoints"]
  BY <1>5, <1>7, <1>10
<1> QED BY <1>3, <1>4, <1>5, <1>6, <1>9, <1>11 DEF SecretKept

\* A write keeps the user's fields where they belong.
LEMMA ProvideKeeps ==
  ASSUME SecretKept, NEW data, Writable(data), Provide(data), request' = request
  PROVE  SecretKept' /\ DOMAIN secrets \subseteq DOMAIN secrets'
<1>1. /\ MayProvide(request, data)
      /\ secrets' = ProvideSecrets(bag, secrets, request, data)
      /\ bag' = ProvideDatabag(bag, secrets, request, data)
  BY DEF Provide
<1>2. UserFields \cap DOMAIN data # {} => "database" \in DOMAIN request
  BY <1>1, WrittenSecretly
<1> QED BY <1>1, <1>2, ProvideSecretsOf, ProvideDatabagOf DEF SecretKept

\* The part of it that the reader depends on.
Placed(b, s) ==
  /\ DOMAIN b \subseteq PlainFields \cup {"secret-user"}
  /\ DOMAIN s \subseteq {"user"}
  /\ "secret-user" \in DOMAIN b <=> "user" \in DOMAIN s
  /\ "user" \in DOMAIN s => DOMAIN s["user"] = UserFields

\* Landscape reads the credentials from the secret, and has them as soon as there is one.
LEMMA Fetched ==
  ASSUME NEW b, NEW s, Placed(b, s)
  PROVE  LET data == FetchRelationData(b, s)
         IN  /\ Has(data, UserFields) <=> "user" \in DOMAIN s
             /\ "password" \in DOMAIN data <=> "user" \in DOMAIN s
             /\ "password" \in DOMAIN data => data["password"] = s["user"]["password"]
             /\ "endpoints" \in DOMAIN data <=> "endpoints" \in DOMAIN b
             /\ "endpoints" \in DOMAIN data => data["endpoints"] = b["endpoints"]
<1> DEFINE data   == FetchRelationData(b, s)
           groups == OfferedGroups(b, s)
           secret == UNION {DOMAIN s[g] \cap SecretFields : g \in groups}
           plain  == {f \in DOMAIN b \ UriFields : f \in SecretFields => GroupOf(f) \notin groups}
<1>1. data = [f \in plain \cup secret |->
                IF f \in secret THEN s[GroupOf(f)][f] ELSE b[f]]
  BY DEF FetchRelationData
<1>2. groups = DOMAIN s
  BY FieldNames DEF Placed, OfferedGroups, UserFields
<1>3. secret = IF "user" \in DOMAIN s THEN UserFields ELSE {}
  BY <1>2, FieldNames DEF Placed
<1>4. plain = DOMAIN b \cap PlainFields
  BY FieldNames DEF Placed
<1>5. DOMAIN data = plain \cup secret
  BY <1>1
<1>6. {"username", "password"} \cap PlainFields = {} /\ "endpoints" \in PlainFields
      /\ "endpoints" \notin UserFields
  BY DEF PlainFields, UserFields
<1>7. "password" \in secret => data["password"] = s["user"]["password"]
  BY <1>1, <1>3, FieldNames DEF UserFields
<1>8. "endpoints" \in plain => data["endpoints"] = b["endpoints"]
  BY <1>1, <1>3, <1>6
<1> HIDE DEF data, groups, secret, plain
<1> QED BY <1>3, <1>4, <1>5, <1>6, <1>7, <1>8 DEF Has, UserFields, data

--------------------------------------------------------------------------------
(***************************************************************************)
(* What a unit writes to service.conf.                                     *)
(***************************************************************************)

LEMMA OptionTypes ==
  ASSUME TypeOK
  PROVE  /\ config.host \in {"none", "manual"} /\ config.port \in {"none", "configured"}
         /\ config.password \in {0, LandscapePassword}
         /\ config.schemaUser \in {"none", "configured"}
         /\ config.schemaPassword \in {0, SchemaPassword}
         /\ LandscapePassword # 0 /\ SchemaPassword # 0
         /\ "manual" \notin Hosts /\ "none" \notin Hosts
BY DatabaseAssumption DEF TypeOK, ConfigType

\* The relation's event points the unit at the published primary or the operator's,
\* with the password in force.
LEMMA RelationConfOf ==
  ASSUME IInv, NEW u \in Units, Shared
  PROVE  /\ RelationConf(u) \in ConfType
         /\ RelationConf(u).password = IF config.password = 0 THEN secrets["user"]["password"]
                                       ELSE config.password
         /\ "user" \in DOMAIN secrets /\ secrets["user"]["password"] \in Nat \ {0}
         /\ RelationSchema(u) \in SchemaType
         /\ RelationSchema(u).password =
              IF config.schemaPassword = 0 THEN RelationConf(u).password
              ELSE config.schemaPassword
<1> DEFINE data == FetchRelationData(bag, secrets)
           host == IF config.host = "none" THEN data["endpoints"] ELSE config.host
           port == IF config.port = "none" THEN "published" ELSE config.port
<1>1. "endpoints" \in DOMAIN data /\ "password" \in DOMAIN data
  BY DEF Shared, Has, Required
<1>2. /\ "user" \in DOMAIN secrets /\ data["password"] = secrets["user"]["password"]
      /\ data["password"] \in Nat \ {0} /\ data["endpoints"] \in Hosts
  <2>1. Placed(bag, secrets)
    BY DEF IInv, SecretKept, Placed
  <2> QED BY <1>1, <2>1, Fetched DEF IInv, SecretKept
<1>3. host \in Hosts \cup {"manual"} /\ host # "none"
  BY <1>2, OptionTypes DEF IInv
<1>4. port \in {"published", "configured"}
  BY OptionTypes DEF IInv
<1>5. /\ RelationPassword(u) = IF config.password = 0 THEN secrets["user"]["password"]
                               ELSE config.password
      /\ RelationPassword(u) \in (Nat \ {0}) \cup {LandscapePassword}
      /\ RelationPassword(u) # 0
  BY <1>2, OptionTypes DEF RelationPassword, Content, IInv
<1>6. RelationConf(u) = [host |-> host, port |-> port, password |-> RelationPassword(u)]
  BY <1>3, <1>5 DEF RelationConf, UpdateDbConf, Content
<1>7. RelationConf(u) \in ConfType
  <2> HIDE DEF host, port, data
  <2> QED BY <1>3, <1>4, <1>5, <1>6 DEF ConfType
<1>8. /\ RelationSchema(u) \in SchemaType
      /\ RelationSchema(u).password = IF config.schemaPassword = 0 THEN RelationPassword(u)
                                      ELSE config.schemaPassword
  <2> DEFINE user == IF config.schemaUser = "none" THEN "published" ELSE config.schemaUser
             pass == IF config.schemaPassword = 0 THEN RelationPassword(u)
                     ELSE config.schemaPassword
  <2>1. user \in {"published", "configured"}
    BY OptionTypes DEF IInv
  <2>2. pass \in Nat \cup {LandscapePassword, SchemaPassword}
    BY <1>5, OptionTypes DEF IInv
  <2>3. RelationSchema(u) = [user |-> user, password |-> pass]
    BY <1>5, <2>1 DEF RelationSchema, UpdateSchema
  <2> HIDE DEF user, pass
  <2>4. RelationSchema(u) \in SchemaType /\ RelationSchema(u).password = pass
    BY <2>1, <2>2, <2>3 DEF SchemaType
  <2> QED BY <2>4 DEF pass
<1> QED BY <1>2, <1>5, <1>6, <1>7, <1>8

\* The operator's options never name a published host.
LEMMA ConfigConfOf ==
  ASSUME IInv, NEW u \in Units
  PROVE  /\ ConfigConf(u) \in ConfType
         /\ ConfigConf(u).host = conf[u].host \/ ConfigConf(u).host \notin Hosts
         /\ ConfigSchema(u) \in SchemaType
<1> DEFINE pass == IF config.password = 0 THEN conf[u].password ELSE config.password
<1>1. conf[u] \in ConfType /\ schema[u] \in SchemaType
  BY DEF IInv, TypeOK
<1>0. pass \in Nat \cup {LandscapePassword}
  BY <1>1, OptionTypes DEF ConfType, IInv
<1>4. ConfigSchema(u) \in SchemaType
  <2> DEFINE user == IF config.schemaUser = "none" THEN schema[u].user ELSE config.schemaUser
             word == IF config.schemaPassword # 0 THEN config.schemaPassword
                     ELSE IF config.password = 0 THEN schema[u].password ELSE config.password
  <2>1. user \in {"none", "published", "configured"}
    BY <1>1, OptionTypes DEF IInv, SchemaType
  <2>2. word \in Nat \cup {LandscapePassword, SchemaPassword}
    BY <1>1, OptionTypes DEF IInv, SchemaType
  <2>3. ConfigSchema(u) = [user |-> user, password |-> word]
    BY DEF ConfigSchema, UpdateSchema
  <2> HIDE DEF user, word
  <2> QED BY <2>1, <2>2, <2>3 DEF SchemaType
<1>2. CASE config.host = "none"
  <2>1. ConfigConf(u) = [host |-> conf[u].host, port |-> conf[u].port, password |-> pass]
    BY <1>2 DEF ConfigConf, UpdateDbConf
  <2> HIDE DEF pass
  <2> QED BY <1>0, <1>1, <1>4, <2>1 DEF ConfType
<1>3. CASE config.host # "none"
  <2> DEFINE port == IF config.port = "none" THEN "default" ELSE config.port
  <2>1. config.host = "manual" /\ port \in {"default", "configured"}
    BY <1>3, OptionTypes DEF IInv
  <2>2. ConfigConf(u) = [host |-> config.host, port |-> port, password |-> pass]
    BY <1>3 DEF ConfigConf, UpdateDbConf
  <2> HIDE DEF port, pass
  <2> QED BY <1>0, <1>4, <2>1, <2>2, OptionTypes DEF ConfType, IInv
<1> QED BY <1>2, <1>3

--------------------------------------------------------------------------------
(***************************************************************************)
(* The steps.                                                              *)
(***************************************************************************)

\* What Contract abstracts from, and the contract's step.
Asked     == "database" \in DOMAIN request
SharedYet == Has(FetchRelationData(bag, secrets), {"username", "password"})
Using     == {u \in Units : tracked[u] # 0}
ContractStep ==
  \/ Asked' /\ UNCHANGED <<SharedYet, Using>>
  \/ Asked /\ SharedYet' /\ UNCHANGED <<Asked, Using>>
  \/ \E u \in Units : SharedYet /\ Using' = Using \cup {u} /\ UNCHANGED <<Asked, SharedYet>>
  \/ UNCHANGED <<Asked, SharedYet, Using>>

NewestPassword ==
  \A u \in Units : conf'[u].host # conf[u].host /\ conf'[u].host \in Hosts
    => /\ conf'[u].password = IF config.password = 0 THEN secrets["user"]["password"]
                              ELSE config.password
       /\ schema'[u].password = IF config.schemaPassword = 0 THEN conf'[u].password
                                ELSE config.schemaPassword

\* All there is to say of a step.
StepKeeps == IInv' /\ ContractStep /\ NewestPassword

LEMMA SharedYetIs ==
  /\ SecretKept  => (SharedYet  <=> "user" \in DOMAIN secrets)
  /\ SecretKept' => (SharedYet' <=> "user" \in DOMAIN secrets')
<1>1. /\ SecretKept  => Placed(bag, secrets)
      /\ SecretKept' => Placed(bag', secrets')
  BY DEF SecretKept, Placed
<1> QED BY <1>1, Fetched DEF SharedYet, UserFields

LEMMA CountType ==
  ASSUME TypeOK, NEW what \in CountNames, NEW max, Count(what, max)
  PROVE  count' \in [CountNames -> Nat]
BY DEF TypeOK, Count

LEMMA InitInv == Init => IInv
<1> SUFFICES ASSUME Init PROVE IInv
  OBVIOUS
<1>1. config \in ConfigType /\ provider \in ProviderType /\ leader \in Units
  BY DatabaseAssumption DEF Init
<1>2. pending \in [Parties -> SUBSET Hooks]
  BY DEF Init, ConfigHook, Hooks, Parties
<1>3. /\ conf \in [Units -> ConfType] /\ told \in ConfType
      /\ schema \in [Units -> SchemaType]
  BY DEF Init, NoConf, ConfType, NoSchema, SchemaType
<1>4. TypeOK
  BY <1>1, <1>2, <1>3 DEF Init, TypeOK
<1>5. SecretKept
  BY DEF Init, NoData, SecretKept, RequestedSecrets
<1> QED BY <1>4, <1>5 DEF IInv

\* A step that writes no service.conf and no databag of the provider, and asks for
\* the database or not.
LEMMA BystandersKeep ==
  ASSUME IInv, TypeOK', UNCHANGED <<conf, schema, tracked, bag, secrets>>,
         \/ request' = request
         \/ \E u \in Units : request' = OnRelationCreated(request, leader = u)
  PROVE  StepKeeps
<1>1. /\ Asked => Asked'
      /\ RequestedSecrets(request)' \subseteq SecretFields
      /\ "database" \in DOMAIN request' => RequestedSecrets(request)' = SecretFields
  <2>1. CASE request' = request
    BY <2>1 DEF IInv, SecretKept, Asked
  <2>2. CASE request' = Update(request, Update(SecretRequest, DatabaseRequest))
    <3> DEFINE new == Update(SecretRequest, DatabaseRequest)
    <3>1. /\ {"database", "requested-secrets"} \subseteq DOMAIN new
          /\ new["requested-secrets"] = SecretFields
      BY DEF Update, SecretRequest, DatabaseRequest
    <3> HIDE DEF new
    <3>2. /\ {"database", "requested-secrets"} \subseteq DOMAIN request'
          /\ request'["requested-secrets"] = SecretFields
      BY <2>2, <3>1 DEF Update, new
    <3> QED BY <3>2 DEF RequestedSecrets, Asked
  <2> QED BY <2>1, <2>2 DEF OnRelationCreated
<1>2. SecretKept'
  BY <1>1 DEF IInv, SecretKept, Asked
<1>3. SharedYet' = SharedYet /\ Using' = Using
  BY DEF SharedYet, Using
<1>4. ContractStep
  BY <1>1, <1>3 DEF ContractStep, Asked
<1>5. NewestPassword
  BY DEF NewestPassword
<1> QED BY <1>2, <1>4, <1>5 DEF StepKeeps, IInv

\* The provider writes its databag and its secrets.
LEMMA ProviderKeeps ==
  ASSUME IInv, TypeOK', NEW data, Writable(data), Provide(data),
         UNCHANGED <<conf, schema, tracked, request>>
  PROVE  StepKeeps
<1>1. SecretKept' /\ DOMAIN secrets \subseteq DOMAIN secrets'
  BY ProvideKeeps DEF IInv
<1>2. SharedYet <=> "user" \in DOMAIN secrets
  BY SharedYetIs DEF IInv
<1>3. SharedYet' <=> "user" \in DOMAIN secrets'
  BY <1>1, SharedYetIs
<1>4. Asked' = Asked /\ Using' = Using
  BY DEF Asked, Using
<1>5. SharedYet' => Asked
  BY <1>1, <1>3 DEF SecretKept, Asked
<1>6. (SharedYet \in BOOLEAN) /\ (SharedYet' \in BOOLEAN)
  BY DEF SharedYet, Has
<1>7. ContractStep
  BY <1>1, <1>2, <1>3, <1>4, <1>5, <1>6 DEF ContractStep
<1>8. NewestPassword
  BY DEF NewestPassword
<1> QED BY <1>1, <1>7, <1>8 DEF StepKeeps, IInv

\* A unit rewrites its service.conf.
LEMMA WriterKeeps ==
  ASSUME IInv, TypeOK', UNCHANGED <<request, bag, secrets>>, NEW u \in Units,
         \/ Shared /\ WritesRelation(u) /\ Tracks(u)
         \/ conf' = [conf EXCEPT ![u] = ConfigConf(u)] /\ tracked' = tracked
  PROVE  StepKeeps
<1>1. SecretKept'
  BY DEF IInv, SecretKept, RequestedSecrets
<1>2. UNCHANGED <<Asked, SharedYet>>
  BY DEF Asked, SharedYet
<1>3. conf \in [Units -> ConfType] /\ schema \in [Units -> SchemaType] /\ tracked \in [Units -> Nat]
  BY DEF IInv, TypeOK
<1>4. CASE Shared /\ WritesRelation(u) /\ Tracks(u)
  <2>1. /\ RelationConf(u).password = IF config.password = 0 THEN secrets["user"]["password"]
                                      ELSE config.password
        /\ RelationSchema(u).password = IF config.schemaPassword = 0 THEN RelationConf(u).password
                                        ELSE config.schemaPassword
        /\ secrets["user"]["password"] # 0
        /\ SharedYet
    BY <1>4, RelationConfOf, SharedYetIs DEF IInv
  <2>2. /\ conf'[u] = RelationConf(u) /\ schema'[u] = RelationSchema(u)
        /\ \A v \in Units \ {u} : conf'[v] = conf[v]
        /\ tracked' = [tracked EXCEPT ![u] = secrets["user"]["password"]]
    BY <1>3, <1>4 DEF WritesRelation, Tracks
  <2>3. Using' = Using \cup {u}
    BY <1>3, <2>1, <2>2 DEF Using
  <2>4. ContractStep
    BY <1>2, <2>1, <2>3 DEF ContractStep
  <2>5. NewestPassword
    BY <2>1, <2>2 DEF NewestPassword
  <2> QED BY <1>1, <2>4, <2>5 DEF StepKeeps, IInv
<1>5. CASE conf' = [conf EXCEPT ![u] = ConfigConf(u)] /\ tracked' = tracked
  <2>1. ConfigConf(u).host = conf[u].host \/ ConfigConf(u).host \notin Hosts
    BY ConfigConfOf
  <2>2. conf'[u] = ConfigConf(u) /\ \A v \in Units \ {u} : conf'[v] = conf[v]
    BY <1>3, <1>5
  <2>3. Using' = Using
    BY <1>5 DEF Using
  <2>4. ContractStep
    BY <1>2, <2>3 DEF ContractStep
  <2>5. NewestPassword
    BY <2>1, <2>2 DEF NewestPassword
  <2> QED BY <1>1, <2>4, <2>5 DEF StepKeeps, IInv
<1> QED BY <1>4, <1>5

\* Juju's bookkeeping of hooks.
LEMMA HookTypes ==
  ASSUME TypeOK
  PROVE  /\ \A p \in Parties, h \in Hooks : Consumed(p, h) \in [Parties -> SUBSET Hooks]
         /\ \A u \in Units, h \in Hooks : Returns(u, h) =>
              pending' \in [Parties -> SUBSET Hooks] /\ failed' \in [Units -> Hooks \cup {"none"}]
         /\ \A u \in Units, h \in Hooks : Raises(u, h) =>
              pending' \in [Parties -> SUBSET Hooks] /\ failed' \in [Units -> Hooks \cup {"none"}]
         /\ \A new : NotifyUnits(new) => pending' \in [Parties -> SUBSET Hooks]
         /\ \A c : ConfigHook(c) \in SUBSET Hooks
         /\ {"config-changed", "created", "changed", "leader-elected"} \subseteq Hooks
         /\ Provider \in Parties /\ Units \subseteq Parties
<1>1. \A p \in Parties, h \in Hooks : Consumed(p, h) \in [Parties -> SUBSET Hooks]
  BY DEF TypeOK, Consumed
<1>2. Provider \in Parties /\ Units \subseteq Parties
  BY DEF Parties
<1>3. ASSUME NEW u \in Units, NEW h \in Hooks, Returns(u, h)
      PROVE  pending' \in [Parties -> SUBSET Hooks] /\ failed' \in [Units -> Hooks \cup {"none"}]
  BY <1>1, <1>2, <1>3 DEF TypeOK, Returns
<1>4. ASSUME NEW u \in Units, NEW h \in Hooks, Raises(u, h)
      PROVE  pending' \in [Parties -> SUBSET Hooks] /\ failed' \in [Units -> Hooks \cup {"none"}]
  BY <1>4 DEF TypeOK, Raises
<1>5. \A c : ConfigHook(c) \in SUBSET Hooks
  BY DEF ConfigHook, Hooks
<1>6. {"config-changed", "created", "changed", "leader-elected"} \subseteq Hooks
  BY DEF Hooks
<1>7. ASSUME NEW new, NotifyUnits(new) PROVE pending' \in [Parties -> SUBSET Hooks]
  BY <1>6, <1>7 DEF TypeOK, NotifyUnits
<1> QED BY <1>1, <1>2, <1>3, <1>4, <1>5, <1>6, <1>7

\* All the provider has to share is writable, and so is any part of it that has the
\* name and the password or neither.
LEMMA SharedWritable ==
  /\ \A host, fields :
       host \in Hosts /\ (UserFields \subseteq fields \/ UserFields \cap fields = {}) =>
         Writable(Only(Everything(host), fields))
  /\ \A host \in Hosts : Writable([f \in {"endpoints"} |-> host])
  /\ \A n \in Nat \ {0} : Writable(Credentials(n))
<1>1. \A n : /\ DOMAIN Credentials(n) = UserFields
             /\ Credentials(n)["password"] = n
  BY DEF Credentials, UserFields
<1>2. ASSUME NEW host \in Hosts
      PROVE  /\ DOMAIN Everything(host) = UserFields \cup PlainFields
             /\ Everything(host)["password"] = 1
             /\ Everything(host)["endpoints"] = host
  BY <1>1 DEF Everything, Update, UserFields, PlainFields
<1>3. ASSUME NEW host \in Hosts, NEW fields,
             UserFields \subseteq fields \/ UserFields \cap fields = {}
      PROVE  Writable(Only(Everything(host), fields))
  <2> DEFINE all == Everything(host)
             data == Only(all, fields)
  <2>1. /\ DOMAIN data = DOMAIN all \cap fields
        /\ \A f \in DOMAIN data : data[f] = all[f]
    BY DEF Only
  <2> QED BY <1>2, <1>3, <2>1 DEF Writable, UserFields
<1>4. \A host \in Hosts : Writable([f \in {"endpoints"} |-> host])
  BY DEF Writable, UserFields, PlainFields
<1>5. \A n \in Nat \ {0} : Writable(Credentials(n))
  BY <1>1 DEF Writable, UserFields, PlainFields
<1> QED BY <1>3, <1>4, <1>5

LEMMA EnvironmentKeeps ==
  ASSUME IInv, OperatorConfigures \/ LeaderMoves \/ (\E u \in Units : ProxyReady(u))
  PROVE  StepKeeps
<1>1. CASE OperatorConfigures
  <2>1. config' \in ConfigType /\ count' \in [CountNames -> Nat]
    BY <1>1, CountType, DatabaseAssumption DEF OperatorConfigures, IInv, CountNames
  <2>2. pending' \in [Parties -> SUBSET Hooks]
    BY <1>1, HookTypes DEF OperatorConfigures, IInv, TypeOK
  <2>3. TypeOK'
    BY <1>1, <2>1, <2>2 DEF OperatorConfigures, IInv, TypeOK, relation, machine
  <2> QED BY <1>1, <2>3, BystandersKeep DEF OperatorConfigures, relation, machine
<1>2. CASE LeaderMoves
  <2>1. leader' \in Units /\ count' \in [CountNames -> Nat]
    BY <1>2, CountType DEF LeaderMoves, IInv, CountNames
  <2>2. pending' \in [Parties -> SUBSET Hooks]
    BY <1>2, HookTypes DEF LeaderMoves, IInv, TypeOK
  <2>3. TypeOK'
    BY <1>2, <2>1, <2>2 DEF LeaderMoves, IInv, TypeOK, relation, machine
  <2> QED BY <1>2, <2>3, BystandersKeep DEF LeaderMoves, relation, machine
<1>3. ASSUME NEW u \in Units, ProxyReady(u)
      PROVE  StepKeeps
  <2>1. pending' \in [Parties -> SUBSET Hooks]
    BY <1>3, HookTypes DEF ProxyReady, IInv, TypeOK
  <2>2. TypeOK'
    BY <1>3, <2>1 DEF ProxyReady, IInv, TypeOK, machine
  <2> QED BY <1>3, <2>2, BystandersKeep DEF ProxyReady, machine
<1> QED BY <1>1, <1>2, <1>3

\* The provider's own steps.
LEMMA ProviderSteps ==
  ASSUME IInv, ProviderRelationChanged \/ ProviderUpdates \/ Failover \/ RotatePassword
  PROVE  StepKeeps
<1>1. CASE ProviderRelationChanged
  <2>1. pending' \in [Parties -> SUBSET Hooks]
    <3>1. pending \in [Parties -> SUBSET Hooks] /\ TypeOK
      BY DEF IInv, TypeOK
    <3>2. CASE pending' = Consumed(Provider, "changed")
      BY <3>1, <3>2, HookTypes
    <3>3. CASE pending' = [p \in Parties |->
                             IF p = Provider THEN pending[p] \ {"changed"}
                                             ELSE pending[p] \cup {"changed"}]
      BY <3>1, <3>3, HookTypes
    <3> QED BY <1>1, <3>2, <3>3 DEF ProviderRelationChanged
  <2>2. TypeOK' /\ UNCHANGED <<conf, schema, tracked, request>>
    BY <1>1, <2>1 DEF ProviderRelationChanged, IInv, TypeOK, machine
  <2>3. CASE UNCHANGED <<bag, secrets>>
    BY <2>2, <2>3, BystandersKeep
  <2>4. ASSUME NEW host \in Hosts, NEW later \in SUBSET {"endpoints", "version"},
               Provide(Only(Everything(host),
                            AtOnce \cup ({"endpoints", "version"} \ (later \cup DOMAIN bag))))
        PROVE  StepKeeps
    <3>1. UserFields \subseteq AtOnce \cup ({"endpoints", "version"} \ (later \cup DOMAIN bag))
      BY DEF UserFields, AtOnce
    <3> QED BY <2>2, <2>4, <3>1, SharedWritable, ProviderKeeps
  <2> QED BY <1>1, <2>3, <2>4 DEF ProviderRelationChanged
<1>2. CASE ProviderUpdates
  <2>1. PICK host \in Hosts, fields \in {{"endpoints"}, {"version"}, {"username", "password"}} :
          Provide(Only(Everything(host), fields)) /\ NotifyUnits(bag')
    BY <1>2 DEF ProviderUpdates
  <2>2. pending' \in [Parties -> SUBSET Hooks]
    BY <2>1, HookTypes DEF IInv
  <2>3. TypeOK' /\ UNCHANGED <<conf, schema, tracked, request>>
    BY <1>2, <2>2 DEF ProviderUpdates, IInv, TypeOK, machine
  <2>4. UserFields \subseteq fields \/ UserFields \cap fields = {}
    BY DEF UserFields
  <2> QED BY <2>1, <2>3, <2>4, SharedWritable, ProviderKeeps
<1>3. CASE Failover
  <2>1. PICK host \in Hosts : Provide([f \in {"endpoints"} |-> host]) /\ NotifyUnits(bag')
    BY <1>3 DEF Failover
  <2>2. pending' \in [Parties -> SUBSET Hooks] /\ count' \in [CountNames -> Nat]
    BY <1>3, <2>1, HookTypes, CountType DEF Failover, IInv, CountNames
  <2>3. TypeOK' /\ UNCHANGED <<conf, schema, tracked, request>>
    BY <1>3, <2>2 DEF Failover, IInv, TypeOK, machine
  <2> QED BY <2>1, <2>3, SharedWritable, ProviderKeeps
<1>4. CASE RotatePassword
  <2> DEFINE n == secrets["user"]["password"] + 1
  <2>1. Provide(Credentials(n)) /\ NotifyUnits(bag')
    BY <1>4 DEF RotatePassword
  <2>2. n \in Nat \ {0}
    BY <1>4 DEF RotatePassword, IInv, SecretKept
  <2>3. pending' \in [Parties -> SUBSET Hooks] /\ count' \in [CountNames -> Nat]
    BY <1>4, <2>1, HookTypes, CountType DEF RotatePassword, IInv, CountNames
  <2>4. TypeOK' /\ UNCHANGED <<conf, schema, tracked, request>>
    BY <1>4, <2>3 DEF RotatePassword, IInv, TypeOK, machine
  <2> HIDE DEF n
  <2> QED BY <2>1, <2>2, <2>4, SharedWritable, ProviderKeeps
<1> QED BY <1>1, <1>2, <1>3, <1>4

\* Hooks that rewrite no service.conf.
LEMMA QuietHooksKeep ==
  ASSUME IInv, NEW u \in Units,
         RelationCreated(u) \/ NoEvent(u) \/ MissingField(u) \/ LeaderElected(u)
  PROVE  StepKeeps
<1>1. TypeOK
  BY DEF IInv
<1>2. CASE RelationCreated(u)
  <2>1. pending' \in [Parties -> SUBSET Hooks] /\ failed' \in [Units -> Hooks \cup {"none"}]
    BY <1>1, <1>2, HookTypes DEF RelationCreated, TypeOK
  <2>2. TypeOK'
    BY <1>1, <1>2, <2>1 DEF RelationCreated, TypeOK, machine
  <2> QED BY <1>2, <2>2, BystandersKeep DEF RelationCreated, machine
<1>3. CASE NoEvent(u)
  <2>1. pending' \in [Parties -> SUBSET Hooks] /\ failed' \in [Units -> Hooks \cup {"none"}]
    BY <1>1, <1>3, HookTypes DEF NoEvent
  <2>2. TypeOK'
    BY <1>1, <1>3, <2>1 DEF NoEvent, TypeOK, machine
  <2> QED BY <1>3, <2>2, BystandersKeep DEF NoEvent, machine
<1>4. CASE MissingField(u)
  <2>1. pending' \in [Parties -> SUBSET Hooks] /\ failed' \in [Units -> Hooks \cup {"none"}]
    BY <1>1, <1>4, HookTypes DEF MissingField
  <2>2. TypeOK'
    BY <1>1, <1>4, <2>1 DEF MissingField, TypeOK, machine, relation
  <2> QED BY <1>4, <2>2, BystandersKeep DEF MissingField, machine, relation
<1>5. CASE LeaderElected(u)
  <2>1. pending' \in [Parties -> SUBSET Hooks] /\ failed' \in [Units -> Hooks \cup {"none"}]
    BY <1>1, <1>5, HookTypes DEF LeaderElected
  <2>2. told' \in ConfType /\ cut' \subseteq Units
    BY <1>1, <1>5 DEF LeaderElected, Tell, TypeOK
  <2>3. TypeOK'
    BY <1>1, <1>5, <2>1, <2>2 DEF LeaderElected, TypeOK, relation
  <2> QED BY <1>5, <2>3, BystandersKeep DEF LeaderElected, relation
<1> QED BY <1>2, <1>3, <1>4, <1>5

\* The types after a hook that rewrites service.conf, runs the schema script or not,
\* tells the task-handler or not, and returns or fails.
LEMMA WriterTypes ==
  ASSUME IInv, NEW u \in Units, NEW h \in Hooks, Returns(u, h) \/ Raises(u, h),
         conf' \in [Units -> ConfType], schema' \in [Units -> SchemaType],
         Tell(u) \/ (told' = told /\ cut' \in {cut, cut \cup {u}}),
         migrated' = migrated \/ Migrated(u),
         ready' = ready \/ (\E b \in BOOLEAN : ready' = [ready EXCEPT ![u] = b]),
         count' = count \/ Fault,
         tracked' = tracked \/ (Tracks(u) /\ Shared),
         UNCHANGED <<config, provider, leader, proxy>>
  PROVE  TypeOK'
<1>1. pending' \in [Parties -> SUBSET Hooks] /\ failed' \in [Units -> Hooks \cup {"none"}]
  BY HookTypes DEF IInv
<1>2. told' \in ConfType /\ cut' \subseteq Units
  BY DEF Tell, IInv, TypeOK
<1>3. migrated' \subseteq Databases
  BY DEF Migrated, DatabaseOf, Databases, IInv, TypeOK
<1>4. count' \in [CountNames -> Nat]
  BY CountType DEF Fault, CountNames, IInv, TypeOK
<1>5. tracked' \in [Units -> Nat]
  <2>1. Shared => secrets["user"]["password"] \in Nat
    BY RelationConfOf
  <2> QED BY <2>1 DEF Tracks, IInv, TypeOK
<1>6. ready' \in [Units -> BOOLEAN]
  BY DEF IInv, TypeOK
<1> QED BY <1>1, <1>2, <1>3, <1>4, <1>5, <1>6 DEF IInv, TypeOK

\* The handler of the relation's events.
LEMMA RelationChangedKeeps ==
  ASSUME IInv, NEW u \in Units,
         FollowerReady(u) \/ MigrationFails(u) \/ SetupRaises(u) \/ WslFails(u) \/ LeaderReady(u)
  PROVE  StepKeeps
<1>1. /\ Shared /\ WritesRelation(u) /\ Tracks(u)
      /\ UNCHANGED <<config, provider, leader, request, bag, secrets, proxy>>
  BY DEF FollowerReady, MigrationFails, SetupRaises, WslFails, LeaderReady, LeaderWrites
<1>2. conf' \in [Units -> ConfType] /\ schema' \in [Units -> SchemaType]
  BY <1>1, RelationConfOf DEF IInv, TypeOK, WritesRelation
<1>3. /\ Returns(u, "changed") \/ Raises(u, "changed")
      /\ Tell(u) \/ (told' = told /\ cut' \in {cut, cut \cup {u}})
      /\ migrated' = migrated \/ Migrated(u)
      /\ count' = count \/ Fault
      /\ ready' = ready \/ (\E b \in BOOLEAN : ready' = [ready EXCEPT ![u] = b])
  BY DEF FollowerReady, MigrationFails, SetupRaises, WslFails, LeaderReady, NoFault
<1>4. "changed" \in Hooks
  BY DEF Hooks
<1>5. TypeOK'
  BY <1>1, <1>2, <1>3, <1>4, WriterTypes
<1> QED BY <1>1, <1>5, WriterKeeps

\* config-changed.
LEMMA ConfigChangedKeeps ==
  ASSUME IInv, NEW u \in Units, ConfigChanged(u)
  PROVE  StepKeeps
<1>1. /\ conf' = [conf EXCEPT ![u] = ConfigConf(u)]
      /\ schema' = [schema EXCEPT ![u] = ConfigSchema(u)]
      /\ UNCHANGED <<config, provider, leader, request, bag, secrets, proxy, tracked>>
  BY DEF ConfigChanged, relation
<1>2. conf' \in [Units -> ConfType] /\ schema' \in [Units -> SchemaType]
  BY <1>1, ConfigConfOf DEF IInv, TypeOK
<1>3. /\ Returns(u, "config-changed") \/ Raises(u, "config-changed")
      /\ Tell(u) \/ (told' = told /\ cut' \in {cut, cut \cup {u}})
      /\ migrated' = migrated \/ Migrated(u)
      /\ count' = count \/ Fault
      /\ ready' = ready \/ (\E b \in BOOLEAN : ready' = [ready EXCEPT ![u] = b])
  BY DEF ConfigChanged, NoFault
<1>4. "config-changed" \in Hooks
  BY DEF Hooks
<1>5. (tracked' = tracked \/ (Tracks(u) /\ Shared)) /\ UNCHANGED <<config, provider, leader, proxy>>
  BY <1>1
<1>6. TypeOK'
  BY <1>1, <1>2, <1>3, <1>4, <1>5, WriterTypes
<1> QED BY <1>1, <1>6, WriterKeeps

\* Every step, of the provider, of Juju and of a unit.
LEMMA NextKeeps ==
  ASSUME IInv, Next
  PROVE  StepKeeps
<1>1. ASSUME NEW u \in Units, UnitHook(u)
      PROVE  StepKeeps
  BY <1>1, QuietHooksKeep, RelationChangedKeeps, ConfigChangedKeeps
  DEF UnitHook, RelationChanged
<1> QED BY <1>1, EnvironmentKeeps, ProviderSteps DEF Next, Owed

LEMMA StutterKeeps ==
  ASSUME IInv, UNCHANGED vars
  PROVE  StepKeeps
<1>1. UNCHANGED <<config, provider, leader, request, bag, secrets, proxy, tracked, conf,
                  schema, ready, migrated, told, cut, pending, failed, count>>
  BY DEF vars, relation, machine
<1>2. pending' \in [Parties -> SUBSET Hooks] /\ failed' \in [Units -> Hooks \cup {"none"}]
  BY <1>1 DEF IInv, TypeOK
<1>3. /\ conf' \in [Units -> ConfType] /\ told' \in ConfType
      /\ schema' \in [Units -> SchemaType]
  BY <1>1 DEF IInv, TypeOK
<1>4. TypeOK'
  BY <1>1, <1>2, <1>3 DEF IInv, TypeOK
<1> QED BY <1>1, <1>4, BystandersKeep

LEMMA Invariance == Spec => []IInv
<1>1. IInv /\ [Next]_vars => IInv'
  BY NextKeeps, StutterKeeps DEF StepKeeps
<1> QED BY InitInv, <1>1, PTL DEF Spec

\* Every variable holds a value the code can give it.
THEOREM TypeCorrect == Spec => []TypeOK
<1>1. IInv => TypeOK
  BY DEF IInv
<1> QED BY Invariance, <1>1, PTL

\* Whenever a unit is pointed at a primary that the provider publishes, it is given the
\* password in force, the operator's or the newest of the provider's, with any number of
\* rotations between the event and its handler; the schema is migrated with the same
\* password, or the operator's for that (_on_database_relation_changed,
\* fetch_postgres_relation_data, update_db_conf).
THEOREM NewestPasswordAlways == Spec => NewestPasswordWithPrimary
<1>1. IInv /\ [Next]_vars => [NewestPassword]_vars
  BY NextKeeps DEF StepKeeps
<1>2. IInv /\ [Next]_vars =>
        [\A u \in Units : conf'[u].host # conf[u].host /\ conf'[u].host \in Hosts
           => /\ conf'[u].password = IF config.password = 0 THEN secrets["user"]["password"]
                                     ELSE config.password
              /\ schema'[u].password = IF config.schemaPassword = 0 THEN conf'[u].password
                                       ELSE config.schemaPassword]_vars
  BY <1>1 DEF NewestPassword
<1> QED BY Invariance, <1>2, PTL DEF Spec, NewestPasswordWithPrimary

\* The database relation implements its contract, with any leader, retries and lost
\* writes: a unit uses the database's user only after it was shared, and it is shared
\* only after it was asked for.
THEOREM ContractImplemented == Spec => ContractKept
<1>1. Init => Contract!Init
  <2> SUFFICES ASSUME Init PROVE Contract!Init
    OBVIOUS
  <2>2. /\ IInv /\ "user" \notin DOMAIN secrets /\ "database" \notin DOMAIN request
        /\ \A u \in Units : tracked[u] = 0
    <3>1. DOMAIN secrets = {} /\ DOMAIN request = {}
      BY DEF Init, NoData
    <3>2. \A u \in Units : tracked[u] = 0
      BY DEF Init
    <3> QED BY <3>1, <3>2, InitInv
  <2> QED BY <2>2, SharedYetIs DEF Contract!Init, SharedYet, Has, IInv
<1>2. IInv /\ [Next]_vars => [Contract!Next]_Contract!vars
  <2>1. ContractStep => [Contract!Next]_Contract!vars
    BY DEF ContractStep, Asked, SharedYet, Using, Contract!Next, Contract!Ask,
           Contract!Share, Contract!Use, Contract!vars
  <2> QED BY <2>1, NextKeeps, StutterKeeps DEF StepKeeps
<1> QED BY Invariance, <1>1, <1>2, PTL DEF Spec, ContractKept, Contract!Spec

--------------------------------------------------------------------------------
(***************************************************************************)
(* A unit, the databag it has saved and the databag there is.              *)
(***************************************************************************)

\* The operator's host, or the primary that the data names.
Primary(data) == IF config.host = "none" THEN data["endpoints"] ELSE config.host

\* The data names a primary and the user's secret.
Located(data) == {"endpoints", "secret-user"} \subseteq DOMAIN data

\* What makes the library emit an event that the charm observes.
News(old, new) ==
  \/ "secret-user" \in DOMAIN new \ DOMAIN old
  \/ "endpoints" \in DOMAIN new \ DOMAIN old
  \/ "endpoints" \in DOMAIN new \cap DOMAIN old /\ old["endpoints"] # new["endpoints"]

Behind(u) == News(seen[u], bag)

\* What a unit has saved is an earlier state of the databag, and it is the present one
\* unless relation-changed is due, or the proxy that has it run.
SavedInv ==
  /\ DOMAIN seen = Parties
  /\ \A u \in Units :
       /\ DOMAIN seen[u] \subseteq DOMAIN bag
       /\ count["failovers"] = 0 /\ "endpoints" \in DOMAIN seen[u] =>
            seen[u]["endpoints"] = bag["endpoints"]
       /\ seen[u] # bag => "changed" \in pending[u] \/ Waits(u)

\* A unit points at the primary, or the event that makes it do so is still to be
\* emitted; and where nothing has failed, it points at the primary it has saved.
PointedInv ==
  OptionsKept => \A u \in Units :
    /\ NoFailback /\ Located(bag) => conf[u].host = Primary(bag) \/ Behind(u)
    /\ count["faults"] = 0 /\ Located(seen[u]) => conf[u].host = Primary(seen[u])

\* The database of a ready leader is migrated, and is the operator's if there is one.
MigratedInv ==
  count["moves"] = 0 /\ OptionsKept /\ ready[leader] =>
    /\ DatabaseOf(conf[leader]) \in migrated
    /\ config.host # "none" => conf[leader].host = config.host

\* The task-handler uses the leader's database, or a hook that tells it is due: the new
\* leader's, or one that failed after it wrote service.conf; or config-changed ended early.
ToldInv ==
  OptionsKept /\ conf[leader].password # 0 /\ NoFailback =>
    \/ told = conf[leader]
    \/ {"leader-elected", "config-changed"} \cap pending[leader] # {}
    \/ leader \in cut
    \/ Behind(leader) /\ count["faults"] > 0

RestInv == SavedInv /\ PointedInv /\ MigratedInv /\ ToldInv

LEMMA EventOf ==
  ASSUME NEW old, NEW new, DOMAIN new \subseteq PlainFields \cup {"secret-user"}
  PROVE  RequirerEvent(Diff(old, new), FALSE) \in {"database_created", "endpoints_changed"}
           <=> News(old, new)
<1> DEFINE d == Diff(old, new)
<1>1. /\ d.added = DOMAIN new \ DOMAIN old
      /\ d.changed = {f \in DOMAIN old \cap DOMAIN new : old[f] # new[f]}
  BY DEF Diff
<1>2. "username" \notin d.added
  BY <1>1 DEF PlainFields
<1>3. MainCredentialsShared(d) <=> "secret-user" \in DOMAIN new \ DOMAIN old
  BY <1>1, <1>2 DEF MainCredentialsShared
<1>4. "endpoints" \in d.added \cup d.changed
        <=> \/ "endpoints" \in DOMAIN new \ DOMAIN old
            \/ "endpoints" \in DOMAIN new \cap DOMAIN old /\ old["endpoints"] # new["endpoints"]
  BY <1>1
<1> HIDE DEF d
<1>5. RequirerEvent(d, FALSE) \in {"database_created", "endpoints_changed"}
        <=> MainCredentialsShared(d) \/ "endpoints" \in d.added \cup d.changed
  <2>1. CASE MainCredentialsShared(d)
    BY <2>1 DEF RequirerEvent
  <2>2. CASE ~MainCredentialsShared(d) /\ "endpoints" \in d.added \cup d.changed
    BY <2>2 DEF RequirerEvent
  <2>3. CASE ~MainCredentialsShared(d) /\ "endpoints" \notin d.added \cup d.changed
    BY <2>3 DEF RequirerEvent
  <2> QED BY <2>1, <2>2, <2>3
<1> QED BY <1>3, <1>4, <1>5 DEF News, d

LEMMA EventIs ==
  ASSUME IInv, NEW u \in Units
  PROVE  Event(u) \in {"database_created", "endpoints_changed"} <=> Behind(u)
BY EventOf DEF IInv, SecretKept, Event, Behind

\* The relation's event points the unit at the primary.
LEMMA RelationConfHost ==
  ASSUME IInv, NEW u \in Units, Shared
  PROVE  RelationConf(u).host = Primary(bag) /\ Located(bag)
<1> DEFINE data == FetchRelationData(bag, secrets)
<1>1. "endpoints" \in DOMAIN data /\ "password" \in DOMAIN data
  BY DEF Shared, Has, Required
<1>2. /\ "user" \in DOMAIN secrets /\ "endpoints" \in DOMAIN bag
      /\ data["endpoints"] = bag["endpoints"]
  <2>1. Placed(bag, secrets)
    BY DEF IInv, SecretKept, Placed
  <2> QED BY <1>1, <2>1, Fetched
<1>3. Located(bag)
  BY <1>2 DEF Located, IInv, SecretKept
<1>4. bag["endpoints"] \in Hosts
  BY <1>2 DEF IInv, SecretKept
<1>5. RelationConf(u).host = IF config.host = "none" THEN data["endpoints"] ELSE config.host
  BY <1>2, <1>4, OptionTypes DEF RelationConf, UpdateDbConf, Content, IInv
<1> HIDE DEF data
<1> QED BY <1>2, <1>3, <1>5 DEF Primary

\* config-changed points it at the operator's host, if there is one.
LEMMA ConfigConfHost ==
  ASSUME NEW u \in Units
  PROVE  ConfigConf(u).host = IF config.host = "none" THEN conf[u].host ELSE config.host
BY DEF ConfigConf, UpdateDbConf

LEMMA CountOf ==
  ASSUME TypeOK, NEW what \in CountNames, NEW max, Count(what, max)
  PROVE  /\ count'[what] = count[what] + 1
         /\ \A other \in CountNames \ {what} : count'[other] = count[other]
BY DEF TypeOK, Count

LEMMA Counted ==
  TypeOK => /\ count["moves"] \in Nat /\ count["failovers"] \in Nat
            /\ count["faults"] \in Nat /\ count["reconfigures"] \in Nat
BY DEF TypeOK, CountNames

LEMMA InitRest == Init => RestInv
<1> SUFFICES ASSUME Init PROVE RestInv
  OBVIOUS
<1>1. DOMAIN bag = {} /\ DOMAIN seen = Parties /\ \A u \in Units : seen[u] = bag
  BY DEF Init, NoData, Parties
<1>2. SavedInv
  BY <1>1 DEF SavedInv, NoData
<1>3. PointedInv
  BY <1>1 DEF PointedInv, Located
<1>4. leader \in Units
  BY DatabaseAssumption DEF Init
<1>5. MigratedInv
  BY <1>4 DEF Init, MigratedInv
<1>6. ToldInv
  BY <1>4 DEF Init, NoConf, ToldInv
<1> QED BY <1>2, <1>3, <1>5, <1>6 DEF RestInv

--------------------------------------------------------------------------------
(***************************************************************************)
(* The provider's steps.                                                   *)
(***************************************************************************)

\* A write of the provider adds to the databag, and only a failover changes what it says
\* of the primary; the units are told of every change.
ProviderEffect ==
  /\ UNCHANGED <<config, leader, proxy, conf, ready, told, migrated, cut, failed>>
  /\ DOMAIN seen' = Parties
  /\ \A u \in Units :
       /\ seen'[u] = seen[u]
       /\ pending[u] \subseteq pending'[u] /\ pending'[u] \subseteq pending[u] \cup {"changed"}
       /\ bag' # bag => "changed" \in pending'[u]
  /\ DOMAIN bag \subseteq DOMAIN bag'
  /\ \A what \in {"moves", "faults", "reconfigures"} : count'[what] = count[what]
  /\ \/ /\ count'["failovers"] = count["failovers"]
        /\ "endpoints" \in DOMAIN bag => bag'["endpoints"] = bag["endpoints"]
     \/ /\ count'["failovers"] = count["failovers"] + 1
        /\ "endpoints" \in DOMAIN bag /\ bag'["endpoints"] # bag["endpoints"]

LEMMA ProviderWrites ==
  ASSUME IInv, NEW data, Writable(data), Provide(data)
  PROVE  /\ DOMAIN bag \subseteq DOMAIN bag'
         /\ "endpoints" \in DOMAIN bag =>
              bag'["endpoints"] = IF "endpoints" \in DOMAIN data THEN data["endpoints"]
                                  ELSE bag["endpoints"]
BY ProvideDatabagOf DEF Provide, IInv

LEMMA Notified ==
  ASSUME TypeOK, NEW new, NotifyUnits(new), NEW u \in Units
  PROVE  /\ pending[u] \subseteq pending'[u] /\ pending'[u] \subseteq pending[u] \cup {"changed"}
         /\ new # bag => "changed" \in pending'[u]
BY DEF TypeOK, NotifyUnits, Parties

LEMMA ProviderStepsEffect ==
  ASSUME IInv, SavedInv, ProviderRelationChanged \/ ProviderUpdates \/ Failover \/ RotatePassword
  PROVE  ProviderEffect
<1>1. TypeOK /\ Provider \notin Units /\ Units \subseteq Parties /\ DOMAIN seen = Parties
  BY DatabaseAssumption DEF IInv, Parties, SavedInv
<1>2. CASE ProviderRelationChanged
  <2>1. /\ DOMAIN seen' = Parties /\ \A u \in Units : seen'[u] = seen[u]
        /\ UNCHANGED <<config, leader, proxy, conf, ready, told, migrated, cut, failed, count>>
    BY <1>1, <1>2 DEF ProviderRelationChanged, machine
  <2>2. CASE pending' = Consumed(Provider, "changed") /\ UNCHANGED <<bag, secrets>>
    <3>1. \A u \in Units : pending'[u] = pending[u]
      BY <1>1, <2>2 DEF Consumed, TypeOK
    <3> QED BY <2>1, <2>2, <3>1 DEF ProviderEffect
  <2>3. ASSUME NEW host \in Hosts, NEW later \in SUBSET {"endpoints", "version"},
               Provide(Only(Everything(host),
                            AtOnce \cup ({"endpoints", "version"} \ (later \cup DOMAIN bag)))),
               pending' = [p \in Parties |->
                             IF p = Provider THEN pending[p] \ {"changed"}
                                             ELSE pending[p] \cup {"changed"}]
        PROVE  ProviderEffect
    <3> DEFINE fields == AtOnce \cup ({"endpoints", "version"} \ (later \cup DOMAIN bag))
               data   == Only(Everything(host), fields)
    <3>1. UserFields \subseteq fields
      BY DEF UserFields, AtOnce
    <3>2. Writable(data)
      BY <3>1, SharedWritable
    <3>3. "endpoints" \in DOMAIN bag => "endpoints" \notin DOMAIN data
      BY DEF Only, AtOnce
    <3>4. \A u \in Units : pending'[u] = pending[u] \cup {"changed"}
      BY <1>1, <2>3
    <3> HIDE DEF data
    <3>5. Provide(data)
      BY <2>3 DEF data
    <3>6. /\ DOMAIN bag \subseteq DOMAIN bag'
          /\ "endpoints" \in DOMAIN bag => bag'["endpoints"] = bag["endpoints"]
      BY <3>2, <3>3, <3>5, ProviderWrites
    <3> QED BY <2>1, <3>4, <3>6 DEF ProviderEffect
  <2> QED BY <1>2, <2>2, <2>3 DEF ProviderRelationChanged
<1>3. CASE ProviderUpdates
  <2>1. PICK host \in Hosts, fields \in {{"endpoints"}, {"version"}, {"username", "password"}} :
          /\ fields \cap DOMAIN FetchRelationData(bag, secrets) = {}
          /\ Provide(Only(Everything(host), fields))
          /\ NotifyUnits(bag')
    BY <1>3 DEF ProviderUpdates
  <2> DEFINE data == Only(Everything(host), fields)
  <2>2. UserFields \subseteq fields \/ UserFields \cap fields = {}
    BY DEF UserFields
  <2>3. Writable(data)
    BY <2>2, SharedWritable
  <2>4. Placed(bag, secrets)
    BY DEF IInv, SecretKept, Placed
  <2>5. "endpoints" \in DOMAIN bag => "endpoints" \notin fields
    BY <2>1, <2>4, Fetched
  <2>6. "endpoints" \in DOMAIN bag => "endpoints" \notin DOMAIN data
    BY <2>5 DEF Only
  <2>7. Provide(data)
    BY <2>1
  <2> HIDE DEF data
  <2>8. /\ DOMAIN bag \subseteq DOMAIN bag'
        /\ "endpoints" \in DOMAIN bag => bag'["endpoints"] = bag["endpoints"]
    BY <2>3, <2>6, <2>7, ProviderWrites
  <2>9. UNCHANGED <<config, leader, proxy, conf, ready, told, migrated, cut, failed, seen, count>>
    BY <1>3 DEF ProviderUpdates, machine
  <2>10. \A u \in Units :
          /\ pending[u] \subseteq pending'[u] /\ pending'[u] \subseteq pending[u] \cup {"changed"}
          /\ bag' # bag => "changed" \in pending'[u]
    BY <1>1, <2>1, Notified
  <2> QED BY <1>1, <2>8, <2>9, <2>10 DEF ProviderEffect
<1>4. CASE Failover
  <2>1. PICK host \in Hosts \ {bag["endpoints"]} :
          Provide([f \in {"endpoints"} |-> host]) /\ NotifyUnits(bag')
    BY <1>4 DEF Failover
  <2>2. UNCHANGED <<config, leader, proxy, conf, ready, told, migrated, cut, failed, seen>>
    BY <1>4 DEF Failover, machine
  <2>3. /\ DOMAIN bag \subseteq DOMAIN bag'
        /\ "endpoints" \in DOMAIN bag /\ bag'["endpoints"] # bag["endpoints"]
    <3>1. Writable([f \in {"endpoints"} |-> host])
      BY SharedWritable
    <3>2. "endpoints" \in DOMAIN bag
      BY <1>4 DEF Failover
    <3> QED BY <2>1, <3>1, <3>2, ProviderWrites
  <2>4. /\ count'["failovers"] = count["failovers"] + 1
        /\ \A what \in {"moves", "faults", "reconfigures"} : count'[what] = count[what]
    BY <1>1, <1>4, CountOf DEF Failover, CountNames
  <2>5. \A u \in Units :
          /\ pending[u] \subseteq pending'[u] /\ pending'[u] \subseteq pending[u] \cup {"changed"}
          /\ bag' # bag => "changed" \in pending'[u]
    BY <1>1, <2>1, Notified
  <2> QED BY <1>1, <2>2, <2>3, <2>4, <2>5 DEF ProviderEffect
<1>5. CASE RotatePassword
  <2> DEFINE n == secrets["user"]["password"] + 1
  <2>1. Provide(Credentials(n)) /\ NotifyUnits(bag')
    BY <1>5 DEF RotatePassword
  <2>2. n \in Nat \ {0}
    BY <1>5 DEF RotatePassword, IInv, SecretKept
  <2>3. Writable(Credentials(n)) /\ "endpoints" \notin DOMAIN Credentials(n)
    BY <2>2, SharedWritable DEF Credentials
  <2> HIDE DEF n
  <2>4. /\ DOMAIN bag \subseteq DOMAIN bag'
        /\ "endpoints" \in DOMAIN bag => bag'["endpoints"] = bag["endpoints"]
    BY <2>1, <2>3, ProviderWrites
  <2>5. UNCHANGED <<config, leader, proxy, conf, ready, told, migrated, cut, failed, seen>>
    BY <1>5 DEF RotatePassword, machine
  <2>6. \A what \in {"moves", "faults", "reconfigures", "failovers"} : count'[what] = count[what]
    BY <1>1, <1>5, CountOf DEF RotatePassword, CountNames
  <2>7. \A u \in Units :
          /\ pending[u] \subseteq pending'[u] /\ pending'[u] \subseteq pending[u] \cup {"changed"}
          /\ bag' # bag => "changed" \in pending'[u]
    BY <1>1, <2>1, Notified
  <2> QED BY <1>1, <2>4, <2>5, <2>6, <2>7 DEF ProviderEffect
<1> QED BY <1>2, <1>3, <1>4, <1>5

LEMMA ProviderKeepsRest ==
  ASSUME IInv, RestInv, ProviderEffect
  PROVE  RestInv'
<1>1. /\ leader \in Units /\ leader' = leader /\ config' = config /\ conf' = conf
      /\ proxy' = proxy /\ told' = told /\ cut' = cut
  BY DEF IInv, TypeOK, ProviderEffect
<1>2. /\ count["faults"] \in Nat /\ count["failovers"] \in Nat
      /\ count'["faults"] = count["faults"] /\ OptionsKept' = OptionsKept
      /\ NoFailback' => NoFailback
      /\ count'["failovers"] = 0 => count["failovers"] = 0
  BY Counted DEF IInv, ProviderEffect, OptionsKept, NoFailback
<1>3. ASSUME NEW u \in Units
      PROVE  /\ seen'[u] = seen[u] /\ DOMAIN seen[u] \subseteq DOMAIN bag
             /\ DOMAIN bag \subseteq DOMAIN bag'
             /\ count["failovers"] = 0 /\ "endpoints" \in DOMAIN seen[u] =>
                  seen[u]["endpoints"] = bag["endpoints"]
  BY DEF ProviderEffect, RestInv, SavedInv
<1>4. SavedInv'
  <2>1. DOMAIN seen' = Parties
    BY DEF ProviderEffect
  <2>2. ASSUME NEW u \in Units
        PROVE  /\ DOMAIN seen'[u] \subseteq DOMAIN bag'
               /\ count'["failovers"] = 0 /\ "endpoints" \in DOMAIN seen'[u] =>
                    seen'[u]["endpoints"] = bag'["endpoints"]
               /\ seen'[u] # bag' => "changed" \in pending'[u] \/ Waits(u)'
    <3>1. count'["failovers"] = 0 /\ "endpoints" \in DOMAIN bag => bag'["endpoints"] = bag["endpoints"]
      BY <1>2 DEF ProviderEffect
    <3>2. seen'[u] # bag' => "changed" \in pending'[u] \/ Waits(u)'
      <4>1. CASE bag' = bag
        <5>1. Waits(u)' <=> Waits(u)
          BY <1>1, <4>1 DEF Waits
        <5> QED BY <1>3, <4>1, <5>1 DEF ProviderEffect, RestInv, SavedInv
      <4>2. CASE bag' # bag
        BY <4>2 DEF ProviderEffect
      <4> QED BY <4>1, <4>2
    <3> QED BY <1>2, <1>3, <3>1, <3>2
  <2> QED BY <2>1, <2>2 DEF SavedInv
<1>5. ASSUME NEW u \in Units, Located(bag'), ~Located(seen[u])
      PROVE  Behind(u)'
  BY <1>3, <1>5 DEF Located, Behind, News
<1>6. ASSUME NEW u \in Units, Behind(u), count["faults"] > 0, NoFailback'
      PROVE  Behind(u)'
  <2>1. count'["failovers"] = count["failovers"] \/ count["failovers"] = 0
    BY <1>2, <1>6 DEF NoFailback, ProviderEffect
  <2>2. CASE count'["failovers"] = count["failovers"]
    <3>1. "endpoints" \in DOMAIN bag => bag'["endpoints"] = bag["endpoints"]
      BY <1>2, <2>2 DEF ProviderEffect
    <3> QED BY <1>3, <1>6, <3>1 DEF Behind, News
  <2>3. CASE count["failovers"] = 0
    BY <1>3, <1>6, <2>3 DEF Behind, News
  <2> QED BY <2>1, <2>2, <2>3
<1>7. PointedInv'
  <2> SUFFICES ASSUME OptionsKept', NEW u \in Units
               PROVE  /\ NoFailback' /\ Located(bag') =>
                           conf'[u].host = Primary(bag)' \/ Behind(u)'
                      /\ count'["faults"] = 0 /\ Located(seen'[u]) =>
                           conf'[u].host = Primary(seen[u])'
    BY DEF PointedInv, Located
  <2>1. /\ NoFailback /\ Located(bag) => conf[u].host = Primary(bag) \/ Behind(u)
        /\ count["faults"] = 0 /\ Located(seen[u]) => conf[u].host = Primary(seen[u])
    BY <1>2 DEF RestInv, PointedInv
  <2>2. Primary(seen[u])' = Primary(seen[u])
    BY <1>1, <1>3 DEF Primary
  <2>3. count'["faults"] = 0 /\ Located(seen'[u]) => conf'[u].host = Primary(seen[u])'
    BY <1>1, <1>2, <1>3, <2>1, <2>2
  <2>4. ASSUME NoFailback', Located(bag'), Located(seen[u])
        PROVE  conf'[u].host = Primary(bag)' \/ Behind(u)'
    <3>1. Located(bag) /\ "endpoints" \in DOMAIN seen[u]
      BY <1>3, <2>4 DEF Located
    <3>2. CASE count'["failovers"] = count["failovers"]
      <4>1. bag'["endpoints"] = bag["endpoints"]
        BY <1>2, <3>1, <3>2 DEF ProviderEffect, Located
      <4>2. Primary(bag)' = Primary(bag)
        BY <1>1, <4>1 DEF Primary
      <4>3. Behind(u) => Behind(u)'
        BY <1>3, <4>1, <3>1, <2>4 DEF Behind, News, Located
      <4> QED BY <1>1, <1>2, <2>1, <2>4, <3>1, <4>2, <4>3
    <3>3. CASE count'["failovers"] = count["failovers"] + 1 /\ count["failovers"] = 0
      <4>1. bag'["endpoints"] # seen'[u]["endpoints"]
        BY <1>2, <1>3, <3>1, <3>3 DEF ProviderEffect
      <4> QED BY <1>3, <2>4, <3>1, <4>1 DEF Behind, News, Located
    <3>4. CASE count["faults"] = 0
      <4>1. conf'[u].host = Primary(seen[u])'
        BY <1>1, <1>2, <1>3, <2>3, <2>4, <3>4
      <4>2. bag'["endpoints"] = seen'[u]["endpoints"] => Primary(bag)' = Primary(seen[u])'
        BY DEF Primary
      <4>3. bag'["endpoints"] # seen'[u]["endpoints"] => Behind(u)'
        BY <1>3, <2>4, <3>1 DEF Behind, News, Located
      <4> QED BY <4>1, <4>2, <4>3
    <3> QED BY <1>2, <2>4, <3>2, <3>3, <3>4 DEF NoFailback, ProviderEffect
  <2> QED BY <1>5, <2>3, <2>4
<1>8. MigratedInv'
  BY <1>1, <1>2 DEF ProviderEffect, RestInv, MigratedInv, DatabaseOf
<1>9. ToldInv'
  <2>1. ASSUME OptionsKept', conf[leader].password # 0, NoFailback'
        PROVE  \/ told = conf[leader]
               \/ {"leader-elected", "config-changed"} \cap pending'[leader] # {}
               \/ leader \in cut
               \/ Behind(leader)' /\ count["faults"] > 0
    <3>1. pending[leader] \subseteq pending'[leader]
      BY <1>1 DEF ProviderEffect
    <3> QED BY <1>1, <1>2, <1>6, <2>1, <3>1 DEF RestInv, ToldInv
  <2> QED BY <1>1, <1>2, <2>1 DEF ToldInv
<1> QED BY <1>4, <1>7, <1>8, <1>9 DEF RestInv

--------------------------------------------------------------------------------
(***************************************************************************)
(* The steps of Juju and of the units.                                     *)
(***************************************************************************)

\* Its hooks change a unit's own data only, and what it has saved to the databag there
\* is; relation-changed stays due when nothing is saved and no proxy is awaited.
UnitEffect(u) ==
  /\ UNCHANGED <<config, leader, bag, proxy>>
  /\ DOMAIN seen' = Parties
  /\ \A v \in Units \ {u} :
       /\ seen'[v] = seen[v] /\ pending'[v] = pending[v]
       /\ conf'[v] = conf[v] /\ ready'[v] = ready[v]
  /\ \A what \in {"moves", "failovers", "reconfigures"} : count'[what] = count[what]
  /\ count'["faults"] \in {count["faults"], count["faults"] + 1}
  /\ migrated \subseteq migrated'
  /\ pending'[u] \subseteq pending[u]
  /\ \/ seen'[u] = bag
     \/ seen'[u] = seen[u] /\ (Waits(u) \/ {"changed"} \cap pending[u] \subseteq pending'[u])

\* The host that is written, if any, is the operator's or the databag's; the databag is
\* saved when it has no news or the hook that wrote its host has returned.
PointedStep(u) ==
  \/ conf'[u] = conf[u] /\ (seen'[u] = seen[u] \/ (seen'[u] = bag /\ ~Behind(u)))
  \/ conf'[u].host = Primary(bag) /\ (seen'[u] = bag \/ count'["faults"] > 0)
  \/ conf'[u] = ConfigConf(u) /\ seen'[u] = seen[u]

MigratedStep(u) ==
  \/ leader # u
  \/ ready'[u] = FALSE
  \/ ready'[u] = ready[u] /\ (conf'[u] = conf[u] \/ conf'[u] = ConfigConf(u))
  \/ /\ DatabaseOf(conf'[u]) \in migrated'
     /\ config.host # "none" => conf'[u].host = config.host

Tellers == {"leader-elected", "config-changed"}

ToldStep(u) ==
  \/ leader = u /\ (conf'[u].password # 0 => told' = conf'[u])
  \/ leader # u /\ told' = told /\ cut \subseteq cut' \cup {u}
  \/ /\ told' = told /\ conf'[u] = conf[u] /\ cut' = cut
     /\ Tellers \cap pending[u] \subseteq pending'[u]
     /\ seen'[u] = seen[u] \/ ~Behind(u)
  \/ leader = u /\ Behind(u) /\ seen'[u] = seen[u] /\ count'["faults"] > 0
  \/ leader = u /\ ("config-changed" \in pending'[u] \/ u \in cut')

LEMMA UnitKeepsRest ==
  ASSUME IInv, RestInv, NEW u \in Units,
         UnitEffect(u), PointedStep(u), MigratedStep(u), ToldStep(u)
  PROVE  RestInv'
<1>1. /\ leader \in Units /\ leader' = leader /\ config' = config
      /\ proxy' = proxy /\ bag' = bag
  BY DEF IInv, TypeOK, UnitEffect
<1>2. /\ count["faults"] \in Nat /\ OptionsKept' = OptionsKept
      /\ NoFailback' => NoFailback
      /\ count'["failovers"] = count["failovers"]
      /\ count'["faults"] = 0 => count["faults"] = 0
      /\ count["faults"] > 0 => count'["faults"] > 0
  <2>1. count["faults"] \in Nat
    BY Counted DEF IInv
  <2> QED BY <2>1 DEF UnitEffect, OptionsKept, NoFailback
<1>3. \A v \in Units : Waits(v)' <=> Waits(v)
  BY <1>1 DEF Waits
<1>4. SavedInv'
  BY <1>1, <1>2, <1>3 DEF UnitEffect, RestInv, SavedInv
<1>5. ASSUME NEW v \in Units
      PROVE  /\ v # u => (Behind(v)' <=> Behind(v))
             /\ seen'[v] = seen[v] => (Behind(v)' <=> Behind(v))
  BY <1>1 DEF UnitEffect, Behind
<1>6. PointedInv'
  <2> SUFFICES ASSUME OptionsKept', NEW v \in Units
               PROVE  /\ NoFailback' /\ Located(bag') =>
                           conf'[v].host = Primary(bag)' \/ Behind(v)'
                      /\ count'["faults"] = 0 /\ Located(seen'[v]) =>
                           conf'[v].host = Primary(seen[v])'
    BY DEF PointedInv, Located
  <2>1. /\ NoFailback /\ Located(bag) => conf[v].host = Primary(bag) \/ Behind(v)
        /\ count["faults"] = 0 /\ Located(seen[v]) => conf[v].host = Primary(seen[v])
    BY <1>2 DEF RestInv, PointedInv
  <2>2. Primary(bag)' = Primary(bag)
    BY <1>1 DEF Primary
  <2>3. seen'[v] = seen[v] => Primary(seen[v])' = Primary(seen[v])
    BY <1>1 DEF Primary
  <2>4. seen'[v] = bag => Primary(seen[v])' = Primary(bag)
    BY <1>1 DEF Primary
  <2>5. conf'[v].host = Primary(bag) /\ (seen'[v] = bag \/ count'["faults"] > 0)
          => /\ conf'[v].host = Primary(bag)'
             /\ count'["faults"] = 0 => conf'[v].host = Primary(seen[v])'
    BY <2>2, <2>4
  <2>6. CASE conf'[v].host = conf[v].host /\ seen'[v] = seen[v]
    BY <1>1, <1>2, <1>5, <2>1, <2>2, <2>3, <2>6
  <2>7. CASE conf'[v] = conf[v] /\ seen'[v] = bag /\ ~Behind(v)
    <3>1. NoFailback' /\ Located(bag) => conf'[v].host = Primary(bag)
      BY <1>2, <2>1, <2>7
    <3>2. count'["faults"] = 0 => NoFailback'
      BY DEF NoFailback
    <3> QED BY <1>1, <2>2, <2>4, <2>7, <3>1, <3>2
  <2>8. CASE conf'[v].host = Primary(bag) /\ (seen'[v] = bag \/ count'["faults"] > 0)
    BY <2>5, <2>8
  <2>9. CASE v = u /\ conf'[u] = ConfigConf(u) /\ seen'[u] = seen[u]
    <3>1. CASE config.host = "none"
      BY <2>6, <2>9, <3>1, ConfigConfHost
    <3>2. CASE config.host # "none"
      <4>1. conf'[v].host = config.host
        BY <2>9, <3>2, ConfigConfHost
      <4> QED BY <1>1, <3>2, <4>1 DEF Primary
    <3> QED BY <3>1, <3>2
  <2> QED BY <2>6, <2>7, <2>8, <2>9 DEF UnitEffect, PointedStep
<1>7. MigratedInv'
  <2> SUFFICES ASSUME count'["moves"] = 0, OptionsKept', ready'[leader]
               PROVE  /\ DatabaseOf(conf'[leader]) \in migrated'
                      /\ config.host # "none" => conf'[leader].host = config.host
    BY <1>1 DEF MigratedInv, DatabaseOf
  <2>1. /\ ready[leader] =>
             /\ DatabaseOf(conf[leader]) \in migrated'
             /\ config.host # "none" => conf[leader].host = config.host
        /\ leader # u => ready'[leader] = ready[leader] /\ conf'[leader] = conf[leader]
    BY <1>1, <1>2 DEF RestInv, MigratedInv, UnitEffect
  <2>0. ready'[leader] = ready[leader] => ready[leader]
    OBVIOUS
  <2>2. CASE ready'[leader] = ready[leader] /\ conf'[leader] = conf[leader]
    <3>1. ready[leader]
      BY <2>0, <2>2
    <3>2. /\ DatabaseOf(conf[leader]) \in migrated'
          /\ config.host # "none" => conf[leader].host = config.host
      BY <2>1, <3>1
    <3> QED BY <2>2, <3>2
  <2>3. CASE leader = u /\ ready'[u] = ready[u] /\ conf'[u] = ConfigConf(u)
    <3>1. ready[leader]
      BY <2>0, <2>3
    <3>2. conf'[u].host = conf[u].host
      BY <2>1, <2>3, <3>1, ConfigConfHost
    <3> QED BY <2>1, <2>3, <3>1, <3>2 DEF DatabaseOf
  <2> QED BY <2>1, <2>2, <2>3 DEF MigratedStep
<1>8. ToldInv'
  <2> SUFFICES ASSUME OptionsKept', conf'[leader].password # 0, NoFailback'
               PROVE  \/ told' = conf'[leader]
                      \/ Tellers \cap pending'[leader] # {}
                      \/ leader \in cut'
                      \/ Behind(leader)' /\ count'["faults"] > 0
    BY <1>1 DEF ToldInv, Tellers
  <2>1. conf[leader].password # 0 =>
          \/ told = conf[leader]
          \/ Tellers \cap pending[leader] # {}
          \/ leader \in cut
          \/ Behind(leader) /\ count["faults"] > 0
    BY <1>2 DEF RestInv, ToldInv, Tellers
  <2>3. /\ seen'[leader] = seen[leader] => (Behind(leader)' <=> Behind(leader))
        /\ leader # u =>
             /\ seen'[leader] = seen[leader] /\ pending'[leader] = pending[leader]
             /\ conf'[leader] = conf[leader]
    BY <1>1, <1>5 DEF UnitEffect
  <2>4. CASE leader = u /\ (conf'[u].password # 0 => told' = conf'[u])
    BY <2>4
  <2>5. CASE leader # u /\ told' = told /\ cut \subseteq cut' \cup {u}
    BY <1>2, <2>1, <2>3, <2>5
  <2>6. CASE /\ told' = told /\ conf'[u] = conf[u] /\ cut' = cut
             /\ Tellers \cap pending[u] \subseteq pending'[u]
             /\ seen'[u] = seen[u] \/ ~Behind(u)
    <3>1. CASE leader = u
      BY <1>2, <2>1, <2>3, <2>6, <3>1
    <3>2. CASE leader # u
      BY <1>2, <2>1, <2>3, <2>6, <3>2
    <3> QED BY <3>1, <3>2
  <2>7. CASE leader = u /\ Behind(u) /\ seen'[u] = seen[u] /\ count'["faults"] > 0
    BY <2>3, <2>7
  <2>8. CASE leader = u /\ ("config-changed" \in pending'[u] \/ u \in cut')
    BY <2>8 DEF Tellers
  <2> QED BY <2>4, <2>5, <2>6, <2>7, <2>8 DEF ToldStep
<1> QED BY <1>4, <1>6, <1>7, <1>8 DEF RestInv

\* A hook of a unit that returns, or that fails.
LEMMA HookEffect ==
  ASSUME IInv, RestInv, NEW u \in Units, NEW h \in Hooks,
         UNCHANGED <<config, leader, bag, proxy>>,
         \/ Returns(u, h) /\ (h = "changed" => Saves(u) \/ Waits(u))
         \/ Raises(u, h),
         Saves(u) \/ seen' = seen,
         NEW to, conf' = [conf EXCEPT ![u] = to],
         ready' = ready \/ (\E b \in BOOLEAN : ready' = [ready EXCEPT ![u] = b]),
         migrated' = migrated \/ Migrated(u),
         count' = count \/ Fault
  PROVE  /\ UnitEffect(u)
         /\ conf'[u] = to
         /\ h \notin Tellers => Tellers \cap pending[u] \subseteq pending'[u]
         /\ Raises(u, h) => pending' = pending
<1>1. TypeOK /\ DOMAIN seen = Parties /\ u \in Parties /\ Units \subseteq Parties
  BY DEF IInv, RestInv, SavedInv, Parties
<1>2. /\ \A v \in Units \ {u} : pending'[v] = pending[v]
      /\ pending'[u] = pending[u] \/ pending'[u] = pending[u] \ {h}
      /\ pending'[u] # pending[u] /\ h = "changed" => Saves(u) \/ Waits(u)
  BY <1>1 DEF TypeOK, Returns, Raises, Consumed
<1>3. /\ DOMAIN seen' = Parties /\ seen'[u] \in {seen[u], bag}
      /\ Saves(u) => seen'[u] = bag
      /\ \A v \in Units \ {u} : seen'[v] = seen[v]
  BY <1>1 DEF Saves
<1>4. conf'[u] = to /\ \A v \in Units \ {u} : conf'[v] = conf[v] /\ ready'[v] = ready[v]
  BY <1>1 DEF TypeOK
<1>5. /\ \A what \in {"moves", "failovers", "reconfigures"} : count'[what] = count[what]
      /\ count'["faults"] \in {count["faults"], count["faults"] + 1}
  BY <1>1, CountOf DEF Fault, CountNames
<1>6. migrated \subseteq migrated'
  BY DEF Migrated
<1>7. \/ seen'[u] = bag
      \/ seen'[u] = seen[u] /\ (Waits(u) \/ {"changed"} \cap pending[u] \subseteq pending'[u])
  BY <1>2, <1>3
<1>8. UnitEffect(u)
  BY <1>2, <1>3, <1>4, <1>5, <1>6, <1>7 DEF UnitEffect
<1>9. /\ h \notin Tellers => Tellers \cap pending[u] \subseteq pending'[u]
      /\ Raises(u, h) => pending' = pending
  BY <1>2 DEF Tellers, Raises
<1> QED BY <1>4, <1>8, <1>9

LEMMA SameConf == ASSUME TypeOK, NEW u \in Units PROVE conf = [conf EXCEPT ![u] = conf[u]]
BY DEF TypeOK

\* Hooks that rewrite no service.conf.
LEMMA QuietHooksKeepRest ==
  ASSUME IInv, RestInv, NEW u \in Units,
         RelationCreated(u) \/ NoEvent(u) \/ MissingField(u) \/ LeaderElected(u)
  PROVE  RestInv'
<1>1. TypeOK /\ conf = [conf EXCEPT ![u] = conf[u]]
  BY SameConf DEF IInv
<1>2. ASSUME conf' = conf, ready' = ready, UnitEffect(u),
             seen'[u] = seen[u] \/ (seen'[u] = bag /\ ~Behind(u)), ToldStep(u)
      PROVE  RestInv'
  BY <1>2, UnitKeepsRest DEF PointedStep, MigratedStep
<1>3. CASE RelationCreated(u)
  <2>1. /\ UNCHANGED <<config, leader, bag, proxy, seen, conf, ready, told, migrated, cut, count>>
        /\ pending' = [Consumed(u, "created") EXCEPT ![Provider] = @ \cup {"changed"}]
    BY <1>3 DEF RelationCreated, machine
  <2>2. /\ \A v \in Units \ {u} : pending'[v] = pending[v]
        /\ pending'[u] = pending[u] \ {"created"}
    BY <1>1, <2>1, DatabaseAssumption DEF Consumed, TypeOK, Parties
  <2>3. UnitEffect(u)
    BY <2>1, <2>2 DEF UnitEffect, RestInv, SavedInv
  <2>4. ToldStep(u)
    BY <2>1, <2>2 DEF ToldStep, Tellers
  <2> QED BY <1>2, <2>1, <2>3, <2>4
<1>4. CASE NoEvent(u)
  <2>1. /\ UNCHANGED <<config, leader, bag, proxy, conf, ready, told, migrated, cut, count>>
        /\ Returns(u, "changed") /\ "changed" \in Hooks
        /\ (seen' = seen /\ Waits(u)) \/ (Saves(u) /\ ~Behind(u))
    BY <1>4, EventIs DEF NoEvent, machine, Hooks, Tellers
  <2>2. seen'[u] = seen[u] \/ (seen'[u] = bag /\ ~Behind(u))
    BY <2>1 DEF Saves, RestInv, SavedInv, Parties
  <2>3. /\ UnitEffect(u)
        /\ Tellers \cap pending[u] \subseteq pending'[u]
    <3>1. conf' = [conf EXCEPT ![u] = conf[u]]
      BY <1>1, <2>1
    <3> QED BY <2>1, <3>1, HookEffect DEF Tellers
  <2>4. ToldStep(u)
    BY <2>1, <2>2, <2>3 DEF ToldStep
  <2> QED BY <1>2, <2>1, <2>2, <2>3, <2>4
<1>5. CASE MissingField(u)
  <2>1. /\ UNCHANGED <<config, leader, bag, proxy, seen, conf, ready, told, migrated, cut, count>>
        /\ Raises(u, "changed") /\ "changed" \in Hooks
    BY <1>5 DEF MissingField, machine, relation, Hooks, Tellers
  <2>2. /\ UnitEffect(u)
        /\ Tellers \cap pending[u] \subseteq pending'[u]
    <3>1. conf' = [conf EXCEPT ![u] = conf[u]]
      BY <1>1, <2>1
    <3> QED BY <2>1, <3>1, HookEffect
  <2>3. ToldStep(u)
    BY <2>1, <2>2 DEF ToldStep
  <2> QED BY <1>2, <2>1, <2>2, <2>3
<1>6. CASE LeaderElected(u)
  <2>1. /\ UNCHANGED <<config, leader, bag, proxy, seen, conf, ready, migrated, count>>
        /\ Returns(u, "leader-elected") /\ "leader-elected" \in Hooks /\ Tell(u)
    BY <1>6 DEF LeaderElected, relation, Hooks
  <2>2. UnitEffect(u)
    <3>1. conf' = [conf EXCEPT ![u] = conf[u]]
      BY <1>1, <2>1
    <3> QED BY <2>1, <3>1, HookEffect
  <2>3. ToldStep(u)
    BY <2>1 DEF ToldStep, Tell
  <2> QED BY <1>2, <2>1, <2>2, <2>3
<1> QED BY <1>3, <1>4, <1>5, <1>6

\* The handler of the relation's events.
LEMMA RelationChangedKeepsRest ==
  ASSUME IInv, RestInv, NEW u \in Units,
         FollowerReady(u) \/ MigrationFails(u) \/ SetupRaises(u) \/ WslFails(u) \/ LeaderReady(u)
  PROVE  RestInv'
<1>1. /\ Emits(u) /\ Shared /\ conf' = [conf EXCEPT ![u] = RelationConf(u)]
      /\ UNCHANGED <<config, leader, bag, proxy>>
      /\ "changed" \in Hooks
  BY DEF FollowerReady, MigrationFails, SetupRaises, WslFails, LeaderReady, LeaderWrites,
         WritesRelation, Hooks
<1>2. /\ Behind(u)
      /\ RelationConf(u).host = Primary(bag)
      /\ config.host # "none" => RelationConf(u).host = config.host
  BY <1>1, EventIs, RelationConfHost DEF Emits, Primary
<1>3. TypeOK /\ DOMAIN seen = Parties /\ u \in Parties
  BY DEF IInv, RestInv, SavedInv, Parties
<1>4. ASSUME Returns(u, "changed"), Saves(u), count' = count \/ Fault,
             migrated' = migrated \/ Migrated(u),
             \E b \in BOOLEAN : ready' = [ready EXCEPT ![u] = b]
      PROVE  UnitEffect(u) /\ PointedStep(u) /\ conf'[u] = RelationConf(u)
  <2>1. UnitEffect(u) /\ conf'[u] = RelationConf(u)
    BY <1>1, <1>4, HookEffect
  <2>2. seen'[u] = bag
    BY <1>3, <1>4 DEF Saves
  <2> QED BY <1>2, <2>1, <2>2 DEF PointedStep
<1>5. CASE FollowerReady(u)
  <2>1. UnitEffect(u) /\ PointedStep(u)
    BY <1>4, <1>5 DEF FollowerReady, NoFault
  <2>2. leader # u /\ told' = told /\ cut' = cut /\ ready' = [ready EXCEPT ![u] = TRUE]
    BY <1>5 DEF FollowerReady
  <2>3. ToldStep(u) /\ MigratedStep(u)
    BY <2>2 DEF ToldStep, MigratedStep
  <2> QED BY <2>1, <2>3, UnitKeepsRest
<1>6. CASE MigrationFails(u) \/ WslFails(u) \/ LeaderReady(u)
  <2>1. /\ UnitEffect(u) /\ PointedStep(u) /\ conf'[u] = RelationConf(u)
        /\ leader = u /\ Tell(u)
    BY <1>4, <1>6 DEF MigrationFails, WslFails, LeaderReady, NoFault, LeaderWrites
  <2>2. ToldStep(u)
    BY <2>1 DEF ToldStep, Tell
  <2>3. MigratedStep(u)
    <3>1. CASE ready' = [ready EXCEPT ![u] = FALSE]
      BY <1>3, <3>1 DEF MigratedStep, TypeOK
    <3>2. CASE Migrated(u)
      BY <1>2, <2>1, <3>2 DEF MigratedStep, Migrated
    <3> QED BY <1>6, <3>1, <3>2 DEF MigrationFails, WslFails, LeaderReady
  <2> QED BY <2>1, <2>2, <2>3, UnitKeepsRest
<1>7. CASE SetupRaises(u)
  <2>1. /\ leader = u /\ Migrated(u) /\ Raises(u, "changed") /\ Fault
        /\ UNCHANGED <<seen, ready, told, cut>>
    BY <1>7 DEF SetupRaises, LeaderWrites
  <2>2. UnitEffect(u) /\ conf'[u] = RelationConf(u)
    BY <1>1, <2>1, HookEffect
  <2>3. count'["faults"] > 0
    BY <1>3, <2>1, CountOf, Counted DEF Fault, CountNames
  <2>4. PointedStep(u) /\ ToldStep(u)
    BY <1>2, <2>1, <2>2, <2>3 DEF PointedStep, ToldStep
  <2>5. MigratedStep(u)
    BY <1>2, <2>1, <2>2 DEF MigratedStep, Migrated
  <2> QED BY <2>2, <2>4, <2>5, UnitKeepsRest
<1> QED BY <1>5, <1>6, <1>7

LEMMA ConfigChangedKeepsRest ==
  ASSUME IInv, RestInv, NEW u \in Units, ConfigChanged(u)
  PROVE  RestInv'
<1>1. /\ conf' = [conf EXCEPT ![u] = ConfigConf(u)]
      /\ UNCHANGED <<config, leader, bag, proxy, seen>>
      /\ "config-changed" \in Hooks /\ "config-changed" \in pending[u]
  BY DEF ConfigChanged, relation, Hooks, Runs
<1>2. /\ Returns(u, "config-changed") \/ Raises(u, "config-changed")
      /\ migrated' = migrated \/ Migrated(u)
      /\ count' = count \/ Fault
      /\ ready' = ready \/ (ready' = [ready EXCEPT ![u] = TRUE] /\ Migrated(u) /\ conf'[u].host # "none")
  BY DEF ConfigChanged, NoFault
<1>3. UnitEffect(u) /\ conf'[u] = ConfigConf(u)
  BY <1>1, <1>2, HookEffect
<1>4. PointedStep(u)
  BY <1>1, <1>3 DEF PointedStep
<1>6. ToldStep(u)
  <2>1. CASE Tell(u)
    BY <1>3, <2>1 DEF ToldStep, Tell
  <2>2. CASE Raises(u, "config-changed") /\ UNCHANGED <<told, cut>>
    BY <1>1, <2>2 DEF ToldStep, Raises
  <2>3. CASE told' = told /\ cut' = cut \cup {u}
    BY <2>3 DEF ToldStep
  <2> QED BY <2>1, <2>2, <2>3 DEF ConfigChanged
<1>5. MigratedStep(u)
  <2>1. CASE ready' = ready
    BY <1>3, <2>1 DEF MigratedStep
  <2>2. CASE Migrated(u)
    BY <1>3, <2>2, ConfigConfHost DEF MigratedStep, Migrated
  <2> QED BY <1>2, <2>1, <2>2
<1> QED BY <1>3, <1>4, <1>5, <1>6, UnitKeepsRest

LEMMA EnvironmentKeepsRest ==
  ASSUME IInv, RestInv, OperatorConfigures \/ LeaderMoves \/ (\E u \in Units : ProxyReady(u))
  PROVE  RestInv'
<1>1. TypeOK /\ DOMAIN seen = Parties /\ Units \subseteq Parties
  BY DEF IInv, RestInv, SavedInv, Parties
\* Steps that only have hooks run, and count what happens.
<1>2. ASSUME UNCHANGED <<bag, seen, conf, ready, told, migrated, cut>>,
             \A u \in Units : pending[u] \subseteq pending'[u],
             \A u \in Units : ~Waits(u) => ~Waits(u)',
             \A u \in Units : Waits(u) => Waits(u)' \/ "changed" \in pending'[u],
             \A what \in {"failovers", "faults"} : count'[what] = count[what]
      PROVE  /\ SavedInv'
             /\ NoFailback' <=> NoFailback
             /\ \A u \in Units : Behind(u)' <=> Behind(u)
  BY <1>2 DEF RestInv, SavedInv, NoFailback, Behind
<1>3. CASE OperatorConfigures
  <2>1. /\ UNCHANGED <<leader, bag, proxy, seen, conf, ready, told, migrated, cut>>
        /\ \A u \in Units : pending[u] \subseteq pending'[u]
    BY <1>1, <1>3 DEF OperatorConfigures, relation, machine, TypeOK
  <2>2. /\ \A what \in {"failovers", "faults"} : count'[what] = count[what]
        /\ ~OptionsKept'
    BY <1>1, <1>3, CountOf, Counted DEF OperatorConfigures, CountNames, OptionsKept
  <2>3. SavedInv'
    BY <1>2, <2>1, <2>2 DEF Waits
  <2> QED BY <2>2, <2>3 DEF RestInv, PointedInv, MigratedInv, ToldInv
<1>4. CASE LeaderMoves
  <2>1. /\ UNCHANGED <<config, bag, proxy, seen, conf, ready, told, migrated, cut>>
        /\ leader' \in Units
        /\ pending' = [pending EXCEPT ![leader'] = @ \cup {"leader-elected"}]
    BY <1>4 DEF LeaderMoves, relation, machine
  <2>2. /\ \A u \in Units : /\ pending[u] \subseteq pending'[u]
                            /\ pending'[u] \subseteq pending[u] \cup {"leader-elected"}
        /\ "leader-elected" \in pending'[leader']
    BY <1>1, <2>1 DEF TypeOK
  <2>3. /\ \A what \in {"failovers", "faults"} : count'[what] = count[what]
        /\ OptionsKept' <=> OptionsKept
        /\ count'["moves"] # 0
    BY <1>1, <1>4, CountOf, Counted DEF LeaderMoves, CountNames, OptionsKept
  <2>4. /\ SavedInv' /\ (NoFailback' <=> NoFailback)
        /\ \A u \in Units : Behind(u)' <=> Behind(u)
    BY <1>2, <2>1, <2>2, <2>3 DEF Waits
  <2>5. PointedInv'
    BY <2>1, <2>3, <2>4 DEF RestInv, PointedInv, Primary
  <2>6. MigratedInv'
    BY <2>3 DEF MigratedInv
  <2>7. ToldInv'
    BY <2>1, <2>2, <2>3 DEF RestInv, ToldInv, ConfigHook
  <2> QED BY <2>4, <2>5, <2>6, <2>7 DEF RestInv
<1>5. ASSUME NEW u \in Units, ProxyReady(u)
      PROVE  RestInv'
  <2>1. /\ UNCHANGED <<config, leader, bag, seen, conf, ready, told, migrated, cut, count>>
        /\ proxy' = proxy \cup {u}
        /\ pending' = [pending EXCEPT ![u] = @ \cup {"changed"}]
    BY <1>5 DEF ProxyReady, machine
  <2>2. /\ \A v \in Units : /\ pending[v] \subseteq pending'[v]
                            /\ pending'[v] \subseteq pending[v] \cup {"changed"}
        /\ "changed" \in pending'[u]
    BY <1>1, <2>1 DEF TypeOK
  <2>3. SavedInv' /\ \A v \in Units : Behind(v)' <=> Behind(v)
    BY <1>2, <2>1, <2>2 DEF Waits
  <2>4. leader \in Units
    BY <1>1 DEF TypeOK
  <2>5. PointedInv'
    BY <2>1, <2>3 DEF RestInv, PointedInv, Primary, OptionsKept, NoFailback
  <2>6. MigratedInv'
    BY <2>1 DEF RestInv, MigratedInv, OptionsKept, DatabaseOf
  <2>7. ToldInv'
    BY <2>1, <2>2, <2>3, <2>4 DEF RestInv, ToldInv, OptionsKept, NoFailback
  <2> QED BY <2>3, <2>5, <2>6, <2>7 DEF RestInv
<1> QED BY <1>3, <1>4, <1>5

LEMMA StutterKeepsRest == ASSUME RestInv, UNCHANGED vars PROVE RestInv'
<1>1. UNCHANGED <<config, leader, bag, proxy, seen, conf, ready, told, migrated, cut, pending, count>>
  BY DEF vars, relation, machine
<1>2. SavedInv'
  BY <1>1 DEF RestInv, SavedInv, Waits
<1>3. PointedInv'
  BY <1>1 DEF RestInv, PointedInv, Primary, OptionsKept, NoFailback, Behind
<1>4. MigratedInv'
  BY <1>1 DEF RestInv, MigratedInv, OptionsKept, DatabaseOf
<1>5. ToldInv'
  BY <1>1 DEF RestInv, ToldInv, OptionsKept, NoFailback, Behind
<1> QED BY <1>2, <1>3, <1>4, <1>5 DEF RestInv

LEMMA RestInvariance == Spec => [](IInv /\ RestInv)
<1>1. IInv /\ RestInv /\ [Next]_vars => RestInv'
  <2> SUFFICES ASSUME IInv, RestInv, [Next]_vars PROVE RestInv'
    OBVIOUS
  <2>1. ASSUME NEW u \in Units, UnitHook(u)
        PROVE  RestInv'
    BY <2>1, QuietHooksKeepRest, RelationChangedKeepsRest, ConfigChangedKeepsRest
    DEF UnitHook, RelationChanged
  <2>2. CASE ProviderRelationChanged \/ ProviderUpdates \/ Failover \/ RotatePassword
    BY <2>2, ProviderStepsEffect, ProviderKeepsRest DEF RestInv
  <2>3. CASE OperatorConfigures \/ LeaderMoves \/ (\E u \in Units : ProxyReady(u))
    BY <2>3, EnvironmentKeepsRest
  <2>4. CASE UNCHANGED vars
    BY <2>4, StutterKeepsRest
  <2> QED BY <2>1, <2>2, <2>3, <2>4 DEF Next, Owed
<1> QED BY Invariance, InitRest, <1>1, PTL DEF Spec

\* A unit at rest, that no proxy keeps waiting, has seen all there is.
LEMMA AtRestNotBehind ==
  ASSUME RestInv, NEW u \in Units, AtRest(u), ~Waits(u)
  PROVE  seen[u] = bag /\ ~Behind(u)
BY DEF RestInv, SavedInv, AtRest, Behind, News

\* Whatever the order of the provider's writes, of failovers and of retried hooks, a
\* unit at rest points at the primary that is published or at the operator's host, unless
\* a primary may have come back after a handler failed (_on_relation_changed_event's diff,
\* _database_relation_changed).
THEOREM UnitsPointAtPrimary == Spec => []PointsAtPrimary
<1>1. IInv /\ RestInv => PointsAtPrimary
  <2> SUFFICES ASSUME IInv, RestInv, NoFailback, NEW u \in Units,
                      AtRest(u), Shared, ~Waits(u), OptionsKept
               PROVE  conf[u].host = IF config.host = "none" THEN bag["endpoints"]
                                     ELSE config.host
    BY DEF PointsAtPrimary
  <2>1. Located(bag) /\ ~Behind(u)
    BY RelationConfHost, AtRestNotBehind
  <2> QED BY <2>1 DEF RestInv, PointedInv, Primary
<1> QED BY RestInvariance, <1>1, PTL

\* A leader that leads from the start and calls the database ready has migrated that very
\* database, through any number of failovers and failed migrations
\* (_database_relation_changed, _migrate_schema_bootstrap).
THEOREM ReadyMeansMigrated == Spec => []ReadyLeaderMigrated
<1>1. RestInv => ReadyLeaderMigrated
  BY DEF RestInv, MigratedInv, ReadyLeaderMigrated
<1> QED BY RestInvariance, <1>1, PTL

\* The task-handler uses the database of the leader at rest, whoever led before and
\* whatever databag write a failed hook has lost (_update_task_handler_relations); but for
\* a leader whose config-changed ended when it failed to migrate the schema, and a primary
\* that may have come back after a handler failed.
THEOREM TaskHandlerUpToDate == Spec => []TaskHandlerFollowsLeader
<1>1. IInv /\ RestInv => TaskHandlerFollowsLeader
  <2> SUFFICES ASSUME IInv, RestInv, AtRest(leader), ~Waits(leader), OptionsKept,
                      leader \notin cut, NoFailback, conf[leader].password # 0
               PROVE  told = conf[leader]
    BY DEF TaskHandlerFollowsLeader
  <2>1. leader \in Units
    BY DEF IInv, TypeOK
  <2>2. ~Behind(leader) /\ pending[leader] = {}
    BY <2>1, AtRestNotBehind DEF AtRest
  <2> QED BY <2>2 DEF RestInv, ToldInv
<1> QED BY RestInvariance, <1>1, PTL

================================================================================
