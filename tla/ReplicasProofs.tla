----------------------------- MODULE ReplicasProofs ----------------------------
(***************************************************************************)
(* Proofs about Replicas, for any number of units, any configurations and  *)
(* any bounds: type correctness, that a published key is final, and that   *)
(* the units share the keys as SharedKeys promises.                        *)
(***************************************************************************)
EXTENDS Replicas, TLAPS

LEMMA KeysAreKeys == "secret-token" \in Keys /\ "cookie-encryption-key" \in Keys
  BY DEF Keys

LEMMA NoKeysTyped == NoKeys \in KeyBags /\ NoKeys \in [Keys -> Given \cup {None}]
  BY DEF NoKeys, KeyBags

--------------------------------------------------------------------------------
(***************************************************************************)
(* The helpers take views to views.                                        *)
(***************************************************************************)

LEMMA CharmConfigTyped ==
  ASSUME config \in ConfigType
  PROVE  /\ CharmConfig.key \in KeyBags
         /\ CharmConfig.root \in {RootHost, None}
  <1>1. CASE config.valid
    BY <1>1 DEF CharmConfig, ConfigType, KeyBags, Values
  <1>2. CASE ~config.valid
    BY <1>2, NoKeysTyped DEF CharmConfig, ConfigType
  <1> QED BY <1>1, <1>2

LEMMA ViewTyped ==
  ASSUME TypeOK, NEW u \in Units
  PROVE  View(u) \in ViewType
  BY DEF TypeOK, View, ViewType

LEMMA DueKeyTyped ==
  ASSUME config \in ConfigType, NEW v \in ViewType, NEW k \in Keys
  PROVE  DueKey(v, k) \in Values \cup {None}
  BY CharmConfigTyped DEF DueKey, ViewType, KeyBags

\* What a helper that does not touch the keys leaves alone.
SameKeys(v, w) == w.bag.key = v.bag.key /\ w.stored.key = v.stored.key

LEMMA SyncKeysFacts ==
  ASSUME config \in ConfigType, NEW v \in ViewType
  PROVE  /\ SyncKeys(v) \in ViewType
         /\ SyncKeys(v).bag = v.bag
         /\ \A k \in Keys : SyncKeys(v).stored.key[k] # v.stored.key[k] =>
              /\ SyncKeys(v).stored.key[k] = DueKey(SyncKeys(v), k)
              /\ SyncKeys(v).stored.key[k] # None
  <1> DEFINE w == SyncKeys(v)
  <1>1. \A old \in KeyBags : KeysWritten(v, old) \in KeyBags
    BY DueKeyTyped DEF KeysWritten, KeyBags
  <1>2. /\ w \in ViewType
        /\ w.bag = v.bag
        /\ w.stored.key = KeysWritten(v, v.stored.key)
    BY <1>1 DEF SyncKeys, ViewType
  <1>3. \A k \in Keys : DueKey(w, k) = DueKey(v, k)
    BY <1>2 DEF DueKey
  <1>4. ASSUME NEW k \in Keys, w.stored.key[k] # v.stored.key[k]
        PROVE  w.stored.key[k] = DueKey(w, k) /\ w.stored.key[k] # None
    BY <1>2, <1>3, <1>4 DEF KeysWritten, Changed
  <1> QED BY <1>2, <1>4

\* The services move as they are told, or are noted to have refused.
LEMMA SetLeaderServicesFacts ==
  ASSUME NEW v \in ViewType, NEW w \in SetLeaderServices(v)
  PROVE  /\ w \in ViewType
         /\ w.ip = v.ip /\ w.isLeader = v.isLeader /\ w.conf = v.conf
         /\ w.bag = v.bag /\ w.stored = v.stored /\ w.routed = v.routed
         /\ w.debarchive = v.debarchive /\ w.taskHost = v.taskHost
         /\ w.refused \/ w.serves = v.isLeader
  <1>1. v.isLeader \in BOOLEAN
    BY DEF ViewType
  <1>2. PICK serves \in BOOLEAN, refuses \in BOOLEAN :
          /\ w = [[v EXCEPT !.serves = serves] EXCEPT !.refused = refuses]
          /\ refuses \/ serves = v.isLeader
    BY <1>1, Zenon DEF SetLeaderServices
  <1> QED BY <1>2 DEF ViewType

LEMMA HelperFacts ==
  ASSUME config \in ConfigType, NEW v \in ViewType
  PROVE  /\ PublishLeaderIp(v) \in ViewType /\ SameKeys(v, PublishLeaderIp(v))
         /\ \A h \in Hosts : /\ SearchPackagesOn(v, h) \in ViewType
                             /\ SameKeys(v, SearchPackagesOn(v, h))
         /\ ProvideRoutes(v) \in ViewType /\ SameKeys(v, ProvideRoutes(v))
         /\ \A w \in SetLeaderServices(v) : w \in ViewType /\ SameKeys(v, w)
         /\ EnsureLeaderIp(v) \in ViewType /\ SameKeys(v, EnsureLeaderIp(v))
         /\ RememberLeader(v) \in ViewType /\ SameKeys(v, RememberLeader(v))
         /\ Hostname(v) \in Hosts
  <1>1. PublishLeaderIp(v) \in ViewType /\ SameKeys(v, PublishLeaderIp(v))
    BY DEF PublishLeaderIp, ViewType, SameKeys
  <1>2. \A h \in Hosts : /\ SearchPackagesOn(v, h) \in ViewType
                         /\ SameKeys(v, SearchPackagesOn(v, h))
    BY DEF SearchPackagesOn, ViewType, SameKeys
  <1>3. ProvideRoutes(v) \in ViewType /\ SameKeys(v, ProvideRoutes(v))
    BY DEF ProvideRoutes, ViewType, SameKeys
  <1>4. \A w \in SetLeaderServices(v) : w \in ViewType /\ SameKeys(v, w)
    BY SetLeaderServicesFacts DEF SameKeys
  <1>5. EnsureLeaderIp(v) \in ViewType /\ SameKeys(v, EnsureLeaderIp(v))
    BY DEF EnsureLeaderIp, ViewType, SameKeys
  <1>6. RememberLeader(v) \in ViewType /\ SameKeys(v, RememberLeader(v))
    BY DEF RememberLeader, ViewType, SameKeys
  <1>7. Hostname(v) \in Hosts
    BY CharmConfigTyped DEF Hostname, ViewType, Hosts
  <1> QED BY <1>1, <1>2, <1>3, <1>4, <1>5, <1>6, <1>7

LEMMA LeaderChangedFacts ==
  ASSUME config \in ConfigType, NEW v \in ViewType
  PROVE  \A x \in LeaderChanged(v) : x \in ViewType /\ SameKeys(v, x)
  <1> TAKE x \in LeaderChanged(v)
  <1>1. PICK w \in SetLeaderServices(v) : x = ProvideRoutes(w)
    BY DEF LeaderChanged
  <1>2. w \in ViewType /\ SameKeys(v, w)
    BY HelperFacts
  <1>3. ProvideRoutes(w) \in ViewType /\ SameKeys(w, ProvideRoutes(w))
    BY <1>2, HelperFacts
  <1> QED BY <1>1, <1>2, <1>3 DEF SameKeys

LEMMA FollowLeaderFacts ==
  ASSUME config \in ConfigType, NEW v \in ViewType
  PROVE  FollowLeader(v) \in ViewType /\ SameKeys(v, FollowLeader(v))
  <1>1. CASE ~v.isLeader /\ v.bag.leaderIp # None
    <2>1. v.bag.leaderIp \in Hosts
      BY DEF ViewType, Hosts
    <2> QED BY <1>1, <2>1, HelperFacts DEF FollowLeader
  <1>2. CASE ~(~v.isLeader /\ v.bag.leaderIp # None)
    BY <1>2 DEF FollowLeader, SameKeys
  <1> QED BY <1>1, <1>2

LEMMA PublishToDebarchiveFacts ==
  ASSUME config \in ConfigType, NEW v \in ViewType,
         NEW notify \in BOOLEAN, NEW lost \in BOOLEAN
  PROVE  /\ PublishToDebarchive(v, notify, lost) \in ViewType
         /\ SameKeys(v, PublishToDebarchive(v, notify, lost))
  <1> DEFINE token  == DueKey(v, "secret-token")
             create == v.debarchive.token = None \/ lost
             new    == [hostname |-> Hostname(v),
                        token    |-> IF create \/ notify THEN token
                                     ELSE v.debarchive.token,
                        revision |-> IF notify THEN v.debarchive.revision + 1
                                     ELSE v.debarchive.revision]
             after  == IF token = None THEN v.debarchive ELSE new
             DebarchiveType == [hostname : Hosts, token : Values \cup {None},
                                revision : Nat]
  <1>1. token \in Values \cup {None} /\ Hostname(v) \in Hosts
    BY DueKeyTyped, KeysAreKeys, HelperFacts
  <1>2. v.debarchive \in DebarchiveType
    BY DEF ViewType
  <1>3. new \in DebarchiveType
    BY <1>1, <1>2
  <1>4. after \in DebarchiveType
    BY <1>2, <1>3
  <1>5. PublishToDebarchive(v, notify, lost) = [v EXCEPT !.debarchive = after]
    BY DEF PublishToDebarchive
  <1> HIDE DEF after
  <1> QED BY <1>4, <1>5 DEF ViewType, SameKeys

LEMMA PublishingFacts ==
  ASSUME config \in ConfigType, NEW v \in ViewType,
         NEW notify \in BOOLEAN, NEW lost \in BOOLEAN
  PROVE  /\ UpdateDebarchive(v, notify, lost) \in ViewType
         /\ SameKeys(v, UpdateDebarchive(v, notify, lost))
         /\ UpdateTaskHandler(v) \in ViewType
         /\ SameKeys(v, UpdateTaskHandler(v))
  <1> DEFINE w == EnsureLeaderIp(v)
  <1>1. w \in ViewType /\ SameKeys(v, w) /\ Hostname(w) \in Hosts
    BY HelperFacts
  <1>2. /\ PublishToDebarchive(w, notify, lost) \in ViewType
        /\ SameKeys(v, PublishToDebarchive(w, notify, lost))
    BY <1>1, PublishToDebarchiveFacts DEF SameKeys
  <1>3. /\ [w EXCEPT !.taskHost = Hostname(w)] \in ViewType
        /\ SameKeys(v, [w EXCEPT !.taskHost = Hostname(w)])
    BY <1>1 DEF ViewType, SameKeys
  <1>4. SameKeys(v, v)
    BY DEF SameKeys
  <1> QED BY <1>2, <1>3, <1>4 DEF UpdateDebarchive, UpdateTaskHandler

LEMMA WithGeneratedKeysFacts ==
  ASSUME NEW v \in ViewType, NEW w \in WithGeneratedKeys(v)
  PROVE  /\ w \in ViewType
         /\ w.stored = v.stored
         /\ \A k \in Keys : w.bag.key[k] # v.bag.key[k] => DueKey(v, k) = None
  <1>1. CASE v.isLeader
    <2>1. PICK keys \in KeyBags :
            /\ w = [v EXCEPT !.bag.key = keys]
            /\ \A k \in Keys : DueKey(v, k) # None => keys[k] = v.bag.key[k]
      BY <1>1 DEF WithGeneratedKeys
    <2> QED BY <2>1 DEF ViewType
  <1>2. CASE ~v.isLeader
    BY <1>2 DEF WithGeneratedKeys
  <1> QED BY <1>1, <1>2

--------------------------------------------------------------------------------
(***************************************************************************)
(* What every handler makes of its unit's view.                            *)
(***************************************************************************)

\* Keys are published only where none is due, and only due keys are remembered.
KeyStep(v, w) ==
  /\ w \in ViewType
  /\ \A k \in Keys : w.bag.key[k] # v.bag.key[k] => DueKey(v, k) = None
  /\ \A k \in Keys : w.stored.key[k] # v.stored.key[k] =>
                       w.stored.key[k] = DueKey(w, k) /\ w.stored.key[k] # None

LEMMA SameKeysIsKeyStep ==
  ASSUME NEW v \in ViewType, NEW w \in ViewType, SameKeys(v, w)
  PROVE  KeyStep(v, w)
  BY DEF KeyStep, SameKeys

LEMMA KeyStepThenSameKeys ==
  ASSUME NEW v, NEW w, NEW x \in ViewType, KeyStep(v, w), SameKeys(w, x)
  PROVE  KeyStep(v, x)
  BY DEF KeyStep, SameKeys, DueKey

\* A handler's outcome: it returns with, or fails on the way to, a view that is
\* a KeyStep away.
Outcome(u, h, x) ==
  /\ h \in HookNames
  /\ KeyStep(View(u), x)
  /\ \/ Commits(u, h, x) /\ cut' \in {cut, cut \ {u}}
     \/ Crashes(u, h, x)

LEMMA EndsIsOutcome ==
  ASSUME NEW u, NEW h \in HookNames, NEW x, KeyStep(View(u), x), Ends(u, h, x)
  PROVE  Outcome(u, h, x)
  BY DEF Ends, Outcome

LEMMA ConfigChangedOutcome ==
  ASSUME TypeOK, NEW u \in Units, ConfigChanged(u)
  PROVE  \E h, x : Outcome(u, h, x)
  <1>1. config \in ConfigType /\ View(u) \in ViewType
    BY ViewTyped DEF TypeOK
  <1>2. PICK v \in WithGeneratedKeys(View(u)), lost \in SecretLost :
        \E w \in {SyncKeys(v)} \cup SetLeaderServices(SyncKeys(v)) :
          LET notify == Changed(v, "secret-token")
              x == UpdateTaskHandler(UpdateDebarchive(ProvideRoutes(w), notify, lost))
          IN  \/ Commits(u, "config-changed", x) /\ cut' = cut \ {u}
              \/ Crashes(u, "config-changed", x)
    BY DEF ConfigChanged
  <1> DEFINE notify == Changed(v, "secret-token")
             s == SyncKeys(v)
  <1>w. PICK w \in {s} \cup SetLeaderServices(s) :
          LET x == UpdateTaskHandler(UpdateDebarchive(ProvideRoutes(w), notify, lost))
          IN  \/ Commits(u, "config-changed", x) /\ cut' = cut \ {u}
              \/ Crashes(u, "config-changed", x)
    BY <1>2
  <1> DEFINE r == ProvideRoutes(w)
             d == UpdateDebarchive(r, notify, lost)
             x == UpdateTaskHandler(d)
  <1>3. /\ v \in ViewType /\ v.stored = View(u).stored
        /\ \A k \in Keys : v.bag.key[k] # View(u).bag.key[k] =>
                             DueKey(View(u), k) = None
    BY <1>1, WithGeneratedKeysFacts
  <1>4. /\ s \in ViewType /\ s.bag = v.bag
        /\ \A k \in Keys : s.stored.key[k] # v.stored.key[k] =>
                             s.stored.key[k] = DueKey(s, k) /\ s.stored.key[k] # None
    BY <1>1, <1>3, SyncKeysFacts
  <1>5. KeyStep(View(u), s)
    BY <1>3, <1>4 DEF KeyStep
  <1>6. w \in ViewType /\ SameKeys(s, w)
    BY <1>1, <1>4, HelperFacts DEF SameKeys
  <1>7. r \in ViewType /\ SameKeys(w, r)
    BY <1>1, <1>6, HelperFacts
  <1>8. notify \in BOOLEAN /\ lost \in BOOLEAN
    BY DEF Changed, SecretLost
  <1>9. d \in ViewType /\ SameKeys(r, d)
    BY <1>1, <1>7, <1>8, PublishingFacts
  <1>10. x \in ViewType /\ SameKeys(d, x)
    BY <1>1, <1>9, PublishingFacts
  <1>11. SameKeys(s, x)
    BY <1>6, <1>7, <1>9, <1>10 DEF SameKeys
  <1>12. KeyStep(View(u), x)
    BY <1>5, <1>10, <1>11, KeyStepThenSameKeys
  <1>13. \/ Commits(u, "config-changed", x) /\ cut' = cut \ {u}
         \/ Crashes(u, "config-changed", x)
    BY <1>w
  <1> HIDE DEF x
  <1>14. Outcome(u, "config-changed", x)
    BY <1>12, <1>13 DEF Outcome, HookNames
  <1> QED BY <1>14

LEMMA LeaderElectedOutcome ==
  ASSUME TypeOK, NEW u \in Units, LeaderElected(u)
  PROVE  \E h, x : Outcome(u, h, x)
  <1> DEFINE v == View(u)
  <1>1. config \in ConfigType /\ v \in ViewType
    BY ViewTyped DEF TypeOK
  <1>2. PICK lost \in SecretLost :
          LET w == SearchPackagesOn(PublishLeaderIp(v), Localhost)
              x == UpdateTaskHandler(UpdateDebarchive(w, FALSE, lost))
          IN  \E y \in LeaderChanged(IF v.isLeader THEN x ELSE v) :
                Ends(u, "leader-elected", y)
    BY DEF LeaderElected
  <1> DEFINE p == PublishLeaderIp(v)
             w == SearchPackagesOn(p, Localhost)
             d == UpdateDebarchive(w, FALSE, lost)
             t == UpdateTaskHandler(d)
             y == IF v.isLeader THEN t ELSE v
  <1>x. PICK x \in LeaderChanged(y) : Ends(u, "leader-elected", x)
    BY <1>2
  <1>3. p \in ViewType /\ SameKeys(v, p)
    BY <1>1, HelperFacts
  <1>4. w \in ViewType /\ SameKeys(p, w)
    BY <1>1, <1>3, HelperFacts DEF Hosts
  <1>5. d \in ViewType /\ SameKeys(w, d)
    BY <1>1, <1>4, PublishingFacts DEF SecretLost
  <1>6. t \in ViewType /\ SameKeys(d, t)
    BY <1>1, <1>5, PublishingFacts
  <1>7. y \in ViewType /\ SameKeys(v, y)
    BY <1>1, <1>3, <1>4, <1>5, <1>6 DEF SameKeys
  <1>8. x \in ViewType /\ SameKeys(y, x)
    BY <1>1, <1>7, LeaderChangedFacts
  <1>9. SameKeys(v, x)
    BY <1>7, <1>8 DEF SameKeys
  <1>10. Outcome(u, "leader-elected", x)
    BY <1>1, <1>x, <1>8, <1>9, SameKeysIsKeyStep, EndsIsOutcome DEF HookNames
  <1> QED BY <1>10

LEMMA LeaderSettingsChangedOutcome ==
  ASSUME TypeOK, NEW u \in Units, LeaderSettingsChanged(u)
  PROVE  \E h, x : Outcome(u, h, x)
  <1> DEFINE v == View(u)
             w == FollowLeader(v)
  <1>x. PICK x \in LeaderChanged(w) : Ends(u, "leader-settings-changed", x)
    BY DEF LeaderSettingsChanged
  <1>1. config \in ConfigType /\ v \in ViewType
    BY ViewTyped DEF TypeOK
  <1>2. w \in ViewType /\ SameKeys(v, w)
    BY <1>1, FollowLeaderFacts
  <1>3. x \in ViewType /\ SameKeys(w, x)
    BY <1>1, <1>2, LeaderChangedFacts
  <1>4. SameKeys(v, x)
    BY <1>2, <1>3 DEF SameKeys
  <1>5. Outcome(u, "leader-settings-changed", x)
    BY <1>1, <1>x, <1>3, <1>4, SameKeysIsKeyStep, EndsIsOutcome DEF HookNames
  <1> QED BY <1>5

LEMMA ReplicasRelationJoinedOutcome ==
  ASSUME TypeOK, NEW u \in Units, ReplicasRelationJoined(u)
  PROVE  \E h, x : Outcome(u, h, x)
  <1> DEFINE v == View(u)
             w == IF v.isLeader THEN PublishLeaderIp(v) ELSE v
             x == [w EXCEPT !.bag.unitData = @ \cup {u}]
  <1>1. config \in ConfigType /\ v \in ViewType
    BY ViewTyped DEF TypeOK
  <1>2. w \in ViewType /\ SameKeys(v, w)
    BY <1>1, HelperFacts DEF SameKeys
  <1> HIDE DEF w
  <1>3. x \in ViewType /\ SameKeys(w, x)
    BY <1>2 DEF ViewType, SameKeys
  <1>4. SameKeys(v, x)
    BY <1>2, <1>3 DEF SameKeys
  <1>5. Ends(u, "replicas-joined", x)
    BY DEF ReplicasRelationJoined, w
  <1>6. Outcome(u, "replicas-joined", x)
    BY <1>1, <1>3, <1>4, <1>5, SameKeysIsKeyStep, EndsIsOutcome DEF HookNames
  <1> QED BY <1>6

LEMMA ReplicasRelationChangedOutcome ==
  ASSUME TypeOK, NEW u \in Units, ReplicasRelationChanged(u)
  PROVE  \E h, x : Outcome(u, h, x)
  <1> DEFINE v == View(u)
             r == RememberLeader(v)
             f == FollowLeader(r)
  <1>w. PICK w \in LeaderChanged(f) : Ends(u, "replicas-changed", SyncKeys(w))
    BY DEF ReplicasRelationChanged
  <1> DEFINE x == SyncKeys(w)
  <1>1. config \in ConfigType /\ v \in ViewType
    BY ViewTyped DEF TypeOK
  <1>2. r \in ViewType /\ SameKeys(v, r)
    BY <1>1, HelperFacts
  <1>3. f \in ViewType /\ SameKeys(r, f)
    BY <1>1, <1>2, FollowLeaderFacts
  <1>4. w \in ViewType /\ SameKeys(f, w)
    BY <1>1, <1>3, LeaderChangedFacts
  <1>5. SameKeys(v, w)
    BY <1>2, <1>3, <1>4 DEF SameKeys
  <1>6. /\ x \in ViewType /\ x.bag = w.bag
        /\ \A k \in Keys : x.stored.key[k] # w.stored.key[k] =>
                             x.stored.key[k] = DueKey(x, k) /\ x.stored.key[k] # None
    BY <1>1, <1>4, SyncKeysFacts
  <1>7. KeyStep(v, x)
    BY <1>5, <1>6 DEF KeyStep, SameKeys
  <1>8. Ends(u, "replicas-changed", x)
    BY <1>w
  <1> HIDE DEF x
  <1>9. Outcome(u, "replicas-changed", x)
    BY <1>7, <1>8, EndsIsOutcome DEF HookNames
  <1> QED BY <1>9

LEMMA IntegrationOutcome ==
  ASSUME TypeOK, NEW u \in Units,
         \/ DebarchiveRelation(u) \/ TaskHandlerRelation(u)
         \/ HaproxyRouteRelation(u) \/ WebsiteRelation(u)
  PROVE  \E h, x : Outcome(u, h, x)
  <1> DEFINE v == View(u)
  <1>1. config \in ConfigType /\ v \in ViewType
    BY ViewTyped DEF TypeOK
  <1>2. ASSUME NEW h \in HookNames, NEW x \in ViewType, SameKeys(v, x), Ends(u, h, x)
        PROVE  \E hh, xx : Outcome(u, hh, xx)
    BY <1>1, <1>2, SameKeysIsKeyStep, EndsIsOutcome
  <1>3. CASE DebarchiveRelation(u)
    <2>1. PICK lost \in SecretLost : Ends(u, "debarchive", UpdateDebarchive(v, FALSE, lost))
      BY <1>3 DEF DebarchiveRelation
    <2>2. /\ UpdateDebarchive(v, FALSE, lost) \in ViewType
          /\ SameKeys(v, UpdateDebarchive(v, FALSE, lost))
      BY <1>1, PublishingFacts DEF SecretLost
    <2> QED BY <1>2, <2>1, <2>2 DEF HookNames
  <1>4. CASE TaskHandlerRelation(u)
    <2>1. Ends(u, "task-handler", UpdateTaskHandler(v))
      BY <1>4 DEF TaskHandlerRelation
    <2>2. UpdateTaskHandler(v) \in ViewType /\ SameKeys(v, UpdateTaskHandler(v))
      BY <1>1, PublishingFacts
    <2> QED BY <1>2, <2>1, <2>2 DEF HookNames
  <1>5. CASE HaproxyRouteRelation(u)
    <2>1. Ends(u, "haproxy-route", ProvideRoutes(v))
      BY <1>5 DEF HaproxyRouteRelation
    <2>2. ProvideRoutes(v) \in ViewType /\ SameKeys(v, ProvideRoutes(v))
      BY <1>1, HelperFacts
    <2> QED BY <1>2, <2>1, <2>2 DEF HookNames
  <1>6. CASE WebsiteRelation(u)
    <2> DEFINE x == [v EXCEPT !.listed = v.isLeader]
    <2>1. Ends(u, "website", x)
      BY <1>6 DEF WebsiteRelation
    <2>2. x \in ViewType /\ SameKeys(v, x)
      BY <1>1 DEF ViewType, SameKeys
    <2> HIDE DEF x
    <2> QED BY <1>2, <2>1, <2>2 DEF HookNames
  <1> QED BY <1>3, <1>4, <1>5, <1>6

LEMMA HookOutcome ==
  ASSUME TypeOK, NEW u \in Units, Hook(u)
  PROVE  ConfigChangedEarlyReturn(u) \/ \E h, x : Outcome(u, h, x)
  BY ConfigChangedOutcome, LeaderElectedOutcome, LeaderSettingsChangedOutcome,
     ReplicasRelationJoinedOutcome, ReplicasRelationChangedOutcome,
     IntegrationOutcome DEF Hook

--------------------------------------------------------------------------------
(***************************************************************************)
(* Type correctness.                                                       *)
(***************************************************************************)

LEMMA EnqueueTyped ==
  ASSUME TypeOK, NEW u \in Units, NEW h \in HookNames, NEW told
  PROVE  Enqueue(u, h, told) \in [Units -> SUBSET HookNames]
  <1>1. FollowUps(u, h) \subseteq HookNames
    BY ConstantsAssumption DEF FollowUps, HookNames
  <1>2. \A w \in Units : pending[w] \subseteq HookNames
    BY DEF TypeOK
  <1> QED BY <1>1, <1>2 DEF Enqueue, HookNames

LEMMA CommitsTyped ==
  ASSUME TypeOK, NEW u \in Units, NEW h \in HookNames, NEW x \in ViewType,
         Commits(u, h, x), cut' \subseteq Units
  PROVE  TypeOK'
  <1>1. pending' \in [Units -> SUBSET HookNames]
    BY EnqueueTyped DEF Commits
  <1>2. up' \subseteq Units
    BY DEF Commits, TypeOK
  <1>3. /\ serving' \subseteq Units /\ routed' \subseteq Units
        /\ backends' \subseteq Units /\ refused' \subseteq Units
    BY DEF Commits, With, TypeOK
  <1>4. conf' \in [Units -> [search : Hosts, key : KeyBags]]
    BY DEF Commits, TypeOK, ViewType
  <1>5. stored' \in [Units -> [leaderIp : Units \cup {None}, key : KeyBags]]
    BY DEF Commits, TypeOK, ViewType
  <1>6. /\ bag' \in [leaderIp : Units \cup {None}, key : KeyBags, unitData : SUBSET Units]
        /\ debarchive' \in [hostname : Hosts, token : Values \cup {None}, revision : Nat]
        /\ taskHost' \in Hosts
    BY DEF Commits, ViewType
  <1>7. /\ leader' \in Units /\ config' \in ConfigType
        /\ {keyless', addressless'} \subseteq BOOLEAN
        /\ faults' \in [moves : Nat, reconfigures : Nat, crashes : Nat, cuts : Nat]
    BY DEF Commits, TypeOK
  <1> QED BY <1>1, <1>2, <1>3, <1>4, <1>5, <1>6, <1>7 DEF TypeOK

LEMMA CrashesTyped ==
  ASSUME TypeOK, NEW u \in Units, NEW h \in HookNames, NEW x \in ViewType,
         Crashes(u, h, x)
  PROVE  TypeOK'
  <1>1. PICK done :
          /\ conf' = [conf EXCEPT ![u] =
               [search |-> IF "search" \in done THEN x.conf.search ELSE conf[u].search,
                key |-> [k \in Keys |-> IF k \in done THEN x.conf.key[k]
                                                      ELSE conf[u].key[k]]]]
          /\ IF "services" \in done
             THEN /\ serving' = With(serving, u, x.serves)
                  /\ refused' = With(refused, u, x.refused)
             ELSE UNCHANGED <<serving, refused>>
    BY DEF Crashes
  <1>2. [k \in Keys |-> IF k \in done THEN x.conf.key[k] ELSE conf[u].key[k]] \in KeyBags
    BY DEF TypeOK, ViewType, KeyBags
  <1>3. (IF "search" \in done THEN x.conf.search ELSE conf[u].search) \in Hosts
    BY DEF TypeOK, ViewType
  <1>4. conf' \in [Units -> [search : Hosts, key : KeyBags]]
    BY <1>1, <1>2, <1>3 DEF TypeOK
  <1>5. serving' \subseteq Units /\ refused' \subseteq Units
    BY <1>1 DEF With, TypeOK
  <1>6. faults' \in [moves : Nat, reconfigures : Nat, crashes : Nat, cuts : Nat]
    BY DEF Crashes, TypeOK
  <1>7. UNCHANGED <<leader, config, pending, up, stored, bag, routed, backends,
                    debarchive, taskHost, cut, keyless, addressless>>
    BY DEF Crashes
  <1> QED BY <1>4, <1>5, <1>6, <1>7 DEF TypeOK

LEMMA EarlyReturnTyped ==
  ASSUME TypeOK, NEW u \in Units, ConfigChangedEarlyReturn(u)
  PROVE  TypeOK'
  <1>1. pending' \in [Units -> SUBSET HookNames]
    BY EnqueueTyped DEF ConfigChangedEarlyReturn, HookNames
  <1>2. faults' \in [moves : Nat, reconfigures : Nat, crashes : Nat, cuts : Nat]
    BY DEF ConfigChangedEarlyReturn, TypeOK
  <1> QED BY <1>1, <1>2 DEF ConfigChangedEarlyReturn, TypeOK

LEMMA EnvironmentTyped ==
  ASSUME TypeOK, LeadershipMoves \/ OperatorConfigures
  PROVE  TypeOK'
  <1>1. CASE LeadershipMoves
    <2>1. pending' \in [Units -> SUBSET HookNames]
      BY <1>1 DEF LeadershipMoves, TypeOK, HookNames
    <2>2. faults' \in [moves : Nat, reconfigures : Nat, crashes : Nat, cuts : Nat]
      BY <1>1 DEF LeadershipMoves, TypeOK
    <2> QED BY <1>1, <2>1, <2>2 DEF LeadershipMoves, TypeOK
  <1>2. CASE OperatorConfigures
    <2>1. pending' \in [Units -> SUBSET HookNames]
      BY <1>2 DEF OperatorConfigures, TypeOK, HookNames
    <2>2. faults' \in [moves : Nat, reconfigures : Nat, crashes : Nat, cuts : Nat]
      BY <1>2 DEF OperatorConfigures, TypeOK
    <2>3. config' \in ConfigType
      BY <1>2, ConstantsAssumption DEF OperatorConfigures
    <2> QED BY <1>2, <2>1, <2>2, <2>3 DEF OperatorConfigures, TypeOK
  <1> QED BY <1>1, <1>2

LEMMA OutcomeTyped ==
  ASSUME TypeOK, NEW u \in Units, NEW h, NEW x, Outcome(u, h, x)
  PROVE  TypeOK'
  <1>1. h \in HookNames /\ x \in ViewType
    BY DEF Outcome, KeyStep
  <1>2. CASE Commits(u, h, x) /\ cut' \in {cut, cut \ {u}}
    <2>1. cut' \subseteq Units
      BY <1>2 DEF TypeOK
    <2> QED BY <1>1, <1>2, <2>1, CommitsTyped
  <1>3. CASE Crashes(u, h, x)
    BY <1>1, <1>3, CrashesTyped
  <1> QED BY <1>2, <1>3 DEF Outcome

LEMMA InitTyped == Init => TypeOK
  <1> SUFFICES ASSUME Init PROVE TypeOK
    OBVIOUS
  <1>1. pending \in [Units -> SUBSET HookNames]
    BY DEF Init, HookNames
  <1>2. config \in ConfigType
    BY ConstantsAssumption DEF Init
  <1>3. /\ conf \in [Units -> [search : Hosts, key : KeyBags]]
        /\ stored \in [Units -> [leaderIp : Units \cup {None}, key : KeyBags]]
        /\ bag \in [leaderIp : Units \cup {None}, key : KeyBags, unitData : SUBSET Units]
    BY NoKeysTyped DEF Init, Hosts
  <1>4. /\ debarchive \in [hostname : Hosts, token : Values \cup {None}, revision : Nat]
        /\ taskHost \in Hosts
        /\ faults \in [moves : Nat, reconfigures : Nat, crashes : Nat, cuts : Nat]
    BY DEF Init, Hosts
  <1>5. /\ leader \in Units
        /\ \A S \in {up, serving, routed, backends, cut, refused} : S \subseteq Units
        /\ {keyless, addressless} \subseteq BOOLEAN
    BY DEF Init
  <1> QED BY <1>1, <1>2, <1>3, <1>4, <1>5 DEF TypeOK

LEMMA NextTyped == TypeOK /\ [Next]_vars => TypeOK'
  <1> SUFFICES ASSUME TypeOK, [Next]_vars PROVE TypeOK'
    OBVIOUS
  <1>1. CASE LeadershipMoves \/ OperatorConfigures
    BY <1>1, EnvironmentTyped
  <1>2. CASE \E u \in Units : Hook(u)
    <2>1. PICK u \in Units : Hook(u)
      BY <1>2
    <2> QED BY <2>1, HookOutcome, EarlyReturnTyped, OutcomeTyped
  <1>3. CASE UNCHANGED vars
    BY <1>3 DEF vars, TypeOK
  <1> QED BY <1>1, <1>2, <1>3 DEF Next

\* Every reachable state is well typed: units, databags and StoredState only ever
\* hold what their readers expect.
THEOREM TypeCorrect == Spec => []TypeOK
  BY InitTyped, NextTyped, PTL DEF Spec

--------------------------------------------------------------------------------
(***************************************************************************)
(* The keys.                                                               *)
(***************************************************************************)

\* A step of the system, as far as the keys are concerned: nothing, a new
\* configuration, or a committed KeyStep.
LEMMA StepOnKeys ==
  ASSUME TypeOK, [Next]_vars
  PROVE  \/ UNCHANGED <<config, bag, stored>>
         \/ config' \in Configs /\ UNCHANGED <<bag, stored>>
         \/ \E u \in Units : \E x : /\ KeyStep(View(u), x)
                                    /\ bag' = x.bag
                                    /\ stored' = [stored EXCEPT ![u] = x.stored]
                                    /\ UNCHANGED config
  <1>1. CASE UNCHANGED vars
    BY <1>1 DEF vars
  <1>2. CASE LeadershipMoves
    BY <1>2 DEF LeadershipMoves
  <1>3. CASE OperatorConfigures
    BY <1>3 DEF OperatorConfigures
  <1>4. CASE \E u \in Units : Hook(u)
    <2>1. PICK u \in Units : Hook(u)
      BY <1>4
    <2>2. CASE ConfigChangedEarlyReturn(u)
      BY <2>2 DEF ConfigChangedEarlyReturn
    <2>3. CASE \E h, x : Outcome(u, h, x)
      <3>1. PICK h, x : Outcome(u, h, x)
        BY <2>3
      <3>2. CASE Commits(u, h, x)
        BY <3>1, <3>2 DEF Outcome, Commits
      <3>3. CASE Crashes(u, h, x)
        BY <3>3 DEF Crashes
      <3> QED BY <3>1, <3>2, <3>3 DEF Outcome
    <2> QED BY <2>1, <2>2, <2>3, HookOutcome
  <1> QED BY <1>1, <1>2, <1>3, <1>4 DEF Next

LEMMA PublishedKeyStays ==
  ASSUME TypeOK, [Next]_vars, NEW k \in Keys, bag.key[k] # None
  PROVE  bag'.key[k] = bag.key[k]
  <1>1. CASE UNCHANGED bag
    BY <1>1
  <1>2. ASSUME NEW u \in Units, NEW x, KeyStep(View(u), x), bag' = x.bag
        PROVE  bag'.key[k] = bag.key[k]
    <2>1. DueKey(View(u), k) # None
      BY DEF DueKey, View
    <2> QED BY <1>2, <2>1 DEF KeyStep, View
  <1> QED BY <1>1, <1>2, StepOnKeys

\* A key that the peers may have read is never replaced, whoever leads, fails or
\* runs its hooks in whatever order.
THEOREM KeyIsFinal == Spec => PublishedKeyIsFinal
  <1>1. TypeOK /\ [Next]_vars =>
          [\A k \in Keys : bag.key[k] # None => bag'.key[k] = bag.key[k]]_vars
    BY PublishedKeyStays
  <1> QED BY <1>1, TypeCorrect, PTL DEF Spec, PublishedKeyIsFinal

--------------------------------------------------------------------------------
(***************************************************************************)
(* The units implement SharedKeys.                                         *)
(***************************************************************************)

Adopted == [u \in Units |-> stored[u].key]

LEMMA InitShares == Init => Shared!Init
  <1> SUFFICES ASSUME Init PROVE Shared!Init
    OBVIOUS
  <1>1. CharmConfig.key \in [Keys -> Values \cup {None}]
    BY InitTyped, CharmConfigTyped DEF TypeOK, KeyBags
  <1>2. bag.key = [k \in Keys |-> None]
    BY DEF Init, NoKeys
  <1>3. Adopted = [u \in Units |-> bag.key]
    BY DEF Init, Adopted
  <1> QED BY <1>1, <1>2, <1>3 DEF Shared!Init, Adopted

\* A new configuration offers other keys.
LEMMA ConfiguringOffers ==
  ASSUME TypeOK, config' \in Configs, UNCHANGED <<bag, stored>>
  PROVE  Shared!Offer
  <1>1. config' \in ConfigType
    BY ConstantsAssumption
  <1>2. CharmConfig'.key \in KeyBags
    BY <1>1, NoKeysTyped DEF CharmConfig, ConfigType, KeyBags, Values
  <1> QED BY <1>2 DEF Shared!Offer, KeyBags

\* A committed KeyStep of u is u's turn to share.
LEMMA KeyStepShares ==
  ASSUME TypeOK, NEW u \in Units, NEW x, KeyStep(View(u), x),
         bag' = x.bag, stored' = [stored EXCEPT ![u] = x.stored], UNCHANGED config
  PROVE  Shared!Share(u)
  <1>1. x \in ViewType /\ x.bag.key \in KeyBags /\ x.stored.key \in KeyBags
    BY DEF KeyStep, ViewType
  <1>2. UNCHANGED CharmConfig.key
    BY DEF CharmConfig
  <1>3. \A v : \A k \in Keys : DueKey(v, k) = Shared!Due(k, v.bag.key)
    BY DEF DueKey, Shared!Due
  <1>4. Shared!PublishWhatIsMissing
    <2>1. \A k \in Keys : bag'.key[k] # bag.key[k] => Shared!Due(k, bag.key) = None
      BY <1>3 DEF KeyStep, View
    <2> QED BY <1>1, <2>1 DEF Shared!PublishWhatIsMissing, KeyBags
  <1>5. Adopted' = [Adopted EXCEPT ![u] = x.stored.key]
    BY DEF Adopted, TypeOK
  <1>6. \A k \in Keys : x.stored.key[k] # Adopted[u][k] =>
           x.stored.key[k] = Shared!Due(k, bag'.key) /\ x.stored.key[k] # None
    BY <1>3 DEF KeyStep, View, Adopted
  <1> QED BY <1>1, <1>2, <1>4, <1>5, <1>6 DEF Shared!Share, Adopted, KeyBags

\* The units' handlers implement SharedKeys: whatever leadership, failed hooks and
\* invalid configurations do, a unit remembers only keys that were due, and only
\* a key that nobody had is published.
THEOREM KeysShared == Spec => SharesKeys
  <1>1. TypeOK /\ [Next]_vars => [Shared!Next]_(Shared!vars)
    <2> SUFFICES ASSUME TypeOK, [Next]_vars
                 PROVE  [Shared!Next]_(Shared!vars)
      OBVIOUS
    <2>1. CASE UNCHANGED <<config, bag, stored>>
      BY <2>1 DEF Shared!vars, CharmConfig
    <2>2. CASE config' \in Configs /\ UNCHANGED <<bag, stored>>
      BY <2>2, ConfiguringOffers DEF Shared!Next
    <2>3. CASE \E u \in Units : \E x : /\ KeyStep(View(u), x)
                                       /\ bag' = x.bag
                                       /\ stored' = [stored EXCEPT ![u] = x.stored]
                                       /\ UNCHANGED config
      BY <2>3, KeyStepShares DEF Shared!Next
    <2> QED BY <2>1, <2>2, <2>3, StepOnKeys
  <1> QED BY <1>1, InitShares, TypeCorrect, PTL DEF Spec, SharesKeys, Shared!Spec
================================================================================
