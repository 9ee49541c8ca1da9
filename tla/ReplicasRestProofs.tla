--------------------------- MODULE ReplicasRestProofs ---------------------------
(***************************************************************************)
(* What Replicas comes to rest in, for any number of units, any            *)
(* configurations and any bounds: once every hook has run, the leader's    *)
(* services, package search, the haproxy routes and the keys are as they   *)
(* should be.  None of it is inductive: while hooks are pending a unit may *)
(* be behind, so each invariant says which pending hook will repair it.    *)
(***************************************************************************)
EXTENDS ReplicasProofs

--------------------------------------------------------------------------------
(***************************************************************************)
(* What a hook does to its unit's view.                                    *)
(***************************************************************************)

\* The hooks that tell a unit who leads, and those of them a follower learns the
\* leader's address from.
LeaderHooks == {"leader-elected", "leader-settings-changed", "replicas-changed"}
FollowerHooks == {"leader-settings-changed", "replicas-changed"}

\* Only the leader publishes its own address; leader-elected always does.
AddressEffect(u, h, v, x) ==
  /\ x.bag.leaderIp = v.bag.leaderIp \/ (v.isLeader /\ x.bag.leaderIp = u)
  /\ h \in {"leader-elected", "replicas-joined"} /\ v.isLeader => x.bag.leaderIp = u
  /\ h # "replicas-joined" => x.bag.unitData = v.bag.unitData

\* LEADER_SERVICES are set to run where the leader is, left alone, or refuse to move.
ServicesEffect(h, v, x) ==
  /\ \/ x.refused
     \/ x.serves = v.isLeader
     \/ x.serves = v.serves /\ x.refused = v.refused
  /\ h \in LeaderHooks => x.refused \/ x.serves = v.isLeader

\* The leader turns to itself for packages, a follower to the published address.
SearchEffect(h, v, x) ==
  IF v.isLeader
  THEN /\ x.conf.search \in {v.conf.search, Localhost}
       /\ h = "leader-elected" => x.conf.search = Localhost
  ELSE /\ x.conf.search \in {v.conf.search, v.bag.leaderIp}
       /\ h \in FollowerHooks /\ v.bag.leaderIp # None =>
            x.conf.search = v.bag.leaderIp

\* Published routes stay, and replicas-changed publishes them once an address is known.
RoutesEffect(h, v, x) ==
  /\ v.routed => x.routed
  /\ h = "replicas-changed" /\ v.bag.leaderIp # None
     /\ "haproxy-route" \in Integrations => x.routed

\* config-changed and replicas-changed write the due keys that are news; only
\* config-changed, of the leader, publishes keys, and then for all that are missing.
KeysEffect(h, v, x) ==
  /\ h \notin {"config-changed", "replicas-changed"} =>
       x.conf.key = v.conf.key /\ x.stored.key = v.stored.key
  /\ h \in {"config-changed", "replicas-changed"} => \A k \in Keys :
       IF DueKey(x, k) # None /\ DueKey(x, k) # v.stored.key[k]
       THEN x.conf.key[k] = DueKey(x, k) /\ x.stored.key[k] = DueKey(x, k)
       ELSE x.conf.key[k] = v.conf.key[k] /\ x.stored.key[k] = v.stored.key[k]
  /\ h # "config-changed" \/ ~v.isLeader => x.bag.key = v.bag.key
  /\ \A k \in Keys : \/ x.bag.key[k] = v.bag.key[k]
                     \/ DueKey(v, k) = None /\ x.bag.key[k] \in Generated
  /\ h = "config-changed" /\ v.isLeader => \A k \in Keys : DueKey(x, k) # None

\* The hostname that the related charms should have while unit u leads.
HostOf(u) == IF CharmConfig.root # None THEN CharmConfig.root ELSE u

\* Only the leader tells the related charms anything: its own hostname, if it has
\* not heard of another leader, and the token that is due.  config-changed tells them
\* both, the token if it is news to StoredState.
RelatedEffect(u, h, v, x) ==
  /\ ~v.isLeader => x.debarchive = v.debarchive /\ x.taskHost = v.taskHost
  /\ "debarchive" \notin Integrations => x.debarchive = v.debarchive
  /\ "task-handler" \notin Integrations => x.taskHost = v.taskHost
  /\ x.debarchive.token \in {v.debarchive.token, DueKey(x, "secret-token")}
  /\ v.isLeader /\ {v.stored.leaderIp, v.bag.leaderIp} \subseteq {None, u} =>
       /\ x.stored.leaderIp \in {None, u}
       /\ x.debarchive.hostname \in {v.debarchive.hostname, HostOf(u)}
       /\ x.taskHost \in {v.taskHost, HostOf(u)}
       /\ h = "config-changed" =>
            /\ "debarchive" \in Integrations => x.debarchive.hostname = HostOf(u)
            /\ "task-handler" \in Integrations => x.taskHost = HostOf(u)
  /\ h = "config-changed" /\ v.isLeader /\ "debarchive" \in Integrations
     /\ DueKey(x, "secret-token") \notin {None, v.stored.key["secret-token"]} =>
       x.debarchive.token = DueKey(x, "secret-token")

Effect(u, h, x) ==
  /\ h \in pending[u] /\ h \in HookNames
  /\ x \in ViewType
  /\ AddressEffect(u, h, View(u), x)
  /\ ServicesEffect(h, View(u), x)
  /\ SearchEffect(h, View(u), x)
  /\ RoutesEffect(h, View(u), x)
  /\ KeysEffect(h, View(u), x)
  /\ RelatedEffect(u, h, View(u), x)

\* What publishing to a related charm leaves alone.
Told(v, w) ==
  /\ w.ip = v.ip /\ w.isLeader = v.isLeader /\ w.conf = v.conf /\ w.bag = v.bag
  /\ w.serves = v.serves /\ w.refused = v.refused
  /\ w.routed = v.routed /\ w.stored.key = v.stored.key

LEMMA ToldFacts ==
  ASSUME config \in ConfigType, NEW v \in ViewType,
         NEW notify \in BOOLEAN, NEW lost \in BOOLEAN
  PROVE  /\ Told(v, UpdateDebarchive(v, notify, lost))
         /\ Told(v, UpdateTaskHandler(v))
  <1> DEFINE w == EnsureLeaderIp(v)
  <1>1. w \in ViewType /\ Told(v, w)
    BY DEF EnsureLeaderIp, ViewType, Told
  <1> HIDE DEF w
  <1>2. Told(w, PublishToDebarchive(w, notify, lost))
    BY <1>1 DEF PublishToDebarchive, ViewType, Told
  <1>3. Told(w, [w EXCEPT !.taskHost = Hostname(w)])
    BY <1>1 DEF ViewType, Told
  <1>4. Told(v, v)
    BY DEF Told
  <1>5. Told(v, UpdateDebarchive(v, notify, lost))
    BY <1>1, <1>2, <1>4 DEF UpdateDebarchive, Told, w
  <1>6. Told(v, UpdateTaskHandler(v))
    BY <1>1, <1>3, <1>4 DEF UpdateTaskHandler, Told, w
  <1> QED BY <1>5, <1>6

LEMMA EnsureLeaderIpEffect ==
  ASSUME config \in ConfigType, NEW v \in ViewType
  PROVE  LET w == EnsureLeaderIp(v)
         IN  /\ w \in ViewType
             /\ w.debarchive = v.debarchive /\ w.taskHost = v.taskHost
             /\ w.bag = v.bag /\ w.ip = v.ip
             /\ v.stored.leaderIp \in {None, v.ip} =>
                  w.stored.leaderIp = v.ip /\ Hostname(w) = HostOf(v.ip)
  BY DEF EnsureLeaderIp, ViewType, Hostname, HostOf

LEMMA UpdateDebarchiveEffect ==
  ASSUME config \in ConfigType, NEW v \in ViewType,
         NEW notify \in BOOLEAN, NEW lost \in BOOLEAN
  PROVE  LET w == UpdateDebarchive(v, notify, lost)
             token == DueKey(v, "secret-token")
         IN  /\ w.taskHost = v.taskHost
             /\ ~v.isLeader \/ "debarchive" \notin Integrations =>
                  w.debarchive = v.debarchive
             /\ w.debarchive.token \in {v.debarchive.token, token}
             /\ v.isLeader /\ "debarchive" \in Integrations /\ notify /\ token # None =>
                  w.debarchive.token = token
             /\ v.stored.leaderIp \in {None, v.ip} =>
                  /\ w.stored.leaderIp \in {None, v.ip}
                  /\ w.debarchive.hostname \in {v.debarchive.hostname, HostOf(v.ip)}
                  /\ v.isLeader /\ "debarchive" \in Integrations /\ token # None =>
                       w.debarchive.hostname = HostOf(v.ip)
  <1> DEFINE e == EnsureLeaderIp(v)
             p == PublishToDebarchive(e, notify, lost)
             token == DueKey(v, "secret-token")
  <1>1. /\ e \in ViewType
        /\ e.debarchive = v.debarchive /\ e.taskHost = v.taskHost
        /\ e.bag = v.bag
        /\ v.stored.leaderIp \in {None, v.ip} =>
             e.stored.leaderIp = v.ip /\ Hostname(e) = HostOf(v.ip)
    BY EnsureLeaderIpEffect
  <1>2. DueKey(e, "secret-token") = token
    BY <1>1 DEF DueKey
  <1> HIDE DEF e, token
  <1>3. /\ p.taskHost = e.taskHost /\ p.stored = e.stored
        /\ token = None => p.debarchive = e.debarchive
        /\ token # None => /\ p.debarchive.hostname = Hostname(e)
                           /\ p.debarchive.token \in {e.debarchive.token, token}
                           /\ notify => p.debarchive.token = token
    BY <1>1, <1>2 DEF PublishToDebarchive, ViewType
  <1>4. UpdateDebarchive(v, notify, lost) =
          IF v.isLeader /\ "debarchive" \in Integrations THEN p ELSE v
    BY DEF UpdateDebarchive, e
  <1> HIDE DEF p
  <1> QED BY <1>1, <1>3, <1>4 DEF token

LEMMA UpdateTaskHandlerEffect ==
  ASSUME config \in ConfigType, NEW v \in ViewType
  PROVE  LET w == UpdateTaskHandler(v)
         IN  /\ w.debarchive = v.debarchive
             /\ ~v.isLeader \/ "task-handler" \notin Integrations =>
                  w.taskHost = v.taskHost
             /\ v.stored.leaderIp \in {None, v.ip} =>
                  /\ w.stored.leaderIp \in {None, v.ip}
                  /\ w.taskHost \in {v.taskHost, HostOf(v.ip)}
                  /\ v.isLeader /\ "task-handler" \in Integrations =>
                       w.taskHost = HostOf(v.ip)
  <1> DEFINE e == EnsureLeaderIp(v)
             p == [e EXCEPT !.taskHost = Hostname(e)]
  <1>1. /\ e \in ViewType
        /\ e.debarchive = v.debarchive
        /\ v.stored.leaderIp \in {None, v.ip} =>
             e.stored.leaderIp = v.ip /\ Hostname(e) = HostOf(v.ip)
    BY EnsureLeaderIpEffect
  <1> HIDE DEF e
  <1>2. p.taskHost = Hostname(e) /\ p.debarchive = e.debarchive /\ p.stored = e.stored
    BY <1>1 DEF ViewType
  <1>3. UpdateTaskHandler(v) =
          IF v.isLeader /\ "task-handler" \in Integrations THEN p ELSE v
    BY DEF UpdateTaskHandler, e
  <1> HIDE DEF p
  <1> QED BY <1>1, <1>2, <1>3

\* A hook that tells the related charms nothing.
LEMMA QuietEffect ==
  ASSUME NEW u, NEW v \in ViewType, NEW x \in ViewType,
         x.debarchive = v.debarchive, x.taskHost = v.taskHost,
         x.stored.leaderIp \in {v.stored.leaderIp, v.bag.leaderIp},
         NEW h \in HookNames \ {"config-changed"}
  PROVE  RelatedEffect(u, h, v, x)
  BY DEF RelatedEffect

\* A unit's own view.
LEMMA ViewFacts ==
  ASSUME TypeOK, NEW u \in Units
  PROVE  /\ View(u) \in ViewType /\ config \in ConfigType
         /\ View(u).ip = u
         /\ View(u).isLeader <=> u = leader
         /\ View(u).bag = bag /\ View(u).conf = conf[u] /\ View(u).stored = stored[u]
         /\ View(u).serves <=> u \in serving
         /\ View(u).refused <=> u \in refused
         /\ View(u).routed <=> u \in routed
  BY ViewTyped DEF View, TypeOK

LEMMA LeaderChangedEffect ==
  ASSUME config \in ConfigType, NEW v \in ViewType
  PROVE  \A x \in LeaderChanged(v) :
           /\ x \in ViewType
           /\ x.ip = v.ip /\ x.isLeader = v.isLeader /\ x.conf = v.conf
           /\ x.bag = v.bag /\ x.stored = v.stored
           /\ x.debarchive = v.debarchive /\ x.taskHost = v.taskHost
           /\ x.refused \/ x.serves = v.isLeader
           /\ v.routed => x.routed
           /\ "haproxy-route" \in Integrations /\ v.stored.leaderIp # None => x.routed
  <1> TAKE x \in LeaderChanged(v)
  <1>1. PICK w \in SetLeaderServices(v) : x = ProvideRoutes(w)
    BY DEF LeaderChanged
  <1>2. /\ w \in ViewType
        /\ w.ip = v.ip /\ w.isLeader = v.isLeader /\ w.conf = v.conf
        /\ w.bag = v.bag /\ w.stored = v.stored /\ w.routed = v.routed
        /\ w.debarchive = v.debarchive /\ w.taskHost = v.taskHost
        /\ w.refused \/ w.serves = v.isLeader
    BY SetLeaderServicesFacts
  <1>3. x \in ViewType
    BY <1>1, <1>2, HelperFacts
  <1> QED BY <1>1, <1>2, <1>3 DEF ProvideRoutes, ViewType

LEMMA FollowLeaderEffect ==
  ASSUME config \in ConfigType, NEW v \in ViewType
  PROVE  LET w == FollowLeader(v)
         IN  /\ w \in ViewType
             /\ w.ip = v.ip /\ w.isLeader = v.isLeader /\ w.conf.key = v.conf.key
             /\ w.bag = v.bag /\ w.stored = v.stored
             /\ w.debarchive = v.debarchive /\ w.taskHost = v.taskHost
             /\ w.serves = v.serves /\ w.refused = v.refused /\ w.routed = v.routed
             /\ w.conf.search = IF ~v.isLeader /\ v.bag.leaderIp # None
                                THEN v.bag.leaderIp ELSE v.conf.search
  <1>1. FollowLeader(v) \in ViewType
    BY FollowLeaderFacts
  <1> QED BY <1>1 DEF FollowLeader, SearchPackagesOn, ViewType

LEMMA SyncKeysEffect ==
  ASSUME config \in ConfigType, NEW v \in ViewType
  PROVE  LET w == SyncKeys(v)
         IN  /\ w \in ViewType
             /\ w.ip = v.ip /\ w.isLeader = v.isLeader /\ w.bag = v.bag
             /\ w.conf.search = v.conf.search
             /\ w.stored.leaderIp = v.stored.leaderIp
             /\ w.debarchive = v.debarchive /\ w.taskHost = v.taskHost
             /\ w.serves = v.serves /\ w.refused = v.refused /\ w.routed = v.routed
             /\ \A k \in Keys :
                  IF DueKey(v, k) # None /\ DueKey(v, k) # v.stored.key[k]
                  THEN w.conf.key[k] = DueKey(v, k) /\ w.stored.key[k] = DueKey(v, k)
                  ELSE w.conf.key[k] = v.conf.key[k] /\ w.stored.key[k] = v.stored.key[k]
  <1>1. SyncKeys(v) \in ViewType
    BY SyncKeysFacts
  <1>2. SyncKeys(v).conf.key = KeysWritten(v, v.conf.key)
        /\ SyncKeys(v).stored.key = KeysWritten(v, v.stored.key)
    BY DEF SyncKeys, ViewType
  <1>3. \A k \in Keys :
                  IF DueKey(v, k) # None /\ DueKey(v, k) # v.stored.key[k]
                  THEN /\ SyncKeys(v).conf.key[k] = DueKey(v, k)
                       /\ SyncKeys(v).stored.key[k] = DueKey(v, k)
                  ELSE /\ SyncKeys(v).conf.key[k] = v.conf.key[k]
                       /\ SyncKeys(v).stored.key[k] = v.stored.key[k]
    BY <1>2 DEF KeysWritten, Changed
  <1>4. LET w == SyncKeys(v)
         IN  /\ w.ip = v.ip /\ w.isLeader = v.isLeader /\ w.bag = v.bag
             /\ w.conf.search = v.conf.search
             /\ w.stored.leaderIp = v.stored.leaderIp
             /\ w.debarchive = v.debarchive /\ w.taskHost = v.taskHost
             /\ w.serves = v.serves /\ w.refused = v.refused /\ w.routed = v.routed
    BY DEF SyncKeys, ViewType
  <1> QED BY <1>1, <1>3, <1>4

\* A hook that leaves the keys alone.
LEMMA OtherKeysEffect ==
  ASSUME NEW v \in ViewType, NEW x \in ViewType, SameKeys(v, x),
         x.conf.key = v.conf.key,
         NEW h \in HookNames \ {"config-changed", "replicas-changed"}
  PROVE  KeysEffect(h, v, x)
  BY DEF KeysEffect, SameKeys

\* How a hook ends, whichever it is.
Ending(u, h, x) ==
  \/ Commits(u, h, x) /\ cut' = IF h = "config-changed" THEN cut \ {u} ELSE cut
  \/ Crashes(u, h, x)

LEMMA ConfigChangedEffect ==
  ASSUME TypeOK, NEW u \in Units, ConfigChanged(u)
  PROVE  \E x : Effect(u, "config-changed", x) /\ Ending(u, "config-changed", x)
  <1> DEFINE v == View(u)
  <1>1. config \in ConfigType /\ v \in ViewType /\ v.ip = u
    BY ViewFacts
  <1>2. PICK g \in WithGeneratedKeys(v), lost \in SecretLost :
        \E w \in {SyncKeys(g)} \cup SetLeaderServices(SyncKeys(g)) :
          LET notify == Changed(g, "secret-token")
              x == UpdateTaskHandler(UpdateDebarchive(ProvideRoutes(w), notify, lost))
          IN  \/ Commits(u, "config-changed", x) /\ cut' = cut \ {u}
              \/ Crashes(u, "config-changed", x)
    BY DEF ConfigChanged
  <1> DEFINE notify == Changed(g, "secret-token")
             s == SyncKeys(g)
  <1>22. PICK w \in {s} \cup SetLeaderServices(s) :
           LET x == UpdateTaskHandler(UpdateDebarchive(ProvideRoutes(w), notify, lost))
           IN  \/ Commits(u, "config-changed", x) /\ cut' = cut \ {u}
               \/ Crashes(u, "config-changed", x)
    BY <1>2
  <1> DEFINE r == ProvideRoutes(w)
             d == UpdateDebarchive(r, notify, lost)
             x == UpdateTaskHandler(d)
  <1>3. g \in ViewType
    BY <1>1, WithGeneratedKeysFacts
  <1>4. /\ g.ip = v.ip /\ g.isLeader = v.isLeader /\ g.conf = v.conf
        /\ g.stored = v.stored /\ g.serves = v.serves
        /\ g.refused = v.refused /\ g.routed = v.routed
        /\ g.debarchive = v.debarchive /\ g.taskHost = v.taskHost
        /\ g.bag.leaderIp = v.bag.leaderIp /\ g.bag.unitData = v.bag.unitData
        /\ ~v.isLeader => g.bag.key = v.bag.key
        /\ \A k \in Keys : \/ g.bag.key[k] = v.bag.key[k]
                           \/ DueKey(v, k) = None /\ g.bag.key[k] \in Generated
        /\ v.isLeader => \A k \in Keys : DueKey(g, k) # None
    <2>1. CASE v.isLeader
      <3>1. PICK keys \in KeyBags :
              /\ g = [v EXCEPT !.bag.key = keys]
              /\ \A k \in Keys : IF DueKey(v, k) = None THEN keys[k] \in Generated
                                  ELSE keys[k] = v.bag.key[k]
        BY <2>1 DEF WithGeneratedKeys
      <3>2. /\ g.ip = v.ip /\ g.isLeader = v.isLeader /\ g.conf = v.conf
            /\ g.stored = v.stored /\ g.serves = v.serves
            /\ g.refused = v.refused /\ g.routed = v.routed
            /\ g.debarchive = v.debarchive /\ g.taskHost = v.taskHost
            /\ g.bag.leaderIp = v.bag.leaderIp /\ g.bag.unitData = v.bag.unitData
            /\ g.bag.key = keys
        BY <1>1, <3>1 DEF ViewType
      <3>3. \A k \in Keys : DueKey(g, k) # None
        BY <3>1, <3>2, ConstantsAssumption DEF DueKey, Values
      <3> QED BY <2>1, <3>1, <3>2, <3>3
    <2>2. CASE ~v.isLeader
      BY <2>2 DEF WithGeneratedKeys
    <2> QED BY <2>1, <2>2
  <1>5. /\ s \in ViewType
        /\ s.ip = g.ip /\ s.isLeader = g.isLeader /\ s.bag = g.bag
        /\ s.stored.leaderIp = g.stored.leaderIp
        /\ s.debarchive = g.debarchive /\ s.taskHost = g.taskHost
        /\ s.conf.search = g.conf.search
        /\ s.serves = g.serves /\ s.refused = g.refused /\ s.routed = g.routed
        /\ \A k \in Keys :
             IF DueKey(g, k) # None /\ DueKey(g, k) # g.stored.key[k]
             THEN s.conf.key[k] = DueKey(g, k) /\ s.stored.key[k] = DueKey(g, k)
             ELSE s.conf.key[k] = g.conf.key[k] /\ s.stored.key[k] = g.stored.key[k]
    BY <1>1, <1>3, SyncKeysEffect
  <1>6. /\ w \in ViewType
        /\ w.ip = s.ip /\ w.isLeader = s.isLeader /\ w.bag = s.bag
        /\ w.conf = s.conf /\ w.stored = s.stored /\ w.routed = s.routed
        /\ w.debarchive = s.debarchive /\ w.taskHost = s.taskHost
        /\ \/ w.refused \/ w.serves = s.isLeader
           \/ w.serves = s.serves /\ w.refused = s.refused
    <2>1. CASE w = s
      BY <1>5, <2>1
    <2>2. CASE w \in SetLeaderServices(s)
      BY <1>5, <2>2, SetLeaderServicesFacts
    <2> QED BY <1>22, <2>1, <2>2
  <1>7. /\ r \in ViewType
        /\ r.ip = w.ip /\ r.isLeader = w.isLeader /\ r.bag = w.bag
        /\ r.conf = w.conf /\ r.stored = w.stored
        /\ r.serves = w.serves /\ r.refused = w.refused
        /\ r.debarchive = w.debarchive /\ r.taskHost = w.taskHost
        /\ w.routed => r.routed
    <2>1. r \in ViewType
      BY <1>1, <1>6, HelperFacts
    <2> QED BY <1>6, <2>1 DEF ProvideRoutes, ViewType
  <1>8. notify \in BOOLEAN /\ lost \in BOOLEAN
    BY DEF Changed, SecretLost
  <1>18. DueKey(g, "secret-token") \notin {None, v.stored.key["secret-token"]} => notify
    BY <1>4 DEF Changed
  <1> HIDE DEF s, r, notify
  <1>9. d \in ViewType /\ Told(r, d)
    BY <1>1, <1>7, <1>8, PublishingFacts, ToldFacts
  <1> DEFINE token == DueKey(r, "secret-token")
  <1>19. /\ d.taskHost = r.taskHost
         /\ ~r.isLeader \/ "debarchive" \notin Integrations => d.debarchive = r.debarchive
         /\ d.debarchive.token \in {r.debarchive.token, token}
         /\ r.isLeader /\ "debarchive" \in Integrations /\ notify /\ token # None =>
              d.debarchive.token = token
         /\ r.stored.leaderIp \in {None, r.ip} =>
              /\ d.stored.leaderIp \in {None, r.ip}
              /\ d.debarchive.hostname \in {r.debarchive.hostname, HostOf(r.ip)}
              /\ r.isLeader /\ "debarchive" \in Integrations /\ token # None =>
                   d.debarchive.hostname = HostOf(r.ip)
    BY <1>1, <1>7, <1>8, UpdateDebarchiveEffect
  <1> HIDE DEF d
  <1>10. x \in ViewType /\ Told(d, x)
    BY <1>1, <1>8, <1>9, PublishingFacts, ToldFacts
  <1>20. /\ x.debarchive = d.debarchive
         /\ ~d.isLeader \/ "task-handler" \notin Integrations => x.taskHost = d.taskHost
         /\ d.stored.leaderIp \in {None, d.ip} =>
              /\ x.stored.leaderIp \in {None, d.ip}
              /\ x.taskHost \in {d.taskHost, HostOf(d.ip)}
              /\ d.isLeader /\ "task-handler" \in Integrations =>
                   x.taskHost = HostOf(d.ip)
    BY <1>1, <1>9, UpdateTaskHandlerEffect
  <1>11. Ending(u, "config-changed", x)
    BY <1>22 DEF Ending, x, d, r, s, notify
  <1> HIDE DEF x
  <1>21. RelatedEffect(u, "config-changed", v, x)
    <2>1. x.bag = g.bag /\ r.bag = g.bag
      BY <1>5, <1>6, <1>7, <1>9, <1>10 DEF Told
    <2>2. token = DueKey(g, "secret-token") /\ DueKey(x, "secret-token") = token
      BY <2>1 DEF DueKey
    <2>3. /\ r.isLeader = v.isLeader /\ d.isLeader = v.isLeader
          /\ r.ip = u /\ d.ip = u
          /\ r.stored.leaderIp = v.stored.leaderIp
          /\ r.debarchive = v.debarchive /\ r.taskHost = v.taskHost
      BY <1>1, <1>4, <1>5, <1>6, <1>7, <1>9 DEF Told
    <2>4. v.isLeader => token # None
      BY <1>4, <2>2 DEF Keys
    <2> HIDE DEF token
    <2> QED BY <1>18, <1>19, <1>20, <2>2, <2>3, <2>4 DEF RelatedEffect
  <1>12. /\ x.isLeader = v.isLeader /\ x.ip = v.ip
         /\ x.bag = g.bag /\ x.conf = s.conf /\ x.stored.key = s.stored.key
         /\ x.conf.search = v.conf.search /\ x.bag.leaderIp = v.bag.leaderIp
         /\ x.bag.unitData = v.bag.unitData
         /\ \/ x.refused \/ x.serves = v.isLeader
            \/ x.serves = v.serves /\ x.refused = v.refused
         /\ v.routed => x.routed
    BY <1>4, <1>5, <1>6, <1>7, <1>9, <1>10 DEF Told
  <1>13. \A k \in Keys : DueKey(x, k) = DueKey(g, k)
    BY <1>12 DEF DueKey
  <1>14. KeysEffect("config-changed", v, x)
    BY <1>4, <1>5, <1>12, <1>13 DEF KeysEffect
  <1>15. /\ AddressEffect(u, "config-changed", v, x)
         /\ ServicesEffect("config-changed", v, x)
         /\ SearchEffect("config-changed", v, x)
         /\ RoutesEffect("config-changed", v, x)
    BY <1>1, <1>10, <1>12
    DEF AddressEffect, ServicesEffect, SearchEffect, RoutesEffect, LeaderHooks,
        FollowerHooks, ViewType
  <1>16. "config-changed" \in pending[u] /\ "config-changed" \in HookNames
    BY DEF ConfigChanged, HookNames
  <1>17. Effect(u, "config-changed", x)
    BY <1>10, <1>14, <1>15, <1>16, <1>21 DEF Effect
  <1> QED BY <1>11, <1>17

LEMMA LeaderElectedEffect ==
  ASSUME TypeOK, NEW u \in Units, LeaderElected(u)
  PROVE  \E x : Effect(u, "leader-elected", x) /\ Ending(u, "leader-elected", x)
  <1> DEFINE v == View(u)
             h == "leader-elected"
  <1>1. config \in ConfigType /\ v \in ViewType /\ v.ip = u
    BY ViewFacts
  <1>2. PICK lost \in SecretLost :
          LET w == SearchPackagesOn(PublishLeaderIp(v), Localhost)
              x == UpdateTaskHandler(UpdateDebarchive(w, FALSE, lost))
          IN  \E y \in LeaderChanged(IF v.isLeader THEN x ELSE v) : Ends(u, h, y)
    BY DEF LeaderElected
  <1> DEFINE p == PublishLeaderIp(v)
             w == SearchPackagesOn(p, Localhost)
             d == UpdateDebarchive(w, FALSE, lost)
             t == UpdateTaskHandler(d)
             y == IF v.isLeader THEN t ELSE v
  <1>17. PICK x \in LeaderChanged(y) : Ends(u, h, x)
    BY <1>2
  <1>3. /\ w \in ViewType
        /\ w.ip = v.ip /\ w.isLeader = v.isLeader
        /\ w.conf.key = v.conf.key /\ w.conf.search = Localhost
        /\ w.stored = v.stored /\ w.serves = v.serves /\ w.routed = v.routed
        /\ w.bag.leaderIp = v.ip /\ w.bag.key = v.bag.key
        /\ w.bag.unitData = v.bag.unitData
        /\ w.debarchive = v.debarchive /\ w.taskHost = v.taskHost
    <2>1. p \in ViewType
      BY <1>1, HelperFacts
    <2>2. w \in ViewType
      BY <1>1, <2>1, HelperFacts DEF Hosts
    <2> QED BY <1>1, <2>1, <2>2 DEF PublishLeaderIp, SearchPackagesOn, ViewType
  <1> HIDE DEF w
  <1>4. d \in ViewType /\ Told(w, d)
    BY <1>1, <1>3, PublishingFacts, ToldFacts DEF SecretLost
  <1>14. /\ d.taskHost = w.taskHost
         /\ "debarchive" \notin Integrations => d.debarchive = w.debarchive
         /\ d.debarchive.token \in {w.debarchive.token, DueKey(w, "secret-token")}
         /\ w.stored.leaderIp \in {None, w.ip} =>
              /\ d.stored.leaderIp \in {None, w.ip}
              /\ d.debarchive.hostname \in {w.debarchive.hostname, HostOf(w.ip)}
    BY <1>1, <1>3, UpdateDebarchiveEffect DEF SecretLost
  <1> HIDE DEF d
  <1>5. t \in ViewType /\ Told(d, t)
    BY <1>1, <1>4, PublishingFacts, ToldFacts
  <1>15. /\ t.debarchive = d.debarchive
         /\ "task-handler" \notin Integrations => t.taskHost = d.taskHost
         /\ d.stored.leaderIp \in {None, d.ip} =>
              /\ t.stored.leaderIp \in {None, d.ip}
              /\ t.taskHost \in {d.taskHost, HostOf(d.ip)}
    BY <1>1, <1>4, UpdateTaskHandlerEffect
  <1> HIDE DEF t
  <1>6. y \in ViewType
    BY <1>1, <1>5
  <1>7. /\ y.ip = v.ip /\ y.isLeader = v.isLeader /\ y.conf.key = v.conf.key
        /\ y.stored.key = v.stored.key /\ y.serves = v.serves /\ y.routed = v.routed
        /\ y.bag.key = v.bag.key /\ y.bag.unitData = v.bag.unitData
        /\ IF v.isLeader THEN y.conf.search = Localhost /\ y.bag.leaderIp = u
                         ELSE y.conf.search = v.conf.search /\ y.bag = v.bag
    BY <1>1, <1>3, <1>4, <1>5 DEF Told
  <1>8. Ending(u, h, x)
    BY <1>17 DEF Ends, Ending
  <1> HIDE DEF y
  <1>9. /\ x \in ViewType
        /\ x.ip = y.ip /\ x.isLeader = y.isLeader /\ x.conf = y.conf
        /\ x.bag = y.bag /\ x.stored = y.stored
        /\ x.debarchive = y.debarchive /\ x.taskHost = y.taskHost
        /\ x.refused \/ x.serves = y.isLeader
        /\ y.routed => x.routed
    BY <1>1, <1>6, LeaderChangedEffect
  <1>10. KeysEffect(h, v, x)
    BY <1>1, <1>7, <1>9, OtherKeysEffect DEF SameKeys, HookNames
  <1>11. /\ AddressEffect(u, h, v, x) /\ ServicesEffect(h, v, x)
         /\ SearchEffect(h, v, x) /\ RoutesEffect(h, v, x)
    BY <1>1, <1>7, <1>9
    DEF AddressEffect, ServicesEffect, SearchEffect, RoutesEffect, LeaderHooks,
        FollowerHooks, ViewType
  <1>12. h \in pending[u] /\ h \in HookNames
    BY DEF LeaderElected, HookNames
  <1>16. RelatedEffect(u, h, v, x)
    <2>1. DueKey(w, "secret-token") = DueKey(v, "secret-token")
          /\ DueKey(x, "secret-token") = DueKey(v, "secret-token")
      BY <1>3, <1>7, <1>9 DEF DueKey
    <2>2. CASE v.isLeader
      <3>1. x.debarchive = t.debarchive /\ x.taskHost = t.taskHost /\ x.stored = t.stored
        BY <1>9, <2>2 DEF y
      <3>2. w.ip = u /\ d.ip = u
        BY <1>1, <1>3, <1>4 DEF Told
      <3>3. x.debarchive.token \in {v.debarchive.token, DueKey(x, "secret-token")}
        BY <1>3, <1>14, <1>15, <2>1, <3>1
      <3>4. v.stored.leaderIp \in {None, u} =>
              /\ x.stored.leaderIp \in {None, u}
              /\ x.debarchive.hostname \in {v.debarchive.hostname, HostOf(u)}
              /\ x.taskHost \in {v.taskHost, HostOf(u)}
        BY <1>3, <1>14, <1>15, <3>1, <3>2
      <3> QED BY <1>3, <1>14, <1>15, <2>2, <3>1, <3>3, <3>4 DEF RelatedEffect
    <2>3. CASE ~v.isLeader
      BY <1>9, <2>3 DEF RelatedEffect, y
    <2> QED BY <2>2, <2>3
  <1>13. Effect(u, h, x)
    BY <1>9, <1>10, <1>11, <1>12, <1>16 DEF Effect
  <1> QED BY <1>8, <1>13

LEMMA LeaderSettingsChangedEffect ==
  ASSUME TypeOK, NEW u \in Units, LeaderSettingsChanged(u)
  PROVE  \E x : /\ Effect(u, "leader-settings-changed", x)
               /\ Ending(u, "leader-settings-changed", x)
  <1> DEFINE v == View(u)
             h == "leader-settings-changed"
             f == FollowLeader(v)
  <1>10. PICK x \in LeaderChanged(f) : Ends(u, h, x)
    BY DEF LeaderSettingsChanged
  <1>1. config \in ConfigType /\ v \in ViewType
    BY ViewFacts
  <1>2. /\ f \in ViewType
        /\ f.ip = v.ip /\ f.isLeader = v.isLeader /\ f.conf.key = v.conf.key
        /\ f.bag = v.bag /\ f.stored = v.stored
        /\ f.debarchive = v.debarchive /\ f.taskHost = v.taskHost
        /\ f.serves = v.serves /\ f.routed = v.routed
        /\ f.conf.search = IF ~v.isLeader /\ v.bag.leaderIp # None
                           THEN v.bag.leaderIp ELSE v.conf.search
    BY <1>1, FollowLeaderEffect
  <1>3. Ending(u, h, x)
    BY <1>10 DEF Ends, Ending
  <1> HIDE DEF f
  <1>4. /\ x \in ViewType
        /\ x.ip = f.ip /\ x.isLeader = f.isLeader /\ x.conf = f.conf
        /\ x.bag = f.bag /\ x.stored = f.stored
        /\ x.debarchive = f.debarchive /\ x.taskHost = f.taskHost
        /\ x.refused \/ x.serves = f.isLeader
        /\ f.routed => x.routed
    BY <1>1, <1>2, LeaderChangedEffect
  <1>5. KeysEffect(h, v, x)
    BY <1>1, <1>2, <1>4, OtherKeysEffect DEF SameKeys, HookNames
  <1>6. /\ AddressEffect(u, h, v, x) /\ ServicesEffect(h, v, x)
        /\ SearchEffect(h, v, x) /\ RoutesEffect(h, v, x)
    BY <1>1, <1>2, <1>4
    DEF AddressEffect, ServicesEffect, SearchEffect, RoutesEffect, LeaderHooks,
        FollowerHooks, ViewType
  <1>7. h \in pending[u] /\ h \in HookNames
    BY DEF LeaderSettingsChanged, HookNames
  <1>9. RelatedEffect(u, h, v, x)
    BY <1>1, <1>2, <1>4, QuietEffect DEF HookNames
  <1>8. Effect(u, h, x)
    BY <1>4, <1>5, <1>6, <1>7, <1>9 DEF Effect
  <1> QED BY <1>3, <1>8

LEMMA ReplicasRelationJoinedEffect ==
  ASSUME TypeOK, NEW u \in Units, ReplicasRelationJoined(u)
  PROVE  \E x : Effect(u, "replicas-joined", x) /\ Ending(u, "replicas-joined", x)
  <1> DEFINE v == View(u)
             h == "replicas-joined"
             w == IF v.isLeader THEN PublishLeaderIp(v) ELSE v
             x == [w EXCEPT !.bag.unitData = @ \cup {u}]
  <1>1. config \in ConfigType /\ v \in ViewType /\ v.ip = u
    BY ViewFacts
  <1>2. /\ w \in ViewType
        /\ w.isLeader = v.isLeader /\ w.conf = v.conf /\ w.stored = v.stored
        /\ w.debarchive = v.debarchive /\ w.taskHost = v.taskHost
        /\ w.serves = v.serves /\ w.refused = v.refused /\ w.routed = v.routed
        /\ w.bag.key = v.bag.key
        /\ w.bag.leaderIp = IF v.isLeader THEN u ELSE v.bag.leaderIp
    BY <1>1 DEF PublishLeaderIp, ViewType
  <1>3. Ending(u, h, x)
    BY DEF ReplicasRelationJoined, Ends, Ending
  <1> HIDE DEF w
  <1>4. /\ x \in ViewType
        /\ x.isLeader = w.isLeader /\ x.conf = w.conf /\ x.stored = w.stored
        /\ x.debarchive = w.debarchive /\ x.taskHost = w.taskHost
        /\ x.serves = w.serves /\ x.refused = w.refused /\ x.routed = w.routed
        /\ x.bag.key = w.bag.key
        /\ x.bag.leaderIp = w.bag.leaderIp
    BY <1>2 DEF ViewType
  <1> HIDE DEF x
  <1>5. KeysEffect(h, v, x)
    BY <1>1, <1>2, <1>4, OtherKeysEffect DEF SameKeys, HookNames
  <1>6. /\ AddressEffect(u, h, v, x) /\ ServicesEffect(h, v, x)
        /\ SearchEffect(h, v, x) /\ RoutesEffect(h, v, x)
    BY <1>1, <1>2, <1>4
    DEF AddressEffect, ServicesEffect, SearchEffect, RoutesEffect, LeaderHooks,
        FollowerHooks, ViewType
  <1>7. h \in pending[u] /\ h \in HookNames
    BY DEF ReplicasRelationJoined, HookNames
  <1>9. RelatedEffect(u, h, v, x)
    BY <1>1, <1>2, <1>4, QuietEffect DEF HookNames
  <1>8. Effect(u, h, x)
    BY <1>4, <1>5, <1>6, <1>7, <1>9 DEF Effect
  <1> QED BY <1>3, <1>8

LEMMA ReplicasRelationChangedEffect ==
  ASSUME TypeOK, NEW u \in Units, ReplicasRelationChanged(u)
  PROVE  \E x : Effect(u, "replicas-changed", x) /\ Ending(u, "replicas-changed", x)
  <1> DEFINE v == View(u)
             h == "replicas-changed"
             r == RememberLeader(v)
             f == FollowLeader(r)
  <1>13. PICK w \in LeaderChanged(f) : Ends(u, h, SyncKeys(w))
    BY DEF ReplicasRelationChanged
  <1> DEFINE x == SyncKeys(w)
  <1>1. config \in ConfigType /\ v \in ViewType
    BY ViewFacts
  <1>2. /\ r \in ViewType
        /\ r.ip = v.ip /\ r.isLeader = v.isLeader /\ r.conf = v.conf
        /\ r.bag = v.bag /\ r.stored.key = v.stored.key
        /\ r.debarchive = v.debarchive /\ r.taskHost = v.taskHost
        /\ r.stored.leaderIp \in {v.stored.leaderIp, v.bag.leaderIp}
        /\ r.serves = v.serves /\ r.refused = v.refused /\ r.routed = v.routed
        /\ v.bag.leaderIp # None => r.stored.leaderIp # None
    <2>1. r \in ViewType
      BY <1>1, HelperFacts
    <2> QED BY <1>1, <2>1 DEF RememberLeader, ViewType
  <1>3. Ending(u, h, x)
    BY <1>13 DEF Ends, Ending
  <1> HIDE DEF r
  <1>4. /\ f \in ViewType
        /\ f.ip = r.ip /\ f.isLeader = r.isLeader /\ f.conf.key = r.conf.key
        /\ f.bag = r.bag /\ f.stored = r.stored
        /\ f.debarchive = r.debarchive /\ f.taskHost = r.taskHost
        /\ f.serves = r.serves /\ f.refused = r.refused /\ f.routed = r.routed
        /\ f.conf.search = IF ~r.isLeader /\ r.bag.leaderIp # None
                           THEN r.bag.leaderIp ELSE r.conf.search
    BY <1>1, <1>2, FollowLeaderEffect
  <1> HIDE DEF f
  <1>5. /\ w \in ViewType
        /\ w.ip = f.ip /\ w.isLeader = f.isLeader /\ w.conf = f.conf
        /\ w.bag = f.bag /\ w.stored = f.stored
        /\ w.debarchive = f.debarchive /\ w.taskHost = f.taskHost
        /\ w.refused \/ w.serves = f.isLeader
        /\ f.routed => w.routed
        /\ "haproxy-route" \in Integrations /\ f.stored.leaderIp # None => w.routed
    BY <1>1, <1>4, LeaderChangedEffect
  <1>6. /\ x \in ViewType
        /\ x.ip = w.ip /\ x.isLeader = w.isLeader /\ x.bag = w.bag
        /\ x.conf.search = w.conf.search
        /\ x.stored.leaderIp = w.stored.leaderIp
        /\ x.debarchive = w.debarchive /\ x.taskHost = w.taskHost
        /\ x.serves = w.serves /\ x.refused = w.refused /\ x.routed = w.routed
        /\ \A k \in Keys :
             IF DueKey(w, k) # None /\ DueKey(w, k) # w.stored.key[k]
             THEN x.conf.key[k] = DueKey(w, k) /\ x.stored.key[k] = DueKey(w, k)
             ELSE x.conf.key[k] = w.conf.key[k] /\ x.stored.key[k] = w.stored.key[k]
    BY <1>1, <1>5, SyncKeysEffect
  <1> HIDE DEF x
  <1>7. \A k \in Keys : DueKey(x, k) = DueKey(w, k)
    BY <1>6 DEF DueKey
  <1>8. KeysEffect(h, v, x)
    BY <1>2, <1>4, <1>5, <1>6, <1>7 DEF KeysEffect
  <1>9. /\ AddressEffect(u, h, v, x) /\ ServicesEffect(h, v, x)
        /\ SearchEffect(h, v, x) /\ RoutesEffect(h, v, x)
    BY <1>1, <1>2, <1>4, <1>5, <1>6
    DEF AddressEffect, ServicesEffect, SearchEffect, RoutesEffect, LeaderHooks,
        FollowerHooks, ViewType
  <1>10. h \in pending[u] /\ h \in HookNames
    BY DEF ReplicasRelationChanged, HookNames
  <1>12. RelatedEffect(u, h, v, x)
    BY <1>1, <1>2, <1>4, <1>5, <1>6, QuietEffect DEF HookNames
  <1>11. Effect(u, h, x)
    BY <1>6, <1>8, <1>9, <1>10, <1>12 DEF Effect
  <1> QED BY <1>3, <1>11

\* The hooks of the related charms neither touch the keys nor what depends on
\* leadership, but for the routes.
LEMMA IntegrationEffect ==
  ASSUME TypeOK, NEW u \in Units,
         \/ DebarchiveRelation(u) \/ TaskHandlerRelation(u)
         \/ HaproxyRouteRelation(u) \/ WebsiteRelation(u)
  PROVE  \E h, x : Effect(u, h, x) /\ Ending(u, h, x)
  <1> DEFINE v == View(u)
  <1>1. config \in ConfigType /\ v \in ViewType /\ v.ip = u
    BY ViewFacts
  <1>2. ASSUME NEW h \in {"debarchive", "task-handler", "haproxy-route", "website"},
               h \in pending[u], NEW x \in ViewType, Ends(u, h, x),
               x.isLeader = v.isLeader, x.conf = v.conf, x.bag = v.bag,
               x.stored.key = v.stored.key, x.serves = v.serves,
               x.refused = v.refused, v.routed => x.routed,
               RelatedEffect(u, h, v, x)
        PROVE  \E g, y : Effect(u, g, y) /\ Ending(u, g, y)
    <2>1. /\ h \in HookNames \ {"config-changed", "replicas-changed"}
          /\ h \notin LeaderHooks \cup FollowerHooks
          /\ h # "replicas-joined" /\ h # "leader-elected" /\ h # "config-changed"
      BY <1>2 DEF HookNames, LeaderHooks, FollowerHooks
    <2>2. KeysEffect(h, v, x)
      BY <1>1, <1>2, <2>1, OtherKeysEffect DEF SameKeys
    <2>3. /\ AddressEffect(u, h, v, x) /\ ServicesEffect(h, v, x)
          /\ SearchEffect(h, v, x) /\ RoutesEffect(h, v, x)
      BY <1>1, <1>2, <2>1
      DEF AddressEffect, ServicesEffect, SearchEffect, RoutesEffect, ViewType
    <2>4. Effect(u, h, x) /\ Ending(u, h, x)
      BY <1>2, <2>1, <2>2, <2>3 DEF Effect, Ends, Ending
    <2> QED BY <2>4
  <1>3. CASE DebarchiveRelation(u)
    <2>1. PICK lost \in SecretLost :
            Ends(u, "debarchive", UpdateDebarchive(v, FALSE, lost))
      BY <1>3 DEF DebarchiveRelation
    <2>2. /\ UpdateDebarchive(v, FALSE, lost) \in ViewType
          /\ Told(v, UpdateDebarchive(v, FALSE, lost))
      BY <1>1, PublishingFacts, ToldFacts DEF SecretLost
    <2>3. "debarchive" \in pending[u]
      BY <1>3 DEF DebarchiveRelation
    <2> DEFINE x == UpdateDebarchive(v, FALSE, lost)
    <2>4. /\ x.taskHost = v.taskHost
          /\ ~v.isLeader \/ "debarchive" \notin Integrations => x.debarchive = v.debarchive
          /\ x.debarchive.token \in {v.debarchive.token, DueKey(v, "secret-token")}
          /\ v.stored.leaderIp \in {None, v.ip} =>
               /\ x.stored.leaderIp \in {None, v.ip}
               /\ x.debarchive.hostname \in {v.debarchive.hostname, HostOf(v.ip)}
      BY <1>1, UpdateDebarchiveEffect DEF SecretLost
    <2> HIDE DEF x
    <2>5. DueKey(x, "secret-token") = DueKey(v, "secret-token")
      BY <2>2 DEF Told, DueKey, x
    <2>6. RelatedEffect(u, "debarchive", v, x)
      BY <1>1, <2>4, <2>5 DEF RelatedEffect
    <2> QED BY <1>2, <2>1, <2>2, <2>3, <2>6 DEF Told, x
  <1>4. CASE TaskHandlerRelation(u)
    <2>1. UpdateTaskHandler(v) \in ViewType /\ Told(v, UpdateTaskHandler(v))
      BY <1>1, PublishingFacts, ToldFacts
    <2>2. "task-handler" \in pending[u] /\ Ends(u, "task-handler", UpdateTaskHandler(v))
      BY <1>4 DEF TaskHandlerRelation
    <2> DEFINE x == UpdateTaskHandler(v)
    <2>3. /\ x.debarchive = v.debarchive
          /\ ~v.isLeader \/ "task-handler" \notin Integrations => x.taskHost = v.taskHost
          /\ v.stored.leaderIp \in {None, v.ip} =>
               /\ x.stored.leaderIp \in {None, v.ip}
               /\ x.taskHost \in {v.taskHost, HostOf(v.ip)}
      BY <1>1, UpdateTaskHandlerEffect
    <2> HIDE DEF x
    <2>4. RelatedEffect(u, "task-handler", v, x)
      BY <1>1, <2>3 DEF RelatedEffect
    <2> QED BY <1>2, <2>1, <2>2, <2>4 DEF Told, x
  <1>5. CASE HaproxyRouteRelation(u)
    <2> DEFINE x == ProvideRoutes(v)
    <2>1. x \in ViewType
      BY <1>1, HelperFacts
    <2>2. /\ x.isLeader = v.isLeader /\ x.conf = v.conf /\ x.bag = v.bag
          /\ x.stored = v.stored /\ x.serves = v.serves
          /\ x.refused = v.refused /\ (v.routed => x.routed)
          /\ x.debarchive = v.debarchive /\ x.taskHost = v.taskHost
      BY <1>1 DEF ProvideRoutes, ViewType
    <2>3. "haproxy-route" \in pending[u] /\ Ends(u, "haproxy-route", x)
      BY <1>5 DEF HaproxyRouteRelation
    <2> HIDE DEF x
    <2>4. RelatedEffect(u, "haproxy-route", v, x)
      BY <1>1, <2>1, <2>2, QuietEffect DEF HookNames
    <2> QED BY <1>2, <2>1, <2>2, <2>3, <2>4
  <1>6. CASE WebsiteRelation(u)
    <2> DEFINE x == [v EXCEPT !.listed = v.isLeader]
    <2>1. /\ x \in ViewType
          /\ x.isLeader = v.isLeader /\ x.conf = v.conf /\ x.bag = v.bag
          /\ x.stored = v.stored /\ x.serves = v.serves
          /\ x.refused = v.refused /\ (v.routed => x.routed)
          /\ x.debarchive = v.debarchive /\ x.taskHost = v.taskHost
      BY <1>1 DEF ViewType
    <2>2. "website" \in pending[u] /\ Ends(u, "website", x)
      BY <1>6 DEF WebsiteRelation
    <2> HIDE DEF x
    <2>3. RelatedEffect(u, "website", v, x)
      BY <1>1, <2>1, QuietEffect DEF HookNames
    <2> QED BY <1>2, <2>1, <2>2, <2>3
  <1> QED BY <1>3, <1>4, <1>5, <1>6

\* A step of the system: the environment's, an early return, or the end of a hook
\* with its effects.
LEMMA StepEffect ==
  ASSUME TypeOK, [Next]_vars
  PROVE  \/ UNCHANGED vars
         \/ LeadershipMoves
         \/ OperatorConfigures
         \/ \E u \in Units : ConfigChangedEarlyReturn(u)
         \/ \E u \in Units : \E h, x : Effect(u, h, x) /\ Ending(u, h, x)
  <1>1. ASSUME NEW u \in Units, Hook(u)
        PROVE  \/ ConfigChangedEarlyReturn(u)
               \/ \E h, x : Effect(u, h, x) /\ Ending(u, h, x)
    <2>1. CASE \/ DebarchiveRelation(u) \/ TaskHandlerRelation(u)
               \/ HaproxyRouteRelation(u) \/ WebsiteRelation(u)
      BY <2>1, IntegrationEffect
    <2> QED BY <1>1, <2>1, ConfigChangedEffect, LeaderElectedEffect,
               LeaderSettingsChangedEffect, ReplicasRelationJoinedEffect,
               ReplicasRelationChangedEffect DEF Hook
  <1> QED BY <1>1 DEF Next

--------------------------------------------------------------------------------
(***************************************************************************)
(* The hooks that are pending.                                             *)
(***************************************************************************)

\* After hook h of unit u, which leaves the pending hooks of others alone, Juju has
\* announced a unit that has entered, and a unit that joins is told what changed.
QueuedAfter(u, h) ==
  /\ up' = IF h = "config-changed" THEN up \cup {u} ELSE up
  /\ \A w \in Units \ {u} : pending[w] \subseteq pending'[w]
  /\ pending[u] \ {h} \subseteq pending'[u]
  /\ h = "replicas-joined" => "replicas-changed" \in pending'[u]
  /\ h = "config-changed" /\ u \notin up =>
       /\ \A w \in up : "replicas-joined" \in pending'[w]
       /\ up # {} => "replicas-joined" \in pending'[u]

LEMMA EnqueueQueues ==
  ASSUME TypeOK, NEW u \in Units, NEW h, NEW told,
         pending' = Enqueue(u, h, told),
         up' = IF h = "config-changed" THEN up \cup {u} ELSE up
  PROVE  /\ QueuedAfter(u, h)
         /\ \A w \in Units \cap told : "replicas-changed" \in pending'[w]
  <1>1. \A w \in Units : pending'[w] =
          (IF w = u THEN (pending[u] \ {h}) \cup FollowUps(u, h) ELSE pending[w])
            \cup (IF w \in Entering(u, h) THEN {"replicas-joined"} ELSE {})
            \cup (IF w \in told THEN {"replicas-changed"} ELSE {})
    BY DEF Enqueue
  <1>2. h = "replicas-joined" => "replicas-changed" \in FollowUps(u, h)
    BY DEF FollowUps
  <1>3. h = "config-changed" /\ u \notin up =>
          /\ up # {} => "replicas-joined" \in FollowUps(u, h)
          /\ Entering(u, h) = up
    BY DEF FollowUps, Entering
  <1>4. up \subseteq Units
    BY DEF TypeOK
  <1> QED BY <1>1, <1>2, <1>3, <1>4 DEF QueuedAfter

\* A hook that commits notifies the units in the relation of a changed databag.
LEMMA CommitQueues ==
  ASSUME TypeOK, NEW u \in Units, NEW h, NEW x, Commits(u, h, x)
  PROVE  /\ QueuedAfter(u, h)
         /\ x.bag # bag => \A w \in up \ {u} : "replicas-changed" \in pending'[w]
  <1>1. /\ pending' = Enqueue(u, h, Notified(u, x))
        /\ up' = IF h = "config-changed" THEN up \cup {u} ELSE up
    BY DEF Commits
  <1>2. /\ QueuedAfter(u, h)
        /\ \A w \in Units \cap Notified(u, x) : "replicas-changed" \in pending'[w]
    BY <1>1, EnqueueQueues
  <1>3. x.bag # bag => up \ {u} \subseteq Notified(u, x)
    BY DEF Notified
  <1>4. up \subseteq Units
    BY DEF TypeOK
  <1> QED BY <1>2, <1>3, <1>4

LEMMA EarlyReturnQueues ==
  ASSUME TypeOK, NEW u \in Units, ConfigChangedEarlyReturn(u)
  PROVE  QueuedAfter(u, "config-changed")
  BY EnqueueQueues DEF ConfigChangedEarlyReturn

\* A unit that is not in the peer relation has yet to run config-changed.
Entered == \A u \in Units \ up : "config-changed" \in pending[u]

Hearing == {"replicas-joined", "replicas-changed"}

\* The peer relation has news for the unit, or will have when it or another enters.
WillHear(u) == pending[u] \cap Hearing # {} \/ u \notin up \/ up = {u}

LEMMA QueuedEntered ==
  ASSUME TypeOK, Entered, NEW u \in Units, NEW h, QueuedAfter(u, h)
  PROVE  Entered'
  BY DEF QueuedAfter, Entered, TypeOK

\* Only replicas-changed takes the news.
LEMMA HearingLasts ==
  ASSUME TypeOK, NEW u \in Units, NEW h, QueuedAfter(u, h),
         NEW w \in Units, WillHear(w), w # u \/ h # "replicas-changed"
  PROVE  WillHear(w)'
  <1>1. CASE pending[w] \cap Hearing # {}
    <2>1. pending'[w] \cap Hearing # {}
      BY <1>1 DEF Hearing, QueuedAfter
    <2> QED BY <2>1 DEF WillHear
  <1>2. CASE w \notin up
    <2>1. CASE w = u /\ h = "config-changed" /\ up # {}
      <3>1. "replicas-joined" \in pending'[w]
        BY <1>2, <2>1 DEF QueuedAfter
      <3> QED BY <3>1 DEF WillHear, Hearing
    <2>2. CASE ~(w = u /\ h = "config-changed" /\ up # {})
      BY <1>2, <2>2 DEF WillHear, QueuedAfter
    <2> QED BY <2>1, <2>2
  <1>3. CASE up = {w}
    <2>1. CASE h = "config-changed" /\ u # w
      <3>1. "replicas-joined" \in pending'[w]
        BY <1>3, <2>1 DEF QueuedAfter
      <3> QED BY <3>1 DEF WillHear, Hearing
    <2>2. CASE ~(h = "config-changed" /\ u # w)
      BY <1>3, <2>2 DEF WillHear, QueuedAfter
    <2> QED BY <2>1, <2>2
  <1> QED BY <1>1, <1>2, <1>3 DEF WillHear

--------------------------------------------------------------------------------
(***************************************************************************)
(* Leadership: services, package search, routes.                           *)
(***************************************************************************)

\* A leader whose address is not the published one has yet to be told it leads.
AddressPublished == bag.leaderIp # leader => "leader-elected" \in pending[leader]

\* The leader's services run on it, or refused to, or it has yet to be told; a unit that
\* runs them and does not lead has a pending hook that stops them, or hears that it is
\* not the one published any more, or they refused to stop.
ServicesInv ==
  /\ leader \in serving \cup refused \/ "leader-elected" \in pending[leader]
  /\ \A u \in serving \ (refused \cup {leader}) :
       \/ pending[u] \cap {"leader-elected", "leader-settings-changed"} # {}
       \/ WillHear(u)
       \/ bag.leaderIp = u

\* A follower searches on the leader, or will be told of it, or the leader has yet to
\* publish its address.
SearchInv ==
  /\ conf[leader].search = Localhost \/ "leader-elected" \in pending[leader]
  /\ faults.moves = 0 => bag.leaderIp \in {None, leader}
  /\ LeaderSettings \/ faults.moves < 2 =>
       \A u \in Units \ {leader} :
         \/ conf[u].search = leader
         \/ bag.leaderIp # leader
         \/ "leader-settings-changed" \in pending[u]
         \/ WillHear(u)

\* A unit without routes hears of the leader's address, once there is one, unless it is
\* its own and leadership moved before there was one.
RoutesInv ==
  "haproxy-route" \in Integrations =>
    \A u \in Units \ routed :
      WillHear(u) \/ bag.leaderIp = None \/ (addressless /\ bag.leaderIp = u)

\* The first leader publishes its address when it joins, if it has not before.
AddressOwed ==
  bag.leaderIp = None /\ ~addressless =>
    leader \notin up \/ up = {leader} \/ "replicas-joined" \in pending[leader]

LeadershipInv ==
  /\ TypeOK /\ Entered /\ AddressPublished /\ ServicesInv /\ SearchInv
  /\ RoutesInv /\ AddressOwed

\* What a hook that commits makes of the state.
LEMMA CommitFacts ==
  ASSUME TypeOK, NEW u \in Units, NEW h, NEW x, Effect(u, h, x), Commits(u, h, x)
  PROVE  /\ UNCHANGED <<leader, config, faults>>
         /\ bag' = x.bag
         /\ conf'[u] = x.conf /\ stored'[u] = x.stored
         /\ \A w \in Units \ {u} : conf'[w] = conf[w] /\ stored'[w] = stored[w]
         /\ addressless' = addressless
         /\ u \in serving' <=> x.serves
         /\ u \in refused' <=> x.refused
         /\ u \in routed' <=> x.routed
         /\ \A w \in Units \ {u} : /\ w \in serving' <=> w \in serving
                                   /\ w \in refused' <=> w \in refused
                                   /\ w \in routed' <=> w \in routed
  BY DEF Commits, Effect, With, TypeOK, ViewType

\* What a hook that fails makes of the state: it may have changed the machine.
LEMMA CrashFacts ==
  ASSUME TypeOK, NEW u \in Units, NEW h, NEW x, Effect(u, h, x), Crashes(u, h, x)
  PROVE  /\ UNCHANGED <<leader, config, pending, up, stored, bag, routed, cut,
                        keyless, addressless>>
         /\ faults'.moves = faults.moves /\ faults'.reconfigures = faults.reconfigures
         /\ faults'.crashes = faults.crashes + 1
         /\ \A w \in Units \ {u} : conf'[w] = conf[w]
         /\ conf'[u].search \in {conf[u].search, x.conf.search}
         /\ \A k \in Keys : conf'[u].key[k] \in {conf[u].key[k], x.conf.key[k]}
         /\ \/ UNCHANGED <<serving, refused>>
            \/ /\ u \in serving' <=> x.serves
               /\ u \in refused' <=> x.refused
               /\ \A w \in Units \ {u} : /\ w \in serving' <=> w \in serving
                                         /\ w \in refused' <=> w \in refused
  <1>1. PICK done :
          /\ conf' = [conf EXCEPT ![u] =
               [search |-> IF "search" \in done THEN x.conf.search ELSE conf[u].search,
                key |-> [k \in Keys |-> IF k \in done THEN x.conf.key[k]
                                                      ELSE conf[u].key[k]]]]
          /\ IF "services" \in done
             THEN /\ serving' = With(serving, u, x.serves)
                  /\ refused' = With(refused, u, x.refused)
             ELSE UNCHANGED <<serving, refused>>
    BY DEF Crashes
  <1>2. /\ UNCHANGED <<leader, config, pending, up, stored, bag, routed, cut,
                       keyless, addressless>>
        /\ faults' = [faults EXCEPT !.crashes = @ + 1]
    BY DEF Crashes
  <1>3. /\ faults'.moves = faults.moves /\ faults'.reconfigures = faults.reconfigures
        /\ faults'.crashes = faults.crashes + 1
    BY <1>2 DEF TypeOK
  <1>4. conf'[u] = [search |-> IF "search" \in done THEN x.conf.search ELSE conf[u].search,
                    key |-> [k \in Keys |-> IF k \in done THEN x.conf.key[k]
                                                          ELSE conf[u].key[k]]]
    BY <1>1 DEF TypeOK
  <1>5. \A w \in Units \ {u} : conf'[w] = conf[w]
    BY <1>1 DEF TypeOK
  <1>6. \/ UNCHANGED <<serving, refused>>
        \/ /\ u \in serving' <=> x.serves
           /\ u \in refused' <=> x.refused
           /\ \A w \in Units \ {u} : /\ w \in serving' <=> w \in serving
                                     /\ w \in refused' <=> w \in refused
    BY <1>1 DEF With
  <1> QED BY <1>2, <1>3, <1>4, <1>5, <1>6

\* Juju's rules: no unit in the relation, every unit with its first hooks.
LEMMA InitLeadership == Init => LeadershipInv
  <1> SUFFICES ASSUME Init PROVE LeadershipInv
    OBVIOUS
  <1>1. TypeOK
    BY InitTyped
  <1>2. "leader-elected" \in pending[leader] /\ Entered
    BY DEF Init, Entered
  <1>3. bag.leaderIp = None /\ up = {} /\ serving = {} /\ routed = {}
    BY DEF Init
  <1> QED BY <1>1, <1>2, <1>3 DEF LeadershipInv, AddressPublished, ServicesInv,
                                  SearchInv, RoutesInv, AddressOwed, WillHear

\* Leadership moves: the published address is not the new leader's, or it was it before.
LEMMA MoveKeepsLeadership ==
  ASSUME LeadershipInv, LeadershipMoves
  PROVE  LeadershipInv'
  <1> USE DEF LeadershipInv
  <1>1. TypeOK'
    BY EnvironmentTyped
  <1>2. /\ leader \in Units /\ leader' \in Units /\ leader' # leader
        /\ UNCHANGED <<config, up, conf, bag, serving, refused, routed>>
        /\ addressless' = (addressless \/ bag.leaderIp = None)
        /\ faults'.moves = faults.moves + 1 /\ faults.moves \in Nat
        /\ \A u \in Units : pending[u] \subseteq pending'[u]
        /\ "leader-elected" \in pending'[leader']
        /\ LeaderSettings => \A u \in Units \ {leader'} :
                               "leader-settings-changed" \in pending'[u]
    BY DEF LeadershipMoves, TypeOK
  <1>3. \A u \in Units : WillHear(u) => WillHear(u)'
    BY <1>2 DEF WillHear
  <1>4. Entered' /\ AddressPublished'
    BY <1>2 DEF Entered, AddressPublished
  <1>5. ServicesInv'
    <2>1. leader \in serving => \/ "leader-elected" \in pending'[leader]
                                \/ bag.leaderIp = leader
      BY <1>2 DEF AddressPublished
    <2>2. \A u \in serving \ (refused \cup {leader}) :
            \/ pending'[u] \cap {"leader-elected", "leader-settings-changed"} # {}
            \/ WillHear(u)'
            \/ bag.leaderIp = u
      BY <1>2, <1>3 DEF ServicesInv, TypeOK
    <2> QED BY <1>2, <2>1, <2>2 DEF ServicesInv
  <1>6. SearchInv'
    <2>1. ASSUME ~LeaderSettings, faults'.moves < 2
          PROVE  bag.leaderIp # leader'
      <3>1. bag.leaderIp \in {None, leader}
        BY <1>2, <2>1 DEF SearchInv
      <3> QED BY <1>2, <3>1, ConstantsAssumption
    <2>2. faults'.moves # 0
      BY <1>2
    <2> QED BY <1>2, <2>1, <2>2 DEF SearchInv
  <1>7. RoutesInv'
    BY <1>2, <1>3 DEF RoutesInv
  <1>8. AddressOwed'
    BY <1>2 DEF AddressOwed
  <1> QED BY <1>1, <1>4, <1>5, <1>6, <1>7, <1>8

\* A step that takes no hook but config-changed, and writes nothing but the queues.
LEMMA QueueKeepsLeadership ==
  ASSUME LeadershipInv,
         OperatorConfigures \/ \E u \in Units : ConfigChangedEarlyReturn(u)
  PROVE  LeadershipInv'
  <1> USE DEF LeadershipInv
  <1>1. TypeOK'
    BY EnvironmentTyped, EarlyReturnTyped
  <1>2. /\ UNCHANGED <<leader, conf, bag, serving, refused, routed, addressless>>
        /\ faults'.moves = faults.moves
    BY DEF OperatorConfigures, ConfigChangedEarlyReturn, TypeOK
  <1>3. /\ Entered'
        /\ \A w \in Units : /\ pending[w] \ {"config-changed"} \subseteq pending'[w]
                            /\ WillHear(w) => WillHear(w)'
    <2>1. CASE OperatorConfigures
      BY <2>1 DEF OperatorConfigures, Entered, WillHear, TypeOK
    <2>2. CASE \E u \in Units : ConfigChangedEarlyReturn(u)
      <3>1. PICK u \in Units : ConfigChangedEarlyReturn(u)
        BY <2>2
      <3>2. QueuedAfter(u, "config-changed")
        BY <3>1, EarlyReturnQueues
      <3> QED BY <3>2, QueuedEntered, HearingLasts DEF QueuedAfter
    <2> QED BY <2>1, <2>2
  <1>4. leader \in Units /\ serving \subseteq Units
    BY DEF TypeOK
  <1>5. \A w \in Units, h \in {"leader-elected", "leader-settings-changed",
                               "replicas-joined", "replicas-changed"} :
          h \in pending[w] => h \in pending'[w]
    BY <1>3
  <1>6. AddressPublished'
    BY <1>2, <1>4, <1>5 DEF AddressPublished
  <1>7. ServicesInv'
    BY <1>2, <1>3, <1>4, <1>5 DEF ServicesInv
  <1>8. SearchInv'
    BY <1>2, <1>3, <1>4, <1>5 DEF SearchInv
  <1>9. RoutesInv'
    BY <1>2, <1>3 DEF RoutesInv
  <1>10. AddressOwed'
    <2>1. CASE OperatorConfigures
      BY <1>2, <1>4, <1>5, <2>1 DEF OperatorConfigures, AddressOwed
    <2>2. CASE \E u \in Units : ConfigChangedEarlyReturn(u)
      <3>1. PICK u \in Units : ConfigChangedEarlyReturn(u)
        BY <2>2
      <3>2. QueuedAfter(u, "config-changed")
        BY <3>1, EarlyReturnQueues
      <3> QED BY <1>2, <1>4, <1>5, <3>2 DEF QueuedAfter, AddressOwed
    <2> QED BY <2>1, <2>2
  <1> QED BY <1>1, <1>3, <1>6, <1>7, <1>8, <1>9, <1>10

\* A hook that fails stays pending.
LEMMA CrashKeepsLeadership ==
  ASSUME LeadershipInv, NEW u \in Units, NEW h, NEW x,
         Effect(u, h, x), Crashes(u, h, x)
  PROVE  LeadershipInv'
  <1> USE DEF LeadershipInv
  <1>1. TypeOK'
    BY CrashesTyped DEF Effect
  <1>2. /\ UNCHANGED <<leader, pending, up, bag, routed, addressless>>
        /\ faults'.moves = faults.moves
        /\ \A w \in Units \ {u} : conf'[w] = conf[w]
        /\ conf'[u].search \in {conf[u].search, x.conf.search}
        /\ \/ UNCHANGED <<serving, refused>>
           \/ /\ u \in serving' <=> x.serves
              /\ u \in refused' <=> x.refused
              /\ \A w \in Units \ {u} : /\ w \in serving' <=> w \in serving
                                        /\ w \in refused' <=> w \in refused
    BY CrashFacts
  <1>3. /\ View(u).isLeader <=> u = leader
        /\ View(u).conf = conf[u] /\ View(u).bag = bag
        /\ View(u).serves <=> u \in serving
        /\ View(u).refused <=> u \in refused
        /\ ServicesEffect(h, View(u), x) /\ SearchEffect(h, View(u), x)
        /\ x \in ViewType /\ View(u) \in ViewType
    BY ViewFacts DEF Effect
  <1>4. \A w \in Units : WillHear(w)' <=> WillHear(w)
    BY <1>2 DEF WillHear
  <1>5. Entered' /\ AddressPublished'
    BY <1>2 DEF Entered, AddressPublished
  <1>6. ServicesInv'
    <2>1. x.serves => x.refused \/ u = leader \/ (u \in serving /\ u \notin refused)
      BY <1>3 DEF ServicesEffect, ViewType
    <2>2. u = leader /\ u \in serving \cup refused => x.serves \/ x.refused
      BY <1>3 DEF ServicesEffect, ViewType
    <2>3. serving' \ (refused' \cup {leader}) \subseteq serving \ refused
      BY <1>1, <1>2, <2>1 DEF TypeOK
    <2>4. leader \in serving \cup refused => leader \in serving' \cup refused'
      BY <1>2, <2>2 DEF TypeOK
    <2> QED BY <1>2, <1>4, <2>3, <2>4 DEF ServicesInv, TypeOK
  <1>7. SearchInv'
    <2>1. conf[leader].search = Localhost => conf'[leader].search = Localhost
      BY <1>2, <1>3 DEF SearchEffect, TypeOK
    <2>2. ASSUME NEW w \in Units \ {leader}
          PROVE  conf'[w].search = conf[w].search \/ conf'[w].search = bag.leaderIp
      BY <1>2, <1>3, <2>2 DEF SearchEffect
    <2> QED BY <1>2, <1>4, <2>1, <2>2 DEF SearchInv
  <1>8. RoutesInv'
    BY <1>2, <1>4 DEF RoutesInv
  <1>9. AddressOwed'
    BY <1>2 DEF AddressOwed
  <1> QED BY <1>1, <1>5, <1>6, <1>7, <1>8, <1>9

\* A hook that commits repairs its own unit, or what it publishes is heard.
LEMMA CommitKeepsLeadership ==
  ASSUME LeadershipInv, NEW u \in Units, NEW h, NEW x,
         Effect(u, h, x), Commits(u, h, x), cut' \subseteq Units
  PROVE  LeadershipInv'
  <1> USE DEF LeadershipInv
  <1>1. TypeOK'
    BY CommitsTyped DEF Effect
  <1>2. /\ leader' = leader /\ faults' = faults /\ addressless' = addressless
        /\ bag' = x.bag
        /\ conf'[u] = x.conf
        /\ \A w \in Units \ {u} : conf'[w] = conf[w]
        /\ u \in serving' <=> x.serves
        /\ u \in refused' <=> x.refused
        /\ u \in routed' <=> x.routed
        /\ \A w \in Units \ {u} : /\ w \in serving' <=> w \in serving
                                  /\ w \in refused' <=> w \in refused
                                  /\ w \in routed' <=> w \in routed
    BY CommitFacts
  <1>3. /\ QueuedAfter(u, h)
        /\ x.bag # bag => \A w \in up \ {u} : "replicas-changed" \in pending'[w]
    BY CommitQueues
  <1>4. /\ View(u).isLeader <=> u = leader
        /\ View(u).conf = conf[u] /\ View(u).bag = bag
        /\ View(u).serves <=> u \in serving
        /\ View(u).refused <=> u \in refused
        /\ View(u).routed <=> u \in routed
        /\ AddressEffect(u, h, View(u), x) /\ ServicesEffect(h, View(u), x)
        /\ SearchEffect(h, View(u), x) /\ RoutesEffect(h, View(u), x)
        /\ x \in ViewType /\ View(u) \in ViewType
    BY ViewFacts DEF Effect
  <1>5. Entered'
    BY <1>3, QueuedEntered
  <1>6. leader \in Units /\ up \subseteq Units /\ serving \subseteq Units
    BY DEF TypeOK
  <1>7. \A w \in Units \ {u} : pending[w] \subseteq pending'[w]
    BY <1>3 DEF QueuedAfter
  <1>8. \A g \in pending[u] : g # h => g \in pending'[u]
    BY <1>3 DEF QueuedAfter
  <1>9. bag'.leaderIp = bag.leaderIp \/ (u = leader /\ bag'.leaderIp = u)
    BY <1>2, <1>4 DEF AddressEffect
  \* Whoever else is in the relation hears of a new address, and who is not will.
  <1>10. ASSUME NEW w \in Units \ {u}
         PROVE  WillHear(w)' \/ (bag'.leaderIp = bag.leaderIp /\ ~WillHear(w))
    <2>1. CASE WillHear(w)
      BY <2>1, <1>3, HearingLasts
    <2>2. CASE w \in up /\ bag'.leaderIp # bag.leaderIp
      <3>1. "replicas-changed" \in pending'[w]
        BY <1>2, <1>3, <2>2
      <3> QED BY <3>1 DEF WillHear, Hearing
    <2> QED BY <2>1, <2>2 DEF WillHear
  <1>11. WillHear(u) => WillHear(u)' \/ h = "replicas-changed"
    BY <1>3, HearingLasts
  <1>12. AddressPublished'
    <2>1. CASE h = "leader-elected" /\ u = leader
      BY <1>2, <1>4, <2>1 DEF AddressEffect, AddressPublished
    <2>2. CASE ~(h = "leader-elected" /\ u = leader)
      <3>1. "leader-elected" \in pending[leader] => "leader-elected" \in pending'[leader]
        BY <1>6, <1>7, <1>8, <2>2
      <3> QED BY <1>2, <1>9, <3>1 DEF AddressPublished
    <2> QED BY <2>1, <2>2
  <1>13. ServicesInv'
    <2>1. leader \in serving' \cup refused' \/ "leader-elected" \in pending'[leader]
      <3>1. CASE u = leader
        <4>1. leader \in serving \cup refused => x.serves \/ x.refused
          BY <1>4, <3>1 DEF ServicesEffect, ViewType
        <4>2. h = "leader-elected" => x.serves \/ x.refused
          BY <1>4, <3>1 DEF ServicesEffect, LeaderHooks, ViewType
        <4> QED BY <1>2, <1>8, <3>1, <4>1, <4>2 DEF ServicesInv
      <3>2. CASE u # leader
        BY <1>2, <1>6, <1>7, <3>2 DEF ServicesInv
      <3> QED BY <3>1, <3>2
    <2>2. ASSUME NEW w \in serving' \ (refused' \cup {leader})
          PROVE  \/ pending'[w] \cap {"leader-elected", "leader-settings-changed"} # {}
                 \/ WillHear(w)'
                 \/ bag'.leaderIp = w
      <3>1. w \in Units
        BY <1>1 DEF TypeOK
      <3>2. CASE w = u
        <4>1. x.serves /\ ~x.refused
          BY <1>2, <2>2, <3>2
        <4>2. u \in serving \ refused /\ h \notin LeaderHooks
          BY <1>4, <3>2, <4>1 DEF ServicesEffect, ViewType
        <4>3. h \notin {"leader-elected", "leader-settings-changed", "replicas-changed"}
          BY <4>2 DEF LeaderHooks
        <4>4. bag'.leaderIp = bag.leaderIp
          BY <1>9, <3>2
        <4> QED BY <1>8, <1>11, <3>2, <4>2, <4>3, <4>4 DEF ServicesInv
      <3>3. CASE w # u
        <4>1. w \in serving \ refused /\ pending[w] \subseteq pending'[w]
          BY <1>2, <1>7, <2>2, <3>1, <3>3
        <4>2. CASE WillHear(w)'
          BY <4>2
        <4>3. CASE bag'.leaderIp = bag.leaderIp /\ ~WillHear(w)
          BY <4>1, <4>3 DEF ServicesInv
        <4> QED BY <1>10, <3>1, <3>3, <4>2, <4>3
      <3> QED BY <3>2, <3>3
    <2> QED BY <1>2, <2>1, <2>2 DEF ServicesInv
  <1>14. SearchInv'
    <2>1. conf'[leader].search = Localhost \/ "leader-elected" \in pending'[leader]
      <3>1. CASE u = leader
        BY <1>2, <1>4, <1>8, <3>1 DEF SearchEffect, SearchInv
      <3>2. CASE u # leader
        BY <1>2, <1>6, <1>7, <3>2 DEF SearchInv
      <3> QED BY <3>1, <3>2
    <2>2. faults'.moves = 0 => bag'.leaderIp \in {None, leader'}
      BY <1>2, <1>9 DEF SearchInv
    <2>3. ASSUME LeaderSettings \/ faults.moves < 2, NEW w \in Units \ {leader}
          PROVE  \/ conf'[w].search = leader
                 \/ bag'.leaderIp # leader
                 \/ "leader-settings-changed" \in pending'[w]
                 \/ WillHear(w)'
      <3>1. \/ conf[w].search = leader \/ bag.leaderIp # leader
            \/ "leader-settings-changed" \in pending[w] \/ WillHear(w)
        BY <2>3 DEF SearchInv
      <3>2. CASE w = u
        <4>1. bag'.leaderIp = bag.leaderIp
          BY <1>9, <2>3, <3>2
        <4>2. bag.leaderIp = leader /\ h \in FollowerHooks => conf'[u].search = leader
          BY <1>2, <1>4, <1>6, <2>3, <3>2, ConstantsAssumption DEF SearchEffect
        <4>3. bag.leaderIp = leader /\ conf[u].search = leader => conf'[u].search = leader
          BY <1>2, <1>4, <2>3, <3>2 DEF SearchEffect
        <4> QED BY <1>8, <1>11, <3>1, <3>2, <4>1, <4>2, <4>3 DEF FollowerHooks
      <3>3. CASE w # u
        BY <1>2, <1>7, <1>10, <3>1, <3>3
      <3> QED BY <3>2, <3>3
    <2> QED BY <1>2, <2>1, <2>2, <2>3 DEF SearchInv
  <1>15. AddressOwed'
    <2> SUFFICES ASSUME bag'.leaderIp = None, ~addressless, leader \in up'
                 PROVE  up' = {leader} \/ "replicas-joined" \in pending'[leader]
      BY <1>2 DEF AddressOwed
    <2>1. bag.leaderIp = None
      BY <1>2, <1>4, ConstantsAssumption DEF AddressEffect
    <2>2. u = leader => h # "replicas-joined"
      BY <1>2, <1>4, ConstantsAssumption DEF AddressEffect
    <2>3. "replicas-joined" \in pending[leader] => "replicas-joined" \in pending'[leader]
      BY <1>6, <1>7, <1>8, <2>2
    <2>4. leader \notin up \/ up = {leader} \/ "replicas-joined" \in pending[leader]
      BY <2>1 DEF AddressOwed
    <2>5. CASE h = "config-changed" /\ u \notin up
      BY <1>3, <1>6, <2>3, <2>4, <2>5 DEF QueuedAfter
    <2>6. CASE ~(h = "config-changed" /\ u \notin up)
      BY <1>3, <2>3, <2>4, <2>6 DEF QueuedAfter
    <2> QED BY <2>5, <2>6
  <1>16. RoutesInv'
    <2> SUFFICES ASSUME "haproxy-route" \in Integrations, NEW w \in Units \ routed',
                        bag'.leaderIp # None, ~(addressless /\ bag'.leaderIp = w)
                 PROVE  WillHear(w)'
      BY <1>2 DEF RoutesInv
    <2>1. w \notin routed
      BY <1>2, <1>4 DEF RoutesEffect
    <2>2. WillHear(w) \/ bag.leaderIp = None \/ (addressless /\ bag.leaderIp = w)
      BY <2>1 DEF RoutesInv
    <2>3. CASE w = u
      <3>1. bag.leaderIp # None => h # "replicas-changed"
        BY <1>2, <1>4, <2>3 DEF RoutesEffect
      <3>2. CASE bag.leaderIp = None
        <4>1. u = leader /\ ~addressless
          BY <1>9, <2>3, <3>2
        <4>2. CASE h = "replicas-joined"
          BY <1>3, <2>3, <4>2 DEF QueuedAfter, WillHear, Hearing
        <4>3. CASE "replicas-joined" \in pending[u] /\ h # "replicas-joined"
          BY <1>8, <2>3, <4>3 DEF WillHear, Hearing
        <4>4. CASE (u \notin up \/ up = {u}) /\ "replicas-joined" \notin pending[u]
          <5>1. CASE h = "config-changed" /\ u \notin up /\ up # {}
            BY <1>3, <2>3, <5>1 DEF QueuedAfter, WillHear, Hearing
          <5>2. CASE ~(h = "config-changed" /\ u \notin up /\ up # {})
            BY <1>3, <2>3, <4>4, <5>2 DEF QueuedAfter, WillHear
          <5> QED BY <5>1, <5>2
        <4> QED BY <3>2, <4>1, <4>2, <4>3, <4>4 DEF AddressOwed
      <3>3. CASE bag.leaderIp # None /\ WillHear(u)
        BY <1>11, <2>3, <3>1, <3>3
      <3>4. CASE addressless /\ bag.leaderIp = u
        BY <1>9, <2>3, <3>4
      <3> QED BY <2>2, <2>3, <3>2, <3>3, <3>4
    <2>4. CASE w # u
      <3>1. CASE WillHear(w)'
        BY <3>1
      <3>2. CASE bag'.leaderIp = bag.leaderIp /\ ~WillHear(w)
        BY <2>2, <3>2
      <3> QED BY <1>10, <2>4, <3>1, <3>2
    <2> QED BY <2>3, <2>4
  <1> QED BY <1>1, <1>5, <1>12, <1>13, <1>14, <1>15, <1>16

LEMMA NextLeadership == LeadershipInv /\ [Next]_vars => LeadershipInv'
  <1> SUFFICES ASSUME LeadershipInv, [Next]_vars PROVE LeadershipInv'
    OBVIOUS
  <1>1. CASE UNCHANGED vars
    <2>1. UNCHANGED <<leader, pending, up, conf, bag, serving, refused, routed,
                      addressless, faults>>
      BY <1>1 DEF vars
    <2>2. TypeOK'
      BY <1>1 DEF vars, TypeOK, LeadershipInv
    <2> QED BY <2>1, <2>2 DEF LeadershipInv, Entered, AddressPublished, ServicesInv,
                            SearchInv, RoutesInv, AddressOwed, WillHear
  <1>2. ASSUME NEW u \in Units, NEW h, NEW x, Effect(u, h, x), Ending(u, h, x)
        PROVE  LeadershipInv'
    <2>1. CASE Commits(u, h, x) /\ cut' \subseteq Units
      BY <1>2, <2>1, CommitKeepsLeadership
    <2>2. cut \subseteq Units
      BY DEF LeadershipInv, TypeOK
    <2> QED BY <1>2, <2>1, <2>2, CrashKeepsLeadership DEF Ending
  <1> QED BY <1>1, <1>2, StepEffect, MoveKeepsLeadership, QueueKeepsLeadership
          DEF LeadershipInv

LEMMA LeadershipAlways == Spec => []LeadershipInv
  BY InitLeadership, NextLeadership, PTL DEF Spec

\* At rest every unit is in the relation, and none hears of anything but alone.
LEMMA RestFacts ==
  ASSUME TypeOK, Entered, Rest
  PROVE  /\ up = Units
         /\ \A u \in Units : WillHear(u) => Units = {u}
  <1>1. up = Units
    BY DEF TypeOK, Entered, Rest
  <1> QED BY <1>1 DEF Rest, WillHear

\* Once every hook has run, the leader's services run on the leader and nowhere else, but
\* on units where they refused to move when last told to, however often leadership has
\* moved and hooks have failed (_leader_changed).
THEOREM ServicesOnLeader == Spec => []LeaderServicesOnLeader
  <1>1. LeadershipInv => LeaderServicesOnLeader
    <2> SUFFICES ASSUME LeadershipInv, Rest, NEW u \in Units \ refused
                 PROVE  u \in serving <=> u = leader
      BY DEF LeaderServicesOnLeader
    <2>1. leader \in Units /\ serving \subseteq Units
      BY DEF LeadershipInv, TypeOK
    <2>2. \A w \in Units : pending[w] = {}
      BY DEF Rest
    <2>3. bag.leaderIp = leader
      BY <2>1, <2>2 DEF LeadershipInv, AddressPublished
    <2>4. WillHear(u) => Units = {u}
      BY RestFacts DEF LeadershipInv
    <2> QED BY <2>1, <2>2, <2>3, <2>4 DEF LeadershipInv, ServicesInv
  <1> QED BY <1>1, LeadershipAlways, PTL

\* Once every hook has run, the leader searches packages on itself and every other unit
\* on the leader (_leader_elected, _on_replicas_relation_changed), except after
\* leadership has moved twice or more without leader-settings-changed.
THEOREM SearchOnLeader == Spec => []SearchFollowsLeader
  <1>1. LeadershipInv => SearchFollowsLeader
    <2> SUFFICES ASSUME LeadershipInv, Rest, LeaderSettings \/ faults.moves < 2,
                        NEW u \in Units
                 PROVE  conf[u].search = IF u = leader THEN Localhost ELSE leader
      BY DEF SearchFollowsLeader
    <2>1. leader \in Units
      BY DEF LeadershipInv, TypeOK
    <2>2. \A w \in Units : pending[w] = {}
      BY DEF Rest
    <2>3. bag.leaderIp = leader
      BY <2>1, <2>2 DEF LeadershipInv, AddressPublished
    <2>4. WillHear(u) => Units = {u}
      BY RestFacts DEF LeadershipInv
    <2> QED BY <2>1, <2>2, <2>3, <2>4 DEF LeadershipInv, SearchInv
  <1> QED BY <1>1, LeadershipAlways, PTL

\* Once every hook has run, every follower has published its haproxy routes, and so has
\* the leader of several units, unless leadership moved before a leader's address was
\* published (_provide_all_haproxy_route_requirements).
THEOREM RoutesOfAllUnits == Spec => []RoutesPublished
  <1>1. LeadershipInv => RoutesPublished
    <2> SUFFICES ASSUME LeadershipInv, Rest, "haproxy-route" \in Integrations,
                        NEW u \in Units \ routed
                 PROVE  u = leader /\ (Units = {leader} \/ addressless)
      BY DEF RoutesPublished, LeadershipInv, TypeOK
    <2>1. leader \in Units
      BY DEF LeadershipInv, TypeOK
    <2>2. \A w \in Units : pending[w] = {}
      BY DEF Rest
    <2>3. bag.leaderIp = leader /\ leader # None
      BY <2>1, <2>2, ConstantsAssumption DEF LeadershipInv, AddressPublished
    <2>4. WillHear(u) => Units = {u}
      BY RestFacts DEF LeadershipInv
    <2> QED BY <2>1, <2>3, <2>4 DEF LeadershipInv, RoutesInv
  <1> QED BY <1>1, LeadershipAlways, PTL

--------------------------------------------------------------------------------
(***************************************************************************)
(* The keys every unit ends up with.                                       *)
(***************************************************************************)

\* What StoredState remembers was given by the operator or is the published key; and
\* published keys were generated.
StoredFromSources ==
  /\ \A u \in Units, k \in Keys : stored[u].key[k] \in Given \cup {None, bag.key[k]}
  /\ \A k \in Keys : bag.key[k] \in Generated \cup {None}

\* Under the first configuration there is one key to remember.
FirstKeyOnly ==
  faults.reconfigures = 0 =>
    \A u \in Units, k \in Keys : stored[u].key[k] \in {None, KeyInForce(k)}

\* Only a failed hook leaves service.conf and StoredState apart.
FileAsStored ==
  faults.crashes = 0 => \A u \in Units, k \in Keys : conf[u].key[k] = stored[u].key[k]

\* A unit that remembers the key in force, and so would not write it again, has it in
\* service.conf.
NoStaleFile ==
  faults.crashes = 0 \/ faults.reconfigures < 2 =>
    \A u \in Units, k \in Keys :
      KeyInForce(k) # None /\ stored[u].key[k] = KeyInForce(k) =>
        conf[u].key[k] = KeyInForce(k)

\* The hooks that synchronise the keys, or are followed by one that does.
SyncHooks == {"config-changed", "replicas-joined", "replicas-changed"}

\* A unit that does not remember the key in force has yet to synchronise.
KeysInSync ==
  \A u \in up \ cut, k \in Keys :
    \/ KeyInForce(k) = None
    \/ stored[u].key[k] = KeyInForce(k)
    \/ pending[u] \cap SyncHooks # {}

KeysInv ==
  TypeOK /\ StoredFromSources /\ FirstKeyOnly /\ FileAsStored /\ NoStaleFile /\ KeysInSync

\* The key in force is the one due to any hook that has seen the databag.
LEMMA DueIsInForce ==
  ASSUME NEW v, v.bag = bag, NEW k \in Keys
  PROVE  DueKey(v, k) = KeyInForce(k)
  BY DEF DueKey, KeyInForce

LEMMA InForceTyped ==
  ASSUME TypeOK, NEW k \in Keys
  PROVE  /\ KeyInForce(k) = IF CharmConfig.key[k] # None THEN CharmConfig.key[k]
                            ELSE bag.key[k]
         /\ CharmConfig.key[k] \in Given \cup {None}
  <1>1. CharmConfig.key \in [Keys -> Given \cup {None}]
    BY NoKeysTyped DEF CharmConfig, TypeOK, ConfigType
  <1> QED BY <1>1 DEF KeyInForce, DueKey

LEMMA InitKeys == Init => KeysInv
  <1> SUFFICES ASSUME Init PROVE KeysInv
    OBVIOUS
  <1>1. /\ \A u \in Units, k \in Keys : stored[u].key[k] = None /\ conf[u].key[k] = None
        /\ \A k \in Keys : bag.key[k] = None
        /\ up = {}
    BY DEF Init, NoKeys
  <1> QED BY <1>1, InitTyped DEF KeysInv, StoredFromSources, FirstKeyOnly, FileAsStored,
                                 NoStaleFile, KeysInSync

\* The operator's new key is no key that is remembered, or it is the file's too.
LEMMA ConfiguringKeepsKeys ==
  ASSUME KeysInv, OperatorConfigures
  PROVE  KeysInv'
  <1> USE DEF KeysInv
  <1>1. TypeOK'
    BY EnvironmentTyped
  <1>2. /\ UNCHANGED <<stored, conf, bag, up, cut>>
        /\ faults'.crashes = faults.crashes
        /\ faults'.reconfigures = faults.reconfigures + 1 /\ faults.reconfigures \in Nat
        /\ \A u \in Units : "config-changed" \in pending'[u]
    BY DEF OperatorConfigures, TypeOK
  <1>3. StoredFromSources'
    BY <1>2 DEF StoredFromSources
  <1>4. FirstKeyOnly'
    BY <1>2 DEF FirstKeyOnly
  <1>5. FileAsStored'
    BY <1>2 DEF FileAsStored
  <1>6. NoStaleFile'
    <2> SUFFICES ASSUME faults'.crashes = 0 \/ faults'.reconfigures < 2,
                        NEW u \in Units, NEW k \in Keys,
                        KeyInForce(k)' # None, stored'[u].key[k] = KeyInForce(k)'
                 PROVE  conf'[u].key[k] = KeyInForce(k)'
      BY DEF NoStaleFile
    <2>1. CASE faults.crashes = 0
      BY <1>2, <2>1 DEF FileAsStored
    <2>2. CASE faults.reconfigures = 0
      BY <1>2, <2>2 DEF FirstKeyOnly, NoStaleFile
    <2> QED BY <1>2, <2>1, <2>2
  <1>7. KeysInSync'
    <2>1. up \subseteq Units
      BY DEF TypeOK
    <2> QED BY <1>2, <2>1 DEF KeysInSync, SyncHooks
  <1> QED BY <1>1, <1>3, <1>4, <1>5, <1>6, <1>7

\* Leadership and early returns touch no keys.
LEMMA OthersKeepKeys ==
  ASSUME KeysInv, LeadershipMoves \/ \E u \in Units : ConfigChangedEarlyReturn(u)
  PROVE  KeysInv'
  <1> USE DEF KeysInv
  <1>1. TypeOK'
    BY EnvironmentTyped, EarlyReturnTyped
  <1>2. /\ UNCHANGED <<config, stored, conf, bag>>
        /\ faults'.crashes = faults.crashes
        /\ faults'.reconfigures = faults.reconfigures
    BY DEF LeadershipMoves, ConfigChangedEarlyReturn, TypeOK
  <1>3. \A k \in Keys : KeyInForce(k)' = KeyInForce(k)
    BY <1>2 DEF KeyInForce, DueKey, CharmConfig
  <1>4. KeysInSync'
    <2>1. CASE LeadershipMoves
      BY <1>2, <1>3, <2>1 DEF LeadershipMoves, KeysInSync, TypeOK
    <2>2. CASE \E u \in Units : ConfigChangedEarlyReturn(u)
      <3>1. PICK u \in Units : ConfigChangedEarlyReturn(u)
        BY <2>2
      <3>2. QueuedAfter(u, "config-changed") /\ cut' = cut \cup {u}
        BY <3>1, EarlyReturnQueues DEF ConfigChangedEarlyReturn
      <3>3. \A w \in up' \ cut' : w \in up \ cut /\ w # u /\ pending[w] \subseteq pending'[w]
        BY <3>2 DEF QueuedAfter, TypeOK
      <3> QED BY <1>2, <1>3, <3>3 DEF KeysInSync
    <2> QED BY <2>1, <2>2
  <1> QED BY <1>1, <1>2, <1>3, <1>4 DEF StoredFromSources, FirstKeyOnly, FileAsStored,
                                       NoStaleFile

\* A failed hook has written due keys to the file only where another was remembered.
LEMMA CrashKeepsKeys ==
  ASSUME KeysInv, NEW u \in Units, NEW h, NEW x, Effect(u, h, x), Crashes(u, h, x)
  PROVE  KeysInv'
  <1> USE DEF KeysInv
  <1>1. TypeOK'
    BY CrashesTyped DEF Effect
  <1>2. /\ UNCHANGED <<config, pending, up, stored, bag, cut>>
        /\ faults'.reconfigures = faults.reconfigures
        /\ faults'.crashes = faults.crashes + 1 /\ faults.crashes \in Nat
        /\ \A w \in Units \ {u} : conf'[w] = conf[w]
        /\ \A k \in Keys : conf'[u].key[k] \in {conf[u].key[k], x.conf.key[k]}
    BY CrashFacts DEF TypeOK
  <1>3. /\ View(u).conf = conf[u] /\ View(u).bag = bag /\ View(u).stored = stored[u]
        /\ KeysEffect(h, View(u), x)
    BY ViewFacts DEF Effect
  <1>4. \A k \in Keys : KeyInForce(k)' = KeyInForce(k)
    BY <1>2 DEF KeyInForce, DueKey, CharmConfig
  <1>5. StoredFromSources' /\ FirstKeyOnly' /\ KeysInSync'
    BY <1>2, <1>4 DEF StoredFromSources, FirstKeyOnly, KeysInSync
  <1>6. FileAsStored'
    BY <1>2 DEF FileAsStored
  <1>7. NoStaleFile'
    <2> SUFFICES ASSUME faults.reconfigures < 2, NEW w \in Units, NEW k \in Keys,
                        KeyInForce(k) # None, stored[w].key[k] = KeyInForce(k)
                 PROVE  conf'[w].key[k] = KeyInForce(k)
      BY <1>2, <1>4 DEF NoStaleFile
    <2>1. conf[w].key[k] = KeyInForce(k)
      BY DEF NoStaleFile
    <2>2. CASE w = u
      <3>1. DueKey(View(u), k) = KeyInForce(k)
        BY <1>3, DueIsInForce
      <3>2. x.bag.key[k] = bag.key[k]
        BY <1>3, <3>1 DEF KeysEffect
      <3>3. DueKey(x, k) = KeyInForce(k)
        BY <3>2 DEF DueKey, KeyInForce
      <3>4. x.conf.key[k] = conf[u].key[k]
        BY <1>3, <2>2, <3>3 DEF KeysEffect
      <3> QED BY <1>2, <2>1, <2>2, <3>4
    <2>3. CASE w # u
      BY <1>2, <2>1, <2>3
    <2> QED BY <2>2, <2>3
  <1> QED BY <1>1, <1>5, <1>6, <1>7

\* A hook that commits has remembered what it wrote, and the others hear of a key that
\* it published.
LEMMA CommitKeepsKeys ==
  ASSUME KeysInv, NEW u \in Units, NEW h, NEW x, Effect(u, h, x), Commits(u, h, x),
         cut' = IF h = "config-changed" THEN cut \ {u} ELSE cut
  PROVE  KeysInv'
  <1> USE DEF KeysInv
  <1>1. TypeOK'
    BY CommitsTyped DEF Effect, TypeOK
  <1>2. /\ config' = config /\ faults' = faults
        /\ bag' = x.bag
        /\ conf'[u] = x.conf /\ stored'[u] = x.stored
        /\ \A w \in Units \ {u} : conf'[w] = conf[w] /\ stored'[w] = stored[w]
    BY CommitFacts
  <1>3. /\ QueuedAfter(u, h)
        /\ x.bag # bag => \A w \in up \ {u} : "replicas-changed" \in pending'[w]
    BY CommitQueues
  <1>4. /\ View(u).conf = conf[u] /\ View(u).bag = bag /\ View(u).stored = stored[u]
        /\ KeysEffect(h, View(u), x)
    BY ViewFacts DEF Effect
  <1>5. CharmConfig' = CharmConfig
    BY <1>2 DEF CharmConfig
  <1>6. \A k \in Keys : DueKey(View(u), k) = KeyInForce(k)
    BY <1>4, DueIsInForce
  <1>7. \A k \in Keys : DueKey(x, k) = KeyInForce(k)'
    BY <1>2, <1>5 DEF DueKey, KeyInForce
  <1>8. \A k \in Keys : \/ bag'.key[k] = bag.key[k] /\ KeyInForce(k)' = KeyInForce(k)
                        \/ /\ KeyInForce(k) = None /\ bag.key[k] = None
                           /\ bag'.key[k] \in Generated
                           /\ KeyInForce(k)' = bag'.key[k]
    BY <1>1, <1>2, <1>4, <1>5, <1>6, InForceTyped
    DEF KeysEffect, KeyInForce, DueKey
  \* The unit's own keys: the key in force where it was news, else as they were.
  <1>9. \A k \in Keys :
          \/ /\ conf'[u].key[k] = KeyInForce(k)' /\ stored'[u].key[k] = KeyInForce(k)'
             /\ KeyInForce(k)' # None
          \/ conf'[u].key[k] = conf[u].key[k] /\ stored'[u].key[k] = stored[u].key[k]
    BY <1>2, <1>4, <1>7 DEF KeysEffect
  <1>10. \A w \in Units, k \in Keys :
           \/ /\ conf'[w].key[k] = KeyInForce(k)' /\ stored'[w].key[k] = KeyInForce(k)'
              /\ KeyInForce(k)' # None
           \/ conf'[w].key[k] = conf[w].key[k] /\ stored'[w].key[k] = stored[w].key[k]
    BY <1>2, <1>9
  <1>11. StoredFromSources'
    <2>1. \A k \in Keys : KeyInForce(k)' \in Given \cup {None, bag'.key[k]}
      BY <1>1, <1>5, InForceTyped DEF KeyInForce, DueKey
    <2> QED BY <1>8, <1>10, <2>1 DEF StoredFromSources
  <1>12. FirstKeyOnly'
    BY <1>2, <1>8, <1>10 DEF FirstKeyOnly
  <1>13. FileAsStored'
    BY <1>2, <1>10 DEF FileAsStored
  <1>14. NoStaleFile'
    <2> SUFFICES ASSUME faults.crashes = 0 \/ faults.reconfigures < 2,
                        NEW w \in Units, NEW k \in Keys,
                        KeyInForce(k)' # None, stored'[w].key[k] = KeyInForce(k)'
                 PROVE  conf'[w].key[k] = KeyInForce(k)'
      BY <1>2 DEF NoStaleFile
    <2>1. CASE conf'[w].key[k] = conf[w].key[k] /\ stored'[w].key[k] = stored[w].key[k]
      <3>1. KeyInForce(k)' = KeyInForce(k)
        BY <1>8, <2>1, ConstantsAssumption DEF StoredFromSources, Values
      <3> QED BY <2>1, <3>1 DEF NoStaleFile
    <2> QED BY <1>10, <2>1
  <1>15. KeysInSync'
    <2> SUFFICES ASSUME NEW w \in up' \ cut', NEW k \in Keys, KeyInForce(k)' # None,
                        stored'[w].key[k] # KeyInForce(k)'
                 PROVE  pending'[w] \cap SyncHooks # {}
      BY DEF KeysInSync
    <2>1. w \in Units
      BY <1>1 DEF TypeOK
    <2>2. CASE w = u
      <3>1. h \notin {"config-changed", "replicas-changed"}
        BY <1>2, <1>4, <1>7, <2>2 DEF KeysEffect
      <3>2. w \in up \ cut /\ x.bag.key = bag.key /\ stored'[u].key = stored[u].key
        BY <1>2, <1>3, <1>4, <2>2, <3>1 DEF KeysEffect, QueuedAfter
      <3>3. KeyInForce(k)' = KeyInForce(k)
        BY <1>2, <1>5, <3>2 DEF KeyInForce, DueKey
      <3>4. pending[u] \cap SyncHooks # {}
        BY <2>2, <3>2, <3>3 DEF KeysInSync
      <3> QED BY <1>3, <2>2, <3>1, <3>4 DEF QueuedAfter, SyncHooks
    <2>3. CASE w # u
      <3>1. w \in up \ cut /\ stored'[w] = stored[w] /\ pending[w] \subseteq pending'[w]
        BY <1>2, <1>3, <2>1, <2>3 DEF QueuedAfter
      <3>2. CASE KeyInForce(k)' = KeyInForce(k)
        BY <3>1, <3>2 DEF KeysInSync
      <3>3. CASE KeyInForce(k)' # KeyInForce(k)
        <4>1. x.bag # bag
          BY <1>2, <1>5, <3>3 DEF KeyInForce, DueKey
        <4> QED BY <1>3, <2>3, <3>1, <4>1 DEF SyncHooks
      <3> QED BY <3>2, <3>3
    <2> QED BY <2>2, <2>3
  <1> QED BY <1>1, <1>11, <1>12, <1>13, <1>14, <1>15

LEMMA NextKeys == KeysInv /\ [Next]_vars => KeysInv'
  <1> SUFFICES ASSUME KeysInv, [Next]_vars PROVE KeysInv'
    OBVIOUS
  <1>1. CASE UNCHANGED vars
    <2>1. UNCHANGED <<config, pending, up, conf, stored, bag, cut, faults>>
      BY <1>1 DEF vars
    <2>2. TypeOK'
      BY <1>1 DEF vars, TypeOK, KeysInv
    <2>3. \A k \in Keys : KeyInForce(k)' = KeyInForce(k)
      BY <2>1 DEF KeyInForce, DueKey, CharmConfig
    <2> QED BY <2>1, <2>2, <2>3 DEF KeysInv, StoredFromSources, FirstKeyOnly,
                                    FileAsStored, NoStaleFile, KeysInSync
  <1>2. ASSUME NEW u \in Units, NEW h, NEW x, Effect(u, h, x), Ending(u, h, x)
        PROVE  KeysInv'
    BY <1>2, CommitKeepsKeys, CrashKeepsKeys DEF Ending
  <1> QED BY <1>1, <1>2, StepEffect, ConfiguringKeepsKeys, OthersKeepKeys DEF KeysInv

LEMMA KeysAlways == Spec => []KeysInv
  BY InitKeys, NextKeys, PTL DEF Spec

\* Once every hook has run, every unit whose last config-changed went through has the key
\* in force in service.conf, unless the operator has changed the configuration twice
\* around a failed hook (_on_config_changed, _on_replicas_relation_changed).
THEOREM UnitsAgreeOnKeys == Spec => []KeysAgree
  <1>1. KeysInv => KeysAgree
    <2> SUFFICES ASSUME KeysInv, Rest, faults.crashes = 0 \/ faults.reconfigures < 2,
                        NEW u \in up \ cut, NEW k \in Keys, KeyInForce(k) # None
                 PROVE  conf[u].key[k] = KeyInForce(k)
      BY DEF KeysAgree
    <2>1. u \in Units /\ pending[u] = {}
      BY DEF KeysInv, TypeOK, Rest
    <2>2. stored[u].key[k] = KeyInForce(k)
      BY <2>1 DEF KeysInv, KeysInSync
    <2> QED BY <2>1, <2>2 DEF KeysInv, NoStaleFile
  <1> QED BY <1>1, KeysAlways, PTL

--------------------------------------------------------------------------------
(***************************************************************************)
(* What the related charms are told while the first leader leads.          *)
(***************************************************************************)

\* The leader has yet to run config-changed, or its last one returned early.
ConfigOwed == leader \in cut \/ "config-changed" \in pending[leader]

\* The first leader has heard of no other.
OwnAddress ==
  faults.moves = 0 => stored[leader].leaderIp \in {None, leader}

\* What a related charm holds is the hostname it should have, or config-changed will
\* tell it.
HostnamesInv ==
  faults.moves = 0 =>
    \A host \in {debarchive.hostname, taskHost} : host \in {None, HostOf(leader)} \/ ConfigOwed

\* A key that is missing is one that config-changed will generate, unless leadership has
\* moved to a unit that has none left.
KeysExistInv == keyless \/ \A k \in Keys : KeyInForce(k) # None \/ ConfigOwed

\* A charm that is not related is told nothing.
OnlyRelatedTold ==
  /\ "debarchive" \notin Integrations => debarchive.hostname = None /\ debarchive.token = None
  /\ "task-handler" \notin Integrations => taskHost = None

RelatedInv ==
  LeadershipInv /\ OwnAddress /\ HostnamesInv /\ KeysExistInv /\ OnlyRelatedTold

LEMMA InitRelated == Init => RelatedInv
  <1> SUFFICES ASSUME Init PROVE RelatedInv
    OBVIOUS
  <1>1. LeadershipInv /\ leader \in Units
    BY InitLeadership DEF Init
  <1>2. /\ stored[leader].leaderIp = None
        /\ "config-changed" \in pending[leader]
        /\ debarchive.hostname = None /\ debarchive.token = None /\ taskHost = None
    BY <1>1 DEF Init
  <1> QED BY <1>1, <1>2 DEF RelatedInv, OwnAddress, HostnamesInv, KeysExistInv,
                            OnlyRelatedTold, ConfigOwed

\* The environment, early returns and failed hooks tell nobody anything.
LEMMA OthersKeepRelated ==
  ASSUME RelatedInv, LeadershipInv',
         \/ LeadershipMoves \/ OperatorConfigures
         \/ \E u \in Units : ConfigChangedEarlyReturn(u)
         \/ \E u \in Units : \E h, x : Effect(u, h, x) /\ Crashes(u, h, x)
  PROVE  RelatedInv'
  <1> USE DEF RelatedInv
  <1>1. TypeOK /\ leader \in Units
    BY DEF LeadershipInv, TypeOK
  <1>2. UNCHANGED <<stored, bag, debarchive, taskHost>>
    BY DEF LeadershipMoves, OperatorConfigures, ConfigChangedEarlyReturn, Crashes
  <1>3. OnlyRelatedTold'
    BY <1>2 DEF OnlyRelatedTold
  <1>4. CASE LeadershipMoves
    <2>1. faults'.moves # 0
      BY <1>1, <1>4 DEF LeadershipMoves, TypeOK
    <2>2. keyless' \/ ~KeysMissing \/ "config-changed" \in pending'[leader']
      BY <1>4 DEF LeadershipMoves, TypeOK
    <2>3. \A k \in Keys : KeyInForce(k)' = KeyInForce(k)
      BY <1>2, <1>4 DEF LeadershipMoves, KeyInForce, DueKey, CharmConfig
    <2>4. KeysExistInv'
      BY <2>2, <2>3 DEF KeysExistInv, KeysMissing, KeyInForce, DueKey, ConfigOwed
    <2> QED BY <1>3, <2>1, <2>4 DEF OwnAddress, HostnamesInv
  <1>5. CASE OperatorConfigures
    <2>1. /\ leader' = leader /\ faults'.moves = faults.moves
          /\ "config-changed" \in pending'[leader]
      BY <1>1, <1>5 DEF OperatorConfigures, TypeOK
    <2> QED BY <1>2, <1>3, <2>1 DEF OwnAddress, HostnamesInv, KeysExistInv, ConfigOwed
  <1>6. CASE \/ \E u \in Units : ConfigChangedEarlyReturn(u)
             \/ \E u \in Units : \E h, x : Effect(u, h, x) /\ Crashes(u, h, x)
    <2>1. /\ UNCHANGED <<leader, config, keyless>> /\ faults'.moves = faults.moves
          /\ ConfigOwed => ConfigOwed'
      <3>1. CASE \E u \in Units : ConfigChangedEarlyReturn(u)
        <4>1. PICK u \in Units : ConfigChangedEarlyReturn(u)
          BY <3>1
        <4>2. QueuedAfter(u, "config-changed")
          BY <1>1, <4>1, EarlyReturnQueues
        <4>3. UNCHANGED <<leader, config, keyless>> /\ faults'.moves = faults.moves
              /\ cut' = cut \cup {u}
          BY <1>1, <4>1 DEF ConfigChangedEarlyReturn, TypeOK
        <4> QED BY <1>1, <4>2, <4>3 DEF ConfigOwed, QueuedAfter
      <3>2. CASE \E u \in Units : \E h, x : Effect(u, h, x) /\ Crashes(u, h, x)
        BY <1>1, <3>2 DEF ConfigOwed, Crashes, TypeOK
      <3> QED BY <1>6, <3>1, <3>2
    <2>2. /\ \A k \in Keys : KeyInForce(k)' = KeyInForce(k)
          /\ HostOf(leader)' = HostOf(leader)
      BY <1>2, <2>1 DEF KeyInForce, DueKey, HostOf, CharmConfig
    <2> QED BY <1>2, <1>3, <2>1, <2>2 DEF OwnAddress, HostnamesInv, KeysExistInv
  <1> QED BY <1>4, <1>5, <1>6

\* The leader's config-changed tells the related charms; other hooks tell them nothing
\* else.
LEMMA CommitKeepsRelated ==
  ASSUME RelatedInv, LeadershipInv', NEW u \in Units, NEW h, NEW x,
         Effect(u, h, x), Commits(u, h, x),
         cut' = IF h = "config-changed" THEN cut \ {u} ELSE cut
  PROVE  RelatedInv'
  <1> USE DEF RelatedInv
  <1>1. TypeOK /\ leader \in Units
    BY DEF LeadershipInv, TypeOK
  <1>2. /\ UNCHANGED <<leader, config, faults>>
        /\ bag' = x.bag /\ stored'[u] = x.stored
        /\ \A w \in Units \ {u} : stored'[w] = stored[w]
        /\ debarchive' = x.debarchive /\ taskHost' = x.taskHost
        /\ keyless' = (keyless /\ ~(h = "config-changed" /\ u = leader))
    BY <1>1, CommitFacts DEF Commits
  <1>3. /\ View(u).isLeader <=> u = leader
        /\ View(u).bag = bag /\ View(u).stored = stored[u]
        /\ View(u).debarchive = debarchive /\ View(u).taskHost = taskHost
        /\ KeysEffect(h, View(u), x) /\ RelatedEffect(u, h, View(u), x)
    BY <1>1, ViewFacts DEF Effect, View
  <1>4. QueuedAfter(u, h)
    BY <1>1, CommitQueues
  <1>5. CharmConfig' = CharmConfig /\ HostOf(leader)' = HostOf(leader)
    BY <1>2 DEF CharmConfig, HostOf
  <1>6. ConfigOwed => ConfigOwed' \/ (u = leader /\ h = "config-changed")
    BY <1>1, <1>2, <1>4 DEF ConfigOwed, QueuedAfter
  <1>7. faults.moves = 0 => bag.leaderIp \in {None, leader}
    BY DEF LeadershipInv, SearchInv
  <1>8. CASE u = leader
    <2>1. ASSUME faults.moves = 0
          PROVE  /\ stored'[leader].leaderIp \in {None, leader}
                 /\ debarchive'.hostname \in {debarchive.hostname, HostOf(leader)}
                 /\ taskHost' \in {taskHost, HostOf(leader)}
                 /\ h = "config-changed" =>
                      /\ "debarchive" \in Integrations => debarchive'.hostname = HostOf(leader)
                      /\ "task-handler" \in Integrations => taskHost' = HostOf(leader)
      BY <1>2, <1>3, <1>7, <1>8, <2>1 DEF RelatedEffect, OwnAddress
    <2>2. OwnAddress'
      BY <1>2, <2>1 DEF OwnAddress
    <2>3. OnlyRelatedTold'
      BY <1>2, <1>3 DEF OnlyRelatedTold, RelatedEffect
    <2>4. HostnamesInv'
      <3> SUFFICES ASSUME faults.moves = 0, ~ConfigOwed'
                   PROVE  \A host \in {debarchive'.hostname, taskHost'} :
                            host \in {None, HostOf(leader)}
        BY <1>2, <1>5 DEF HostnamesInv
      <3>1. CASE h = "config-changed"
        BY <2>1, <2>3, <3>1 DEF OnlyRelatedTold
      <3>2. CASE h # "config-changed"
        BY <1>6, <2>1, <3>2 DEF HostnamesInv
      <3> QED BY <3>1, <3>2
    <2>5. KeysExistInv'
      <3> SUFFICES ASSUME ~keyless', ~ConfigOwed', NEW k \in Keys
                   PROVE  KeyInForce(k)' # None
        BY <1>2 DEF KeysExistInv
      <3>1. DueKey(x, k) = KeyInForce(k)'
        BY <1>2, <1>5 DEF DueKey, KeyInForce
      <3>2. CASE h = "config-changed"
        BY <1>3, <1>8, <3>1, <3>2 DEF KeysEffect
      <3>3. CASE h # "config-changed"
        <4>1. bag'.key = bag.key
          BY <1>2, <1>3, <3>3 DEF KeysEffect
        <4>2. KeyInForce(k)' = KeyInForce(k)
          BY <1>5, <4>1 DEF KeyInForce, DueKey
        <4> QED BY <1>2, <1>6, <3>3, <4>2 DEF KeysExistInv
      <3> QED BY <3>2, <3>3
    <2> QED BY <2>2, <2>3, <2>4, <2>5
  <1>9. CASE u # leader
    <2>1. /\ UNCHANGED <<debarchive, taskHost>> /\ bag'.key = bag.key
          /\ stored'[leader] = stored[leader]
      BY <1>1, <1>2, <1>3, <1>9 DEF RelatedEffect, KeysEffect
    <2>2. \A k \in Keys : KeyInForce(k)' = KeyInForce(k)
      BY <1>5, <2>1 DEF KeyInForce, DueKey
    <2>3. ConfigOwed => ConfigOwed'
      BY <1>6, <1>9
    <2>4. keyless' = keyless
      BY <1>2, <1>9 DEF LeadershipInv, TypeOK
    <2> QED BY <1>2, <1>5, <2>1, <2>2, <2>3, <2>4
            DEF OwnAddress, HostnamesInv, KeysExistInv, OnlyRelatedTold
  <1> QED BY <1>8, <1>9

LEMMA NextRelated == RelatedInv /\ [Next]_vars => RelatedInv'
  <1> SUFFICES ASSUME RelatedInv, [Next]_vars PROVE RelatedInv'
    OBVIOUS
  <1>1. TypeOK /\ LeadershipInv'
    BY NextLeadership DEF RelatedInv, LeadershipInv
  <1>2. CASE UNCHANGED vars
    BY <1>1, <1>2 DEF vars, RelatedInv, OwnAddress, HostnamesInv, KeysExistInv,
                      OnlyRelatedTold, ConfigOwed, KeyInForce, DueKey, HostOf, CharmConfig
  <1>3. ASSUME NEW u \in Units, NEW h, NEW x, Effect(u, h, x), Ending(u, h, x)
        PROVE  RelatedInv'
    BY <1>1, <1>3, CommitKeepsRelated, OthersKeepRelated DEF Ending
  <1> QED BY <1>1, <1>2, <1>3, StepEffect, OthersKeepRelated

LEMMA RelatedAlways == Spec => []RelatedInv
  BY InitRelated, NextRelated, PTL DEF Spec

\* Once every hook has run, both keys exist, of any number of units and wherever
\* leadership went, unless a config-changed returned early or the leader was elected,
\* without keys, after its own config-changed (_on_config_changed).
THEOREM KeysExist == Spec => []KeyExists
  <1>1. RelatedInv => KeyExists
    <2> SUFFICES ASSUME RelatedInv, Rest, cut = {}, ~keyless, NEW k \in Keys
                 PROVE  KeyInForce(k) # None
      BY DEF KeyExists, KeysMissing, KeyInForce, DueKey
    <2> QED BY DEF RelatedInv, LeadershipInv, TypeOK, KeysExistInv, ConfigOwed, Rest
  <1> QED BY <1>1, RelatedAlways, PTL

\* While the first leader leads, of any number of units: once every hook has run, the
\* related charms hold the host of root_url or else the leader's address
\* (_landscape_hostname).
THEOREM FirstLeadersHostname == Spec => [](faults.moves = 0 => HostnameIsLeaders)
  <1>1. RelatedInv => (faults.moves = 0 => HostnameIsLeaders)
    BY DEF RelatedInv, LeadershipInv, TypeOK, HostnamesInv, ConfigOwed, HostOf,
           HostnameIsLeaders, Rest
  <1> QED BY <1>1, RelatedAlways, PTL

--------------------------------------------------------------------------------
(***************************************************************************)
(* The token that the debarchive charm of a single unit has.               *)
(***************************************************************************)

\* Whether the unit alone has stored the token is what decides if debarchive is told.
TokenInForce == KeyInForce("secret-token")

\* A single unit has no peer events, and the related charm has the token in force
\* unless StoredState has yet to see that token.
TokenInv ==
  Units = {leader} =>
    /\ faults.moves = 0 /\ ~keyless
    /\ pending[leader] \cap Hearing = {}
    /\ faults.reconfigures = 0 => debarchive.token \in {None, TokenInForce}
    /\ faults.reconfigures < 2 =>
         \/ debarchive.token \in {None, TokenInForce}
         \/ TokenInForce = None
         \/ stored[leader].key["secret-token"] # TokenInForce

AloneInv == RelatedInv /\ KeysInv /\ TokenInv

LEMMA InitAlone == Init => AloneInv
  <1> SUFFICES ASSUME Init PROVE AloneInv
    OBVIOUS
  <1>1. RelatedInv /\ KeysInv /\ leader \in Units
    BY InitRelated, InitKeys DEF Init
  <1>2. /\ debarchive.token = None /\ faults.moves = 0 /\ ~keyless
        /\ pending[leader] \cap Hearing = {}
    BY <1>1 DEF Init, Hearing
  <1> QED BY <1>1, <1>2 DEF AloneInv, TokenInv

\* Nobody tells a unit on its own of anything.
LEMMA AloneHearsNothing ==
  ASSUME TypeOK, NEW u \in Units, Units = {u},
         pending[u] \cap Hearing = {}, NEW h \in pending[u], NEW told,
         told = {} \/ \E x : told = Notified(u, x),
         pending' = Enqueue(u, h, told)
  PROVE  pending'[u] \cap Hearing = {}
  <1>1. up \subseteq {u}
    BY DEF TypeOK
  <1>2. u \notin told
    BY DEF Notified
  <1>3. h \notin Hearing
    OBVIOUS
  <1>4. FollowUps(u, h) \cap Hearing = {}
    BY <1>1, <1>3, ConstantsAssumption DEF FollowUps, Hearing
  <1>5. u \notin Entering(u, h)
    BY <1>1 DEF Entering
  <1>6. pending'[u] = ((pending[u] \ {h}) \cup FollowUps(u, h))
                        \cup (IF u \in Entering(u, h) THEN {"replicas-joined"} ELSE {})
                        \cup (IF u \in told THEN {"replicas-changed"} ELSE {})
    BY DEF Enqueue
  <1> QED BY <1>2, <1>4, <1>5, <1>6

LEMMA OthersKeepAlone ==
  ASSUME AloneInv, RelatedInv', KeysInv',
         \/ LeadershipMoves \/ OperatorConfigures
         \/ \E u \in Units : ConfigChangedEarlyReturn(u)
         \/ \E u \in Units : \E h, x : Effect(u, h, x) /\ Crashes(u, h, x)
  PROVE  TokenInv'
  <1> USE DEF AloneInv
  <1>1. TypeOK /\ leader \in Units
    BY DEF KeysInv, TypeOK
  <1>2. UNCHANGED <<stored, bag, debarchive>>
    BY DEF LeadershipMoves, OperatorConfigures, ConfigChangedEarlyReturn, Crashes
  <1> SUFFICES ASSUME Units = {leader'} PROVE TokenInv'
    BY DEF TokenInv
  <1>3. leader' = leader
    BY <1>1
  <1>4. /\ faults.moves = 0 /\ ~keyless /\ pending[leader] \cap Hearing = {}
        /\ faults.reconfigures = 0 => debarchive.token \in {None, TokenInForce}
        /\ faults.reconfigures < 2 =>
             \/ debarchive.token \in {None, TokenInForce}
             \/ TokenInForce = None
             \/ stored[leader].key["secret-token"] # TokenInForce
    BY <1>3 DEF TokenInv
  <1>5. CASE LeadershipMoves
    BY <1>3, <1>5 DEF LeadershipMoves
  <1>6. CASE OperatorConfigures
    <2>1. /\ faults'.moves = 0 /\ ~keyless' /\ pending'[leader] \cap Hearing = {}
          /\ faults'.reconfigures = faults.reconfigures + 1 /\ faults.reconfigures \in Nat
      BY <1>1, <1>4, <1>6 DEF OperatorConfigures, Hearing, TypeOK
    <2>2. faults.reconfigures = 0 => stored[leader].key["secret-token"] \in {None, TokenInForce}
      BY <1>1 DEF KeysInv, FirstKeyOnly, TokenInForce, Keys
    <2> QED BY <1>2, <1>3, <1>4, <2>1, <2>2 DEF TokenInv
  <1>7. CASE \/ \E u \in Units : ConfigChangedEarlyReturn(u)
             \/ \E u \in Units : \E h, x : Effect(u, h, x) /\ Crashes(u, h, x)
    <2>1. /\ config' = config /\ keyless' = keyless
          /\ faults'.moves = faults.moves /\ faults'.reconfigures = faults.reconfigures
      BY <1>1, <1>7 DEF ConfigChangedEarlyReturn, Crashes, TypeOK
    <2>2. TokenInForce' = TokenInForce
      BY <1>2, <2>1 DEF TokenInForce, KeyInForce, DueKey, CharmConfig
    <2>3. pending'[leader] \cap Hearing = {}
      <3>1. CASE \E u \in Units : ConfigChangedEarlyReturn(u)
        <4>1. ConfigChangedEarlyReturn(leader)
          BY <1>3, <3>1
        <4> QED BY <1>1, <1>3, <1>4, <4>1, AloneHearsNothing DEF ConfigChangedEarlyReturn
      <3>2. CASE \E u \in Units : \E h, x : Effect(u, h, x) /\ Crashes(u, h, x)
        BY <1>4, <3>2 DEF Crashes
      <3> QED BY <1>7, <3>1, <3>2
    <2> QED BY <1>2, <1>3, <1>4, <2>1, <2>2, <2>3 DEF TokenInv
  <1> QED BY <1>5, <1>6, <1>7

LEMMA CommitKeepsAlone ==
  ASSUME AloneInv, RelatedInv', KeysInv', NEW u \in Units, NEW h, NEW x,
         Effect(u, h, x), Commits(u, h, x)
  PROVE  TokenInv'
  <1> USE DEF AloneInv
  <1> DEFINE tok == "secret-token"
  <1>1. TypeOK /\ tok \in Keys
    BY DEF KeysInv, TypeOK, Keys
  <1>2. /\ UNCHANGED <<leader, config, faults>>
        /\ bag' = x.bag /\ stored'[u] = x.stored /\ debarchive' = x.debarchive
        /\ pending' = Enqueue(u, h, Notified(u, x))
        /\ ~keyless => ~keyless'
    BY <1>1, CommitFacts DEF Commits
  <1> SUFFICES ASSUME Units = {leader} PROVE TokenInv'
    BY <1>2 DEF TokenInv
  <1>3. u = leader
    OBVIOUS
  <1>4. /\ View(u).isLeader
        /\ View(u).bag = bag /\ View(u).stored = stored[u]
        /\ View(u).debarchive = debarchive
        /\ KeysEffect(h, View(u), x) /\ RelatedEffect(u, h, View(u), x)
        /\ h \in pending[u]
    BY <1>1, <1>3, ViewFacts DEF Effect, View
  <1>5. /\ faults.moves = 0 /\ ~keyless /\ pending[leader] \cap Hearing = {}
        /\ faults.reconfigures = 0 => debarchive.token \in {None, TokenInForce}
        /\ faults.reconfigures < 2 =>
             \/ debarchive.token \in {None, TokenInForce}
             \/ TokenInForce = None
             \/ stored[leader].key[tok] # TokenInForce
    BY DEF TokenInv
  <1>6. pending'[leader] \cap Hearing = {}
    BY <1>1, <1>2, <1>3, <1>4, <1>5, AloneHearsNothing
  <1>7. h # "replicas-changed"
    BY <1>3, <1>4, <1>5 DEF Hearing
  <1>8. /\ DueKey(x, tok) = TokenInForce'
        /\ DueKey(View(u), tok) = TokenInForce
    BY <1>2, <1>4 DEF DueKey, TokenInForce, KeyInForce, CharmConfig
  <1>9. /\ debarchive'.token \in {debarchive.token, TokenInForce'}
        /\ h = "config-changed" /\ "debarchive" \in Integrations
           /\ TokenInForce' \notin {None, stored[u].key[tok]} =>
             debarchive'.token = TokenInForce'
    BY <1>2, <1>4, <1>8 DEF RelatedEffect
  <1>10. "debarchive" \notin Integrations => debarchive'.token = None
    BY DEF RelatedInv, OnlyRelatedTold
  <1>11. CASE h = "config-changed"
    <2>1. IF TokenInForce' \notin {None, stored[u].key[tok]}
          THEN stored'[u].key[tok] = TokenInForce'
          ELSE stored'[u].key[tok] = stored[u].key[tok]
      BY <1>1, <1>2, <1>4, <1>8, <1>11 DEF KeysEffect
    <2>2. \/ TokenInForce' = TokenInForce
          \/ /\ TokenInForce = None /\ TokenInForce' # None
             /\ TokenInForce' # stored[u].key[tok]
      <3>1. CASE bag'.key[tok] = bag.key[tok]
        BY <1>2, <3>1 DEF TokenInForce, KeyInForce, DueKey, CharmConfig
      <3>2. CASE bag'.key[tok] # bag.key[tok]
        <4>1. TokenInForce = None /\ bag'.key[tok] \in Generated
          BY <1>1, <1>2, <1>4, <1>8, <3>2 DEF KeysEffect
        <4>2. CharmConfig.key[tok] = None /\ bag.key[tok] = None
          BY <4>1 DEF TokenInForce, KeyInForce, DueKey
        <4>3. TokenInForce' = bag'.key[tok]
          BY <1>2, <4>2 DEF TokenInForce, KeyInForce, DueKey, CharmConfig
        <4>4. stored[u].key[tok] \in Given \cup {None}
          BY <1>1, <4>2 DEF KeysInv, StoredFromSources
        <4> QED BY <4>1, <4>3, <4>4, ConstantsAssumption DEF Values
      <3> QED BY <3>1, <3>2
    <2> QED BY <1>2, <1>3, <1>5, <1>6, <1>9, <1>10, <1>11, <2>1, <2>2 DEF TokenInv
  <1>12. CASE h # "config-changed"
    <2>1. bag'.key = bag.key /\ stored'[u].key = stored[u].key
      BY <1>2, <1>4, <1>7, <1>12 DEF KeysEffect
    <2>2. TokenInForce' = TokenInForce
      BY <1>2, <2>1 DEF TokenInForce, KeyInForce, DueKey, CharmConfig
    <2> QED BY <1>2, <1>3, <1>5, <1>6, <1>9, <2>1, <2>2 DEF TokenInv
  <1> QED BY <1>11, <1>12

LEMMA NextAlone == AloneInv /\ [Next]_vars => AloneInv'
  <1> SUFFICES ASSUME AloneInv, [Next]_vars PROVE TokenInv'
    BY NextRelated, NextKeys DEF AloneInv
  <1>1. TypeOK /\ RelatedInv' /\ KeysInv'
    BY NextRelated, NextKeys DEF AloneInv, KeysInv
  <1>2. CASE UNCHANGED vars
    BY <1>2 DEF vars, AloneInv, TokenInv, TokenInForce, KeyInForce, DueKey, CharmConfig
  <1>3. ASSUME NEW u \in Units, NEW h, NEW x, Effect(u, h, x), Ending(u, h, x)
        PROVE  TokenInv'
    BY <1>1, <1>3, CommitKeepsAlone, OthersKeepAlone DEF Ending
  <1> QED BY <1>1, <1>2, <1>3, StepEffect, OthersKeepAlone

\* Once every hook has run, the debarchive charm of a single unit has the token in force,
\* if the operator has changed the configuration at most once
\* (_update_debarchive_relations).
THEOREM TokenReachesDebarchive == Spec => []DebarchiveHasToken
  <1>1. Spec => []AloneInv
    BY InitAlone, NextAlone, PTL DEF Spec
  <1>2. AloneInv => DebarchiveHasToken
    <2> SUFFICES ASSUME AloneInv, Rest, cut = {}, Units = {leader},
                        faults.reconfigures < 2
                 PROVE  debarchive.token \in {None, TokenInForce}
      BY DEF DebarchiveHasToken, TokenInForce
    <2>1. "secret-token" \in Keys /\ leader \in up /\ pending[leader] = {}
      BY DEF AloneInv, RelatedInv, LeadershipInv, Entered, Keys, Rest
    <2>2. TokenInForce # None
      BY <2>1 DEF AloneInv, RelatedInv, KeysExistInv, TokenInv, ConfigOwed, TokenInForce
    <2>3. stored[leader].key["secret-token"] = TokenInForce
      BY <2>1, <2>2 DEF AloneInv, KeysInv, KeysInSync, TokenInForce
    <2> QED BY <2>2, <2>3 DEF AloneInv, TokenInv
  <1> QED BY <1>1, <1>2, PTL
================================================================================
