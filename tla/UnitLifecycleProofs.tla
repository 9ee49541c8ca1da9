-------------------------- MODULE UnitLifecycleProofs --------------------------
(***************************************************************************)
(* Proofs about UnitLifecycle, for every set of configurations.            *)
(***************************************************************************)
EXTENDS UnitLifecycle, TLAPS

(***************************************************************************)
(* The inductive invariant behind the properties, in named parts.          *)
(***************************************************************************)

\* Services are started only from a copy that is ready and not paused.
StartInv == step = "start" => AllReady(cur) /\ ~cur.paused

\* The hooks that look at the relations again, or leave Active, whenever they
\* return: running one of them again repairs a status set by a run that died.
Reevaluates(h) ==
  \/ h.name \in {"install", "config-changed", "start", "update-status", "db-changed",
                 "database-changed", "amqp-joined", "website-joined",
                 "leader-elected", "replicas-changed"}
  \/ h.name = "amqp-changed" /\ h.data
  \/ h.name = "website-changed" /\ h.data /\ ~CharmConfig.cert
  \/ h.name = "secret-changed" /\ h.data /\ CharmConfig.gpg

\* The configuration changed, and the running hook is not the one that acts on it.
Outdated == configDirty /\ hook.name # "config-changed"

IdleInv ==
  step = "idle" /\ ~configDirty /\ status = "active"
    => Serviceable(stored) \/ withdrawn \/ (retry # NoHook /\ Reevaluates(retry))

\* A hook that dies with the unit Active is one that repairs it, or has not
\* touched what Active rests on.
RunningInv ==
  step # "idle" /\ ~configDirty /\ status = "active" /\ hook.name \notin Actions
    => Serviceable(stored) \/ withdrawn \/ Reevaluates(hook)

BodyInv ==
  step = "body" => /\ cur = stored
                   /\ (hook.name \in Actions /\ ~configDirty /\ status = "active"
                         => Serviceable(cur) \/ withdrawn)

\* In the middle of a handler: which steps follow a status other than Active,
\* and which handlers get to them.
MidInv ==
  /\ step \in {"account", "migrate", "grant", "wsl", "start"} => status # "active"
  /\ step \in {"account", "migrate", "grant", "wsl", "gpg"} => Reevaluates(hook)
  /\ step = "gpg" /\ status = "active" => CharmConfig.gpg
  /\ step \in {"ready", "start", "token"} /\ hook.name \notin Actions => Reevaluates(hook)
  /\ step \in {"upgrading", "migrating"}
       => /\ status # "active" /\ hook.name \in Actions
          /\ (~configDirty /\ prev = "active" => Serviceable(cur) \/ withdrawn)

DoneInv ==
  step \in {"token", "done"} /\ ~Outdated /\ status = "active"
    => Serviceable(cur) \/ withdrawn

IInv == /\ TypeOK
        /\ NeverRunningAndPaused
        /\ StartInv
        /\ IdleInv
        /\ RunningInv
        /\ BodyInv
        /\ MidInv
        /\ DoneInv

--------------------------------------------------------------------------------

(***************************************************************************)
(* Type correctness.  The first lemmas say what the shared parts of the    *)
(* handlers keep; the step lemma has one case per action.                  *)
(***************************************************************************)

StepType == step \in Steps /\ call \in Calls /\ prev \in Statuses

LEMMA GotoType == ASSUME TypeOK, NEW s \in Steps, Goto(s) PROVE StepType'
  BY DEF TypeOK, StepType, Goto

LEMMA CallReadyType ==
  ASSUME TypeOK, NEW r \in BOOLEAN, NEW t \in {"done", "token"}, CallReady(r, t)
  PROVE  StepType'
  BY DEF TypeOK, StepType, CallReady, Steps, Calls

\* The history variable stays a Boolean in every step.
LEMMA WithdrawnType == TypeOK /\ [Next]_vars => withdrawn' \in BOOLEAN
  BY DEF TypeOK, Next, HookStep, Handlers, vars, Within, Abandon,
     LeadershipMoves, OperatorConfigures, Begin, Commit, HookKilled, UpdateReadyStatus,
     StartServices, Install, ConfigChanged, PgHbaNotReady, BootstrapAccount, ConfigureGpg,
     SecretChanged, DbRelationChanged, DatabaseRelationChanged, MigrateSchemaBootstrap,
     GrantRole, UpdateWslDistributions, AmqpRelationJoined, AmqpRelationChanged,
     WebsiteRelationJoined, WebsiteRelationChanged, SmtpDataAvailable, Certificates,
     TaskHandler, UpdateStatus, OtherHook, LeaderElected, ReplicasRelationChanged,
     ReplicasToken, Pause, Resume, Upgrade, UpgradePackages, MigrateSchema, RunSchemaScript

\* _sync_grpc_tls changes nothing but whether the gRPC services run.
LEMMA SyncGrpcTlsType ==
  ASSUME TypeOK, SyncGrpcTls PROVE services' \in ServicesType /\ services'.main = services.main
  BY DEF TypeOK, SyncGrpcTls, ServicesType

LEMMA WithinType ==
  ASSUME TypeOK, Within, StepType', cur' \in StoredType, status' \in Statuses,
         services' \in ServicesType
  PROVE  TypeOK'
  BY DEF TypeOK, StepType, Within, ServicesType

LEMMA AbandonType ==
  ASSUME TypeOK, Abandon, status' \in Statuses, services' \in ServicesType
  PROVE  TypeOK'
  BY DEF TypeOK, Abandon, Steps, Calls, NoCall

LEMMA DbIsReadyType == ASSUME TypeOK, NEW b \in BOOLEAN, DbIsReady(b) PROVE cur' \in StoredType
<1>1. CASE b
  BY <1>1 DEF TypeOK, DbIsReady, StoredType, Relations
<1>2. CASE ~b
  BY <1>2 DEF TypeOK, DbIsReady, StoredType, Relations
<1> QED
  BY <1>1, <1>2

LEMMA DatabaseSetUpType ==
  ASSUME TypeOK, DatabaseSetUp
  PROVE  StepType' /\ cur' \in StoredType /\ status' \in Statuses
<1>1. cur' \in StoredType
  BY DbIsReadyType DEF DatabaseSetUp
<1>2. CASE hook.name = "config-changed"
  BY <1>1, <1>2, GotoType DEF DatabaseSetUp, Steps, Statuses
<1>3. CASE hook.name # "config-changed"
  BY <1>1, <1>3, CallReadyType DEF DatabaseSetUp, Statuses
<1> QED
  BY <1>2, <1>3

LEMMA TypeStep == TypeOK /\ [Next]_vars => TypeOK'
<1> SUFFICES ASSUME TypeOK, [Next]_vars PROVE TypeOK'
  OBVIOUS
<1>0. withdrawn' \in BOOLEAN
  BY WithdrawnType
<1> USE <1>0
<1> USE DEF TypeOK, ServicesType
<1>1. CASE LeadershipMoves
  BY <1>1 DEF LeadershipMoves
<1>2. CASE OperatorConfigures
  BY <1>2, ConfigsAssumption DEF OperatorConfigures
<1>3. ASSUME NEW h \in Hooks, Begin(h) PROVE TypeOK'
  BY <1>3 DEF Begin, Steps, Statuses
<1>4. CASE Commit
  BY <1>4 DEF Commit, Phases, Calls, NoCall, Steps, Statuses
<1>5. CASE HookKilled
  BY <1>5, AbandonType DEF HookKilled
<1>6. CASE UpdateReadyStatus
  BY <1>6 DEF UpdateReadyStatus, LeaveStatus, ReportWaiting, ReportActive, ReportStopped, GoStartServices, Within, Goto, Statuses, Steps, Calls
<1>7. CASE StartServices
  <2>1. StepType'
    <3>1. call.then \in Steps
      BY DEF Calls, Steps
    <3> QED
      BY <1>7, <3>1, GotoType DEF StartServices
  <2>2. cur' \in StoredType
    <3>1. \A b \in BOOLEAN : [cur EXCEPT !.running = b] \in StoredType
      BY DEF StoredType
    <3> QED
      BY <1>7, <3>1 DEF StartServices
  <2>3. services' \in ServicesType
    <3>1. [main : {TRUE}, grpc : BOOLEAN] \subseteq ServicesType
      OBVIOUS
    <3> QED
      BY <1>7, <3>1 DEF StartServices
  <2>4. status' \in Statuses
    BY <1>7 DEF StartServices, Statuses
  <2> QED
    BY <1>7, <2>1, <2>2, <2>3, <2>4, WithinType DEF StartServices
<1>8. CASE Install
  <2>1. status' \in Statuses
    BY <1>8 DEF Install, Statuses
  <2>2. CASE Abandon
    BY <1>8, <2>1, <2>2, AbandonType DEF Install
  <2>3. CASE Within /\ Goto("gpg") /\ UNCHANGED cur
    BY <1>8, <2>1, <2>3, GotoType, WithinType DEF Install, Steps
  <2> QED
    BY <1>8, <2>2, <2>3 DEF Install
<1>9. CASE ConfigChanged
  <2>1. status' \in Statuses
    BY <1>9 DEF ConfigChanged, Statuses
  <2>2. services' \in ServicesType
    BY <1>9, SyncGrpcTlsType DEF ConfigChanged
  <2>3. CASE Abandon
    BY <2>1, <2>2, <2>3, AbandonType
  <2>4. CASE Within /\ UNCHANGED cur /\ \E s \in Steps : Goto(s)
    BY <2>1, <2>2, <2>4, GotoType, WithinType
  <2> QED
    BY <1>9, <2>3, <2>4 DEF ConfigChanged, Steps
<1>10. CASE PgHbaNotReady
  BY <1>10, AbandonType DEF PgHbaNotReady
<1>11. CASE BootstrapAccount
  BY <1>11 DEF BootstrapAccount, Within, Goto, CallReady, In, StoredType, Relations, Statuses, Steps, Calls
<1>12. CASE ConfigureGpg
  <2>1. status' \in Statuses
    BY <1>12 DEF ConfigureGpg, Statuses
  <2>2. StepType'
    BY <1>12, GotoType, CallReadyType DEF ConfigureGpg, Steps
  <2> QED
    BY <1>12, <2>1, <2>2, WithinType DEF ConfigureGpg
<1>13. CASE SecretChanged
  BY <1>13 DEF SecretChanged, Within, Goto, CallReady, In, StoredType, Relations, Statuses, Steps, Calls
<1>14. CASE DbRelationChanged
  <2>1. status' \in Statuses
    BY <1>14 DEF DbRelationChanged, Statuses
  <2>2. StepType'
    BY <1>14, GotoType, CallReadyType DEF DbRelationChanged, Steps
  <2>3. cur' \in StoredType
    BY <1>14, DbIsReadyType DEF DbRelationChanged
  <2> QED
    BY <1>14, <2>1, <2>2, <2>3, WithinType DEF DbRelationChanged
<1>15. CASE DatabaseRelationChanged
  <2>1. status' \in Statuses
    BY <1>15 DEF DatabaseRelationChanged, Statuses
  <2>2. StepType'
    BY <1>15, GotoType, CallReadyType DEF DatabaseRelationChanged, Steps
  <2>3. cur' \in StoredType
    BY <1>15, DbIsReadyType DEF DatabaseRelationChanged
  <2> QED
    BY <1>15, <2>1, <2>2, <2>3, WithinType DEF DatabaseRelationChanged
<1>16. CASE MigrateSchemaBootstrap
  <2>1. CASE DatabaseSetUp
    BY <1>16, <2>1, DatabaseSetUpType, WithinType DEF MigrateSchemaBootstrap
  <2>2. CASE (\E s \in Steps : Goto(s)) /\ UNCHANGED cur /\ status' \in Statuses
    BY <1>16, <2>2, GotoType, WithinType DEF MigrateSchemaBootstrap
  <2> QED
    BY <1>16, <2>1, <2>2 DEF MigrateSchemaBootstrap, Steps, Statuses
<1>17. CASE GrantRole
  <2>1. CASE Abandon
    BY <1>17, <2>1, AbandonType DEF GrantRole
  <2>2. CASE Within /\ Goto("wsl") /\ UNCHANGED cur
    BY <1>17, <2>2, GotoType, WithinType DEF GrantRole, Steps
  <2> QED
    BY <1>17, <2>1, <2>2 DEF GrantRole
<1>18. CASE UpdateWslDistributions
  <2>1. CASE DatabaseSetUp
    BY <1>18, <2>1, DatabaseSetUpType, WithinType DEF UpdateWslDistributions
  <2>2. CASE Goto("done") /\ UNCHANGED <<cur, status>>
    BY <1>18, <2>2, GotoType, WithinType DEF UpdateWslDistributions, Steps
  <2> QED
    BY <1>18, <2>1, <2>2 DEF UpdateWslDistributions
<1>19. CASE AmqpRelationJoined
  BY <1>19 DEF AmqpRelationJoined, Within, Goto, CallReady, In, StoredType, Relations, Statuses, Steps, Calls
<1>20. CASE AmqpRelationChanged
  <2>1. cur' \in StoredType
    <3>1. CASE hook.data
      <4>1. hook.rel \in Relations
        BY <1>20, <3>1 DEF AmqpRelationChanged, In, Hooks, NoHook, Hook, PlainHooks,
                          DataHooks, Relations
      <4> QED
        BY <1>20, <3>1, <4>1 DEF AmqpRelationChanged, StoredType
    <3>2. CASE ~hook.data
      BY <1>20, <3>2 DEF AmqpRelationChanged
    <3> QED
      BY <3>1, <3>2
  <2>2. status' \in Statuses
    BY <1>20 DEF AmqpRelationChanged, Statuses
  <2>3. StepType'
    BY <1>20, GotoType, CallReadyType DEF AmqpRelationChanged, Steps
  <2> QED
    BY <1>20, <2>1, <2>2, <2>3, WithinType DEF AmqpRelationChanged
<1>21. CASE WebsiteRelationJoined
  BY <1>21 DEF WebsiteRelationJoined, Within, Goto, CallReady, In, StoredType, Relations, Statuses, Steps, Calls
<1>22. CASE WebsiteRelationChanged
  <2>1. status' \in Statuses
    BY <1>22 DEF WebsiteRelationChanged, Statuses
  <2>2. StepType'
    BY <1>22, GotoType, CallReadyType DEF WebsiteRelationChanged, Steps
  <2> QED
    BY <1>22, <2>1, <2>2, WithinType DEF WebsiteRelationChanged
<1>23. CASE SmtpDataAvailable
  <2>1. status' \in Statuses
    BY <1>23 DEF SmtpDataAvailable, Statuses
  <2>2. CASE Abandon
    BY <1>23, <2>1, <2>2, AbandonType DEF SmtpDataAvailable
  <2>3. CASE Within /\ Goto("done") /\ UNCHANGED cur
    BY <1>23, <2>1, <2>3, GotoType, WithinType DEF SmtpDataAvailable, Steps
  <2> QED
    BY <1>23, <2>2, <2>3 DEF SmtpDataAvailable
<1>24. CASE Certificates
  BY <1>24, SyncGrpcTlsType, GotoType, WithinType DEF Certificates, Statuses, Steps
<1>37. CASE TaskHandler
  BY <1>37 DEF TaskHandler, Within, Goto, Statuses, Steps
<1>25. CASE UpdateStatus
  BY <1>25 DEF UpdateStatus, Within, Goto, CallReady, In, StoredType, Relations, Statuses, Steps, Calls
<1>26. CASE OtherHook
  BY <1>26 DEF OtherHook, Within, Goto, CallReady, In, StoredType, Relations, Statuses, Steps, Calls
<1>27. CASE LeaderElected
  BY <1>27 DEF LeaderElected, LeaderChanged, Within, Goto, CallReady, In, StoredType, Relations, Statuses, Steps, Calls
<1>28. CASE ReplicasRelationChanged
  BY <1>28 DEF ReplicasRelationChanged, LeaderChanged, Within, Goto, CallReady, In, StoredType, Relations, Statuses, Steps, Calls
<1>29. CASE ReplicasToken
  <2>1. StepType'
    BY <1>29, GotoType, CallReadyType DEF ReplicasToken, Steps
  <2> QED
    BY <1>29, <2>1, WithinType DEF ReplicasToken
<1>30. CASE Pause
  <2>1. StepType' /\ status' \in Statuses
    BY <1>30, GotoType DEF Pause, Steps, Statuses
  <2>2. cur' \in StoredType
    <3>1. Paused(cur) \in StoredType
      BY DEF Paused, StoredType
    <3> QED
      BY <1>30, <3>1 DEF Pause
  <2>3. services' \in ServicesType
    <3>1. [main : {services.main, FALSE}, grpc : {services.grpc, FALSE}] \subseteq ServicesType
      OBVIOUS
    <3>2. [main |-> FALSE, grpc |-> FALSE] \in ServicesType
      OBVIOUS
    <3> QED
      BY <1>30, <3>1, <3>2 DEF Pause
  <2> QED
    BY <1>30, <2>1, <2>2, <2>3, WithinType DEF Pause
<1>31. CASE Resume
  <2>1. StepType'
    BY <1>31, GotoType, CallReadyType DEF Resume, Steps
  <2>2. cur' \in StoredType
    <3>1. Resumed(cur) \in StoredType
      BY DEF Resumed, StoredType
    <3> QED
      BY <1>31, <3>1 DEF Resume
  <2>3. services' \in ServicesType
    <3>1. [main : {TRUE}, grpc : BOOLEAN] \subseteq ServicesType
      OBVIOUS
    <3> QED
      BY <1>31, <3>1 DEF Resume
  <2>4. status' \in Statuses
    BY <1>31 DEF Resume, Statuses
  <2> QED
    BY <1>31, <2>1, <2>2, <2>3, <2>4, WithinType DEF Resume
<1>32. CASE Upgrade
  BY <1>32 DEF Upgrade, Within, Goto, CallReady, In, StoredType, Relations, Statuses, Steps, Calls
<1>33. CASE UpgradePackages
  BY <1>33 DEF UpgradePackages, Within, Goto, CallReady, In, StoredType, Relations, Statuses, Steps, Calls
<1>34. CASE MigrateSchema
  BY <1>34 DEF MigrateSchema, Within, Goto, CallReady, In, StoredType, Relations, Statuses, Steps, Calls
<1>35. CASE RunSchemaScript
  BY <1>35 DEF RunSchemaScript, Within, Goto, CallReady, In, StoredType, Relations, Statuses, Steps, Calls
<1>36. CASE UNCHANGED vars
  BY <1>36 DEF vars
<1> QED
  BY <1>1, <1>2, <1>3, <1>4, <1>5, <1>6, <1>7, <1>8, <1>9, <1>10, <1>11, <1>12, <1>13, <1>14, <1>15, <1>16, <1>17, <1>18, <1>19, <1>20, <1>21, <1>22, <1>23, <1>24, <1>25, <1>26, <1>27, <1>28, <1>29, <1>30, <1>31, <1>32, <1>33, <1>34, <1>35, <1>36, <1>37 DEF Next, HookStep, Handlers

LEMMA InitType == Init => TypeOK
<1> SUFFICES ASSUME Init PROVE TypeOK
  OBVIOUS
<1>1. config \in ConfigType
  BY ConfigsAssumption DEF Init
<1>2. call \in Calls
  BY DEF Init, Calls, NoCall
<1>3. stored \in StoredType /\ cur \in StoredType
  BY DEF Init, StoredType
<1>4. services \in ServicesType
  BY DEF Init, ServicesType
<1> QED
  BY <1>1, <1>2, <1>3, <1>4 DEF Init, TypeOK, Statuses, Phases, Steps

\* The model keeps its types, for every set of configurations.
THEOREM TypeCorrect == Spec => []TypeOK
<1>1. Init => TypeOK
  BY InitType
<1>2. TypeOK /\ [Next]_vars => TypeOK'
  BY TypeStep
<1> QED
  BY <1>1, <1>2, PTL DEF Spec

--------------------------------------------------------------------------------
(***************************************************************************)
(* The flags: running is set only where paused is not.                     *)
(***************************************************************************)

LEMMA FlagsStep ==
  TypeOK /\ NeverRunningAndPaused /\ StartInv /\ [Next]_vars
    => NeverRunningAndPaused' /\ StartInv'
<1> SUFFICES ASSUME TypeOK, NeverRunningAndPaused, StartInv, [Next]_vars
             PROVE  NeverRunningAndPaused' /\ StartInv'
  OBVIOUS
<1> USE DEF NeverRunningAndPaused, StartInv, AllReady
<1>1. CASE LeadershipMoves
  BY <1>1 DEF LeadershipMoves
<1>2. CASE OperatorConfigures
  BY <1>2 DEF OperatorConfigures
<1>3. ASSUME NEW h \in Hooks, Begin(h) PROVE NeverRunningAndPaused' /\ StartInv'
  BY <1>3 DEF Begin
<1>4. CASE Commit
  BY <1>4 DEF Commit
<1>5. CASE HookKilled
  BY <1>5 DEF HookKilled, Abandon
<1>6. CASE UpdateReadyStatus
  BY <1>6 DEF UpdateReadyStatus, LeaveStatus, ReportWaiting, ReportActive, ReportStopped, GoStartServices, Within, Goto, CallReady, TypeOK, Calls
<1>7. CASE StartServices
  BY <1>7 DEF StartServices, Within, Goto, CallReady, TypeOK, StoredType
<1>8. CASE Install
  BY <1>8 DEF Install, Within, Goto, CallReady, Abandon
<1>9. CASE ConfigChanged
  BY <1>9 DEF ConfigChanged, Within, Goto, CallReady, Abandon
<1>10. CASE PgHbaNotReady
  BY <1>10 DEF PgHbaNotReady, Abandon
<1>11. CASE BootstrapAccount
  BY <1>11 DEF BootstrapAccount, Within, Goto, CallReady
<1>12. CASE ConfigureGpg
  BY <1>12 DEF ConfigureGpg, Within, Goto, CallReady
<1>13. CASE SecretChanged
  BY <1>13 DEF SecretChanged, Within, Goto, CallReady
<1>14. CASE DbRelationChanged
  BY <1>14 DEF DbRelationChanged, DbIsReady, Within, Goto, CallReady, TypeOK, StoredType
<1>15. CASE DatabaseRelationChanged
  BY <1>15 DEF DatabaseRelationChanged, DbIsReady, Within, Goto, CallReady, TypeOK, StoredType
<1>16. CASE MigrateSchemaBootstrap
  BY <1>16 DEF MigrateSchemaBootstrap, DatabaseSetUp, DbIsReady, Within, Goto, CallReady, TypeOK, StoredType
<1>17. CASE GrantRole
  BY <1>17 DEF GrantRole, Within, Goto, CallReady, Abandon
<1>18. CASE UpdateWslDistributions
  BY <1>18 DEF UpdateWslDistributions, DatabaseSetUp, DbIsReady, Within, Goto, CallReady, TypeOK, StoredType
<1>19. CASE AmqpRelationJoined
  BY <1>19 DEF AmqpRelationJoined, Within, Goto, CallReady, TypeOK, StoredType
<1>20. CASE AmqpRelationChanged
  BY <1>20 DEF AmqpRelationChanged, Within, Goto, CallReady, TypeOK, StoredType
<1>21. CASE WebsiteRelationJoined
  BY <1>21 DEF WebsiteRelationJoined, Within, Goto, CallReady
<1>22. CASE WebsiteRelationChanged
  BY <1>22 DEF WebsiteRelationChanged, Within, Goto, CallReady
<1>23. CASE SmtpDataAvailable
  BY <1>23 DEF SmtpDataAvailable, Within, Goto, CallReady, Abandon
<1>24. CASE Certificates
  BY <1>24 DEF Certificates, Within, Goto, CallReady
<1>37. CASE TaskHandler
  BY <1>37 DEF TaskHandler, Within, Goto, CallReady
<1>25. CASE UpdateStatus
  BY <1>25 DEF UpdateStatus, Within, Goto, CallReady
<1>26. CASE OtherHook
  BY <1>26 DEF OtherHook, Within, Goto, CallReady
<1>27. CASE LeaderElected
  BY <1>27 DEF LeaderElected, LeaderChanged, Within, Goto, CallReady
<1>28. CASE ReplicasRelationChanged
  BY <1>28 DEF ReplicasRelationChanged, LeaderChanged, Within, Goto, CallReady
<1>29. CASE ReplicasToken
  BY <1>29 DEF ReplicasToken, Within, Goto, CallReady
<1>30. CASE Pause
  BY <1>30 DEF Pause, Paused, Within, Goto, CallReady, TypeOK, StoredType
<1>31. CASE Resume
  BY <1>31 DEF Resume, Resumed, Within, Goto, CallReady, TypeOK, StoredType
<1>32. CASE Upgrade
  BY <1>32 DEF Upgrade, Within, Goto, CallReady
<1>33. CASE UpgradePackages
  BY <1>33 DEF UpgradePackages, Within, Goto, CallReady
<1>34. CASE MigrateSchema
  BY <1>34 DEF MigrateSchema, Within, Goto, CallReady
<1>35. CASE RunSchemaScript
  BY <1>35 DEF RunSchemaScript, Within, Goto, CallReady
<1>36. CASE UNCHANGED vars
  BY <1>36 DEF vars
<1> QED
  BY <1>1, <1>2, <1>3, <1>4, <1>5, <1>6, <1>7, <1>8, <1>9, <1>10, <1>11, <1>12, <1>13, <1>14, <1>15, <1>16, <1>17, <1>18, <1>19, <1>20, <1>21, <1>22, <1>23, <1>24, <1>25, <1>26, <1>27, <1>28, <1>29, <1>30, <1>31, <1>32, <1>33, <1>34, <1>35, <1>36, <1>37 DEF Next, HookStep, Handlers
--------------------------------------------------------------------------------
(***************************************************************************)
(* The status: Active rests on what StoredState says.                      *)
(***************************************************************************)

StatusInv == IdleInv /\ RunningInv /\ BodyInv /\ MidInv /\ DoneInv

LEMMA StatusStep == IInv /\ [Next]_vars => StatusInv'
<1> SUFFICES ASSUME IInv, [Next]_vars PROVE StatusInv'
  OBVIOUS
<1>0. UNCHANGED config => CharmConfig' = CharmConfig
  BY DEF CharmConfig
<1> USE DEF IInv, StatusInv, IdleInv, RunningInv, BodyInv, MidInv, DoneInv,
            Outdated, Serviceable, Reevaluates, Actions
<1>1. CASE LeadershipMoves
  BY <1>0, <1>1 DEF LeadershipMoves
<1>2. CASE OperatorConfigures
  BY <1>0, <1>2 DEF OperatorConfigures
<1>3. ASSUME NEW h \in Hooks, Begin(h) PROVE StatusInv'
  <2>1. ~configDirty /\ status' = "active"
          => Serviceable(stored) \/ withdrawn' \/ Reevaluates(h)
    <3>1. CASE retry = NoHook
      BY <1>3, <3>1 DEF Begin
    <3>2. CASE RunAgain(h) /\ (h.data \/ ~retry.data)
      BY <1>3, <3>2 DEF Begin, RunAgain, RereadHooks
    <3>3. CASE retry.data /\ ~h.data
      BY <1>3, <3>3 DEF Begin
    <3> QED
      BY <1>3, <3>1, <3>2, <3>3 DEF Begin
  <2>2. ~configDirty /\ status' = "active" /\ h.name \in Actions
          => Serviceable(stored) \/ withdrawn'
    BY <2>1
  <2> QED
    BY <1>0, <1>3, <2>1, <2>2 DEF Begin
<1>4. CASE Commit
  BY <1>0, <1>4 DEF Commit
<1>5. CASE HookKilled
  BY <1>0, <1>5 DEF HookKilled, Abandon, NoHook, Hook
<1>6. CASE UpdateReadyStatus
  BY <1>0, <1>6 DEF UpdateReadyStatus, LeaveStatus, ReportWaiting, ReportActive, ReportStopped, GoStartServices, Within, Goto, CallReady, In, TypeOK, Calls, NeverRunningAndPaused
<1>7. CASE StartServices
  BY <1>0, <1>7 DEF StartServices, Within, Goto, CallReady, In, TypeOK, StoredType, Calls, StartInv, AllReady
<1>8. CASE Install
  BY <1>0, <1>8 DEF Install, Within, Goto, CallReady, In, Abandon
<1>9. CASE ConfigChanged
  BY <1>0, <1>9 DEF ConfigChanged, Within, Goto, CallReady, In, Abandon
<1>10. CASE PgHbaNotReady
  BY <1>0, <1>10 DEF PgHbaNotReady, Abandon, NoHook, Hook
<1>11. CASE BootstrapAccount
  BY <1>0, <1>11 DEF BootstrapAccount, Within, Goto, CallReady, In
<1>12. CASE ConfigureGpg
  BY <1>0, <1>12 DEF ConfigureGpg, Within, Goto, CallReady, In
<1>13. CASE SecretChanged
  BY <1>0, <1>13 DEF SecretChanged, Within, Goto, CallReady, In
<1>14. CASE DbRelationChanged
  BY <1>0, <1>14 DEF DbRelationChanged, DbIsReady, Within, Goto, CallReady, In
<1>15. CASE DatabaseRelationChanged
  BY <1>0, <1>15 DEF DatabaseRelationChanged, DbIsReady, Within, Goto, CallReady, In
<1>16. CASE MigrateSchemaBootstrap
  BY <1>0, <1>16 DEF MigrateSchemaBootstrap, DatabaseSetUp, DbIsReady, Within, Goto, CallReady, In
<1>17. CASE GrantRole
  BY <1>0, <1>17 DEF GrantRole, Within, Goto, CallReady, In, Abandon
<1>18. CASE UpdateWslDistributions
  BY <1>0, <1>18 DEF UpdateWslDistributions, DatabaseSetUp, DbIsReady, Within, Goto, CallReady, In
<1>19. CASE AmqpRelationJoined
  BY <1>0, <1>19 DEF AmqpRelationJoined, Within, Goto, CallReady, In
<1>20. CASE AmqpRelationChanged
  BY <1>0, <1>20 DEF AmqpRelationChanged, Within, Goto, CallReady, In
<1>21. CASE WebsiteRelationJoined
  BY <1>0, <1>21 DEF WebsiteRelationJoined, Within, Goto, CallReady, In
<1>22. CASE WebsiteRelationChanged
  BY <1>0, <1>22 DEF WebsiteRelationChanged, Within, Goto, CallReady, In
<1>23. CASE SmtpDataAvailable
  BY <1>0, <1>23 DEF SmtpDataAvailable, Within, Goto, CallReady, In, Abandon
<1>24. CASE Certificates
  BY <1>0, <1>24 DEF Certificates, Within, Goto, CallReady, In
<1>37. CASE TaskHandler
  BY <1>0, <1>37 DEF TaskHandler, Within, Goto, CallReady, In
<1>25. CASE UpdateStatus
  BY <1>0, <1>25 DEF UpdateStatus, Within, Goto, CallReady, In
<1>26. CASE OtherHook
  BY <1>0, <1>26 DEF OtherHook, Within, Goto, CallReady, In
<1>27. CASE LeaderElected
  BY <1>0, <1>27 DEF LeaderElected, LeaderChanged, Within, Goto, CallReady, In
<1>28. CASE ReplicasRelationChanged
  BY <1>0, <1>28 DEF ReplicasRelationChanged, LeaderChanged, Within, Goto, CallReady, In
<1>29. CASE ReplicasToken
  BY <1>0, <1>29 DEF ReplicasToken, Within, Goto, CallReady, In
<1>30. CASE Pause
  BY <1>0, <1>30 DEF Pause, Paused, Within, Goto, CallReady, In
<1>31. CASE Resume
  BY <1>0, <1>31 DEF Resume, Resumed, Within, Goto, CallReady, In
<1>32. CASE Upgrade
  BY <1>0, <1>32 DEF Upgrade, Within, Goto, CallReady, In
<1>33. CASE UpgradePackages
  BY <1>0, <1>33 DEF UpgradePackages, Within, Goto, CallReady, In
<1>34. CASE MigrateSchema
  BY <1>0, <1>34 DEF MigrateSchema, Within, Goto, CallReady, In
<1>35. CASE RunSchemaScript
  BY <1>0, <1>35 DEF RunSchemaScript, Within, Goto, CallReady, In
<1>36. CASE UNCHANGED vars
  BY <1>0, <1>36 DEF vars
<1> QED
  BY <1>1, <1>2, <1>3, <1>4, <1>5, <1>6, <1>7, <1>8, <1>9, <1>10, <1>11, <1>12, <1>13, <1>14, <1>15, <1>16, <1>17, <1>18, <1>19, <1>20, <1>21, <1>22, <1>23, <1>24, <1>25, <1>26, <1>27, <1>28, <1>29, <1>30, <1>31, <1>32, <1>33, <1>34, <1>35, <1>36, <1>37 DEF Next, HookStep, Handlers

LEMMA IInvHolds == Spec => []IInv
<1>1. Init => IInv
  <2>1. Init => TypeOK
    BY InitType
  <2> QED
    BY <2>1 DEF Init, IInv, NeverRunningAndPaused, StartInv, IdleInv, RunningInv,
                BodyInv, MidInv, DoneInv
<1>2. IInv /\ [Next]_vars => IInv'
  BY TypeStep, FlagsStep, StatusStep DEF IInv, StatusInv
<1> QED
  BY <1>1, <1>2, PTL DEF Spec

\* running and paused are never both set, for every set of configurations.
THEOREM FlagsExclusive == Spec => []NeverRunningAndPaused
<1>1. IInv => NeverRunningAndPaused
  BY DEF IInv
<1> QED
  BY <1>1, IInvHolds, PTL

\* A unit at rest that shows Active is ready, running and not paused, for every
\* set of configurations and whichever hooks failed and were run again, unless a
\* second run found its relation's data withdrawn and no hook looked since.
THEOREM ActiveIsServiceable == Spec => []ActiveImpliesServiceable
<1>1. IInv => ActiveImpliesServiceable
  BY DEF IInv, IdleInv, ActiveImpliesServiceable, Settled
<1> QED
  BY <1>1, IInvHolds, PTL

\* The services lsctl starts come up by _start_services, on a ready unit that is
\* not paused, or by resume; the gRPC services by these and by _sync_grpc_tls, on
\* a unit that is not paused.
THEOREM StartsOnlyWhenReady == Spec => ServicesStartOnlyWhenReady
<1> DEFINE Allowed(main, grpc) ==
      /\ main /\ ~services.main => hook.name = "resume" \/ (AllReady(cur) /\ ~cur.paused)
      /\ grpc /\ ~services.grpc => hook.name = "resume" \/ ~cur.paused
<1>1. IInv /\ [Next]_vars => [Allowed(services'.main, services'.grpc)]_vars
  <2> SUFFICES ASSUME IInv, [Next]_vars PROVE Allowed(services'.main, services'.grpc)
    OBVIOUS
  <2> USE DEF IInv, TypeOK, ServicesType
  <2>1. CASE LeadershipMoves
    BY <2>1 DEF LeadershipMoves
  <2>2. CASE OperatorConfigures
    BY <2>2 DEF OperatorConfigures
  <2>3. ASSUME NEW h \in Hooks, Begin(h) PROVE Allowed(services'.main, services'.grpc)
    BY <2>3 DEF Begin
  <2>4. CASE Commit
    BY <2>4 DEF Commit
  <2>5. CASE HookKilled
    BY <2>5 DEF HookKilled, Abandon
  <2>6. CASE UpdateReadyStatus
    BY <2>6 DEF UpdateReadyStatus
  <2>7. CASE StartServices
    BY <2>7 DEF StartServices, IInv, StartInv
  <2>8. CASE Install
    BY <2>8 DEF Install
  <2>9. CASE ConfigChanged
    BY <2>9, SyncGrpcTlsType DEF ConfigChanged, SyncGrpcTls
  <2>10. CASE PgHbaNotReady
    BY <2>10 DEF PgHbaNotReady
  <2>11. CASE BootstrapAccount
    BY <2>11 DEF BootstrapAccount
  <2>12. CASE ConfigureGpg
    BY <2>12 DEF ConfigureGpg
  <2>13. CASE SecretChanged
    BY <2>13 DEF SecretChanged
  <2>14. CASE DbRelationChanged
    BY <2>14 DEF DbRelationChanged
  <2>15. CASE DatabaseRelationChanged
    BY <2>15 DEF DatabaseRelationChanged
  <2>16. CASE MigrateSchemaBootstrap
    BY <2>16 DEF MigrateSchemaBootstrap
  <2>17. CASE GrantRole
    BY <2>17 DEF GrantRole
  <2>18. CASE UpdateWslDistributions
    BY <2>18 DEF UpdateWslDistributions
  <2>19. CASE AmqpRelationJoined
    BY <2>19 DEF AmqpRelationJoined
  <2>20. CASE AmqpRelationChanged
    BY <2>20 DEF AmqpRelationChanged
  <2>21. CASE WebsiteRelationJoined
    BY <2>21 DEF WebsiteRelationJoined
  <2>22. CASE WebsiteRelationChanged
    BY <2>22 DEF WebsiteRelationChanged
  <2>23. CASE SmtpDataAvailable
    BY <2>23 DEF SmtpDataAvailable
  <2>24. CASE Certificates
    BY <2>24, SyncGrpcTlsType DEF Certificates, SyncGrpcTls
  <2>37. CASE TaskHandler
    BY <2>37 DEF TaskHandler
  <2>25. CASE UpdateStatus
    BY <2>25 DEF UpdateStatus
  <2>26. CASE OtherHook
    BY <2>26 DEF OtherHook
  <2>27. CASE LeaderElected
    BY <2>27 DEF LeaderElected, LeaderChanged
  <2>28. CASE ReplicasRelationChanged
    BY <2>28 DEF ReplicasRelationChanged, LeaderChanged
  <2>29. CASE ReplicasToken
    BY <2>29 DEF ReplicasToken
  <2>30. CASE Pause
    <3>1. CASE services' \in [main : {services.main, FALSE}, grpc : {services.grpc, FALSE}]
      BY <3>1
    <3>2. CASE services' = [main |-> FALSE, grpc |-> FALSE]
      BY <3>2
    <3> QED
      BY <2>30, <3>1, <3>2 DEF Pause
  <2>31. CASE Resume
    BY <2>31 DEF Resume, In
  <2>32. CASE Upgrade
    BY <2>32 DEF Upgrade
  <2>33. CASE UpgradePackages
    BY <2>33 DEF UpgradePackages
  <2>34. CASE MigrateSchema
    BY <2>34 DEF MigrateSchema
  <2>35. CASE RunSchemaScript
    BY <2>35 DEF RunSchemaScript
  <2>36. CASE UNCHANGED vars
    BY <2>36 DEF vars
  <2> QED
    BY <2>1, <2>2, <2>3, <2>4, <2>5, <2>6, <2>7, <2>8, <2>9, <2>10, <2>11, <2>12, <2>13, <2>14, <2>15, <2>16, <2>17, <2>18, <2>19, <2>20, <2>21, <2>22, <2>23, <2>24, <2>25, <2>26, <2>27, <2>28, <2>29, <2>30, <2>31, <2>32, <2>33, <2>34, <2>35, <2>36, <2>37 DEF Next, HookStep, Handlers
<1> QED
  BY <1>1, IInvHolds, PTL DEF Spec, ServicesStartOnlyWhenReady


================================================================================
