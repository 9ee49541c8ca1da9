----------------------------- MODULE GrpcTlsProofs -----------------------------
(***************************************************************************)
(* What holds of GrpcTls for all hosts, certificates and configurations:   *)
(* its types, that service.conf never names TLS files that are gone, that  *)
(* TLS is not taken away while it is wanted, and that once the hooks are   *)
(* done the route goes with the settings and the newest certificate is     *)
(* served.  None is inductive alone: what a service serves when it starts  *)
(* depends on the files that service.conf names, these on the order of the *)
(* steps of _sync_grpc_tls, and what is not yet as it should be is owed by *)
(* a pending hook or by the loop that runs.                                *)
(***************************************************************************)
EXTENDS GrpcTls, TLAPS

\* Between hooks no service waits for its turn, and a turn begins with the decision.
\* Between the steps of _sync_grpc_tls, the files of the service whose turn it is
\* are there before service.conf names them, and service.conf is pointed away from
\* them before they are removed.
BetweenSteps ==
  /\ hook = "none" => todo = <<>>
  /\ todo = <<>> => step = "decide"
  /\ todo # <<>> => /\ step = "written" => files[Head(todo)] # None
                    /\ step = "cleared" => Head(todo) \notin settings

IInv == TypeOK /\ SettingsHaveFiles /\ BetweenSteps

\* The services whose turn may come, and the queue that is left after each.
LEMMA QueueTypes ==
  ASSUME TypeOK, todo # <<>>
  PROVE  /\ Service \in Services
         /\ Tail(todo) \in Queues
<1>1. CASE todo = <<"hostagent-messenger">>
  <2>1. Head(todo) = "hostagent-messenger" /\ Tail(todo) = <<>>
    BY <1>1
  <2> QED BY <2>1 DEF Queues, Services, Service
<1>2. CASE todo = SyncOrder
  <2>1. /\ Head(todo) = "ubuntu-installer-attach"
        /\ Tail(todo) = <<"hostagent-messenger">>
    BY <1>2 DEF SyncOrder
  <2> QED BY <2>1 DEF Queues, Services, Service
<1> QED BY <1>1, <1>2 DEF TypeOK, Queues

\* A service that starts serves plaintext or a certificate, never a file that is
\* not there.
LEMMA ServesNowType ==
  ASSUME TypeOK, SettingsHaveFiles, NEW s \in Services
  PROVE  ServesNow(s) \in Certs \cup {Plain, Stopped}
BY DEF TypeOK, SettingsHaveFiles, ServesNow

\* The certificate that is written is one the provider has issued, and the host it
\* is requested for is a host.
LEMMA MaterialType ==
  ASSUME TypeOK
  PROVE  TlsMaterial \in Certs \cup {None} /\ Request \in Hosts \cup {None}
BY ConstantsAssumption DEF TypeOK, TlsMaterial, Request, ConfigType

\* _sync_grpc_tls and the hooks around it start from an empty machine.
LEMMA InitInv == Init => IInv
<1> SUFFICES ASSUME Init PROVE IInv
  OBVIOUS
<1>1. SettingsHaveFiles /\ BetweenSteps
  BY DEF Init, SettingsHaveFiles, BetweenSteps
<1>2. config \in ConfigType /\ supporting \subseteq Services
  BY ConstantsAssumption DEF Init
<1>3. serves \in [Services -> Certs \cup {Plain, Stopped}]
  BY DEF Init
<1>4. files \in [Services -> Certs \cup {None}]
  BY DEF Init
<1>5. faults \in [FaultNames -> Nat]
  BY DEF Init
<1> QED BY <1>1, <1>2, <1>3, <1>4, <1>5
        DEF Init, IInv, TypeOK, Queues, HookNames, Steps

\* Counting a fault keeps the type of faults.
LEMMA CountType ==
  ASSUME TypeOK, NEW what \in FaultNames, NEW max, Count(what, max)
  PROVE  faults' \in [FaultNames -> Nat]
BY DEF TypeOK, Count

\* The operator, the provider and the library touch neither files nor service.conf.
LEMMA EnvironmentKeeps ==
  ASSUME IInv,
         \/ OperatorConfigures \/ CertificatesRelated
         \/ ProviderIssues \/ CertificateRenewed
  PROVE  IInv'
<1>1. CASE OperatorConfigures
  BY <1>1, ConstantsAssumption
  DEF OperatorConfigures, IInv, TypeOK, SettingsHaveFiles, BetweenSteps,
      relation, machine, processes, progress, Count, FaultNames, HookNames, Idle
<1>2. CASE CertificatesRelated
  BY <1>2, MaterialType
  DEF CertificatesRelated, IInv, TypeOK, SettingsHaveFiles, BetweenSteps,
      relation, machine, processes, progress, FaultNames, MayRun, HookNames, Idle
<1>3. CASE ProviderIssues
  BY <1>3
  DEF ProviderIssues, IInv, TypeOK, SettingsHaveFiles, BetweenSteps, machine, processes,
      progress, FaultNames, HookNames, Idle
<1>4. CASE CertificateRenewed
  BY <1>4
  DEF CertificateRenewed, IInv, TypeOK, SettingsHaveFiles, BetweenSteps,
      machine, processes, progress, Count, FaultNames, HookNames, Idle
<1> QED BY <1>1, <1>2, <1>3, <1>4

\* Pause and resume stop and start the services with the files that are there.
LEMMA CharmKeeps ==
  ASSUME IInv, OtherHook \/ Pause \/ PauseFails \/ Resume \/ ResumeFails
  PROVE  IInv'
<1>1. CASE OtherHook
  BY <1>1
  DEF OtherHook, IInv, TypeOK, SettingsHaveFiles, BetweenSteps, relation,
      machine, processes, progress, FaultNames, MayRun, Idle, RoutesNow, Services
<1>2. ASSUME ActionLeaves, hook = "none", paused' \in BOOLEAN,
             faults' \in [FaultNames -> Nat],
             LsctlStarts \/ \E S \in SUBSET Lsctl : LsctlStops(S)
      PROVE  IInv'
  <2>1. serves' \in [Services -> Certs \cup {Plain, Stopped}] /\ early' \in BOOLEAN
    <3>1. CASE LsctlStarts
      BY <3>1, ServesNowType DEF LsctlStarts, IInv, TypeOK
    <3>2. CASE \E S \in SUBSET Lsctl : LsctlStops(S)
      BY <3>2 DEF LsctlStops, IInv, TypeOK
    <3> QED BY <1>2, <3>1, <3>2
  <2> QED BY <1>2, <2>1
          DEF ActionLeaves, IInv, TypeOK, SettingsHaveFiles, BetweenSteps, relation, progress
<1>3. faults \in [FaultNames -> Nat] /\ paused \in BOOLEAN
  BY DEF IInv, TypeOK
<1>4. CASE Pause
  BY <1>2, <1>4, CountType DEF Pause, IInv, Idle, FaultNames
<1>5. CASE Resume
  BY <1>2, <1>3, <1>5 DEF Resume, Idle
<1>6. CASE PauseFails \/ ResumeFails
  <2>1. Count("errors", MaxErrors) /\ ActionLeaves /\ hook = "none" /\ paused' = paused
    BY <1>6 DEF PauseFails, ResumeFails, Idle
  <2>2. LsctlStarts \/ \E S \in SUBSET Lsctl : LsctlStops(S)
    BY <1>6 DEF PauseFails, ResumeFails
  <2> QED BY <1>2, <1>3, <2>1, <2>2, CountType DEF IInv, FaultNames
<1> QED BY <1>1, <1>4, <1>5, <1>6

\* A hook that synchronises TLS starts with no step taken.
LEMMA StartKeeps ==
  ASSUME IInv,
         \/ ConfigChanged \/ ConfigChangedEarlyReturn
         \/ CertificateAvailable \/ CertificatesRelationBroken
  PROVE  IInv'
<1>1. CASE ConfigChanged
  <2>1. TypeOK'
    BY <1>1, ServesNowType
    DEF ConfigChanged, IInv, TypeOK, relation, machine, processes, FaultNames, MayRun,
        HookNames, Idle, Queues, Services, SyncOrder
  <2>2. SettingsHaveFiles'
    BY <1>1 DEF ConfigChanged, IInv, SettingsHaveFiles, machine, processes
  <2>3. BetweenSteps'
    BY <1>1 DEF ConfigChanged, IInv, BetweenSteps, MayRun, Idle, SyncOrder
  <2> QED BY <2>1, <2>2, <2>3 DEF IInv
<1>2. CASE ConfigChangedEarlyReturn
  <2>1. TypeOK'
    BY <1>2, MaterialType, CountType
    DEF ConfigChangedEarlyReturn, IInv, TypeOK, machine, processes, FaultNames, MayRun,
        HookNames, Idle, Ask, Queues, Services, SyncOrder
  <2>2. SettingsHaveFiles'
    BY <1>2 DEF ConfigChangedEarlyReturn, IInv, SettingsHaveFiles, machine, processes
  <2>3. BetweenSteps'
    BY <1>2
    DEF ConfigChangedEarlyReturn, IInv, BetweenSteps, MayRun, Idle, SyncOrder
  <2> QED BY <2>1, <2>2, <2>3 DEF IInv
<1>3. CASE CertificateAvailable
  <2>1. TypeOK'
    BY <1>3, MaterialType
    DEF CertificateAvailable, IInv, TypeOK, relation, machine, processes, FaultNames,
        MayRun, HookNames, Idle, Queues, Services, SyncOrder
  <2>2. SettingsHaveFiles'
    BY <1>3 DEF CertificateAvailable, IInv, SettingsHaveFiles, machine, processes
  <2>3. BetweenSteps'
    BY <1>3
    DEF CertificateAvailable, IInv, BetweenSteps, MayRun, Idle, SyncOrder
  <2> QED BY <2>1, <2>2, <2>3 DEF IInv
<1>4. CASE CertificatesRelationBroken
  <2>1. TypeOK'
    BY <1>4, CountType
    DEF CertificatesRelationBroken, IInv, TypeOK, machine, processes, FaultNames, MayRun,
        HookNames, Idle, Queues, Services, SyncOrder
  <2>2. SettingsHaveFiles'
    BY <1>4 DEF CertificatesRelationBroken, IInv, SettingsHaveFiles, machine, processes
  <2>3. BetweenSteps'
    BY <1>4
    DEF CertificatesRelationBroken, IInv, BetweenSteps, MayRun, Idle, SyncOrder
  <2> QED BY <2>1, <2>2, <2>3 DEF IInv
<1> QED BY <1>1, <1>2, <1>3, <1>4

\* Each step of _sync_grpc_tls leaves the files that service.conf names in place.
LEMMA SyncKeeps ==
  ASSUME IInv,
         \/ PointAway \/ RemoveFiles
         \/ AwaitCertificate \/ WriteFiles
         \/ PointAtFiles \/ WriteFails
         \/ Restart \/ RestartFails
  PROVE  IInv'
<1>1. CASE PointAway
  BY <1>1, QueueTypes
  DEF PointAway, IInv, TypeOK, SettingsHaveFiles, BetweenSteps, relation,
      machine, processes, FaultNames, Syncing, Service, Within, At, Steps
<1>2. CASE RemoveFiles
  BY <1>2, QueueTypes
  DEF RemoveFiles, IInv, TypeOK, SettingsHaveFiles, BetweenSteps, relation,
      machine, processes, FaultNames, Syncing, Service, Within, At, Steps
<1>3. CASE AwaitCertificate
  BY <1>3, QueueTypes
  DEF AwaitCertificate, IInv, TypeOK, SettingsHaveFiles, BetweenSteps, relation,
      machine, processes, FaultNames, Syncing, Service, Within, NextService, Steps
<1>4. CASE WriteFiles
  BY <1>4, QueueTypes, MaterialType
  DEF WriteFiles, IInv, TypeOK, SettingsHaveFiles, BetweenSteps, relation,
      machine, processes, FaultNames, Syncing, Service, Within, At, Steps
<1>5. CASE PointAtFiles
  <2>1. TypeOK'
    BY <1>5, QueueTypes
    DEF PointAtFiles, IInv, TypeOK, relation, machine, processes, FaultNames, Syncing,
        Service, Within, At, Steps
  <2>2. SettingsHaveFiles'
    <3>1. todo # <<>> /\ files[Service] # None
      BY <1>5 DEF PointAtFiles, IInv, BetweenSteps, Syncing, Service
    <3>2. Service \in Services
      BY <3>1, QueueTypes DEF IInv
    <3>3. \/ UNCHANGED <<files, settings>>
          \/ settings' = settings \cup {Service} /\ UNCHANGED files
          \/ /\ Service \notin settings /\ UNCHANGED settings
             /\ files' = [files EXCEPT ![Service] = None]
      BY <1>5 DEF PointAtFiles
    <3> QED BY <3>1, <3>2, <3>3 DEF IInv, TypeOK, SettingsHaveFiles
  <2>3. BetweenSteps'
    BY <1>5 DEF PointAtFiles, IInv, BetweenSteps, Syncing, Service, Within, At
  <2> QED BY <2>1, <2>2, <2>3 DEF IInv
<1>6. CASE WriteFails
  <2>1. TypeOK'
    BY <1>6, QueueTypes, CountType
    DEF WriteFails, IInv, TypeOK, relation, machine, processes, FaultNames, Syncing,
        Service, Within, NextService, Steps
  <2>2. SettingsHaveFiles'
    BY <1>6
    DEF WriteFails, IInv, SettingsHaveFiles, machine, processes, Syncing, Service, Within
  <2>3. BetweenSteps'
    BY <1>6
    DEF WriteFails, IInv, BetweenSteps, Syncing, Service, Within, NextService
  <2> QED BY <2>1, <2>2, <2>3 DEF IInv
<1>7. CASE Restart
  BY <1>7, QueueTypes, ServesNowType
  DEF Restart, IInv, TypeOK, SettingsHaveFiles, BetweenSteps, relation, machine, processes,
      FaultNames, Syncing, Service, Within, NextService, Steps, Due
<1>8. CASE RestartFails
  <2>1. TypeOK'
    BY <1>8, QueueTypes, CountType
    DEF RestartFails, IInv, TypeOK, relation, machine, processes, FaultNames, Syncing,
        Service, Within, NextService, Steps, Due
  <2>2. SettingsHaveFiles'
    BY <1>8
    DEF RestartFails, IInv, SettingsHaveFiles, machine, processes, Syncing, Service, Within
  <2>3. BetweenSteps'
    BY <1>8
    DEF RestartFails, IInv, BetweenSteps, Syncing, Service, Within, NextService
  <2> QED BY <2>1, <2>2, <2>3 DEF IInv
<1> QED BY <1>1, <1>2, <1>3, <1>4, <1>5, <1>6, <1>7, <1>8

\* A hook that returns or fails leaves the machine as it is, or restarts services.
LEMMA EndKeeps ==
  ASSUME IInv,
         \/ ConfigChangedReturns \/ ConfigChangedCut
         \/ CertificatesHookReturns \/ HookFails
  PROVE  IInv'
<1>1. CASE ConfigChangedReturns
  <2> USE <1>1 DEF ConfigChangedReturns, Returns
  <2>1. TypeOK'
    <3>1. serves' \in [Services -> Certs \cup {Plain, Stopped}] /\ early' \in BOOLEAN
      <4>1. CASE LsctlRestarts
        BY <4>1, ServesNowType DEF LsctlRestarts, IInv, TypeOK
      <4>2. CASE UNCHANGED processes
        BY <4>2 DEF IInv, TypeOK, processes
      <4> QED BY <4>1, <4>2
    <3>2. installed' \in BOOLEAN
      BY DEF IInv, TypeOK, InstallerOn
    <3>3. routes' \subseteq Services
      BY DEF RoutesNow
    <3>4. /\ asked' \in Hosts \cup {None}
          /\ assigned' \in Certs \cup {None}
          /\ related' \in BOOLEAN
      BY MaterialType DEF IInv, TypeOK, Ask
    <3> QED BY <3>1, <3>2, <3>3, <3>4 DEF IInv, TypeOK
  <2>2. SettingsHaveFiles'
    BY <1>1 DEF ConfigChangedReturns, IInv, SettingsHaveFiles, Returns
  <2>3. BetweenSteps'
    BY <1>1 DEF ConfigChangedReturns, IInv, BetweenSteps, Returns
  <2> QED BY <2>1, <2>2, <2>3 DEF IInv
<1>2. CASE ConfigChangedCut
  BY <1>2, MaterialType, CountType
  DEF ConfigChangedCut, IInv, TypeOK, SettingsHaveFiles, BetweenSteps,
      FaultNames, Returns, Ask, Queues, Steps, Services, HookNames, InstallerOn,
      processes
<1>3. CASE CertificatesHookReturns
  BY <1>3
  DEF CertificatesHookReturns, IInv, TypeOK, SettingsHaveFiles, BetweenSteps,
      relation, machine, processes, FaultNames, Returns, RoutesNow, Queues, Steps,
      Services, HookNames
<1>4. CASE HookFails
  <2>1. TypeOK'
    BY <1>4, CountType
    DEF HookFails, IInv, TypeOK, relation, machine, processes, FaultNames, Idle, Queues,
        Steps, Services, HookNames
  <2>2. SettingsHaveFiles'
    BY <1>4 DEF HookFails, IInv, SettingsHaveFiles, machine, processes
  <2>3. BetweenSteps'
    BY <1>4 DEF HookFails, IInv, BetweenSteps, Idle
  <2> QED BY <2>1, <2>2, <2>3 DEF IInv
<1> QED BY <1>1, <1>2, <1>3, <1>4

\* Every step of GrpcTls keeps the invariant.
LEMMA NextInv == IInv /\ [Next]_vars => IInv'
<1> SUFFICES ASSUME IInv, [Next]_vars PROVE IInv'
  OBVIOUS
<1>1. CASE Environment
  BY <1>1, EnvironmentKeeps DEF Environment
<1>2. CASE OtherHook \/ Pause \/ PauseFails \/ Resume \/ ResumeFails
  BY <1>2, CharmKeeps
<1>3. CASE \/ ConfigChanged \/ ConfigChangedEarlyReturn
           \/ CertificateAvailable \/ CertificatesRelationBroken
  BY <1>3, StartKeeps
<1>4. CASE SyncGrpcTls
  BY <1>4, SyncKeeps DEF SyncGrpcTls
<1>5. CASE \/ ConfigChangedReturns \/ ConfigChangedCut
           \/ CertificatesHookReturns \/ HookFails
  BY <1>5, EndKeeps
<1>6. CASE UNCHANGED vars
  BY <1>6 DEF vars, relation, machine, processes, progress, IInv, TypeOK, SettingsHaveFiles,
              BetweenSteps
<1> QED BY <1>1, <1>2, <1>3, <1>4, <1>5, <1>6 DEF Next

LEMMA Invariant == Spec => []IInv
BY InitInv, NextInv, PTL DEF Spec

\* Every variable has its type in every state: a service that starts never serves a
\* file that is not there.
THEOREM TypeCorrect == Spec => []TypeOK
BY Invariant, PTL DEF IInv

\* service.conf never names TLS files that are not there, wherever a hook fails
\* (_write_grpc_server_tls, _remove_grpc_server_tls).
THEOREM SettingsFilesThere == Spec => []SettingsHaveFiles
BY Invariant, PTL DEF IInv

--------------------------------------------------------------------------------
(***************************************************************************)
(* TLS is not taken from a service that wants it.                          *)
(***************************************************************************)

\* What a service that wants TLS, and has a certificate loaded, goes on with.
KeepsServing(s) ==
  /\ s \in settings => s \in settings'
  /\ s \in settings /\ serves[s] \in Certs => serves'[s] \in Certs \cup {Stopped}

\* A service that service.conf points at its files starts with a certificate.
LEMMA ServesItsFiles ==
  ASSUME IInv, NEW s \in Services, s \in settings
  PROVE  ServesNow(s) \in Certs /\ ServesNow(s) = files[s]
BY DEF IInv, TypeOK, SettingsHaveFiles, ServesNow

LEMMA StepKeepsServing ==
  ASSUME IInv, [Next]_vars, NEW s \in Services, Wanted(s), Wanted(s)'
  PROVE  KeepsServing(s)
<1> USE DEF KeepsServing
<1>1. serves \in [Services -> Certs \cup {Plain, Stopped}]
  BY DEF IInv, TypeOK
<1>2. CASE UNCHANGED <<settings, serves>>
  BY <1>2
<1>3. CASE (LsctlStarts \/ LsctlRestarts) /\ UNCHANGED settings
  BY <1>1, <1>3, ServesItsFiles DEF LsctlStarts, LsctlRestarts
<1>4. CASE UNCHANGED settings /\ \E S \in SUBSET Lsctl : LsctlStops(S)
  BY <1>1, <1>4 DEF LsctlStops
<1>5. CASE ConfigChanged
  BY <1>1, <1>5, ServesItsFiles DEF ConfigChanged
<1>6. CASE PointAway
  <2>1. Service # s
    BY <1>6 DEF PointAway
  <2> QED BY <1>6, <2>1 DEF PointAway, processes
<1>7. CASE PointAtFiles
  BY <1>7 DEF PointAtFiles, processes
<1>8. CASE Restart
  <2>1. Service \in Services
    BY <1>8, QueueTypes DEF Restart, Syncing, IInv
  <2> QED BY <1>1, <1>8, <2>1, ServesItsFiles DEF Restart
<1>9. Environment \/ OtherHook => UNCHANGED <<settings, serves>>
  BY DEF Environment, OperatorConfigures, CertificatesRelated, ProviderIssues,
         CertificateRenewed, OtherHook, machine, processes
<1>10. Pause \/ PauseFails \/ Resume \/ ResumeFails =>
         /\ UNCHANGED settings
         /\ LsctlStarts \/ \E S \in SUBSET Lsctl : LsctlStops(S)
  BY DEF Pause, PauseFails, Resume, ResumeFails, ActionLeaves
<1>11. ConfigChangedEarlyReturn \/ CertificateAvailable \/ CertificatesRelationBroken =>
         UNCHANGED <<settings, serves>>
  BY DEF ConfigChangedEarlyReturn, CertificateAvailable, CertificatesRelationBroken,
         machine, processes
<1>12. RemoveFiles \/ AwaitCertificate \/ WriteFiles \/ WriteFails \/ RestartFails =>
         UNCHANGED <<settings, serves>>
  BY DEF RemoveFiles, AwaitCertificate, WriteFiles, WriteFails, RestartFails, machine,
         processes
<1>13. ConfigChangedReturns => (LsctlRestarts \/ UNCHANGED serves) /\ UNCHANGED settings
  BY DEF ConfigChangedReturns, Returns, processes
<1>14. ConfigChangedCut \/ CertificatesHookReturns \/ HookFails =>
         UNCHANGED <<settings, serves>>
  BY DEF ConfigChangedCut, CertificatesHookReturns, Returns, HookFails, machine, processes
<1>15. UNCHANGED vars => UNCHANGED <<settings, serves>>
  BY DEF vars, machine, processes
<1> QED BY <1>2, <1>3, <1>4, <1>5, <1>6, <1>7, <1>8, <1>9, <1>10, <1>11, <1>12,
           <1>13, <1>14, <1>15 DEF Next, SyncGrpcTls

\* "A certificate being renewed keeps being served until its replacement arrives"
\* (_sync_grpc_tls): no step takes TLS away from a service that wants it, whatever
\* fails in between.
THEOREM NeverTakenAway == Spec => ServedUntilReplaced
<1> DEFINE A == \A s \in Services :
                  Wanted(s)' /\ Wanted(s) =>
                    /\ s \in settings => s \in settings'
                    /\ s \in settings /\ serves[s] \in Certs
                         => serves'[s] \in Certs \cup {Stopped}
<1>1. IInv /\ [Next]_vars => A
  BY StepKeepsServing DEF KeepsServing
<1>2. ServedUntilReplaced <=> [][A]_vars
  BY DEF ServedUntilReplaced
<1> HIDE DEF A
<1> QED BY <1>1, <1>2, Invariant, PTL DEF Spec

--------------------------------------------------------------------------------
(***************************************************************************)
(* The route of hostagent-messenger.                                       *)
(***************************************************************************)

\* The routes will be published again, or config-changed returned early.
RouteOwed == cut \/ pending \cap {"config-changed", "certificates-broken"} # {}

\* A route that is published without the TLS settings is owed another publication; so
\* is one for a service that does not want TLS any more, whose settings may go next.
RouteInv ==
  "hostagent-messenger" \in routes =>
    \/ "hostagent-messenger" \in settings /\ Wanted("hostagent-messenger")
    \/ RouteOwed

LEMMA StepKeepsRoute == RouteInv /\ [Next]_vars => RouteInv'
<1> SUFFICES ASSUME RouteInv, [Next]_vars PROVE RouteInv'
  OBVIOUS
<1> DEFINE m == "hostagent-messenger"
<1> USE DEF RouteInv, RouteOwed
<1>1. ASSUME routes' = routes, settings \subseteq settings', UNCHANGED <<config, related>>,
             RouteOwed => RouteOwed'
      PROVE  RouteInv'
  BY <1>1 DEF Wanted, EnabledByConfig
<1>2. ASSUME routes' = RoutesNow, UNCHANGED <<settings, config, related>>
      PROVE  RouteInv'
  BY <1>2 DEF RoutesNow, Wanted, EnabledByConfig
<1>3. CASE Environment
  <2>1. CASE OperatorConfigures
    BY <2>1 DEF OperatorConfigures
  <2>2. CASE CertificatesRelated \/ ProviderIssues \/ CertificateRenewed
    BY <2>2 DEF CertificatesRelated, ProviderIssues, CertificateRenewed, machine, processes,
                Wanted, EnabledByConfig
  <2> QED BY <1>3, <2>1, <2>2 DEF Environment
<1>4. CASE OtherHook
  BY <1>2, <1>4 DEF OtherHook, machine, processes, relation
<1>5. CASE Pause \/ PauseFails \/ Resume \/ ResumeFails
  BY <1>1, <1>5 DEF Pause, PauseFails, Resume, ResumeFails, ActionLeaves, relation
<1>6. CASE ConfigChanged \/ CertificateAvailable
  BY <1>1, <1>6 DEF ConfigChanged, CertificateAvailable, machine, processes, relation
<1>7. CASE ConfigChangedEarlyReturn \/ CertificatesRelationBroken
  BY <1>7 DEF ConfigChangedEarlyReturn, CertificatesRelationBroken
<1>8. CASE SyncGrpcTls
  <2>1. /\ routes' = routes /\ pending' = pending /\ cut' = cut
        /\ UNCHANGED <<config, related>>
    BY <1>8 DEF SyncGrpcTls, PointAway, RemoveFiles, AwaitCertificate, WriteFiles,
                PointAtFiles, WriteFails, Restart, RestartFails, Within, relation
  <2>2. CASE PointAway
    <3>1. Service = m => ~Wanted(m)
      BY <2>2 DEF PointAway
    <3>2. settings' = settings \ {Service}
      BY <2>2 DEF PointAway
    <3> QED BY <2>1, <3>1, <3>2 DEF Wanted, EnabledByConfig
  <2>3. CASE ~PointAway
    <3>1. settings \subseteq settings'
      BY <1>8, <2>3 DEF SyncGrpcTls, RemoveFiles, AwaitCertificate, WriteFiles,
                        PointAtFiles, WriteFails, Restart, RestartFails, machine, processes
    <3> QED BY <1>1, <2>1, <3>1
  <2> QED BY <2>2, <2>3
<1>9. CASE ConfigChangedReturns \/ CertificatesHookReturns
  BY <1>2, <1>9 DEF ConfigChangedReturns, CertificatesHookReturns, Returns, Ask, relation
<1>10. CASE ConfigChangedCut
  BY <1>10 DEF ConfigChangedCut
<1>11. CASE HookFails
  BY <1>1, <1>11 DEF HookFails, machine, processes, relation
<1>12. CASE UNCHANGED vars
  BY <1>1, <1>12 DEF vars, machine, processes, relation
<1> QED BY <1>3, <1>4, <1>5, <1>6, <1>7, <1>8, <1>9, <1>10, <1>11, <1>12 DEF Next

\* Once every hook has run, the route of hostagent-messenger is published only with the
\* TLS settings in service.conf, also after hooks have failed between changing them and
\* publishing (_provide_all_haproxy_route_requirements); an early return of
\* config-changed is excepted.
THEOREM RouteHasSettings == Spec => []RouteNeedsSettings
<1>1. Init => RouteInv
  BY DEF Init, RouteInv
<1>2. RouteInv => RouteNeedsSettings
  BY DEF RouteInv, RouteOwed, RouteNeedsSettings, Rest
<1> QED BY <1>1, <1>2, StepKeepsRoute, PTL DEF Spec

--------------------------------------------------------------------------------
(***************************************************************************)
(* The newest certificate is served, where no hook, write, restart, pause  *)
(* or resume has failed.                                                   *)
(***************************************************************************)

NoFaults == faults.crashes + faults.errors = 0

\* How far the service whose turn it is has come: its files and settings are the
\* newest before it is restarted, or gone if it does not want TLS.
TurnInOrder ==
  /\ step = "decide" => ~changed
  /\ todo # <<>> =>
       /\ step = "written" =>
            Wanted(Service) /\ TlsMaterial # None /\ files[Service] = TlsMaterial
       /\ step = "cleared" => ~Wanted(Service) /\ Service \notin settings
       /\ step = "restart" =>
            IF Wanted(Service)
            THEN /\ TlsMaterial # None
                 /\ Service \in supporting =>
                      Service \in settings /\ files[Service] = TlsMaterial
            ELSE Service \notin settings

\* The service that is not installed does not run.
InstallerInv == serves["ubuntu-installer-attach"] # Stopped => InstallerOn

\* The service its package started on a paused unit.
Early(s) == early /\ s = "ubuntu-installer-attach"

\* A paused unit runs nothing else: resume starts the rest with the files it finds.
PausedInv == paused => \A s \in Services \cap Lsctl : serves[s] = Stopped \/ Early(s)

\* A running service has loaded the files that service.conf names, or is about to be
\* restarted.
LoadedInv ==
  ~paused => \A s \in settings \cap supporting \cap Lsctl :
    \/ serves[s] \in {Stopped, files[s]} \/ Early(s)
    \/ todo # <<>> /\ s = Service /\ changed

Written(s) == s \in settings /\ files[s] = TlsMaterial

Waiting == {todo[i] : i \in DOMAIN todo}

\* The newest certificate is in the files, or a hook that is running or pending will
\* write it.
WrittenInv ==
  \A s \in supporting : Wanted(s) /\ TlsMaterial # None =>
    \/ Written(s)
    \/ IF hook = "none"
       THEN cut \/ pending \cap {"config-changed", "certificate-available"} # {}
       ELSE s \in Waiting

Parts == TurnInOrder /\ InstallerInv /\ PausedInv /\ LoadedInv /\ WrittenInv

NewestInv == NoFaults => Parts

FullInv == IInv /\ NewestInv

\* Faults are never forgotten.
LEMMA FaultsGrow ==
  ASSUME IInv, [Next]_vars, NoFaults'
  PROVE  NoFaults /\ ~HookFails /\ ~WriteFails /\ ~RestartFails /\ ~PauseFails /\ ~ResumeFails
<1>1. faults \in [FaultNames -> Nat]
  BY DEF IInv, TypeOK
<1>2. \A what \in FaultNames : \A max : Count(what, max) =>
        /\ faults'.crashes \in Nat /\ faults'.errors \in Nat
        /\ faults'.crashes >= faults.crashes /\ faults'.errors >= faults.errors
        /\ what \in {"crashes", "errors"} => faults'.crashes + faults'.errors > 0
  <2> SUFFICES ASSUME NEW what \in FaultNames, NEW max, Count(what, max)
               PROVE  /\ faults'.crashes \in Nat /\ faults'.errors \in Nat
                      /\ faults'.crashes >= faults.crashes /\ faults'.errors >= faults.errors
                      /\ what \in {"crashes", "errors"} => faults'.crashes + faults'.errors > 0
    OBVIOUS
  <2>1. faults' = [faults EXCEPT ![what] = @ + 1]
    BY DEF Count
  <2>2. \A f \in FaultNames : faults'[f] = IF f = what THEN faults[f] + 1 ELSE faults[f]
    BY <1>1, <2>1
  <2>3. \A f \in FaultNames : faults[f] \in Nat /\ faults'[f] \in Nat /\ faults'[f] >= faults[f]
    BY <1>1, <2>2
  <2>4. "crashes" \in FaultNames /\ "errors" \in FaultNames
    BY DEF FaultNames
  <2> QED BY <2>2, <2>3, <2>4
<1>3. faults.crashes \in Nat /\ faults.errors \in Nat
  BY <1>1 DEF FaultNames
<1>4. \/ faults' = faults
      \/ \E what \in FaultNames : \E max : Count(what, max)
  <2> DEFINE Counted == \E what \in FaultNames : \E max : Count(what, max)
  <2>1. ASSUME \E what \in {"reconfigures", "renewals", "pauses", "breaks", "cuts", "errors",
                            "crashes"} : \E max : Count(what, max)
        PROVE  Counted
    BY <2>1 DEF FaultNames
  <2>2. Environment \/ OtherHook \/ Pause \/ PauseFails \/ Resume \/ ResumeFails =>
          faults' = faults \/ Counted
    <3>1. OperatorConfigures \/ CertificateRenewed \/ Pause \/ PauseFails \/ ResumeFails =>
            Counted
      BY <2>1 DEF OperatorConfigures, CertificateRenewed, Pause, PauseFails, ResumeFails
    <3>2. CertificatesRelated \/ ProviderIssues \/ OtherHook \/ Resume => faults' = faults
      BY DEF CertificatesRelated, ProviderIssues, OtherHook, Resume
    <3> QED BY <3>1, <3>2 DEF Environment
  <2>3. ConfigChangedEarlyReturn \/ CertificatesRelationBroken => faults' = faults \/ Counted
    BY <2>1 DEF ConfigChangedEarlyReturn, CertificatesRelationBroken
  <2>4. ConfigChanged \/ CertificateAvailable => faults' = faults
    BY DEF ConfigChanged, CertificateAvailable
  <2>5. SyncGrpcTls => faults' = faults \/ Counted
    <3>1. WriteFails \/ RestartFails => Counted
      BY <2>1 DEF WriteFails, RestartFails
    <3>2. PointAway \/ RemoveFiles \/ AwaitCertificate \/ WriteFiles \/ PointAtFiles
            \/ Restart => faults' = faults
      BY DEF PointAway, RemoveFiles, AwaitCertificate, WriteFiles, PointAtFiles, Restart
    <3> QED BY <3>1, <3>2 DEF SyncGrpcTls
  <2>6. ConfigChangedCut \/ HookFails => Counted
    BY <2>1 DEF ConfigChangedCut, HookFails
  <2>7. ConfigChangedReturns \/ CertificatesHookReturns \/ UNCHANGED vars =>
          faults' = faults
    BY DEF ConfigChangedReturns, CertificatesHookReturns, vars
  <2> HIDE DEF Counted
  <2>8. faults' = faults \/ Counted
    BY <2>2, <2>3, <2>4, <2>5, <2>6, <2>7 DEF Next
  <2> QED BY <2>8 DEF Counted
<1>5. HookFails \/ WriteFails \/ RestartFails \/ PauseFails \/ ResumeFails =>
        \E what \in {"crashes", "errors"} : \E max : Count(what, max)
  <2>1. HookFails => Count("crashes", MaxCrashes)
    BY DEF HookFails
  <2>2. WriteFails \/ RestartFails \/ PauseFails \/ ResumeFails => Count("errors", MaxErrors)
    BY DEF WriteFails, RestartFails, PauseFails, ResumeFails
  <2> QED BY <2>1, <2>2
<1>6. NoFaults
  BY <1>2, <1>3, <1>4 DEF NoFaults
<1>7. ~(\E what \in {"crashes", "errors"} : \E max : Count(what, max))
  <2>1. {"crashes", "errors"} \subseteq FaultNames
    BY DEF FaultNames
  <2> QED BY <1>2, <1>3, <2>1 DEF NoFaults
<1> QED BY <1>5, <1>6, <1>7

\* The services that wait, and those that wait behind the first.
LEMMA WaitingTurns ==
  ASSUME TypeOK, todo # <<>>
  PROVE  \A s \in Waiting : s = Service \/ s \in {Tail(todo)[i] : i \in DOMAIN Tail(todo)}
<1>1. CASE todo = <<"hostagent-messenger">>
  BY <1>1 DEF Waiting, Service, Services
<1>2. CASE todo = SyncOrder
  <2>1. /\ Service = "ubuntu-installer-attach"
        /\ Tail(todo) = <<"hostagent-messenger">>
    BY <1>2 DEF SyncOrder, Service
  <2>2. Waiting \subseteq Services
    BY <1>2 DEF SyncOrder, Waiting, Services
  <2>3. "hostagent-messenger" \in {Tail(todo)[i] : i \in DOMAIN Tail(todo)}
    <3> DEFINE rest == <<"hostagent-messenger">>
    <3>1. 1 \in DOMAIN rest /\ rest[1] = "hostagent-messenger"
      OBVIOUS
    <3>2. "hostagent-messenger" \in {rest[i] : i \in DOMAIN rest}
      BY <3>1
    <3> QED BY <2>1, <3>2
  <2> QED BY <2>1, <2>2, <2>3 DEF Services
<1> QED BY <1>1, <1>2 DEF TypeOK, Queues

\* Before the first turn both services wait.
LEMMA BothWait ==
  ASSUME NEW s \in Services
  PROVE  s \in {SyncOrder[i] : i \in DOMAIN SyncOrder}
BY DEF Services, SyncOrder

\* What the certificate and the wish for it depend on.
LEMMA SameMaterial ==
  ASSUME UNCHANGED <<config, related, asked, assigned>>, InstallerOn' = InstallerOn
  PROVE  /\ TlsMaterial' = TlsMaterial
         /\ \A s : Wanted(s)' = Wanted(s) /\ (Written(s)' <=>
                     s \in settings' /\ files'[s] = TlsMaterial)
BY DEF TlsMaterial, Request, Wanted, EnabledByConfig, Written

\* The operator, the provider and the library: what they make due they announce.
LEMMA EnvironmentNewest ==
  ASSUME IInv, Parts,
         \/ OperatorConfigures \/ CertificatesRelated
         \/ ProviderIssues \/ CertificateRenewed
  PROVE  Parts'
<1> USE DEF Parts
<1>1. /\ hook = "none" /\ todo = <<>>
      /\ UNCHANGED <<supporting, installed, paused, files, settings, serves, early, hook,
                     todo, step, changed, cut>>
  BY DEF IInv, BetweenSteps, OperatorConfigures, CertificatesRelated, ProviderIssues,
         CertificateRenewed, Idle, MayRun, machine, processes, progress
<1>2. InstallerOn' = InstallerOn
  BY <1>1 DEF InstallerOn
<1>3. TurnInOrder'
  BY <1>1 DEF TurnInOrder
<1>4. InstallerInv' /\ PausedInv' /\ LoadedInv'
  BY <1>1, <1>2 DEF InstallerInv, PausedInv, LoadedInv, Early
<1>5. WrittenInv'
  <2>1. CASE OperatorConfigures
    BY <1>1, <2>1 DEF OperatorConfigures, WrittenInv
  <2>2. CASE CertificatesRelated \/ CertificateRenewed
    <3>1. assigned' = None
      BY <2>2 DEF CertificatesRelated, CertificateRenewed
    <3> QED BY <3>1 DEF WrittenInv, TlsMaterial
  <2>3. CASE ProviderIssues
    BY <1>1, <2>3 DEF ProviderIssues, WrittenInv
  <2> QED BY <2>1, <2>2, <2>3
<1> QED BY <1>3, <1>4, <1>5

\* After a pause lsctl starts what is installed, with the files that are there.
LEMMA CharmNewest ==
  ASSUME IInv, Parts, OtherHook \/ Pause \/ Resume
  PROVE  Parts'
<1> USE DEF Parts
<1>1. /\ hook = "none" /\ todo = <<>>
      /\ UNCHANGED <<config, supporting, installed, related, asked, assigned, files,
                     settings, pending, hook, todo, step, changed, cut>>
  BY DEF IInv, BetweenSteps, OtherHook, Pause, Resume, ActionLeaves, Idle, MayRun, machine,
         progress, relation
<1>2. InstallerOn' = InstallerOn
  BY <1>1 DEF InstallerOn
<1>3. TurnInOrder'
  BY <1>1 DEF TurnInOrder
<1>4. WrittenInv'
  BY <1>1, <1>2, SameMaterial DEF WrittenInv, Written
<1>5. serves \in [Services -> Certs \cup {Plain, Stopped}] /\ settings \subseteq Services
  BY DEF IInv, TypeOK
<1>6. CASE OtherHook
  BY <1>1, <1>2, <1>3, <1>4, <1>6 DEF OtherHook, machine, processes, InstallerInv, PausedInv,
                                        LoadedInv, Early
<1>7. CASE Pause
  <2>1. InstallerInv'
    BY <1>2, <1>5, <1>7 DEF Pause, LsctlStops, InstallerInv, Services
  <2>2. paused' /\ \A s \in Services \cap Lsctl : serves'[s] = Stopped
    BY <1>7 DEF Pause, LsctlStops
  <2> QED BY <1>3, <1>4, <2>1, <2>2 DEF PausedInv, LoadedInv
<1>8. CASE Resume
  <2>1. LsctlStarts /\ ~paused'
    BY <1>8 DEF Resume
  <2>2. InstallerInv'
    BY <1>2, <1>5, <2>1 DEF LsctlStarts, InstallerInv, Services
  <2>3. ASSUME NEW s \in settings \cap supporting \cap Lsctl
        PROVE  serves'[s] \in {Stopped, files[s]} \/ Early(s)'
    <3>1. serves[s] \in {Stopped, files[s]} \/ Early(s)
      BY <1>1, <1>5, <2>3 DEF PausedInv, LoadedInv
    <3>2. CASE serves'[s] = serves[s]
      BY <2>1, <3>1, <3>2 DEF LsctlStarts, Early
    <3>3. CASE serves'[s] # serves[s]
      BY <1>5, <2>1, <2>3, <3>3 DEF LsctlStarts, ServesNow
    <3> QED BY <3>2, <3>3
  <2>4. LoadedInv' /\ PausedInv'
    BY <1>1, <2>1, <2>3 DEF LoadedInv, PausedInv
  <2> QED BY <1>3, <1>4, <2>2, <2>4
<1> QED BY <1>6, <1>7, <1>8

\* A hook that synchronises TLS has both services before it.
LEMMA StartNewest ==
  ASSUME IInv, Parts,
         \/ ConfigChanged \/ ConfigChangedEarlyReturn
         \/ CertificateAvailable \/ CertificatesRelationBroken
  PROVE  Parts'
<1> USE DEF Parts
<1>1. /\ hook = "none" /\ todo = <<>> /\ step = "decide" /\ ~changed
      /\ UNCHANGED <<supporting, installed, paused, config, files, settings, step, changed>>
  BY DEF IInv, BetweenSteps, TurnInOrder, ConfigChanged, ConfigChangedEarlyReturn,
         CertificateAvailable, CertificatesRelationBroken, MayRun, Idle, machine, processes
<1>2. TurnInOrder'
  BY <1>1 DEF TurnInOrder
<1>3. serves \in [Services -> Certs \cup {Plain, Stopped}] /\ supporting \subseteq Services
  BY DEF IInv, TypeOK
<1>4. ~changed' /\ todo = <<>>
  BY <1>1
<1>5. CASE ConfigChanged
  <2>1. todo' = SyncOrder /\ hook' = "config-changed" /\ config.valid
    BY <1>5 DEF ConfigChanged
  <2>2. WrittenInv'
    BY <1>1, <1>3, <2>1, BothWait DEF WrittenInv, Waiting
  <2>3. InstallerOn = installed
        /\ (InstallerOn' <=> "ubuntu-installer-attach" \in config.enabled)
    BY <1>1, <2>1 DEF InstallerOn, EnabledByConfig
  <2>4. /\ \A s \in Services \ {"ubuntu-installer-attach"} : serves'[s] = serves[s]
        /\ serves'["ubuntu-installer-attach"] =
             IF installed /\ ~InstallerOn' THEN Stopped
             ELSE IF ~installed /\ InstallerOn'
                     /\ serves["ubuntu-installer-attach"] = Stopped
             THEN ServesNow("ubuntu-installer-attach")
             ELSE serves["ubuntu-installer-attach"]
    BY <1>3, <1>5, <2>3 DEF ConfigChanged, Services
  <2>5. InstallerInv'
    BY <2>3, <2>4 DEF InstallerInv
  <2>7. \/ serves'["ubuntu-installer-attach"] = Stopped
        \/ /\ serves'["ubuntu-installer-attach"] = ServesNow("ubuntu-installer-attach")
           /\ early' = paused
        \/ /\ serves'["ubuntu-installer-attach"] = serves["ubuntu-installer-attach"]
           /\ early' <=> early
    <3> DEFINE uia == "ubuntu-installer-attach"
    <3>4. /\ serves' = [serves EXCEPT ![uia] =
               IF installed /\ uia \notin config.enabled THEN Stopped
               ELSE IF ~installed /\ uia \in config.enabled /\ serves[uia] = Stopped
               THEN ServesNow(uia) ELSE @]
          /\ early' = (/\ ~(installed /\ uia \notin config.enabled)
                      /\ IF ~installed /\ uia \in config.enabled /\ serves[uia] = Stopped
                         THEN paused ELSE early)
          /\ uia \in Services /\ paused \in BOOLEAN /\ early \in BOOLEAN
      BY <1>5 DEF ConfigChanged, Services, IInv, TypeOK
    <3>1. CASE installed /\ "ubuntu-installer-attach" \notin config.enabled
      BY <1>3, <3>1, <3>4
    <3>2. CASE ~installed /\ "ubuntu-installer-attach" \in config.enabled
               /\ serves["ubuntu-installer-attach"] = Stopped
      BY <1>3, <3>2, <3>4
    <3>3. CASE ~\/ installed /\ "ubuntu-installer-attach" \notin config.enabled
                \/ ~installed /\ "ubuntu-installer-attach" \in config.enabled
                   /\ serves["ubuntu-installer-attach"] = Stopped
      BY <1>3, <3>3, <3>4
    <3> QED BY <3>1, <3>2, <3>3
  <2>8. PausedInv'
    BY <1>1, <1>3, <2>4, <2>7 DEF PausedInv, Early, Services
  <2>6. LoadedInv'
    <3> SUFFICES ASSUME ~paused, NEW s \in settings \cap supporting \cap Lsctl
                 PROVE  serves'[s] \in {Stopped, files[s]} \/ Early(s)'
      BY <1>1 DEF LoadedInv
    <3>1. serves[s] \in {Stopped, files[s]} \/ Early(s)
      BY <1>1 DEF LoadedInv
    <3>2. CASE s = "ubuntu-installer-attach"
      BY <2>7, <3>1, <3>2 DEF ServesNow, Early
    <3>3. CASE s # "ubuntu-installer-attach"
      BY <1>3, <2>4, <3>1, <3>3 DEF Early, Services, IInv, TypeOK
    <3> QED BY <3>2, <3>3
  <2> QED BY <1>2, <2>2, <2>5, <2>6, <2>8
<1>6. CASE ConfigChangedEarlyReturn
  <2>1. cut' /\ hook' = "none" /\ serves' = serves /\ early' = early /\ todo' = todo
    BY <1>1, <1>6 DEF ConfigChangedEarlyReturn, machine, processes
  <2>2. InstallerOn' = InstallerOn
    BY <1>1, <2>1 DEF InstallerOn
  <2> QED BY <1>1, <1>2, <2>1, <2>2 DEF InstallerInv, PausedInv, LoadedInv, Early, WrittenInv
<1>7. CASE CertificateAvailable
  <2>1. /\ serves' = serves /\ early' = early /\ cut' = cut
        /\ UNCHANGED <<related, asked, assigned>>
    BY <1>7 DEF CertificateAvailable, machine, processes, relation
  <2>2. hook' # "config-changed"
    BY <1>1, <1>7 DEF CertificateAvailable
  <2>3. InstallerOn' = InstallerOn
    BY <1>1, <2>2 DEF InstallerOn
  <2>4. InstallerInv' /\ PausedInv' /\ LoadedInv'
    BY <1>1, <2>1, <2>3 DEF InstallerInv, PausedInv, LoadedInv, Early
  <2>5. WrittenInv'
    <3>1. CASE TlsMaterial # None
      <4>1. hook' = "certificate-available" /\ todo' = SyncOrder
        BY <1>7, <3>1 DEF CertificateAvailable
      <4> QED BY <1>1, <1>3, <4>1, BothWait DEF WrittenInv, Waiting
    <3>2. CASE TlsMaterial = None
      BY <1>1, <2>1, <2>3, <3>2, SameMaterial DEF WrittenInv
    <3> QED BY <3>1, <3>2
  <2> QED BY <1>2, <2>4, <2>5
<1>8. CASE CertificatesRelationBroken
  <2>1. serves' = serves /\ early' = early /\ hook' = "certificates-broken" /\ ~related'
    BY <1>8 DEF CertificatesRelationBroken, machine, processes
  <2>2. InstallerOn' = InstallerOn
    BY <1>1, <2>1 DEF InstallerOn
  <2> QED BY <1>1, <1>2, <2>1, <2>2 DEF InstallerInv, PausedInv, LoadedInv, Early,
                                         WrittenInv, Wanted
<1> QED BY <1>5, <1>6, <1>7, <1>8

\* The steps of a turn: the newest certificate is written, service.conf pointed at it,
\* and what has changed is restarted.
LEMMA SyncNewest ==
  ASSUME IInv, Parts,
         \/ PointAway \/ RemoveFiles \/ AwaitCertificate \/ WriteFiles
         \/ PointAtFiles \/ Restart
  PROVE  Parts'
<1> USE DEF Parts
<1>1. /\ todo # <<>> /\ Service \in Services /\ hook # "none"
      /\ UNCHANGED <<config, supporting, installed, paused, related, asked, assigned,
                     pending, hook, cut>>
  BY QueueTypes DEF IInv, BetweenSteps, PointAway, RemoveFiles, AwaitCertificate,
     WriteFiles, PointAtFiles, Restart, Syncing, Within, relation
<1>2. InstallerOn' = InstallerOn
  BY <1>1 DEF InstallerOn, EnabledByConfig
<1>3. /\ TlsMaterial' = TlsMaterial
      /\ \A s : Wanted(s)' = Wanted(s) /\ (Written(s)' <=>
                  s \in settings' /\ files'[s] = TlsMaterial)
  BY <1>1, <1>2, SameMaterial
<1>4. /\ serves \in [Services -> Certs \cup {Plain, Stopped}]
      /\ files \in [Services -> Certs \cup {None}] /\ settings \subseteq Services
  BY DEF IInv, TypeOK
<1>5. \A s \in Waiting : s = Service \/ s \in {Tail(todo)[i] : i \in DOMAIN Tail(todo)}
  BY <1>1, WaitingTurns DEF IInv
<1>6. \A s \in supporting : Wanted(s) /\ TlsMaterial # None => Written(s) \/ s \in Waiting
  BY <1>1 DEF WrittenInv
\* The machine may be as it was, but for the files or the settings of the service.
<1>7. ASSUME todo' = todo, UNCHANGED processes,
             \A s \in Services \ {Service} :
               files'[s] = files[s] /\ (s \in settings' <=> s \in settings)
      PROVE  WrittenInv' /\ InstallerInv' /\ PausedInv'
  <2>1. Waiting' = Waiting /\ Service \in Waiting
    <3>1. 1 \in DOMAIN todo /\ Service = todo[1]
      BY <1>1 DEF IInv, TypeOK, Queues, SyncOrder, Service
    <3> QED BY <1>7, <3>1 DEF Waiting
  <2>2. WrittenInv'
    BY <1>1, <1>3, <1>6, <1>7, <2>1 DEF WrittenInv, Written, IInv, TypeOK
  <2> QED BY <1>1, <1>2, <1>7, <2>2 DEF InstallerInv, PausedInv, Early, processes
<1>8. CASE PointAway
  <2>1. /\ step = "decide" /\ ~Wanted(Service) /\ settings' = settings \ {Service}
        /\ step' = "cleared" /\ todo' = todo /\ UNCHANGED <<files, processes>>
    BY <1>8 DEF PointAway, Syncing, At
  <2>2. TurnInOrder'
    BY <1>3, <2>1 DEF TurnInOrder, Service
  <2>3. ~changed
    BY <2>1 DEF TurnInOrder
  <2>4. LoadedInv'
    BY <1>1, <2>1, <2>3 DEF LoadedInv, Early, processes, Service
  <2> QED BY <1>7, <2>1, <2>2, <2>4
<1>9. CASE RemoveFiles
  <2>1. /\ step = "cleared" /\ files' = [files EXCEPT ![Service] = None]
        /\ step' = "restart" /\ todo' = todo /\ changed' = changed
        /\ UNCHANGED <<settings, processes>>
    BY <1>9 DEF RemoveFiles, Syncing, At
  <2>2. ~Wanted(Service) /\ Service \notin settings
    BY <1>1, <2>1 DEF TurnInOrder
  <2>3. TurnInOrder'
    BY <1>3, <2>1, <2>2 DEF TurnInOrder, Service
  <2>4. LoadedInv'
    BY <1>1, <1>4, <2>1, <2>2 DEF LoadedInv, Early, processes, Service
  <2> QED BY <1>4, <1>7, <2>1, <2>3, <2>4
<1>10. CASE AwaitCertificate
  <2>1. /\ step = "decide" /\ TlsMaterial = None
        /\ step' = "decide" /\ ~changed' /\ UNCHANGED <<files, settings, processes>>
    BY <1>10 DEF AwaitCertificate, Syncing, NextService, machine, processes
  <2>2. TurnInOrder' /\ WrittenInv' /\ InstallerInv' /\ PausedInv'
    BY <1>1, <1>2, <1>3, <2>1
    DEF TurnInOrder, WrittenInv, InstallerInv, PausedInv, Early, processes
  <2>3. LoadedInv'
    BY <1>1, <2>1 DEF LoadedInv, TurnInOrder, Early, processes
  <2> QED BY <2>2, <2>3
<1>11. CASE WriteFiles
  <2>1. /\ step = "decide" /\ Wanted(Service) /\ TlsMaterial # None
        /\ files' = [files EXCEPT ![Service] = TlsMaterial]
        /\ step' = "written" /\ changed' = (files[Service] # TlsMaterial) /\ todo' = todo
        /\ UNCHANGED <<settings, processes>>
    BY <1>11 DEF WriteFiles, Syncing, At
  <2>2. files'[Service] = TlsMaterial /\ \A s \in Services \ {Service} : files'[s] = files[s]
    BY <1>1, <1>4, <2>1
  <2>3. TurnInOrder'
    BY <1>3, <2>1, <2>2 DEF TurnInOrder, Service
  <2>4. LoadedInv'
    <3> SUFFICES ASSUME ~paused, NEW s \in settings \cap supporting \cap Lsctl
                 PROVE  \/ serves[s] \in {Stopped, files'[s]} \/ Early(s)
                        \/ s = Service /\ changed'
      BY <1>1, <2>1 DEF LoadedInv, Early, processes, Service
    <3>1. serves[s] \in {Stopped, files[s]} \/ Early(s)
      BY <2>1 DEF LoadedInv, TurnInOrder
    <3> QED BY <1>4, <2>1, <2>2, <3>1
  <2> QED BY <1>7, <2>1, <2>2, <2>3, <2>4
<1>12. CASE PointAtFiles
  <2>1. /\ step = "written" /\ step' = "restart" /\ todo' = todo /\ UNCHANGED processes
        /\ Wanted(Service) /\ TlsMaterial # None /\ files[Service] = TlsMaterial
    BY <1>1, <1>12 DEF PointAtFiles, Syncing, At, TurnInOrder
  <2>2. CASE Service \in settings
    <3>1. changed' = changed /\ UNCHANGED <<files, settings>>
      BY <1>12, <2>2 DEF PointAtFiles, At
    <3>2. TurnInOrder'
      BY <1>1, <1>3, <2>1, <2>2, <3>1 DEF TurnInOrder, Service
    <3>3. LoadedInv'
      BY <1>1, <2>1, <3>1 DEF LoadedInv, Early, processes, Service
    <3> QED BY <1>7, <2>1, <3>1, <3>2, <3>3
  <2>3. CASE Service \notin settings /\ Service \in supporting
    <3>1. changed' /\ settings' = settings \cup {Service} /\ files' = files
      BY <1>12, <2>3 DEF PointAtFiles, At
    <3>2. TurnInOrder'
      BY <1>1, <1>3, <2>1, <3>1 DEF TurnInOrder, Service
    <3>3. LoadedInv'
      BY <1>1, <2>1, <3>1 DEF LoadedInv, Early, processes, Service
    <3> QED BY <1>7, <2>1, <3>1, <3>2, <3>3
  <2>4. CASE Service \notin settings /\ Service \notin supporting
    <3>1. /\ settings' = settings /\ files' = [files EXCEPT ![Service] = None]
          /\ ~changed'
      BY <1>12, <2>4 DEF PointAtFiles, At
    <3>2. TurnInOrder'
      BY <1>1, <1>3, <2>1, <2>4, <3>1 DEF TurnInOrder, Service
    <3>3. LoadedInv'
      BY <1>1, <1>4, <2>1, <2>4, <3>1 DEF LoadedInv, Early, processes, Service
    <3> QED BY <1>4, <1>7, <2>1, <3>1, <3>2, <3>3
  <2> QED BY <2>2, <2>3, <2>4
<1>13. CASE Restart
  <2>1. /\ step = "restart" /\ step' = "decide" /\ ~changed' /\ todo' = Tail(todo)
        /\ UNCHANGED <<files, settings>>
        /\ serves' = [serves EXCEPT ![Service] = IF Due THEN ServesNow(Service) ELSE @]
        /\ early' <=> early /\ ~(Due /\ Service = "ubuntu-installer-attach")
    BY <1>13 DEF Restart, Syncing, NextService
  <2>2. TurnInOrder'
    BY <2>1 DEF TurnInOrder
  <2>3. InstallerInv'
    BY <1>1, <1>2, <1>4, <2>1 DEF InstallerInv, Due, Enabled, Services
  <2>6. PausedInv'
    <3> SUFFICES ASSUME paused, NEW s \in Services \cap Lsctl
                 PROVE  serves'[s] = Stopped \/ Early(s)'
      BY <1>1 DEF PausedInv
    <3>1. ~Due
      BY DEF Due
    <3>2. serves'[s] = serves[s] /\ (Early(s)' <=> Early(s))
      BY <1>4, <2>1, <3>1 DEF Early
    <3> QED BY <3>2 DEF PausedInv
  <2>4. LoadedInv'
    <3> SUFFICES ASSUME ~paused, NEW s \in settings \cap supporting \cap Lsctl
                 PROVE  serves'[s] \in {Stopped, files[s]} \/ Early(s)'
      BY <1>1, <2>1 DEF LoadedInv
    <3>1. CASE s # Service
      BY <1>1, <1>4, <2>1, <3>1 DEF LoadedInv, Early
    <3>2. CASE s = Service /\ Due
      BY <1>1, <1>4, <2>1, <3>2 DEF ServesNow
    <3>3. CASE s = Service /\ ~Due
      <4>1. serves'[s] = serves[s] /\ (early' <=> early)
        BY <1>1, <1>4, <2>1, <3>3
      <4>2. CASE ~changed
        BY <4>1, <4>2 DEF LoadedInv, Early
      <4>3. CASE ~Enabled(Service)
        <5>1. Wanted(Service)
          BY <1>1, <2>1, <3>3 DEF TurnInOrder
        <5>2. Service = "ubuntu-installer-attach" /\ ~InstallerOn
          BY <4>3, <5>1 DEF Enabled, Wanted
        <5> QED BY <3>3, <4>1, <5>2 DEF InstallerInv
      <4> QED BY <3>3, <4>2, <4>3 DEF Due
    <3> QED BY <3>1, <3>2, <3>3
  <2>5. WrittenInv'
    <3> SUFFICES ASSUME NEW s \in supporting, Wanted(s), TlsMaterial # None, ~Written(s)
                 PROVE  s \in Waiting'
      BY <1>1, <1>3, <2>1 DEF WrittenInv, Written
    <3>1. s \in Waiting
      BY <1>6
    <3>2. s # Service
      BY <1>1, <2>1 DEF TurnInOrder, Written
    <3> QED BY <1>5, <2>1, <3>1, <3>2 DEF Waiting
  <2> QED BY <2>2, <2>3, <2>4, <2>5, <2>6
<1> QED BY <1>8, <1>9, <1>10, <1>11, <1>12, <1>13

\* A hook that returns has given both services their turn.
LEMMA EndNewest ==
  ASSUME IInv, Parts, ConfigChangedReturns \/ ConfigChangedCut \/ CertificatesHookReturns
  PROVE  Parts'
<1> USE DEF Parts
<1>1. /\ todo = <<>> /\ hook # "none" /\ hook' = "none"
      /\ UNCHANGED <<config, supporting, paused, files, settings, todo, step, changed>>
  BY DEF ConfigChangedReturns, ConfigChangedCut, CertificatesHookReturns, Returns
<1>2. InstallerOn' = InstallerOn
  BY <1>1 DEF InstallerOn, EnabledByConfig, ConfigChangedReturns, ConfigChangedCut,
              CertificatesHookReturns, Returns
<1>3. TurnInOrder'
  BY <1>1 DEF TurnInOrder
<1>4. /\ serves \in [Services -> Certs \cup {Plain, Stopped}] /\ settings \subseteq Services
  BY DEF IInv, TypeOK
<1>5. \A s \in supporting : Wanted(s) /\ TlsMaterial # None => Written(s)
  BY <1>1 DEF WrittenInv, Waiting
\* The library keeps the certificate of a request that is still made.
<1>6. TlsMaterial' # None => TlsMaterial' = TlsMaterial /\ related' = related
  <2>1. Request' = Request
    BY <1>1, <1>2 DEF Request, EnabledByConfig
  <2>2. CASE Ask
    BY <2>1, <2>2 DEF Ask, TlsMaterial
  <2>3. CASE UNCHANGED relation
    BY <2>1, <2>3 DEF relation, TlsMaterial
  <2> QED BY <2>2, <2>3 DEF ConfigChangedReturns, ConfigChangedCut, CertificatesHookReturns
<1>7. WrittenInv'
  BY <1>1, <1>5, <1>6 DEF WrittenInv, Written, Wanted, EnabledByConfig
<1>8. CASE UNCHANGED processes
  BY <1>1, <1>2, <1>3, <1>7, <1>8
  DEF InstallerInv, PausedInv, LoadedInv, Early, processes
<1>9. CASE ~paused /\ LsctlRestarts
  <2>1. InstallerInv'
    BY <1>2, <1>4, <1>9 DEF LsctlRestarts, InstallerInv, Services
  <2>2. ASSUME NEW s \in settings \cap supporting \cap Lsctl
        PROVE  serves'[s] \in {Stopped, files[s]}
    <3>1. CASE s = "ubuntu-installer-attach" /\ ~InstallerOn
      BY <1>4, <1>9, <3>1 DEF LsctlRestarts, InstallerInv, Services
    <3>2. CASE s = "ubuntu-installer-attach" => InstallerOn
      BY <1>4, <1>9, <2>2, <3>2 DEF LsctlRestarts, ServesNow
    <3> QED BY <3>1, <3>2
  <2>3. LoadedInv' /\ PausedInv'
    BY <1>1, <1>9, <2>2 DEF LoadedInv, PausedInv
  <2> QED BY <1>3, <1>7, <2>1, <2>3
<1> QED BY <1>8, <1>9 DEF ConfigChangedReturns, ConfigChangedCut, CertificatesHookReturns

LEMMA NextNewest == FullInv /\ [Next]_vars => FullInv'
<1> SUFFICES ASSUME FullInv, [Next]_vars PROVE FullInv'
  OBVIOUS
<1>1. IInv /\ IInv'
  BY NextInv DEF FullInv
<1> SUFFICES ASSUME NoFaults' PROVE Parts'
  BY <1>1 DEF FullInv, NewestInv
<1>2. Parts /\ ~HookFails /\ ~WriteFails /\ ~RestartFails /\ ~PauseFails /\ ~ResumeFails
  BY <1>1, FaultsGrow DEF FullInv, NewestInv
<1>3. CASE Environment
  BY <1>1, <1>2, <1>3, EnvironmentNewest DEF Environment
<1>4. CASE OtherHook \/ Pause \/ Resume
  BY <1>1, <1>2, <1>4, CharmNewest
<1>5. CASE \/ ConfigChanged \/ ConfigChangedEarlyReturn
           \/ CertificateAvailable \/ CertificatesRelationBroken
  BY <1>1, <1>2, <1>5, StartNewest
<1>6. CASE SyncGrpcTls
  BY <1>1, <1>2, <1>6, SyncNewest DEF SyncGrpcTls
<1>7. CASE ConfigChangedReturns \/ ConfigChangedCut \/ CertificatesHookReturns
  BY <1>1, <1>2, <1>7, EndNewest
<1>8. CASE UNCHANGED vars
  BY <1>2, <1>8 DEF vars, relation, machine, processes, progress, Parts, TurnInOrder, InstallerInv,
                    PausedInv, Early, LoadedInv, WrittenInv, Written, Waiting, Wanted, EnabledByConfig,
                    InstallerOn, TlsMaterial, Request, Service
<1> QED BY <1>2, <1>3, <1>4, <1>5, <1>6, <1>7, <1>8 DEF Next

LEMMA InitNewest == Init => FullInv
<1> SUFFICES ASSUME Init PROVE FullInv
  OBVIOUS
<1>1. IInv
  BY InitInv
<1>2. TurnInOrder /\ PausedInv /\ LoadedInv
  BY DEF Init, TurnInOrder, PausedInv, LoadedInv
<1>3. InstallerInv
  BY DEF Init, InstallerInv, Services
<1>4. WrittenInv
  BY DEF Init, WrittenInv
<1> QED BY <1>1, <1>2, <1>3, <1>4 DEF FullInv, NewestInv, Parts

\* Once every hook has run, and no hook, write, restart, pause or resume has failed, the
\* services that run and want TLS serve the certificate that was issued last, also after a
\* pause and after early returns and renewals before it (_on_certificate_available,
\* _resume); ubuntu-installer-attach is excepted if its package started it on a paused unit.
THEOREM NewestIsServed == Spec => []NewestServed
<1>1. FullInv => NewestServed
  <2> SUFFICES ASSUME FullInv, Rest, ~cut, ~paused, TlsMaterial # None, NoFaults,
                      NEW s \in supporting \cap Lsctl, Wanted(s), serves[s] # Stopped,
                      ~Early(s)
               PROVE  serves[s] = TlsMaterial
    BY DEF NewestServed, NoFaults, Early
  <2>1. hook = "none" /\ pending = {} /\ todo = <<>>
    BY DEF Rest, Idle, FullInv, IInv, BetweenSteps
  <2>2. Written(s)
    BY <2>1 DEF FullInv, NewestInv, Parts, WrittenInv
  <2>3. serves[s] = files[s]
    BY <2>1, <2>2 DEF FullInv, NewestInv, Parts, LoadedInv, Written
  <2> QED BY <2>2, <2>3 DEF Written
<1> QED BY <1>1, InitNewest, NextNewest, PTL DEF Spec
================================================================================
