------------------------------ MODULE RelaysProofs -----------------------------
(***************************************************************************)
(* What holds of one unit's outbox snap and SMTP relay whatever is         *)
(* published, renewed, killed or fails, however often.  The snap is never  *)
(* pointed at an address whose certificates are not all on disk: that      *)
(* depends on the order in which the files are written and on the          *)
(* handler's data never being older than what an earlier run of it has     *)
(* written.  And once the hooks are done the files, the address, the       *)
(* credentials and postfix's settings are those last published: until      *)
(* then what is not yet so is owed by a pending hook or a running handler. *)
(***************************************************************************)
EXTENDS Relays, TLAPS

\* The files that the handler has written when it is at a step.
Written(s) ==
  CASE s = "ca.crt"     -> {}
    [] s = "client.crt" -> {"ca.crt"}
    [] s = "client.key" -> {"ca.crt", "client.crt"}
    [] OTHER            -> CertFiles

OutboxSteps == CertFiles \cup {"configure outbox", "restart outbox"}

\* Nothing is newer than the secret, and what is published with an address is at
\* least as new as the address.
NothingTooNew ==
  /\ taskHandler.address <= taskHandler.revision /\ taskHandler.revision <= newest
  /\ \A f \in CertFiles : files[f] <= newest

\* A running handler overwrites no file with an older one, and the files it has
\* written go with the address it is going to set.
HandlerInOrder ==
  step \in OutboxSteps =>
    /\ given.address <= given.revision /\ given.revision <= newest
    /\ \A f \in CertFiles : files[f] <= given.revision
    /\ \A f \in Written(step) : files[f] = given.revision

IInv == OutboxTypeOK /\ NothingTooNew /\ HandlerInOrder /\ FilesBeforeAddress

\* The handler's steps have names of their own.
LEMMA StepNames ==
  /\ "idle" \notin OutboxSteps
  /\ "main.cf" \notin OutboxSteps /\ "reload" \notin OutboxSteps
  /\ "sasl_passwd" \notin OutboxSteps /\ "postmap" \notin OutboxSteps
BY DEF OutboxSteps, CertFiles

LEMMA InitInv == Init => IInv
BY StepNames
DEF Init, OutboxInit, HooksInit, IInv, OutboxTypeOK, NothingTooNew, HandlerInOrder,
    FilesBeforeAddress, Nothing

\* A step that leaves the outbox alone and is not one of its handler's afterwards,
\* or is where it was.
LEMMA OthersKeep ==
  ASSUME IInv, UNCHANGED outboxVars, step' = step \/ step' \notin OutboxSteps
  PROVE  IInv'
<1>1. OutboxTypeOK' /\ NothingTooNew' /\ FilesBeforeAddress'
  BY DEF IInv, outboxVars, OutboxTypeOK, NothingTooNew, FilesBeforeAddress
<1>2. HandlerInOrder'
  BY DEF IInv, outboxVars, HandlerInOrder, Written
<1> QED BY <1>1, <1>2 DEF IInv

\* postfix, its relation and its handlers.
LEMMA SmtpKeeps ==
  ASSUME IInv, SmtpNext, UNCHANGED outboxVars
  PROVE  IInv'
<1> SUFFICES step' = step \/ step' \notin OutboxSteps
  BY OthersKeep
<1>1. CASE Relate \/ Reconfigure \/ ChangePassword \/ Unrelate
  BY <1>1 DEF Relate, Reconfigure, ChangePassword, Unrelate, Provide, Owe, hookVars
<1>2. CASE RelationChanged \/ SecretChanged
  BY <1>2, StepNames DEF RelationChanged, SecretChanged, DataAvailable, Begin
<1>3. CASE \/ InvalidDataIgnored \/ InvalidDataRaises \/ OtherSecretChanged
           \/ PasswordUnreadable \/ RelationBroken
  BY <1>3 DEF InvalidDataIgnored, InvalidDataRaises, OtherSecretChanged,
              PasswordUnreadable, RelationBroken, BeginAndReturn, BeginAndRaise
<1>4. CASE RewriteMainCf \/ ReloadPostfix \/ ReloadFails \/ WriteSaslPasswd
  BY <1>4, StepNames DEF RewriteMainCf, ReloadPostfix, ReloadFails, WriteSaslPasswd, Goto
<1>5. CASE Postmap \/ PostmapFails \/ NoSaslPasswd \/ SmtpKilled
  BY <1>5, StepNames DEF Postmap, PostmapFails, NoSaslPasswd, SmtpKilled, HookKilled,
                         Return, Raise
<1> QED BY <1>1, <1>2, <1>3, <1>4, <1>5 DEF SmtpNext, SmtpStep

\* The task-handler publishes and renews, whatever the handler is doing.
LEMMA TaskHandlerKeeps ==
  ASSUME IInv, Publish \/ Renew
  PROVE  IInv'
<1>1. step' = step /\ UNCHANGED <<given, files, settings, running, missed>>
  BY DEF Publish, Renew, Owe, hookVars
<1>2. newest' = newest + 1
  BY DEF Publish, Renew
<1>3. /\ taskHandler' \in [address : Nat, revision : Nat]
      /\ taskHandler'.address <= taskHandler'.revision
      /\ taskHandler'.revision <= newest'
  BY DEF Publish, Renew, IInv, OutboxTypeOK, NothingTooNew
<1>4. OutboxTypeOK' /\ NothingTooNew' /\ FilesBeforeAddress'
  BY <1>1, <1>2, <1>3 DEF IInv, OutboxTypeOK, NothingTooNew, FilesBeforeAddress
<1>5. HandlerInOrder'
  BY <1>1, <1>2 DEF IInv, OutboxTypeOK, HandlerInOrder, Written
<1> QED BY <1>4, <1>5 DEF IInv

\* What the handler reads is the newest there is.
LEMMA ConsumeKeeps ==
  ASSUME IInv, ConsumeCerts
  PROVE  IInv'
<1>1. /\ step' = "ca.crt"
      /\ UNCHANGED <<taskHandler, newest, files, settings, running, missed>>
      /\ given' = [address |-> taskHandler.address, revision |-> newest]
  BY DEF ConsumeCerts, Begin
<1>2. OutboxTypeOK' /\ NothingTooNew' /\ FilesBeforeAddress'
  BY <1>1 DEF IInv, OutboxTypeOK, NothingTooNew, FilesBeforeAddress
<1>3. HandlerInOrder'
  BY <1>1 DEF IInv, OutboxTypeOK, NothingTooNew, HandlerInOrder, Written
<1> QED BY <1>2, <1>3 DEF IInv

\* A file is replaced by one that is not older.
LEMMA WriteKeeps ==
  ASSUME IInv, WriteCertificate
  PROVE  IInv'
<1>1. /\ step \in CertFiles /\ step' = After(step)
      /\ files' = [files EXCEPT ![step] = given.revision]
      /\ UNCHANGED <<taskHandler, newest, given, settings, running, missed>>
  BY DEF WriteCertificate, Goto
<1>2. step \in OutboxSteps
  BY <1>1 DEF OutboxSteps
<1>3. /\ files' \in [CertFiles -> Nat]
      /\ \A f \in CertFiles : files[f] <= files'[f] /\ files'[f] <= given.revision
  BY <1>1, <1>2 DEF IInv, OutboxTypeOK, HandlerInOrder
<1>4. OutboxTypeOK' /\ NothingTooNew' /\ FilesBeforeAddress'
  BY <1>1, <1>2, <1>3
  DEF IInv, OutboxTypeOK, NothingTooNew, HandlerInOrder, FilesBeforeAddress
<1>5. \A f \in Written(step') : files'[f] = given.revision
  <2>1. Written(step') \subseteq Written(step) \cup {step}
    BY <1>1 DEF Written, After, CertFiles
  <2>2. Written(step) \subseteq CertFiles
    BY DEF Written, CertFiles
  <2> QED BY <1>1, <1>2, <2>1, <2>2 DEF IInv, OutboxTypeOK, HandlerInOrder
<1>6. HandlerInOrder'
  BY <1>1, <1>2, <1>3, <1>5 DEF IInv, HandlerInOrder
<1> QED BY <1>4, <1>6 DEF IInv

\* The address is set when all files have been written.
LEMMA ConfigureKeeps ==
  ASSUME IInv, ConfigureOutbox \/ ConfigurationUnknown
  PROVE  IInv'
<1>1. /\ step = "configure outbox" /\ settings' = given.address
      /\ UNCHANGED <<taskHandler, newest, files, running>>
      /\ missed' = missed \ {"address"}
      /\ \/ step' = "restart outbox" /\ given' = given
         \/ step' = "idle" /\ given' = Nothing
  BY DEF ConfigureOutbox, ConfigurationUnknown, At, Goto, Return, OutboxEnds, Does
<1>2. Written(step) = CertFiles /\ step \in OutboxSteps
  BY <1>1 DEF Written, OutboxSteps
<1>3. \A f \in CertFiles : given.address <= files[f]
  BY <1>2 DEF IInv, HandlerInOrder
<1>4. OutboxTypeOK' /\ NothingTooNew' /\ FilesBeforeAddress'
  <2>1. given' \in [address : Nat, revision : Nat] /\ given.address \in Nat
    <3>1. given \in [address : Nat, revision : Nat]
      BY DEF IInv, OutboxTypeOK
    <3>2. Nothing \in [address : Nat, revision : Nat]
      BY DEF Nothing
    <3> QED BY <1>1, <3>1, <3>2
  <2>2. OutboxTypeOK'
    BY <1>1, <2>1 DEF IInv, OutboxTypeOK
  <2> QED BY <1>1, <1>3, <2>2 DEF IInv, NothingTooNew, FilesBeforeAddress
<1>5. HandlerInOrder'
  <2>1. CASE step' = "idle"
    BY <2>1, StepNames DEF HandlerInOrder
  <2>2. CASE step' = "restart outbox"
    <3>1. Written(step') = CertFiles
      BY <2>2 DEF Written
    <3> QED BY <1>1, <1>2, <2>2, <3>1, StepNames DEF IInv, HandlerInOrder
  <2> QED BY <1>1, <2>1, <2>2
<1> QED BY <1>4, <1>5 DEF IInv

\* The snap that starts loads the address that is set; a handler that ends, however
\* it does, leaves what it has done.
LEMMA EndsKeep ==
  ASSUME IInv,
         \/ WriteFails \/ ConfigureFails \/ RestartOutbox \/ RestartFails
         \/ OutboxKilled \/ ServicesRestart \/ CertificatesUnreadable
  PROVE  IInv'
<1>1. /\ UNCHANGED <<taskHandler, newest, files, settings>>
      /\ running' \in {running, settings}
      /\ missed' \subseteq missed \cup {"address", "restart"}
  BY DEF WriteFails, ConfigureFails, RestartOutbox, RestartFails, OutboxKilled,
         ServicesRestart, CertificatesUnreadable, GivesUp, Does
<1>2. \/ step' = "idle" /\ given' = Nothing
      \/ step' = step /\ given' = given
  BY DEF WriteFails, ConfigureFails, RestartOutbox, RestartFails, OutboxKilled,
         ServicesRestart, CertificatesUnreadable, BeginAndReturn, OutboxEnds, Return, Raise,
         HookKilled, hookVars
<1>3. OutboxTypeOK' /\ NothingTooNew' /\ FilesBeforeAddress'
  BY <1>1, <1>2
  DEF IInv, OutboxTypeOK, NothingTooNew, FilesBeforeAddress, Nothing
<1>4. HandlerInOrder'
  BY <1>1, <1>2, StepNames DEF IInv, HandlerInOrder, Written
<1> QED BY <1>3, <1>4 DEF IInv

\* Every step of the unit and of the other sides of its relations.
LEMMA NextInv ==
  ASSUME IInv, [Next]_vars
  PROVE  IInv'
<1>1. CASE SmtpNext /\ UNCHANGED outboxVars
  BY <1>1, SmtpKeeps
<1>2. CASE Publish \/ Renew
  BY <1>2, TaskHandlerKeeps
<1>3. CASE NothingPublished
  BY <1>3, OthersKeep DEF NothingPublished, BeginAndReturn
<1>4. CASE ConsumeCerts
  BY <1>4, ConsumeKeeps
<1>5. CASE WriteCertificate
  BY <1>5, WriteKeeps
<1>6. CASE ConfigureOutbox \/ ConfigurationUnknown
  BY <1>6, ConfigureKeeps
<1>7. CASE \/ WriteFails \/ ConfigureFails \/ RestartOutbox \/ RestartFails
           \/ OutboxKilled \/ ServicesRestart \/ CertificatesUnreadable
  BY <1>7, EndsKeep
<1>8. CASE UNCHANGED vars
  BY <1>8, OthersKeep DEF vars, hookVars
<1> QED BY <1>1, <1>2, <1>3, <1>4, <1>5, <1>6, <1>7, <1>8
        DEF Next, OutboxNext, OutboxStep

\* The outbox snap is never configured with, nor runs with, an address published
\* with certificates newer than one of its three files, however the writes of
\* _consume_task_handler_certs, renewals, failures and killed hooks interleave.
THEOREM FilesBeforeAddressAlways == Spec => []FilesBeforeAddress
<1>1. IInv => FilesBeforeAddress
  BY DEF IInv
<1> QED BY InitInv, NextInv, <1>1, PTL DEF Spec

--------------------------------------------------------------------------------
(***************************************************************************)
(* The types.  SmtpTypeOK says little of what is read from the databag;    *)
(* that it is always an offer with a password has to be known with it.     *)
(***************************************************************************)

Bags == [host : Hosts, security : Securities, auth : {"none", "inline", "secret"},
         valid : BOOLEAN, password : Nat]

HooksTyped ==
  /\ pending \subseteq AllHooks
  /\ failed \in AllHooks \cup {"none"} /\ hook \in AllHooks \cup {"none"}
  /\ changes \in Nat

SmtpTyped ==
  /\ relation \in {"none", "joined", "leaving"}
  /\ databag \in Bags /\ mail \in Bags
  /\ databag.auth # "inline" => databag.password = 0
  /\ password \in Nat /\ tracks \in BOOLEAN
  /\ mainCf \in [settings : Settings, others : Nat \ {0}] /\ postfix \in Settings
  /\ passwd \in Credentials /\ map \in Credentials

TInv == HooksTyped /\ SmtpTyped /\ OutboxTypeOK

LEMMA InitTyped == Init => TInv
<1> SUFFICES ASSUME Init PROVE TInv
  OBVIOUS
<1>1. HooksTyped
  BY DEF Init, HooksInit, HooksTyped, AllHooks
<1>2. SmtpTyped
  <2>1. NoOffer \in Bags /\ NoOffer.password = 0
    BY DEF NoOffer, Bags, Securities, Hosts
  <2>2. Shipped \in Settings /\ NoCredentials \in Credentials /\ OtherLines \in Nat \ {0}
    BY DEF Shipped, Settings, NoCredentials, Credentials, OtherLines, Hosts
  <2> QED BY <2>1, <2>2 DEF Init, SmtpInit, SmtpTyped
<1>3. OutboxTypeOK
  BY InitInv DEF IInv
<1> QED BY <1>1, <1>2, <1>3 DEF TInv

\* Juju's bookkeeping, for any hook of the two relations.
LEMMA HookTypes ==
  ASSUME HooksTyped, NEW h \in AllHooks
  PROVE  /\ \A s : Begin(h, s) /\ NoFault => HooksTyped'
         /\ \A s : Goto(s) /\ NoFault => HooksTyped'
         /\ \A s, k : Goto(s) /\ Fault(k) => HooksTyped'
         /\ Return /\ NoFault => HooksTyped'
         /\ \A k : Return /\ Fault(k) => HooksTyped'
         /\ BeginAndReturn(h) /\ NoFault => HooksTyped'
         /\ \A k : BeginAndReturn(h) /\ Fault(k) => HooksTyped'
         /\ BeginAndRaise(h) /\ NoFault => HooksTyped'
         /\ \A k : BeginAndRaise(h) /\ Fault(k) => HooksTyped'
         /\ \A k : Raise /\ Fault(k) => HooksTyped'
         /\ Change /\ Owe(h) => HooksTyped'
         /\ Change /\ UNCHANGED hookVars => HooksTyped'
         /\ UNCHANGED hookVars /\ NoFault => HooksTyped'
BY DEF HooksTyped, Begin, Goto, Return, BeginAndReturn, BeginAndRaise, Raise, Change, Owe,
       hookVars, NoFault, Fault, counters

LEMMA HookNames ==
  "smtp-changed" \in AllHooks /\ "secret-changed" \in AllHooks /\ "smtp-broken" \in AllHooks
    /\ OutboxHook \in AllHooks
BY DEF AllHooks, SmtpHooks, OutboxHook

\* What the integrator publishes, and what of it the handler reads.
LEMMA BagTypes ==
  /\ \A offer \in Offers \cup Bags, pw \in Nat :
       ToRelationData(offer, pw) \in Bags /\
       (ToRelationData(offer, pw).auth # "inline" => ToRelationData(offer, pw).password = 0)
  /\ SmtpTyped => GetRelationData \in Bags
  /\ NoOffer \in Bags /\ NoCredentials \in Credentials
<1>1. ASSUME NEW offer \in Offers \cup Bags, NEW pw \in Nat
      PROVE  ToRelationData(offer, pw) \in Bags /\
             (ToRelationData(offer, pw).auth # "inline" => ToRelationData(offer, pw).password = 0)
  BY SmtpAssumption DEF ToRelationData, OfferType, Bags, Hosts
<1>2. SmtpTyped => GetRelationData \in Bags
  BY DEF SmtpTyped, GetRelationData, Bags
<1>3. NoOffer \in Bags /\ NoCredentials \in Credentials
  BY DEF NoOffer, Bags, Securities, NoCredentials, Credentials, Hosts
<1> QED BY <1>1, <1>2, <1>3

\* The SMTP integrator and its operator.
LEMMA IntegratorTyped ==
  ASSUME TInv, Relate \/ Reconfigure \/ ChangePassword \/ Unrelate
  PROVE  HooksTyped' /\ SmtpTyped'
<1>1. ASSUME Change, NEW offer \in Offers \cup Bags, NEW pw \in Nat, Provide(offer, pw)
      PROVE  HooksTyped' /\ databag' \in Bags /\ (databag'.auth # "inline" => databag'.password = 0)
  BY <1>1, BagTypes, HookTypes, HookNames DEF TInv, Provide
<1>2. CASE Relate \/ Reconfigure
  <2>1. PICK offer \in Offers : Provide(offer, password)
    BY <1>2 DEF Relate, Reconfigure
  <2>2. Change /\ relation' = "joined" /\ UNCHANGED <<password, tracks, mail, mainCf, postfix, passwd, map>>
    BY <1>2 DEF Relate, Reconfigure, Machine
  <2>3. HooksTyped' /\ databag' \in Bags /\ (databag'.auth # "inline" => databag'.password = 0)
    BY <1>1, <2>1, <2>2 DEF TInv, SmtpTyped
  <2> QED BY <2>2, <2>3 DEF TInv, SmtpTyped
<1>3. CASE ChangePassword
  <2>1. Change /\ password' = password + 1
        /\ UNCHANGED <<relation, tracks, mail, mainCf, postfix, passwd, map>>
    BY <1>3 DEF ChangePassword, Machine
  <2>2. password' \in Nat /\ databag \in Bags
    BY <2>1 DEF TInv, SmtpTyped
  <2>3. HooksTyped' /\ databag' \in Bags /\ (databag'.auth # "inline" => databag'.password = 0)
    <3>1. CASE databag.auth = "secret"
      BY <1>3, <2>1, <2>2, <3>1, HookTypes, HookNames DEF ChangePassword, TInv, SmtpTyped
    <3>2. CASE databag.auth # "secret"
      BY <1>1, <1>3, <2>1, <2>2, <3>2 DEF ChangePassword
    <3> QED BY <3>1, <3>2
  <2> QED BY <2>1, <2>2, <2>3 DEF TInv, SmtpTyped
<1>4. CASE Unrelate
  <2>1. HooksTyped'
    BY <1>4, HookNames DEF Unrelate, TInv, HooksTyped, NoFault, counters
  <2> QED BY <1>4, <2>1 DEF Unrelate, TInv, SmtpTyped, Machine
<1> QED BY <1>2, <1>3, <1>4

\* The unit's handlers of the relay.
LEMMA RelayTyped ==
  ASSUME TInv, SmtpStep \/ SmtpKilled
  PROVE  HooksTyped' /\ SmtpTyped'
<1>1. CASE RelationChanged \/ SecretChanged
  <2>1. PICK h \in AllHooks : DataAvailable(h)
    BY <1>1, HookNames DEF RelationChanged, SecretChanged
  <2>2. HooksTyped'
    BY <2>1, HookTypes DEF TInv, DataAvailable
  <2>3. mail' \in Bags /\ tracks' \in BOOLEAN
    BY <2>1, BagTypes DEF TInv, DataAvailable, SmtpTyped
  <2> QED BY <2>1, <2>2, <2>3 DEF DataAvailable, TInv, SmtpTyped
<1>2. CASE InvalidDataIgnored \/ InvalidDataRaises \/ OtherSecretChanged \/ PasswordUnreadable
  <2>1. HooksTyped'
    BY <1>2, HookTypes, HookNames
    DEF TInv, InvalidDataIgnored, InvalidDataRaises, OtherSecretChanged, PasswordUnreadable
  <2>2. UNCHANGED smtpVars
    BY <1>2 DEF InvalidDataIgnored, InvalidDataRaises, OtherSecretChanged, PasswordUnreadable
  <2> QED BY <2>1, <2>2 DEF smtpVars, TInv, SmtpTyped
<1>3. CASE RewriteMainCf
  <2>1. HooksTyped'
    BY <1>3, HookTypes, HookNames DEF TInv, RewriteMainCf
  <2>2. Rewritten(mainCf.settings) \in Settings
    BY DEF Rewritten, TInv, SmtpTyped, Settings, Bags
  <2>3. ASSUME NEW new PROVE OthersRewritten(new) \in Nat \ {0}
    <3>1. mainCf.others \in Nat \ {0} /\ MaxLines \in Nat \ {0}
      BY SmtpAssumption DEF TInv, SmtpTyped
    <3>2. /\ 2 * mainCf.others - 0 \in Nat \ {0}
          /\ 2 * mainCf.others - 1 \in Nat \ {0}
      BY <3>1
    <3> QED BY <3>1, <3>2 DEF OthersRewritten
  <2> QED BY <1>3, <2>1, <2>2, <2>3 DEF RewriteMainCf, TInv, SmtpTyped
<1>4. CASE ReloadPostfix \/ ReloadFails
  <2>1. HooksTyped'
    BY <1>4, HookTypes, HookNames DEF TInv, ReloadPostfix, ReloadFails
  <2> QED BY <1>4, <2>1 DEF ReloadPostfix, ReloadFails, smtpVars, TInv, SmtpTyped
<1>5. CASE WriteSaslPasswd
  <2>1. HooksTyped'
    BY <1>5, HookTypes, HookNames DEF TInv, WriteSaslPasswd
  <2>2. passwd' \in Credentials
    BY <1>5 DEF WriteSaslPasswd, TInv, SmtpTyped, Credentials, Bags
  <2> QED BY <1>5, <2>1, <2>2 DEF WriteSaslPasswd, TInv, SmtpTyped
<1>6. CASE Postmap \/ PostmapFails \/ NoSaslPasswd
  <2>1. HooksTyped'
    BY <1>6, HookTypes, HookNames DEF TInv, Postmap, PostmapFails, NoSaslPasswd
  <2> QED BY <1>6, <2>1, BagTypes DEF Postmap, PostmapFails, NoSaslPasswd, ClearSaslPasswd,
                                      SmtpEnds, TInv, SmtpTyped
<1>7. CASE RelationBroken
  <2>1. HooksTyped'
    BY <1>7, HookTypes, HookNames DEF TInv, RelationBroken
  <2>2. NoOffer.password = 0
    BY DEF NoOffer
  <2> QED BY <1>7, <2>1, <2>2, BagTypes DEF RelationBroken, ClearSaslPasswd, TInv, SmtpTyped
<1>8. CASE SmtpKilled
  <2>1. HooksTyped'
    BY <1>8, HookTypes, HookNames DEF TInv, SmtpKilled, HookKilled
  <2> QED BY <1>8, <2>1, BagTypes DEF SmtpKilled, SmtpEnds, TInv, SmtpTyped
<1> QED BY <1>1, <1>2, <1>3, <1>4, <1>5, <1>6, <1>7, <1>8 DEF SmtpStep

\* The task-handler and the unit's handler of it.
LEMMA OutboxHooksTyped ==
  ASSUME TInv, OutboxNext
  PROVE  HooksTyped'
<1>1. CASE Publish \/ Renew
  BY <1>1, HookTypes, HookNames DEF TInv, Publish, Renew
<1>2. CASE ConsumeCerts \/ NothingPublished \/ CertificatesUnreadable
  BY <1>2, HookTypes, HookNames DEF TInv, ConsumeCerts, NothingPublished, CertificatesUnreadable
<1>3. CASE WriteCertificate \/ WriteFails
  BY <1>3, HookTypes, HookNames DEF TInv, WriteCertificate, WriteFails
<1>4. CASE ConfigureOutbox \/ ConfigurationUnknown \/ ConfigureFails
  BY <1>4, HookTypes, HookNames DEF TInv, ConfigureOutbox, ConfigurationUnknown, ConfigureFails
<1>5. CASE RestartOutbox \/ RestartFails
  BY <1>5, HookTypes, HookNames DEF TInv, RestartOutbox, RestartFails
<1>6. CASE OutboxKilled \/ ServicesRestart
  BY <1>6, HookTypes, HookNames DEF TInv, OutboxKilled, HookKilled, ServicesRestart
<1> QED BY <1>1, <1>2, <1>3, <1>4, <1>5, <1>6 DEF OutboxNext, OutboxStep

\* Every step of the unit and of the other sides of its relations.
LEMMA NextTyped ==
  ASSUME IInv, TInv, [Next]_vars
  PROVE  TInv'
<1>1. OutboxTypeOK'
  BY NextInv DEF IInv
<1>2. CASE SmtpNext
  BY <1>1, <1>2, IntegratorTyped, RelayTyped DEF SmtpNext, TInv
<1>3. CASE OutboxNext /\ UNCHANGED smtpVars
  <2>1. SmtpTyped'
    BY <1>3 DEF smtpVars, TInv, SmtpTyped
  <2> QED BY <1>1, <1>3, <2>1, OutboxHooksTyped DEF TInv
<1>4. CASE UNCHANGED vars
  <2>1. HooksTyped'
    BY <1>4 DEF vars, hookVars, counters, TInv, HooksTyped
  <2>2. SmtpTyped'
    BY <1>4 DEF vars, smtpVars, TInv, SmtpTyped
  <2> QED BY <1>1, <2>1, <2>2 DEF TInv
<1> QED BY <1>2, <1>3, <1>4 DEF Next

\* Every variable holds a value the code can give it.
THEOREM TypeCorrect == Spec => []TypeOK
<1>1. TInv => TypeOK
  BY DEF TInv, HooksTyped, SmtpTyped, Bags, TypeOK, SmtpTypeOK
<1> QED BY InitInv, NextInv, InitTyped, NextTyped, <1>1, PTL DEF Spec

--------------------------------------------------------------------------------
(***************************************************************************)
(* What the hooks have brought about once they are done.  Until then, what *)
(* is not as it should be is owed: by a hook that is pending, or by the    *)
(* running handler, which works with what is still current.                *)
(***************************************************************************)

SmtpSteps == {"main.cf", "reload", "sasl_passwd", "postmap"}

\* Where a handler is tells whose it is, and nothing has failed while one runs.
HookOfStep ==
  /\ step \in SmtpSteps \cup OutboxSteps \cup {"idle"}
  /\ step \in SmtpSteps <=> hook \in {"smtp-changed", "secret-changed"}
  /\ step \in OutboxSteps <=> hook = OutboxHook
  /\ hook # "smtp-broken"
  /\ hook # "none" => failed = "none"

\* Each file is from the announced revision, unless a write or a read failed.
FilesOwed ==
  \/ OutboxHook \in pending
  \/ hook = OutboxHook /\ taskHandler.revision <= given.revision
  \/ hook # OutboxHook /\ \A f \in CertFiles : taskHandler.revision <= files[f]

\* The address is set, and loaded by the snap, unless a handler gave up before.
AddressOwed ==
  /\ step # "restart outbox" /\ "restart" \notin missed => running = settings
  /\ step = "restart outbox" => settings = given.address
  /\ \/ OutboxHook \in pending
     \/ hook = OutboxHook /\ given.address = taskHandler.address
     \/ hook # OutboxHook /\ ("address" \in missed \/ settings = taskHandler.address)

OutboxInv ==
  /\ taskHandler = Nothing => newest = 0
  /\ faults \cap {"certificates unreadable", "certificate not written"} = {} => FilesOwed
  /\ AddressOwed

\* The relation, and what has been read of it.
RelationInv ==
  /\ password # 0
  /\ relation = "joined" /\ databag.auth = "inline" => databag.password = password
  /\ relation = "none" =>
       /\ databag = NoOffer /\ map = NoCredentials /\ passwd = NoCredentials
       /\ step \notin SmtpSteps /\ "smtp-changed" \notin pending
  /\ relation = "leaving" /\ "smtp-changed" \in pending => failed = "smtp-changed"
  /\ "smtp-broken" \in pending => relation = "leaving"
  /\ hook = "secret-changed" => mail.auth = "secret"
  /\ Usable /\ databag.auth = "secret" => tracks \/ "smtp-changed" \in pending

\* A hook that will read the relation's data as they are.
WillRead ==
  \/ "smtp-changed" \in pending
  \/ "secret-changed" \in pending /\ databag.auth = "secret"

Wanted == IF databag.auth = "none" THEN NoCredentials
          ELSE [host |-> databag.host, password |-> password]

Serves(file) ==
  /\ file.relayhost = databag.host
  /\ databag.security # "none" => file.encrypt
  /\ databag.security = "tls" => file.wrapper
  /\ databag.auth # "none" => file.sasl

\* What a handler that goes on from here does with current data.
Underway ==
  /\ mail = GetRelationData
  /\ step = "postmap" => passwd = Wanted
  /\ step = "reload" => Serves(mainCf.settings)
  /\ step \in {"sasl_passwd", "postmap"} => Serves(postfix) \/ "postfix not reloaded" \in faults

RelayOwed ==
  Usable => \/ WillRead
            \/ step \in SmtpSteps /\ Underway
            \/ /\ step \notin SmtpSteps
               /\ map = Wanted
               /\ Serves(postfix) \/ "postfix not reloaded" \in faults

RestInv == HookOfStep /\ OutboxInv /\ RelationInv /\ RelayOwed

LEMMA RestNames ==
  /\ SmtpSteps \cap OutboxSteps = {} /\ "idle" \notin SmtpSteps \cup OutboxSteps
  /\ OutboxHook \notin SmtpHooks /\ "none" \notin AllHooks
BY DEF SmtpSteps, OutboxSteps, CertFiles, OutboxHook, SmtpHooks, AllHooks

LEMMA InitRest == Init => RestInv
<1> SUFFICES ASSUME Init PROVE RestInv
  OBVIOUS
<1>1. HookOfStep
  BY RestNames DEF Init, HooksInit, HookOfStep, OutboxHook
<1>2. OutboxInv
  BY DEF Init, HooksInit, OutboxInit, OutboxInv, FilesOwed, AddressOwed, Nothing
<1>3. ~Usable
  BY DEF Init, SmtpInit, Usable
<1>4. RelationInv
  BY <1>3, RestNames DEF Init, HooksInit, SmtpInit, RelationInv, OutboxHook
<1>5. RelayOwed
  BY <1>3 DEF RelayOwed
<1> QED BY <1>1, <1>2, <1>4, <1>5 DEF RestInv

\* What happened has happened.
LEMMA FaultsGrow ==
  ASSUME [Next]_vars
  PROVE  faults \subseteq faults'
<1>1. \A k : (NoFault => faults' = faults) /\ (Change => faults' = faults)
              /\ (Fault(k) => faults \subseteq faults')
  BY DEF NoFault, Change, Fault, counters
<1>2. CASE SmtpNext
  BY <1>1, <1>2
  DEF SmtpNext, Relate, Reconfigure, ChangePassword, Unrelate, SmtpStep, RelationChanged,
      DataAvailable, InvalidDataIgnored, SecretChanged, InvalidDataRaises, OtherSecretChanged,
      PasswordUnreadable, RewriteMainCf, ReloadPostfix, ReloadFails, WriteSaslPasswd, Postmap,
      PostmapFails, NoSaslPasswd, RelationBroken, SmtpKilled, HookKilled
<1>3. CASE OutboxNext
  BY <1>1, <1>3
  DEF OutboxNext, Publish, Renew, OutboxStep, NothingPublished, ConsumeCerts,
      CertificatesUnreadable, WriteCertificate, WriteFails, ConfigureOutbox,
      ConfigurationUnknown, ConfigureFails, RestartOutbox, RestartFails, OutboxKilled,
      HookKilled, ServicesRestart
<1> QED BY <1>2, <1>3 DEF Next, vars, counters

\* What Juju does at the bounds of a handler.
LEMMA HookSteps ==
  ASSUME HookOfStep
  PROVE  /\ UNCHANGED <<failed, hook, step>> => HookOfStep'
         /\ \A h \in {"smtp-changed", "secret-changed"}, s \in SmtpSteps :
              Begin(h, s) => HookOfStep'
         /\ \A s \in OutboxSteps : Begin(OutboxHook, s) => HookOfStep'
         /\ \A s \in SmtpSteps : step \in SmtpSteps /\ Goto(s) => HookOfStep'
         /\ \A s \in OutboxSteps : step \in OutboxSteps /\ Goto(s) => HookOfStep'
         /\ Return \/ Raise => HookOfStep'
         /\ \A h : BeginAndReturn(h) \/ BeginAndRaise(h) => HookOfStep'
<1> USE RestNames
<1>1. UNCHANGED <<failed, hook, step>> => HookOfStep'
  BY DEF HookOfStep
<1>2. ASSUME NEW h \in {"smtp-changed", "secret-changed"}, NEW s \in SmtpSteps, Begin(h, s)
      PROVE  HookOfStep'
  BY <1>2 DEF HookOfStep, Begin, OutboxHook
<1>3. ASSUME NEW s \in OutboxSteps, Begin(OutboxHook, s)
      PROVE  HookOfStep'
  BY <1>3 DEF HookOfStep, Begin, OutboxHook
<1>4. /\ \A s \in SmtpSteps : step \in SmtpSteps /\ Goto(s) => HookOfStep'
      /\ \A s \in OutboxSteps : step \in OutboxSteps /\ Goto(s) => HookOfStep'
  BY DEF HookOfStep, Goto
<1>5. CASE Return \/ Raise
  BY <1>5 DEF HookOfStep, Return, Raise, OutboxHook
<1>6. ASSUME NEW h, BeginAndReturn(h) \/ BeginAndRaise(h)
      PROVE  HookOfStep'
  BY <1>6 DEF HookOfStep, BeginAndReturn, BeginAndRaise, Due
<1> QED BY <1>1, <1>2, <1>3, <1>4, <1>5, <1>6

LEMMA HookOfStepKept ==
  ASSUME HookOfStep, [Next]_vars
  PROVE  HookOfStep'
<1>1. /\ {"main.cf", "reload", "sasl_passwd", "postmap"} \subseteq SmtpSteps
      /\ CertFiles \cup {"configure outbox", "restart outbox"} \subseteq OutboxSteps
      /\ "ca.crt" \in CertFiles /\ \A f \in CertFiles : After(f) \in OutboxSteps
  BY DEF SmtpSteps, OutboxSteps, CertFiles, After
<1>2. CASE Relate \/ Reconfigure \/ ChangePassword \/ Unrelate
  BY <1>2, HookSteps DEF Relate, Reconfigure, ChangePassword, Unrelate, Provide, Owe, hookVars
<1>3. CASE RelationChanged \/ SecretChanged
  BY <1>1, <1>3, HookSteps DEF RelationChanged, SecretChanged, DataAvailable
<1>4. CASE \/ InvalidDataIgnored \/ InvalidDataRaises \/ OtherSecretChanged
           \/ PasswordUnreadable \/ RelationBroken
  BY <1>4, HookSteps DEF InvalidDataIgnored, InvalidDataRaises, OtherSecretChanged,
              PasswordUnreadable, RelationBroken
<1>5. CASE RewriteMainCf \/ ReloadPostfix \/ ReloadFails \/ WriteSaslPasswd
  BY <1>1, <1>5, HookSteps
  DEF RewriteMainCf, ReloadPostfix, ReloadFails, WriteSaslPasswd, At
<1>6. CASE Postmap \/ PostmapFails \/ NoSaslPasswd \/ SmtpKilled
  BY <1>6, HookSteps DEF Postmap, PostmapFails, NoSaslPasswd, SmtpKilled, HookKilled
<1>7. CASE Publish \/ Renew \/ ServicesRestart \/ UNCHANGED vars
  BY <1>7, HookSteps DEF Publish, Renew, ServicesRestart, Owe, hookVars, vars
<1>8. CASE NothingPublished \/ CertificatesUnreadable \/ ConsumeCerts
  BY <1>1, <1>8, HookSteps DEF NothingPublished, CertificatesUnreadable, ConsumeCerts
<1>9. CASE WriteCertificate \/ ConfigureOutbox \/ ConfigurationUnknown
  BY <1>1, <1>9, HookSteps DEF WriteCertificate, ConfigureOutbox, ConfigurationUnknown, At
<1>10. CASE WriteFails \/ ConfigureFails \/ RestartOutbox \/ RestartFails \/ OutboxKilled
  BY <1>10, HookSteps
  DEF WriteFails, ConfigureFails, RestartOutbox, RestartFails, OutboxKilled, HookKilled
<1> QED BY <1>2, <1>3, <1>4, <1>5, <1>6, <1>7, <1>8, <1>9, <1>10
        DEF Next, SmtpNext, SmtpStep, OutboxNext, OutboxStep

--------------------------------------------------------------------------------
(***************************************************************************)
(* The outbox snap at rest.                                                *)
(***************************************************************************)

\* The relay's hooks neither run the outbox's handler nor take its hook away.
LEMMA SmtpOnOutbox ==
  ASSUME HookOfStep, SmtpNext
  PROVE  /\ OutboxHook \in pending => OutboxHook \in pending'
         /\ \/ UNCHANGED <<hook, step>>
            \/ hook # OutboxHook /\ hook' # OutboxHook
<1> USE RestNames
<1>1. CASE Relate \/ Reconfigure \/ ChangePassword
  BY <1>1 DEF Relate, Reconfigure, ChangePassword, Provide, Owe, hookVars
<1>2. CASE Unrelate
  BY <1>2 DEF Unrelate, OutboxHook
<1>3. CASE RelationChanged \/ SecretChanged
  BY <1>3 DEF RelationChanged, SecretChanged, DataAvailable, Begin, Due, OutboxHook
<1>4. CASE \/ InvalidDataIgnored \/ InvalidDataRaises \/ OtherSecretChanged
           \/ PasswordUnreadable \/ RelationBroken
  BY <1>4 DEF InvalidDataIgnored, InvalidDataRaises, OtherSecretChanged, PasswordUnreadable,
              RelationBroken, BeginAndReturn, BeginAndRaise, OutboxHook
<1>5. CASE RewriteMainCf \/ ReloadPostfix \/ ReloadFails \/ WriteSaslPasswd
  <2>1. step \in SmtpSteps /\ UNCHANGED <<pending, hook>>
    BY <1>5 DEF RewriteMainCf, ReloadPostfix, ReloadFails, WriteSaslPasswd, At, Goto, SmtpSteps
  <2> QED BY <2>1 DEF HookOfStep
<1>6. CASE Postmap \/ PostmapFails \/ NoSaslPasswd \/ SmtpKilled
  <2>1. step \in SmtpSteps \/ hook \in SmtpHooks
    BY <1>6 DEF Postmap, PostmapFails, NoSaslPasswd, SmtpKilled, At, SmtpSteps
  <2>2. hook # OutboxHook
    BY <2>1 DEF HookOfStep
  <2>3. hook' = "none" /\ pending \subseteq pending'
    BY <1>6 DEF Postmap, PostmapFails, NoSaslPasswd, SmtpKilled, HookKilled, Return, Raise
  <2> QED BY <2>2, <2>3 DEF OutboxHook
<1> QED BY <1>1, <1>2, <1>3, <1>4, <1>5, <1>6 DEF SmtpNext, SmtpStep

\* A step that leaves the outbox alone, and ends none of its handler's runs.
LEMMA OutboxInvKeeps ==
  ASSUME OutboxInv, HookOfStep, HookOfStep', UNCHANGED outboxVars,
         faults \subseteq faults',
         OutboxHook \in pending => OutboxHook \in pending',
         \/ UNCHANGED <<hook, step>>
         \/ hook # OutboxHook /\ hook' # OutboxHook
  PROVE  OutboxInv'
<1>1. step = "restart outbox" => hook = OutboxHook
  BY DEF HookOfStep, OutboxSteps
<1>2. step' = "restart outbox" => hook' = OutboxHook
  BY DEF HookOfStep, OutboxSteps
<1>3. FilesOwed => FilesOwed'
  BY DEF FilesOwed, outboxVars
<1>4. AddressOwed => AddressOwed'
  BY <1>1, <1>2 DEF AddressOwed, outboxVars
<1> QED BY <1>3, <1>4 DEF OutboxInv, outboxVars

\* What is published makes the hook run again; what is renewed without a word to
\* the unit changes nothing that it has been told.
LEMMA TaskHandlerOutbox ==
  ASSUME IInv, HookOfStep, OutboxInv, Publish \/ Renew
  PROVE  OutboxInv'
<1>1. /\ newest \in Nat /\ newest' = newest + 1 /\ faults' = faults
      /\ UNCHANGED <<hook, step, given, files, settings, running, missed>>
  BY DEF Publish, Renew, IInv, OutboxTypeOK, Owe, hookVars, Change
<1>2. /\ taskHandler' # Nothing
      /\ OutboxHook \in pending' \/ UNCHANGED <<taskHandler, pending>>
  <2>1. CASE Publish
    BY <1>1, <2>1 DEF Publish, Owe, Nothing
  <2>2. CASE Renew
    <3>1. newest # 0
      BY <1>1, <2>2 DEF Renew
    <3>2. taskHandler # Nothing
      BY <3>1 DEF OutboxInv
    <3>3. CASE taskHandler' = [taskHandler EXCEPT !.revision = newest'] /\ Owe(OutboxHook)
      <4>1. taskHandler'.revision = newest' /\ newest' # 0
        BY <1>1, <3>3 DEF IInv, OutboxTypeOK
      <4> QED BY <3>3, <4>1 DEF Owe, Nothing
    <3>4. CASE UNCHANGED <<taskHandler, hookVars>>
      BY <3>2, <3>4 DEF hookVars
    <3> QED BY <2>2, <3>3, <3>4 DEF Renew
  <2> QED BY <2>1, <2>2
<1>3. FilesOwed => FilesOwed'
  BY <1>1, <1>2 DEF FilesOwed
<1>4. AddressOwed => AddressOwed'
  BY <1>1, <1>2 DEF AddressOwed
<1> QED BY <1>1, <1>2, <1>3, <1>4 DEF OutboxInv

\* The handler begins with what is published, and goes on with it.
LEMMA HandlerGoesOn ==
  ASSUME IInv, HookOfStep, OutboxInv, faults \subseteq faults',
         \/ ConsumeCerts \/ WriteCertificate
         \/ (ConfigureOutbox \/ ConfigurationUnknown) /\ step' = "restart outbox"
  PROVE  OutboxInv'
<1>1. UNCHANGED <<taskHandler, newest, running>>
  BY DEF ConsumeCerts, WriteCertificate, ConfigureOutbox, ConfigurationUnknown
<1>2. CASE ConsumeCerts
  <2>1. /\ step = "idle" /\ hook' = OutboxHook /\ step' = "ca.crt"
        /\ UNCHANGED <<settings, missed>>
        /\ given' = [address |-> taskHandler.address, revision |-> newest]
    BY <1>2, RestNames DEF ConsumeCerts, Begin, Due, HookOfStep, OutboxHook
  <2>2. FilesOwed'
    BY <1>1, <2>1 DEF FilesOwed, IInv, NothingTooNew
  <2>3. AddressOwed => AddressOwed'
    BY <1>1, <2>1 DEF AddressOwed
  <2> QED BY <1>1, <2>2, <2>3 DEF OutboxInv
<1>3. CASE WriteCertificate
  <2>1. /\ step \in CertFiles /\ step' = After(step)
        /\ UNCHANGED <<pending, hook, given, settings, missed>>
    BY <1>3 DEF WriteCertificate, Goto
  <2>2. hook = OutboxHook /\ step # "restart outbox" /\ step' # "restart outbox"
    BY <2>1 DEF HookOfStep, OutboxSteps, CertFiles, After
  <2>3. FilesOwed => FilesOwed'
    BY <1>1, <2>1, <2>2 DEF FilesOwed
  <2>4. AddressOwed => AddressOwed'
    BY <1>1, <2>1, <2>2 DEF AddressOwed
  <2> QED BY <1>1, <2>3, <2>4 DEF OutboxInv
<1>4. CASE (ConfigureOutbox \/ ConfigurationUnknown) /\ step' = "restart outbox"
  <2>1. /\ step = "configure outbox" /\ settings' = given.address
        /\ UNCHANGED <<pending, hook, given, files>>
        /\ missed' = missed \ {"address"}
    BY <1>4 DEF ConfigureOutbox, ConfigurationUnknown, At, Goto, Return, Does
  <2>2. hook = OutboxHook
    BY <2>1 DEF HookOfStep, OutboxSteps
  <2>3. FilesOwed => FilesOwed'
    BY <1>1, <2>1, <2>2 DEF FilesOwed
  <2>4. AddressOwed => AddressOwed'
    BY <1>1, <1>4, <2>1, <2>2 DEF AddressOwed
  <2> QED BY <1>1, <2>3, <2>4 DEF OutboxInv
<1> QED BY <1>2, <1>3, <1>4

\* The handler that comes to its end has written all files and set the address.
LEMMA HandlerEnds ==
  ASSUME IInv, HookOfStep, OutboxInv, faults \subseteq faults',
         \/ (ConfigureOutbox \/ ConfigurationUnknown) /\ step' # "restart outbox"
         \/ ConfigureFails \/ RestartOutbox
  PROVE  OutboxInv'
<1>1. /\ step \in {"configure outbox", "restart outbox"} /\ hook' = "none" /\ step' = "idle"
      /\ UNCHANGED <<pending, taskHandler, newest, files>>
  BY DEF ConfigureOutbox, ConfigurationUnknown, ConfigureFails, RestartOutbox, At, Return, Goto
<1>2. hook = OutboxHook /\ hook' # OutboxHook /\ step' # "restart outbox"
  BY <1>1 DEF HookOfStep, OutboxSteps, OutboxHook
<1>3. \A f \in CertFiles : files[f] = given.revision
  BY <1>1 DEF IInv, HandlerInOrder, OutboxSteps, Written
<1>4. FilesOwed => FilesOwed'
  BY <1>1, <1>2, <1>3 DEF FilesOwed
<1>5. AddressOwed'
  <2>0. AddressOwed
    BY DEF OutboxInv
  <2>1. CASE (ConfigureOutbox \/ ConfigurationUnknown) /\ step' # "restart outbox"
    <3>1. /\ step = "configure outbox" /\ settings = given.address
          /\ UNCHANGED <<settings, running>>
          /\ "restart" \in missed => "restart" \in missed'
      BY <1>1, <2>1
      DEF ConfigureOutbox, ConfigurationUnknown, At, Goto, Return, Does
    <3> QED BY <1>1, <1>2, <2>0, <3>1 DEF AddressOwed
  <2>2. CASE ConfigureFails
    <3>1. /\ step = "configure outbox" /\ UNCHANGED <<settings, running>>
          /\ missed' = missed \cup {"address"}
      BY <2>2 DEF ConfigureFails, At, GivesUp
    <3> QED BY <1>1, <1>2, <2>0, <3>1 DEF AddressOwed
  <2>3. CASE RestartOutbox
    BY <1>1, <1>2, <2>0, <2>3 DEF RestartOutbox, At, AddressOwed, Does
  <2> QED BY <2>1, <2>2, <2>3
<1> QED BY <1>1, <1>4, <1>5 DEF OutboxInv

\* A hook that is killed or fails is run again; what it gave up is remembered.
LEMMA HandlerStops ==
  ASSUME OutboxInv, HookOfStep, faults \subseteq faults',
         \/ WriteFails \/ RestartFails \/ OutboxKilled \/ CertificatesUnreadable
  PROVE  OutboxInv'
<1>1. UNCHANGED <<taskHandler, newest, files, settings, running>>
  BY DEF WriteFails, RestartFails, OutboxKilled, CertificatesUnreadable
<1>2. AddressOwed
  BY DEF OutboxInv
<1>3. CASE WriteFails \/ CertificatesUnreadable
  <2>1. faults' \cap {"certificate not written", "certificates unreadable"} # {}
    BY <1>3 DEF WriteFails, CertificatesUnreadable, Fault
  <2>2. step # "restart outbox" /\ step' = "idle" /\ hook' = "none"
        /\ missed' = missed \cup {"address"}
    BY <1>3, RestNames
    DEF WriteFails, CertificatesUnreadable, Return, BeginAndReturn, Due, HookOfStep, CertFiles,
        GivesUp, OutboxHook
  <2>3. AddressOwed'
    BY <1>1, <1>2, <2>2 DEF AddressOwed, OutboxHook
  <2> QED BY <1>1, <2>1, <2>3 DEF OutboxInv
<1>4. CASE RestartFails \/ OutboxKilled
  <2>1. hook = OutboxHook
    BY <1>4 DEF RestartFails, OutboxKilled, At, HookOfStep, OutboxSteps
  <2>2. OutboxHook \in pending' /\ step' = "idle"
    BY <1>4, <2>1 DEF RestartFails, OutboxKilled, HookKilled, Raise
  <2>3. /\ "restart" \in missed => "restart" \in missed'
        /\ step = "restart outbox" => "restart" \in missed'
    BY <1>4 DEF RestartFails, OutboxKilled, GivesUp
  <2>4. AddressOwed'
    BY <1>1, <1>2, <2>2, <2>3 DEF AddressOwed
  <2> QED BY <1>1, <2>2, <2>4 DEF OutboxInv, FilesOwed
<1> QED BY <1>3, <1>4

LEMMA OutboxInvKept ==
  ASSUME IInv, HookOfStep, OutboxInv, [Next]_vars
  PROVE  OutboxInv'
<1>1. faults \subseteq faults' /\ HookOfStep'
  BY FaultsGrow, HookOfStepKept
<1>2. CASE SmtpNext /\ UNCHANGED outboxVars
  <2>1. /\ OutboxHook \in pending => OutboxHook \in pending'
        /\ \/ UNCHANGED <<hook, step>>
           \/ hook # OutboxHook /\ hook' # OutboxHook
    BY <1>2, SmtpOnOutbox
  <2> QED BY <1>1, <1>2, <2>1, OutboxInvKeeps
<1>3. CASE Publish \/ Renew
  BY <1>3, TaskHandlerOutbox
<1>4. CASE NothingPublished
  <2>1. taskHandler = Nothing /\ hook = "none" /\ UNCHANGED <<hook, step, outboxVars>>
    BY <1>4 DEF NothingPublished, BeginAndReturn, Due
  <2>2. newest = 0
    BY <2>1 DEF OutboxInv
  <2>3. \A f \in CertFiles : files[f] = 0 /\ settings = 0
    BY <2>2 DEF IInv, OutboxTypeOK, NothingTooNew, FilesBeforeAddress
  <2>4. FilesOwed'
    BY <2>1, <2>3 DEF FilesOwed, Nothing, OutboxHook, outboxVars
  <2>5. step # "restart outbox" /\ settings = 0
    <3>1. CertFiles # {}
      BY DEF CertFiles
    <3> QED BY <2>1, <2>3, <3>1 DEF HookOfStep, OutboxSteps, OutboxHook
  <2>6. AddressOwed => AddressOwed'
    BY <2>1, <2>5 DEF AddressOwed, Nothing, OutboxHook, outboxVars
  <2> QED BY <1>1, <2>1, <2>2, <2>4, <2>6 DEF OutboxInv, outboxVars
<1>5. CASE \/ ConsumeCerts \/ WriteCertificate
           \/ (ConfigureOutbox \/ ConfigurationUnknown) /\ step' = "restart outbox"
  BY <1>1, <1>5, HandlerGoesOn
<1>6. CASE \/ (ConfigureOutbox \/ ConfigurationUnknown) /\ step' # "restart outbox"
           \/ ConfigureFails \/ RestartOutbox
  BY <1>1, <1>6, HandlerEnds
<1>7. CASE WriteFails \/ RestartFails \/ OutboxKilled \/ CertificatesUnreadable
  BY <1>1, <1>7, HandlerStops
<1>8. CASE ServicesRestart
  <2>1. /\ step # "restart outbox" /\ running' = settings /\ faults' = faults
        /\ missed' = missed \ {"restart"}
        /\ UNCHANGED <<pending, hook, step, taskHandler, newest, given, files, settings>>
    BY <1>8
    DEF ServicesRestart, HookOfStep, OutboxSteps, OutboxHook, NoFault, counters, hookVars, Does
  <2>2. FilesOwed => FilesOwed'
    BY <2>1 DEF FilesOwed
  <2>3. AddressOwed => AddressOwed'
    BY <2>1 DEF AddressOwed
  <2> QED BY <2>1, <2>2, <2>3 DEF OutboxInv
<1>9. CASE UNCHANGED vars
  BY <1>1, <1>9, OutboxInvKeeps DEF vars, hookVars
<1> QED BY <1>2, <1>3, <1>4, <1>5, <1>6, <1>7, <1>8, <1>9 DEF Next, OutboxNext, OutboxStep

--------------------------------------------------------------------------------
(***************************************************************************)
(* The relay at rest.                                                      *)
(***************************************************************************)

\* The outbox's hook neither runs the relay's handlers nor takes their hooks away.
LEMMA OutboxOnSmtp ==
  ASSUME HookOfStep, OutboxNext
  PROVE  /\ \A h \in SmtpHooks : h \in pending' <=> h \in pending
         /\ failed = "smtp-changed" => failed' = failed
         /\ \/ UNCHANGED <<hook, step>>
            \/ {step, step'} \cap SmtpSteps = {} /\ hook' # "secret-changed"
<1> USE RestNames
<1>1. CASE Publish \/ Renew
  BY <1>1 DEF Publish, Renew, Owe, hookVars
<1>2. CASE ServicesRestart
  BY <1>2 DEF ServicesRestart, hookVars
<1>3. CASE NothingPublished \/ CertificatesUnreadable
  BY <1>3 DEF NothingPublished, CertificatesUnreadable, BeginAndReturn, Due, OutboxHook
<1>4. CASE ConsumeCerts
  BY <1>4
  DEF ConsumeCerts, Begin, Due, HookOfStep, OutboxHook, OutboxSteps, SmtpSteps, CertFiles
<1>5. CASE WriteCertificate \/ ConfigureOutbox \/ ConfigurationUnknown
  <2>1. step \in OutboxSteps
    BY <1>5 DEF WriteCertificate, ConfigureOutbox, ConfigurationUnknown, At, OutboxSteps
  <2>2. step' \notin SmtpSteps /\ hook' \in {hook, "none"} /\ UNCHANGED <<pending, failed>>
    BY <1>5
    DEF WriteCertificate, ConfigureOutbox, ConfigurationUnknown, Goto, Return, After, SmtpSteps
  <2> QED BY <2>1, <2>2 DEF HookOfStep, OutboxHook
<1>6. CASE WriteFails \/ ConfigureFails \/ RestartOutbox \/ RestartFails \/ OutboxKilled
  <2>1. hook = OutboxHook
    BY <1>6
    DEF WriteFails, ConfigureFails, RestartOutbox, RestartFails, OutboxKilled, At, HookOfStep,
        OutboxSteps
  <2>2. /\ hook' = "none" /\ step' = "idle" /\ failed = "none"
        /\ pending' \in {pending, pending \cup {OutboxHook}}
    BY <1>6, <2>1
    DEF WriteFails, ConfigureFails, RestartOutbox, RestartFails, OutboxKilled, HookKilled,
        Return, Raise, HookOfStep, OutboxHook
  <2> QED BY <2>1, <2>2 DEF HookOfStep, OutboxHook
<1> QED BY <1>1, <1>2, <1>3, <1>4, <1>5, <1>6 DEF OutboxNext, OutboxStep

\* What the handler reads is what is published, with the newest password.
LEMMA DataRead ==
  ASSUME SmtpTyped, RelationInv
  PROVE  /\ GetRelationData.host = databag.host /\ GetRelationData.auth = databag.auth
         /\ GetRelationData.security = databag.security
         /\ relation = "joined" =>
              GetRelationData.password = IF databag.auth = "none" THEN 0 ELSE password
<1>1. databag \in Bags /\ (databag.auth # "inline" => databag.password = 0)
  BY DEF SmtpTyped
<1> QED BY <1>1 DEF GetRelationData, Bags, RelationInv

\* The integrator makes the hook run when what it publishes changes.
LEMMA Provided ==
  ASSUME NEW offer, NEW pw, Provide(offer, pw)
  PROVE  /\ UNCHANGED <<failed, hook, step>>
         /\ \/ databag' = databag /\ pending' = pending
            \/ databag' # databag /\ pending' = pending \cup {"smtp-changed"}
BY DEF Provide, Owe, hookVars

\* The relation with the integrator, and the password.
LEMMA IntegratorRest ==
  ASSUME TInv, HookOfStep, RelationInv, RelayOwed,
         Relate \/ Reconfigure \/ ChangePassword \/ Unrelate
  PROVE  RelationInv' /\ RelayOwed'
<1>1. /\ UNCHANGED <<failed, hook, step, mail, mainCf, postfix, passwd, map, tracks>>
      /\ faults' = faults
  BY Provided
  DEF Relate, Reconfigure, ChangePassword, Unrelate, Owe, hookVars, Machine, Change, NoFault,
      counters
<1>2. CASE Relate \/ Reconfigure
  <2>1. PICK offer \in Offers : Provide(offer, password)
    BY <1>2 DEF Relate, Reconfigure
  <2>2. relation' = "joined" /\ relation \in {"none", "joined"} /\ password' = password
    BY <1>2 DEF Relate, Reconfigure
  <2>3. databag'.auth = "inline" => databag'.password = password
    BY <2>1 DEF Provide, ToRelationData
  <2>4. \/ databag' = databag /\ pending' = pending
        \/ databag' # databag /\ pending' = pending \cup {"smtp-changed"}
    BY <2>1, Provided
  <2>5. databag' = databag => relation = "joined" \/ ~Usable'
    <3>1. CASE relation = "none"
      <4>1. databag = NoOffer /\ ~NoOffer.valid
        BY <3>1 DEF RelationInv, NoOffer
      <4> QED BY <4>1 DEF Usable
    <3> QED BY <2>2, <3>1
  <2>6. RelationInv'
    BY <1>1, <2>2, <2>3, <2>4, <2>5 DEF RelationInv, Usable
  <2>7. RelayOwed'
    <3>1. CASE databag' = databag /\ relation = "joined"
      <4>1. Usable' = Usable /\ WillRead' = WillRead /\ Wanted' = Wanted
        BY <2>2, <2>4, <3>1 DEF Usable, WillRead, Wanted
      <4>2. \A s : Serves(s)' = Serves(s)
        BY <3>1 DEF Serves
      <4>3. Underway' = Underway
        BY <1>1, <2>2, <3>1, <4>1 DEF Underway, GetRelationData, Serves
      <4> QED BY <1>1, <4>1, <4>3, <3>1 DEF RelayOwed, Serves
    <3>2. CASE databag' # databag
      BY <2>4, <3>2 DEF RelayOwed, WillRead
    <3> QED BY <2>2, <2>5, <3>1, <3>2 DEF RelayOwed
  <2> QED BY <2>6, <2>7
<1>3. CASE ChangePassword
  <2>1. /\ relation = "joined" /\ relation' = "joined"
        /\ password \in Nat /\ password' = password + 1 /\ databag \in Bags
    BY <1>3 DEF ChangePassword, TInv, SmtpTyped
  <2>2. CASE databag.auth = "secret"
    <3>1. databag' = databag
      BY <1>3, <2>2 DEF ChangePassword
    <3>2. IF tracks THEN pending' = pending \cup {"secret-changed"} ELSE pending' = pending
      BY <1>3, <2>2 DEF ChangePassword, Owe, hookVars
    <3>3. RelationInv'
      BY <1>1, <2>1, <2>2, <3>1, <3>2 DEF RelationInv, Usable
    <3>4. Usable => WillRead'
      BY <2>2, <3>1, <3>2 DEF RelationInv, WillRead
    <3> QED BY <2>1, <3>1, <3>3, <3>4 DEF RelayOwed, Usable
  <2>3. CASE databag.auth # "secret"
    <3>1. Provide(databag, password')
      BY <1>3, <2>3 DEF ChangePassword
    <3>2. databag'.auth = databag.auth /\ (databag'.auth = "inline" => databag'.password = password')
      BY <3>1 DEF Provide, ToRelationData
    <3>3. \/ databag' = databag /\ pending' = pending
          \/ databag' # databag /\ pending' = pending \cup {"smtp-changed"}
      BY <3>1, Provided
    <3>4. RelationInv'
      BY <1>1, <2>1, <2>3, <3>2, <3>3 DEF RelationInv, Usable
    <3>5. RelayOwed'
      <4>1. CASE databag' # databag
        BY <3>3, <4>1 DEF RelayOwed, WillRead
      <4>2. CASE databag' = databag
        <5>1. databag.auth = "none"
          <6>1. password' # password
            BY <2>1
          <6>2. databag.auth # "inline"
            BY <2>1, <3>2, <4>2, <6>1 DEF RelationInv
          <6> QED BY <2>1, <2>3, <6>2 DEF Bags
        <5>2. Usable' = Usable /\ WillRead' = WillRead /\ Wanted' = Wanted
          BY <2>1, <3>3, <4>2, <5>1 DEF Usable, WillRead, Wanted
        <5>3. GetRelationData' = GetRelationData
          BY <4>2, <5>1 DEF GetRelationData
        <5>4. Underway' = Underway
          BY <1>1, <4>2, <5>2, <5>3 DEF Underway, Serves
        <5> QED BY <1>1, <4>2, <5>2, <5>4 DEF RelayOwed, Serves
      <4> QED BY <4>1, <4>2
    <3> QED BY <3>4, <3>5
  <2> QED BY <2>2, <2>3
<1>4. CASE Unrelate
  <2>1. /\ relation' = "leaving" /\ UNCHANGED <<databag, password>>
        /\ pending' = (pending \ ({"smtp-changed"} \ {failed})) \cup {"smtp-broken"}
    BY <1>4 DEF Unrelate
  <2> QED BY <1>1, <2>1 DEF RelationInv, RelayOwed, Usable
<1> QED BY <1>2, <1>3, <1>4

\* A step that leaves the relation, the handlers of the relay and what they have
\* done alone.
LEMMA RelayKeeps ==
  ASSUME RelationInv, RelayOwed, UNCHANGED smtpVars, faults \subseteq faults',
         \A h \in SmtpHooks : h \in pending' <=> h \in pending,
         failed = "smtp-changed" => failed' = failed,
         \/ UNCHANGED <<hook, step>>
         \/ {step, step'} \cap SmtpSteps = {} /\ hook' # "secret-changed"
  PROVE  RelationInv' /\ RelayOwed'
<1>1. /\ UNCHANGED <<relation, databag, password, tracks, mail, mainCf, postfix, passwd, map>>
      /\ "smtp-changed" \in pending' <=> "smtp-changed" \in pending
      /\ "secret-changed" \in pending' <=> "secret-changed" \in pending
      /\ "smtp-broken" \in pending' <=> "smtp-broken" \in pending
  BY DEF smtpVars, SmtpHooks
<1>2. RelationInv'
  BY <1>1 DEF RelationInv, Usable
<1>3. /\ Usable' = Usable /\ WillRead' = WillRead /\ Wanted' = Wanted
      /\ GetRelationData' = GetRelationData /\ Serves(postfix)' = Serves(postfix)
      /\ Serves(mainCf.settings)' = Serves(mainCf.settings)
  BY <1>1 DEF Usable, WillRead, Wanted, GetRelationData, Serves
<1>4. step' \in SmtpSteps <=> step \in SmtpSteps
  OBVIOUS
<1>5. step \in SmtpSteps /\ Underway => Underway'
  BY <1>1, <1>3 DEF Underway
<1> QED BY <1>1, <1>2, <1>3, <1>4, <1>5 DEF RelayOwed

\* A handler begins with current data; what it does not read is not usable, or
\* not a change of its secret.
LEMMA HandlerBegins ==
  ASSUME TInv, HookOfStep, RelationInv, RelayOwed, faults \subseteq faults',
         \/ RelationChanged \/ InvalidDataIgnored \/ SecretChanged \/ InvalidDataRaises
         \/ OtherSecretChanged \/ PasswordUnreadable
  PROVE  RelationInv' /\ RelayOwed'
<1>1. hook = "none" /\ step = "idle" /\ step \notin SmtpSteps
  BY RestNames
  DEF RelationChanged, InvalidDataIgnored, SecretChanged, InvalidDataRaises, DataAvailable,
      OtherSecretChanged, PasswordUnreadable, Begin, BeginAndReturn, BeginAndRaise, Due,
      HookOfStep, OutboxHook
<1>2. CASE RelationChanged \/ SecretChanged
  <2>1. PICK h \in {"smtp-changed", "secret-changed"} :
           DataAvailable(h) /\ (h = "secret-changed" => Ours)
    BY <1>2 DEF RelationChanged, SecretChanged
  <2>2. /\ h \in pending /\ failed \in {"none", h} /\ pending' = pending \ {h}
        /\ hook' = h /\ step' = "main.cf"
        /\ mail' = GetRelationData /\ tracks' = (tracks \/ databag.auth = "secret")
        /\ UNCHANGED <<relation, databag, password, mainCf, postfix, passwd, map>>
    BY <2>1 DEF DataAvailable, Begin, Due
  <2>3. relation # "none"
    BY <2>1, <2>2 DEF RelationInv, Ours
  <2>4. mail'.auth = databag.auth
    BY <2>2, DataRead DEF TInv
  <2>5. RelationInv'
    <3>1. /\ (password # 0)'
          /\ (relation = "joined" /\ databag.auth = "inline" => databag.password = password)'
          /\ ("smtp-broken" \in pending => relation = "leaving")'
      BY <2>2 DEF RelationInv
    <3>2. (relation = "leaving" /\ "smtp-changed" \in pending => failed = "smtp-changed")'
      BY <2>2 DEF RelationInv
    <3>3. (hook = "secret-changed" => mail.auth = "secret")'
      BY <2>1, <2>2, <2>4 DEF Ours
    <3>4. (Usable /\ databag.auth = "secret" => tracks \/ "smtp-changed" \in pending)'
      BY <2>2 DEF Usable
    <3> QED BY <2>2, <2>3, <3>1, <3>2, <3>3, <3>4 DEF RelationInv
  <2>6. GetRelationData' = GetRelationData
    BY <2>2 DEF GetRelationData
  <2>7. Underway' /\ step' \in SmtpSteps
    BY <2>2, <2>6 DEF Underway, SmtpSteps
  <2> QED BY <2>5, <2>7 DEF RelayOwed
<1>3. CASE InvalidDataIgnored \/ InvalidDataRaises
  <2>1. ~databag.valid /\ UNCHANGED smtpVars /\ UNCHANGED <<hook, step>>
    BY <1>3 DEF InvalidDataIgnored, InvalidDataRaises, BeginAndReturn, BeginAndRaise
  <2>2. ~Usable'
    BY <2>1 DEF Usable, smtpVars
  <2>3. /\ pending' \subseteq pending
        /\ "smtp-changed" \in pending' => failed = "none" \/ failed' = "secret-changed"
        /\ failed' = "secret-changed" => failed \in {"none", "secret-changed"}
    BY <1>3
    DEF InvalidDataIgnored, InvalidDataRaises, BeginAndReturn, BeginAndRaise, Due
  <2> QED BY <2>1, <2>2, <2>3 DEF RelationInv, RelayOwed, smtpVars
<1>4. CASE OtherSecretChanged
  <2>1. /\ UNCHANGED smtpVars /\ UNCHANGED <<hook, step>> /\ ~Ours
        /\ pending' = pending \ {"secret-changed"} /\ failed \in {"none", "secret-changed"}
    BY <1>4 DEF OtherSecretChanged, BeginAndReturn, Due
  <2>2. Usable => databag.auth # "secret"
    BY <2>1 DEF Usable, Ours
  <2>3. RelationInv'
    BY <2>1 DEF RelationInv, smtpVars, Usable
  <2>4. /\ Usable' = Usable /\ (Usable /\ WillRead => WillRead') /\ Wanted' = Wanted
        /\ Serves(postfix)' = Serves(postfix) /\ map' = map
    BY <2>1, <2>2 DEF Usable, WillRead, Wanted, Serves, smtpVars
  <2> QED BY <1>1, <2>1, <2>3, <2>4 DEF RelayOwed
<1>5. CASE PasswordUnreadable
  <2>1. /\ UNCHANGED smtpVars /\ UNCHANGED <<hook, step, pending>> /\ failed' \in pending
        /\ failed = "smtp-changed" => failed' = failed
    BY <1>5 DEF PasswordUnreadable, BeginAndRaise, Due
  <2> QED BY <2>1, RelayKeeps
<1> QED BY <1>2, <1>3, <1>4, <1>5

\* The hook that fails or is killed is owed, and will read the data again.
LEMMA RelayFails ==
  ASSUME TInv, HookOfStep, RelationInv, RelayOwed,
         hook \in SmtpHooks, Raise, mail' = NoOffer,
         UNCHANGED <<relation, databag, password, tracks, mainCf, postfix, passwd, map>>
  PROVE  RelationInv' /\ RelayOwed'
<1>1. /\ hook \in {"smtp-changed", "secret-changed"} /\ step \in SmtpSteps
      /\ pending' = pending \cup {hook} /\ failed' = hook /\ failed = "none"
      /\ hook' = "none" /\ step' = "idle"
  BY RestNames DEF HookOfStep, SmtpHooks, Raise
<1>2. RelationInv'
  BY <1>1 DEF RelationInv, Usable
<1>3. Usable => WillRead'
  <2>1. CASE WillRead
    BY <1>1, <2>1 DEF WillRead
  <2>2. CASE Underway
    <3>1. mail.auth = databag.auth
      BY <2>2, DataRead DEF Underway, TInv
    <3> QED BY <1>1, <3>1 DEF RelationInv, WillRead
  <2> QED BY <1>1, <2>1, <2>2 DEF RelayOwed
<1> QED BY <1>2, <1>3 DEF RelayOwed, Usable

\* The handler's steps.
LEMMA HandlerWorks ==
  ASSUME TInv, HookOfStep, RelationInv, RelayOwed, faults \subseteq faults',
         \/ RewriteMainCf \/ ReloadPostfix \/ ReloadFails \/ WriteSaslPasswd
         \/ Postmap \/ NoSaslPasswd
  PROVE  RelationInv' /\ RelayOwed'
<1>1. /\ UNCHANGED <<relation, databag, password, tracks, pending, failed>>
      /\ step \in SmtpSteps
      /\ \/ hook' = "none" /\ step' = "idle"
         \/ hook' = hook /\ step' \in SmtpSteps /\ mail' = mail
  BY DEF RewriteMainCf, ReloadPostfix, ReloadFails, WriteSaslPasswd, Postmap, NoSaslPasswd,
         At, Goto, Return, SmtpSteps, smtpVars
<1>2. relation # "none"
  BY <1>1 DEF RelationInv
<1>3. RelationInv'
  BY <1>1, <1>2 DEF RelationInv, Usable
<1>4. /\ Usable' = Usable /\ WillRead' = WillRead /\ Wanted' = Wanted
      /\ GetRelationData' = GetRelationData
  BY <1>1 DEF Usable, WillRead, Wanted, GetRelationData
<1> SUFFICES ASSUME Usable, ~WillRead PROVE RelayOwed'
  BY <1>3, <1>4 DEF RelayOwed
<1>5. Underway
  BY <1>1 DEF RelayOwed
<1>6. /\ mail.host = databag.host /\ mail.security = databag.security
      /\ mail.auth = databag.auth
      /\ mail.password = IF databag.auth = "none" THEN 0 ELSE password
  BY <1>5, DataRead DEF Underway, TInv, Usable
<1>7. mail.password # 0 <=> databag.auth # "none"
  BY <1>6 DEF RelationInv
<1>8. CASE RewriteMainCf
  <2>1. /\ step' = "reload" /\ mainCf'.settings = Rewritten(mainCf.settings)
        /\ UNCHANGED <<mail, passwd>>
    BY <1>8 DEF RewriteMainCf, Goto
  <2>2. mail.security \in Securities
    BY DEF TInv, SmtpTyped, Bags
  <2>3. Serves(mainCf.settings)'
    <3> DEFINE new == Rewritten(mainCf.settings)
    <3>1. /\ new.relayhost = databag.host
          /\ databag.security \in {"starttls", "tls"} => new.encrypt
          /\ databag.security = "tls" => new.wrapper
          /\ databag.auth # "none" => new.sasl
      BY <1>6, <1>7 DEF Rewritten
    <3>2. databag.security # "none" => databag.security \in {"starttls", "tls"}
      BY <1>6, <2>2 DEF Securities
    <3> QED BY <1>1, <2>1, <3>1, <3>2 DEF Serves
  <2>4. Underway'
    BY <1>4, <1>5, <2>1, <2>3 DEF Underway
  <2> QED BY <2>1, <2>4 DEF RelayOwed, SmtpSteps
<1>9. CASE ReloadPostfix \/ ReloadFails
  <2>1. step = "reload" /\ step' = "sasl_passwd" /\ UNCHANGED <<mail, passwd, map>>
    BY <1>9 DEF ReloadPostfix, ReloadFails, At, Goto, smtpVars
  <2>2. Serves(mainCf.settings)
    BY <1>5, <2>1 DEF Underway
  <2>3. Serves(postfix)' \/ "postfix not reloaded" \in faults'
    BY <1>1, <1>9, <2>2 DEF ReloadPostfix, ReloadFails, Fault, Serves
  <2> QED BY <1>4, <1>5, <2>1, <2>3 DEF RelayOwed, Underway, SmtpSteps
<1>10. CASE WriteSaslPasswd
  <2>1. /\ step = "sasl_passwd" /\ step' = "postmap" /\ mail.password # 0
        /\ passwd' = [host |-> mail.host, password |-> mail.password]
        /\ UNCHANGED <<mail, postfix, mainCf, map>>
    BY <1>10 DEF WriteSaslPasswd, At, Goto
  <2>2. passwd' = Wanted
    BY <1>6, <1>7, <2>1 DEF Wanted
  <2>3. (Serves(postfix) \/ "postfix not reloaded" \in faults)'
    BY <1>1, <1>5, <2>1 DEF Underway, Serves
  <2> QED BY <1>4, <1>5, <2>1, <2>2, <2>3 DEF RelayOwed, Underway, SmtpSteps
<1>11. CASE Postmap \/ NoSaslPasswd
  <2>1. /\ step \in {"sasl_passwd", "postmap"} /\ step' = "idle" /\ postfix' = postfix
    BY <1>11 DEF Postmap, NoSaslPasswd, At, Return
  <2>2. map' = Wanted
    <3>1. CASE Postmap
      BY <1>5, <3>1 DEF Postmap, At, Underway
    <3>2. CASE NoSaslPasswd
      BY <1>7, <3>2 DEF NoSaslPasswd, ClearSaslPasswd, Wanted
    <3> QED BY <1>11, <3>1, <3>2
  <2>3. (Serves(postfix) \/ "postfix not reloaded" \in faults)'
    BY <1>1, <1>5, <2>1 DEF Underway, Serves
  <2> QED BY <1>4, <2>1, <2>2, <2>3, RestNames DEF RelayOwed
<1> QED BY <1>8, <1>9, <1>10, <1>11

LEMMA RelayInvKept ==
  ASSUME TInv, HookOfStep, RelationInv, RelayOwed, [Next]_vars
  PROVE  RelationInv' /\ RelayOwed'
<1>1. faults \subseteq faults'
  BY FaultsGrow
<1>2. CASE Relate \/ Reconfigure \/ ChangePassword \/ Unrelate
  BY <1>2, IntegratorRest
<1>3. CASE \/ RelationChanged \/ InvalidDataIgnored \/ SecretChanged \/ InvalidDataRaises
           \/ OtherSecretChanged \/ PasswordUnreadable
  BY <1>1, <1>3, HandlerBegins
<1>4. CASE \/ RewriteMainCf \/ ReloadPostfix \/ ReloadFails \/ WriteSaslPasswd
           \/ Postmap \/ NoSaslPasswd
  BY <1>1, <1>4, HandlerWorks
<1>5. CASE PostmapFails \/ SmtpKilled
  <2>1. hook \in SmtpHooks
    BY <1>5 DEF PostmapFails, SmtpKilled, At, HookOfStep, SmtpSteps, SmtpHooks
  <2>2. /\ Raise /\ mail' = NoOffer
        /\ UNCHANGED <<relation, databag, password, tracks, mainCf, postfix, passwd, map>>
    BY <1>5 DEF PostmapFails, SmtpKilled, HookKilled, SmtpEnds
  <2> QED BY <2>1, <2>2, RelayFails
<1>6. CASE RelationBroken
  <2>1. /\ relation' = "none" /\ databag' = NoOffer /\ map' = NoCredentials
        /\ passwd' = NoCredentials /\ password' = password
        /\ "smtp-broken" \in pending /\ failed \in {"none", "smtp-broken"}
        /\ pending' = pending \ {"smtp-broken"} /\ hook = "none" /\ UNCHANGED <<hook, step>>
    BY <1>6 DEF RelationBroken, BeginAndReturn, Due, ClearSaslPasswd
  <2>2. step \notin SmtpSteps /\ "smtp-changed" \notin pending
    BY <2>1 DEF HookOfStep, RelationInv
  <2> QED BY <2>1, <2>2 DEF RelationInv, RelayOwed, Usable
<1>7. CASE OutboxNext /\ UNCHANGED smtpVars
  <2>1. /\ \A h \in SmtpHooks : h \in pending' <=> h \in pending
        /\ failed = "smtp-changed" => failed' = failed
        /\ \/ UNCHANGED <<hook, step>>
           \/ {step, step'} \cap SmtpSteps = {} /\ hook' # "secret-changed"
    BY <1>7, OutboxOnSmtp
  <2> QED BY <1>1, <1>7, <2>1, RelayKeeps
<1>8. CASE UNCHANGED vars
  <2>1. /\ UNCHANGED smtpVars /\ UNCHANGED <<hook, step>>
        /\ \A h \in SmtpHooks : h \in pending' <=> h \in pending
        /\ failed = "smtp-changed" => failed' = failed
    BY <1>8 DEF vars, hookVars
  <2> QED BY <1>1, <2>1, RelayKeeps
<1> QED BY <1>2, <1>3, <1>4, <1>5, <1>6, <1>7, <1>8 DEF Next, SmtpNext, SmtpStep

--------------------------------------------------------------------------------

\* What the hooks owe is kept by every step.
LEMMA RestInvariant == Spec => [](IInv /\ TInv /\ RestInv)
<1>1. IInv /\ TInv /\ RestInv /\ [Next]_vars => RestInv'
  BY HookOfStepKept, OutboxInvKept, RelayInvKept DEF RestInv
<1> QED BY InitInv, NextInv, InitTyped, NextTyped, InitRest, <1>1, PTL DEF Spec

\* Once its hooks are done no certificate file is older than what the task-handler
\* last announced, whatever was renewed, killed or not restarted in between
\* (_consume_task_handler_certs), unless a certificate could not be read or written.
THEOREM CertificatesUpToDate == Spec => []AnnouncedCertificates
<1>1. RestInv => AnnouncedCertificates
  BY DEF RestInv, OutboxInv, FilesOwed, AnnouncedCertificates, Resting, OutboxHook
<1> QED BY RestInvariant, <1>1, PTL

\* And the address that was published is set, and the running snap talks to it, unless
\* the last handler gave up before it set an address or the last restart was lost
\* (_consume_task_handler_certs, _configure_outbox_grpc).
THEOREM OutboxOnAddress == Spec => []OutboxFollowsAddress
<1>1. RestInv => OutboxFollowsAddress
  BY DEF RestInv, HookOfStep, OutboxSteps, OutboxInv, AddressOwed, OutboxFollowsAddress,
         Resting, OutboxHook
<1> QED BY RestInvariant, <1>1, PTL

\* Once the relay's hooks are done postfix has the newest password of the relay it
\* is told to use, however it was published, and none when there is no relation or
\* no authentication, whatever was killed or failed (_on_smtp_relation_changed).
THEOREM CredentialsUpToDate == Spec => []CredentialsAsPublished
<1>1. HooksTyped /\ RestInv => CredentialsAsPublished
  <2> SUFFICES ASSUME HooksTyped, RestInv, SmtpRests PROVE CredentialsAsPublished
    BY DEF CredentialsAsPublished
  <2>1. step \notin SmtpSteps /\ ~WillRead
    BY DEF RestInv, HookOfStep, SmtpRests, Resting, SmtpHooks, WillRead
  <2> QED BY <2>1 DEF CredentialsAsPublished, RestInv, RelayOwed, RelationInv, Wanted
<1> QED BY RestInvariant, <1>1, PTL DEF TInv

\* And postfix has loaded what the relay asks for, also when another one was related
\* before (_configure_smtp), unless it could not be reloaded.
THEOREM RelayUpToDate == Spec => []RelayAsPublished
<1>1. RestInv => RelayAsPublished
  <2> SUFFICES ASSUME RestInv, SmtpRests, Usable, "postfix not reloaded" \notin faults
               PROVE  Serves(postfix)
    BY DEF RelayAsPublished, Serves
  <2>1. step \notin SmtpSteps /\ ~WillRead
    BY DEF RestInv, HookOfStep, SmtpRests, Resting, SmtpHooks, WillRead
  <2> QED BY <2>1 DEF RestInv, RelayOwed
<1> QED BY RestInvariant, <1>1, PTL

================================================================================
