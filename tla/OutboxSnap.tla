------------------------------ MODULE OutboxSnap -------------------------------
(***************************************************************************)
(* The landscape-outbox snap of one unit and its relation with the         *)
(* task-handler charm (src/src/charm.py, _consume_task_handler_certs):     *)
(* three certificate files written one after the other, the snap's         *)
(* configuration, and its restart.                                         *)
(*                                                                         *)
(* The secret's revisions are numbered.  An address of the task-handler is *)
(* named by the revision that was published with it, so that a later       *)
(* address has a larger number; 0 stands for none.                         *)
(***************************************************************************)
EXTENDS UnitHooks

VARIABLES
  taskHandler,  \* its databag: the address, and the revision it last announced
  newest,       \* the newest revision of the certificates secret
  given,        \* what the running handler has read: address and revision
  files,        \* the revision each certificate file on disk is from
  settings,     \* the address in the snap's configuration
  running,      \* the address the running snap has loaded
  missed        \* history: what a handler gave up and none has done since

outboxVars == <<taskHandler, newest, given, files, settings, running, missed>>

CertFiles == {"ca.crt", "client.crt", "client.key"}
Nothing == [address |-> 0, revision |-> 0]
OutboxHook == "task-handler-changed"

OutboxInit ==
  /\ taskHandler = Nothing
  /\ newest = 0
  /\ given = Nothing
  /\ files = [f \in CertFiles |-> 0]
  /\ settings = 0
  /\ running = 0
  /\ missed = {}

--------------------------------------------------------------------------------
(***************************************************************************)
(* The task-handler charm.                                                 *)
(***************************************************************************)

\* It publishes an address with certificates for it, the first time or anew.
Publish ==
  /\ Change
  /\ newest' = newest + 1
  /\ taskHandler' = [address |-> newest', revision |-> newest']
  /\ Owe(OutboxHook)
  /\ UNCHANGED <<given, files, settings, running, missed>>

\* It renews the certificates, by a new secret whose id goes to the databag or
\* by a new revision, of which its databag tells nothing.
Renew ==
  /\ 0 < newest
  /\ Change
  /\ newest' = newest + 1
  /\ \/ taskHandler' = [taskHandler EXCEPT !.revision = newest'] /\ Owe(OutboxHook)
     \/ UNCHANGED <<taskHandler, hookVars>>
  /\ UNCHANGED <<given, files, settings, running, missed>>

--------------------------------------------------------------------------------
(***************************************************************************)
(* The unit: the part of _on_task_handler_relation_changed that reads.     *)
(* What it publishes for the leader is in Replicas and Database.           *)
(***************************************************************************)

\* What a handler has read goes with it.
OutboxEnds == given' = Nothing

\* Mutant of ConsumeCerts: the revision the databag announced, once tracked.
ConsumeCertsTracked ==
  /\ taskHandler # Nothing
  /\ Begin(OutboxHook, "ca.crt")
  /\ given' = [address |-> taskHandler.address,
               revision |-> IF files["ca.crt"] = 0 THEN newest ELSE files["ca.crt"]]
  /\ NoFault
  /\ UNCHANGED <<taskHandler, newest, files, settings, running, missed>>

\* With an address and a secret published, their newest content is read.
ConsumeCerts ==
  /\ taskHandler # Nothing
  /\ Begin(OutboxHook, "ca.crt")
  /\ given' = [address |-> taskHandler.address, revision |-> newest]
  /\ NoFault
  /\ UNCHANGED <<taskHandler, newest, files, settings, running, missed>>

NothingPublished ==
  /\ taskHandler = Nothing
  /\ BeginAndReturn(OutboxHook) /\ NoFault
  /\ UNCHANGED outboxVars

\* The handler returns without having the address set, or without a restart.
GivesUp(what) == missed' = missed \cup {what}
Does(what)    == missed' = missed \ {what}

\* The secret cannot be read: a warning, and the hook is over.
CertificatesUnreadable ==
  /\ taskHandler # Nothing
  /\ BeginAndReturn(OutboxHook) /\ Fault("certificates unreadable")
  /\ GivesUp("address")
  /\ UNCHANGED <<taskHandler, newest, given, files, settings, running>>

\* Mutant of After: the snap is configured before the last file is written.
AfterTooEarly(file) == IF file = "ca.crt" THEN "client.crt" ELSE "configure outbox"

After(file) == CASE file = "ca.crt"     -> "client.crt"
                 [] file = "client.crt" -> "client.key"
                 [] OTHER               -> "configure outbox"

\* Each file is replaced atomically.
WriteCertificate ==
  /\ step \in CertFiles
  /\ files' = [files EXCEPT ![step] = given.revision]
  /\ Goto(After(step)) /\ NoFault
  /\ UNCHANGED <<taskHandler, newest, given, settings, running, missed>>

\* An OSError: the unit is blocked, the hook is over, nothing is retried.
WriteFails ==
  /\ step \in CertFiles
  /\ OutboxEnds /\ Return /\ Fault("certificate not written")
  /\ GivesUp("address")
  /\ UNCHANGED <<taskHandler, newest, files, settings, running>>

\* Mutant of ConfigureOutbox: the address is set once and for all.
ConfigureOutboxOnce ==
  /\ At("configure outbox")
  /\ settings' = IF settings = 0 THEN given.address ELSE settings
  /\ Does("address")
  /\ IF settings' = settings THEN OutboxEnds /\ Return
                              ELSE Goto("restart outbox") /\ UNCHANGED given
  /\ NoFault
  /\ UNCHANGED <<taskHandler, newest, files, running>>

\* Only a changed address is set, and only then the snap is restarted.
ConfigureOutbox ==
  /\ At("configure outbox")
  /\ settings' = given.address
  /\ Does("address")
  /\ IF settings = given.address THEN OutboxEnds /\ Return
                                 ELSE Goto("restart outbox") /\ UNCHANGED given
  /\ NoFault
  /\ UNCHANGED <<taskHandler, newest, files, running>>

\* The configuration cannot be read: it is set, and the snap restarted, anyway.
ConfigurationUnknown ==
  /\ At("configure outbox")
  /\ settings' = given.address
  /\ Does("address")
  /\ Goto("restart outbox") /\ Fault("configuration unknown")
  /\ UNCHANGED <<taskHandler, newest, given, files, running>>

\* A SnapError: as for an OSError.
ConfigureFails ==
  /\ At("configure outbox")
  /\ settings # given.address
  /\ OutboxEnds /\ Return /\ Fault("outbox not configured")
  /\ GivesUp("address")
  /\ UNCHANGED <<taskHandler, newest, files, settings, running>>

RestartOutbox ==
  /\ At("restart outbox")
  /\ running' = settings
  /\ Does("restart")
  /\ OutboxEnds /\ Return /\ NoFault
  /\ UNCHANGED <<taskHandler, newest, files, settings>>

\* A CalledProcessError is caught by nobody: the hook fails, and the one that is run
\* again finds the address set.
RestartFails ==
  /\ At("restart outbox")
  /\ OutboxEnds /\ Raise /\ Fault("outbox not restarted")
  /\ GivesUp("restart")
  /\ UNCHANGED <<taskHandler, newest, files, settings, running>>

\* Any hook or action that starts the services restarts the snap as well.
ServicesRestart ==
  /\ hook = "none" /\ running # settings
  /\ running' = settings
  /\ Does("restart")
  /\ NoFault
  /\ UNCHANGED <<hookVars, taskHandler, newest, given, files, settings>>

OutboxStep ==
  \/ NothingPublished \/ ConsumeCerts \/ CertificatesUnreadable
  \/ WriteCertificate \/ WriteFails
  \/ ConfigureOutbox \/ ConfigurationUnknown \/ ConfigureFails
  \/ RestartOutbox \/ RestartFails

\* Killed before the restart: as when that fails.
OutboxKilled ==
  /\ hook = OutboxHook
  /\ OutboxEnds /\ HookKilled
  /\ IF step = "restart outbox" THEN GivesUp("restart") ELSE UNCHANGED missed
  /\ UNCHANGED <<taskHandler, newest, files, settings, running>>

OutboxNext == Publish \/ Renew \/ OutboxStep \/ OutboxKilled \/ ServicesRestart

--------------------------------------------------------------------------------
(***************************************************************************)
(* Properties                                                              *)
(***************************************************************************)

OutboxTypeOK ==
  /\ {newest, settings, running} \subseteq Nat
  /\ {taskHandler, given} \subseteq [address : Nat, revision : Nat]
  /\ files \in [CertFiles -> Nat]
  /\ missed \subseteq {"address", "restart"}

(***************************************************************************)
(* The snap is pointed at an address only when all three files are there   *)
(* and none is older than the certificates published with that address,    *)
(* also while they are being replaced, when a write fails half-way and     *)
(* when the hook is killed and run again with newer ones.                  *)
(***************************************************************************)
FilesBeforeAddress ==
  \A f \in CertFiles : settings <= files[f] /\ running <= files[f]

\* Once its hooks are done, each file is from the revision the task-handler last
\* announced or a later one: nothing that was read early, before a renewal, a
\* killed hook or a failed restart, is left.
AnnouncedCertificates ==
  Resting({OutboxHook})
    /\ faults \cap {"certificates unreadable", "certificate not written"} = {}
  => \A f \in CertFiles : taskHandler.revision <= files[f]

\* Once its hooks are done the address that was published is set, unless the last
\* handler gave up before it set one (certificates that it could not read or write, a
\* SnapError: these are only logged), and the running snap talks to the address that is
\* set, unless the last restart was lost.  That is one that failed, or before which the
\* hook was killed: the hook that is run again sees the address set and does not restart
\* the snap.  A kill elsewhere, a failed reading of the snap's configuration, whatever
\* happens to the mail relay, and what an earlier handler missed leave nothing behind.
OutboxFollowsAddress ==
  Resting({OutboxHook}) =>
    /\ "address" \notin missed => settings = taskHandler.address
    /\ "restart" \notin missed => running = settings

================================================================================
