------------------------------- MODULE SmtpRelay -------------------------------
(***************************************************************************)
(* The SMTP relay of one unit: the smtp_integrator library on both sides   *)
(* of the relation (src/lib/charms/smtp_integrator/v0/smtp.py) and the     *)
(* charm's handlers (src/src/charm.py, _configure_smtp and on), which      *)
(* rewrite postfix's main.cf, reload postfix and keep a password map.      *)
(*                                                                         *)
(* The passwords of the relay's user are numbered; 0 stands for none.      *)
(***************************************************************************)
EXTENDS UnitHooks

CONSTANTS
  Offers,   \* what the SMTP integrator may be configured to publish
  MaxLines  \* bound: lines of main.cf that are counted

Securities == {"none", "starttls", "tls"}

\* auth: no credentials, the password in the databag, or a secret of its own.
\* valid: the databag passes SmtpRelationData.
OfferType == [host : STRING, security : Securities, auth : {"none", "inline", "secret"},
              valid : BOOLEAN]

ASSUME SmtpAssumption ==
  /\ Offers \subseteq OfferType
  /\ MaxLines \in Nat \ {0}

VARIABLES
  relation,  \* "none", "joined", or "leaving" until relation-broken has run
  databag,   \* what the integrator has published
  password,  \* the newest password of the relay's user
  tracks,    \* the unit has read the password's secret
  mail,      \* the relation data the running handler works with
  mainCf,    \* postfix's main.cf
  postfix,   \* the settings the running postfix has loaded
  passwd,    \* the file sasl_passwd
  map        \* the table postmap makes of it, which postfix reads

smtpVars == <<relation, databag, password, tracks, mail, mainCf, postfix, passwd, map>>

NoOffer == [host |-> "", security |-> "none", auth |-> "none", valid |-> FALSE, password |-> 0]
NoCredentials == [host |-> "", password |-> 0]

\* main.cf as Debian ships it: an empty relayhost among other lines.
Shipped == [relayhost |-> "", sasl |-> FALSE, encrypt |-> FALSE, wrapper |-> FALSE]
OtherLines == 3

SmtpInit ==
  /\ relation = "none"
  /\ databag = NoOffer
  /\ password = 1
  /\ tracks = FALSE
  /\ mail = NoOffer
  /\ mainCf = [settings |-> Shipped, others |-> OtherLines]
  /\ postfix = Shipped
  /\ passwd = NoCredentials
  /\ map = NoCredentials

--------------------------------------------------------------------------------
(***************************************************************************)
(* The SMTP integrator.                                                    *)
(***************************************************************************)

\* Mutant of ToRelationData: the password stays beside its secret.
ToRelationDataBoth(offer, pw) ==
  [host |-> offer.host, security |-> offer.security, auth |-> offer.auth,
   valid |-> offer.valid, password |-> IF offer.auth # "none" THEN pw ELSE 0]

\* to_relation_data: the password is left out when there is a secret of it.
ToRelationData(offer, pw) ==
  [host |-> offer.host, security |-> offer.security, auth |-> offer.auth,
   valid |-> offer.valid, password |-> IF offer.auth = "inline" THEN pw ELSE 0]

\* update_relation_data: what is already there is not written again.
Provide(offer, pw) ==
  /\ databag' = ToRelationData(offer, pw)
  /\ IF databag' = databag THEN UNCHANGED hookVars ELSE Owe("smtp-changed")

Machine == <<mail, mainCf, postfix, passwd, map>>

Relate ==
  /\ relation = "none"
  /\ Change
  /\ relation' = "joined"
  /\ \E offer \in Offers : Provide(offer, password)
  /\ UNCHANGED <<password, tracks, Machine>>

Reconfigure ==
  /\ relation = "joined"
  /\ Change
  /\ \E offer \in Offers : Provide(offer, password)
  /\ UNCHANGED <<relation, password, tracks, Machine>>

\* A new password is a change of the databag, or of its secret: of that Juju tells
\* a unit that has read the secret.
ChangePassword ==
  /\ relation = "joined"
  /\ Change
  /\ password' = password + 1
  /\ IF databag.auth = "secret"
     THEN /\ UNCHANGED databag
          /\ IF tracks THEN Owe("secret-changed") ELSE UNCHANGED hookVars
     ELSE Provide(databag, password')
  /\ UNCHANGED <<relation, tracks, Machine>>

\* No change of the databag is delivered any more, but a failed hook is run again.
Unrelate ==
  /\ relation = "joined"
  /\ relation' = "leaving"
  /\ pending' = (pending \ ({"smtp-changed"} \ {failed})) \cup {"smtp-broken"}
  /\ NoFault
  /\ UNCHANGED <<failed, hook, step, databag, password, tracks, Machine>>

--------------------------------------------------------------------------------
(***************************************************************************)
(* The unit: the library's events.                                         *)
(***************************************************************************)

SmtpHooks == {"smtp-changed", "secret-changed", "smtp-broken"}

\* Mutant of GetRelationData: the secret's content is not refreshed.
GetRelationDataUnrefreshed ==
  [databag EXCEPT !.password = IF databag.auth = "secret" THEN 1 ELSE @]

\* The databag, with the newest content of the password's secret.
GetRelationData ==
  [databag EXCEPT !.password = IF databag.auth = "secret" THEN password ELSE @]

\* smtp_data_available: the data are read (again) by the handler.
DataAvailable(h) ==
  /\ databag.valid
  /\ Begin(h, "main.cf") /\ NoFault
  /\ mail' = GetRelationData
  /\ tracks' = (tracks \/ databag.auth = "secret")
  /\ UNCHANGED <<relation, databag, password, mainCf, postfix, passwd, map>>

RelationChanged == DataAvailable("smtp-changed")

\* Mutant of InvalidDataIgnored: what fails the validation fails the hook.
InvalidDataFails ==
  /\ ~databag.valid
  /\ BeginAndRaise("smtp-changed") /\ NoFault
  /\ UNCHANGED smtpVars

\* relation-changed emits nothing for data that are not valid.
InvalidDataIgnored ==
  /\ ~databag.valid
  /\ BeginAndReturn("smtp-changed") /\ NoFault
  /\ UNCHANGED smtpVars

\* secret-changed emits for the secret that the databag names, valid or not.
Ours == relation # "none" /\ databag.auth = "secret"
SecretChanged == Ours /\ DataAvailable("secret-changed")

InvalidDataRaises ==
  /\ Ours /\ ~databag.valid
  /\ BeginAndRaise("secret-changed") /\ NoFault
  /\ failed # "secret-changed"
  /\ UNCHANGED smtpVars

OtherSecretChanged ==
  /\ ~Ours
  /\ BeginAndReturn("secret-changed") /\ NoFault
  /\ UNCHANGED smtpVars

\* A secret that cannot be read fails the hook.
PasswordUnreadable ==
  /\ Ours
  /\ \E h \in {"smtp-changed", "secret-changed"} : BeginAndRaise(h)
  /\ Fault("password unreadable")
  /\ UNCHANGED smtpVars

--------------------------------------------------------------------------------
(***************************************************************************)
(* The unit: the charm's handlers.                                         *)
(***************************************************************************)

\* What a handler has read goes with it.
SmtpEnds == mail' = NoOffer

\* Mutant of Rewritten: wrapper mode instead of encryption, not beside it.
RewrittenWrapperOnly(old) ==
  [relayhost |-> mail.host,
   sasl      |-> old.sasl \/ mail.password # 0,
   encrypt   |-> old.encrypt \/ mail.security = "starttls",
   wrapper   |-> old.wrapper \/ mail.security = "tls"]

\* Settings are replaced or appended, never removed.
Rewritten(old) ==
  [relayhost |-> mail.host,
   sasl      |-> old.sasl \/ mail.password # 0,
   encrypt   |-> old.encrypt \/ mail.security \in {"starttls", "tls"},
   wrapper   |-> old.wrapper \/ mail.security = "tls"]

\* The lines that are kept keep their newline and are joined with another one: an
\* empty line comes after each, but for one that ends the file.
OthersRewritten(new) ==
  LET lines == 2 * mainCf.others - IF new.sasl \/ new.encrypt \/ new.wrapper THEN 0 ELSE 1
  IN  IF lines > MaxLines THEN MaxLines ELSE lines

RewriteMainCf ==
  /\ At("main.cf")
  /\ LET new == Rewritten(mainCf.settings)
     IN  mainCf' = [settings |-> new, others |-> OthersRewritten(new)]
  /\ Goto("reload") /\ NoFault
  /\ UNCHANGED <<relation, databag, password, tracks, mail, postfix, passwd, map>>

ReloadPostfix ==
  /\ At("reload")
  /\ postfix' = mainCf.settings
  /\ Goto("sasl_passwd") /\ NoFault
  /\ UNCHANGED <<relation, databag, password, tracks, mail, mainCf, passwd, map>>

\* The unit is blocked; the handler goes on.
ReloadFails ==
  /\ At("reload")
  /\ Goto("sasl_passwd") /\ Fault("postfix not reloaded")
  /\ UNCHANGED smtpVars

WriteSaslPasswd ==
  /\ At("sasl_passwd") /\ mail.password # 0
  /\ passwd' = [host |-> mail.host, password |-> mail.password]
  /\ Goto("postmap") /\ NoFault
  /\ UNCHANGED <<relation, databag, password, tracks, mail, mainCf, postfix, map>>

\* postmap replaces the table as a whole.
Postmap ==
  /\ At("postmap")
  /\ map' = passwd
  /\ SmtpEnds /\ Return /\ NoFault
  /\ UNCHANGED <<relation, databag, password, tracks, mainCf, postfix, passwd>>

PostmapFails ==
  /\ At("postmap")
  /\ SmtpEnds /\ Raise /\ Fault("postmap")
  /\ UNCHANGED <<relation, databag, password, tracks, mainCf, postfix, passwd, map>>

ClearSaslPasswd == passwd' = NoCredentials /\ map' = NoCredentials

NoSaslPasswd ==
  /\ At("sasl_passwd") /\ mail.password = 0
  /\ ClearSaslPasswd
  /\ SmtpEnds /\ Return /\ NoFault
  /\ UNCHANGED <<relation, databag, password, tracks, mainCf, postfix>>

RelationBroken ==
  /\ BeginAndReturn("smtp-broken") /\ NoFault
  /\ ClearSaslPasswd
  /\ relation' = "none" /\ databag' = NoOffer /\ tracks' = FALSE
  /\ UNCHANGED <<password, mail, mainCf, postfix>>

SmtpStep ==
  \/ RelationChanged \/ InvalidDataIgnored \/ SecretChanged \/ InvalidDataRaises
  \/ OtherSecretChanged \/ PasswordUnreadable \/ RewriteMainCf \/ ReloadPostfix
  \/ ReloadFails \/ WriteSaslPasswd \/ Postmap \/ PostmapFails \/ NoSaslPasswd
  \/ RelationBroken

SmtpKilled ==
  /\ hook \in SmtpHooks
  /\ SmtpEnds /\ HookKilled
  /\ UNCHANGED <<relation, databag, password, tracks, mainCf, postfix, passwd, map>>

SmtpNext == Relate \/ Reconfigure \/ ChangePassword \/ Unrelate \/ SmtpStep \/ SmtpKilled

--------------------------------------------------------------------------------
(***************************************************************************)
(* Properties                                                              *)
(***************************************************************************)

Hosts == {""} \cup {offer.host : offer \in Offers}
Settings == [relayhost : Hosts, sasl : BOOLEAN, encrypt : BOOLEAN, wrapper : BOOLEAN]
Credentials == [host : Hosts, password : Nat]

SmtpTypeOK ==
  /\ relation \in {"none", "joined", "leaving"}
  /\ {databag.password, mail.password, password, mainCf.others} \subseteq Nat
  /\ databag.auth # "inline" => databag.password = 0
  /\ tracks \in BOOLEAN
  /\ {mainCf.settings, postfix} \subseteq Settings
  /\ {passwd, map} \subseteq Credentials

SmtpRests == Resting(SmtpHooks) /\ relation # "leaving"
Usable == relation = "joined" /\ databag.valid

\* Once the hooks are done postfix has the newest password of the relay it is told
\* to use, and none when the relation ended or asks for none: whether the password
\* came with the databag or a secret, whatever was killed or failed in between.
CredentialsAsPublished ==
  /\ SmtpRests /\ Usable =>
       map = IF databag.auth = "none" THEN NoCredentials
             ELSE [host |-> databag.host, password |-> password]
  /\ SmtpRests /\ relation = "none" => map = NoCredentials /\ passwd = NoCredentials

\* And postfix has loaded what the relay asks for, also when it was related before
\* to another one: its host, encryption if it wants any, credentials if it has some.
RelayAsPublished ==
  SmtpRests /\ Usable /\ "postfix not reloaded" \notin faults =>
    /\ postfix.relayhost = databag.host
    /\ databag.security # "none" => postfix.encrypt
    /\ databag.security = "tls" => postfix.wrapper
    /\ databag.auth # "none" => postfix.sasl

\* test_configure_smtp_relay_host: rewriting the settings leaves the other lines
\* of main.cf as they are.
OtherLinesKept == mainCf.others = OtherLines

================================================================================
