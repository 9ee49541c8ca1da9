--------------------------------- MODULE Relays --------------------------------
(***************************************************************************)
(* What leaves one unit: mail by postfix (SmtpRelay) and messages by the   *)
(* outbox snap (OutboxSnap).  Their handlers run in the hooks of one unit, *)
(* one at a time, and a hook of either that fails holds up the other's.    *)
(***************************************************************************)
EXTENDS SmtpRelay, OutboxSnap

vars == <<hookVars, counters, smtpVars, outboxVars>>

Init == HooksInit({OutboxHook}) /\ SmtpInit /\ OutboxInit

Next ==
  \/ SmtpNext /\ UNCHANGED outboxVars
  \/ OutboxNext /\ UNCHANGED smtpVars

Spec == Init /\ [][Next]_vars

\* A handler that has begun goes on, and Juju runs the hooks it owes and those that
\* failed.
Fairness == WF_vars(\/ SmtpStep /\ UNCHANGED outboxVars
                    \/ OutboxStep /\ UNCHANGED smtpVars)

FairSpec == Spec /\ Fairness

--------------------------------------------------------------------------------

AllHooks == SmtpHooks \cup {OutboxHook}

\* Every variable holds a value the code can give it.
TypeOK ==
  /\ pending \subseteq AllHooks
  /\ failed \in AllHooks \cup {"none"} /\ hook \in AllHooks \cup {"none"}
  /\ changes \in Nat
  /\ SmtpTypeOK /\ OutboxTypeOK

\* Every hook gets its turn: neither relation holds up the other for good, but for
\* a password that changes while the relay's data are not valid: that fails the
\* hook until the SMTP integrator's data are.
HooksGetTheirTurn == []<>(pending = {} \/ (failed = "secret-changed" /\ ~databag.valid))

================================================================================
