------------------------------- MODULE UnitHooks -------------------------------
(***************************************************************************)
(* How Juju runs the hooks of one unit, for the components whose handlers  *)
(* are modelled step by step (SmtpRelay, OutboxSnap).  One hook runs at a  *)
(* time; a hook that fails is run again before any other; an event that    *)
(* comes while its hook is running makes Juju run the hook once more.      *)
(***************************************************************************)
EXTENDS Naturals, FiniteSets

CONSTANTS
  MaxChanges,  \* bound: how often the other side of a relation changes something
  MaxFaults    \* bound: how many kinds of faults there are in one behaviour

ASSUME BoundsAssumption == {MaxChanges, MaxFaults} \subseteq Nat

VARIABLES
  pending,  \* the hooks Juju owes the unit
  failed,   \* the hook it has to run again, or "none"
  hook,     \* the hook that is running, or "none"
  step,     \* where its handler is, "idle" between hooks
  changes,  \* how often the other sides have changed something
  faults    \* the kinds of faults there have been

hookVars == <<pending, failed, hook, step>>
counters == <<changes, faults>>

HooksInit(owed) ==
  /\ pending = owed
  /\ failed = "none"
  /\ hook = "none"
  /\ step = "idle"
  /\ changes = 0
  /\ faults = {}

Due(h) == hook = "none" /\ h \in pending /\ failed \in {"none", h}

\* The handler of h goes on at another step.
Begin(h, first) ==
  /\ Due(h)
  /\ pending' = pending \ {h} /\ failed' = "none"
  /\ hook' = h /\ step' = first

At(s) == step = s
Goto(next) == step' = next /\ UNCHANGED <<pending, failed, hook>>
Return == hook' = "none" /\ step' = "idle" /\ UNCHANGED <<pending, failed>>

\* A handler that ends where it begins.
BeginAndReturn(h) ==
  /\ Due(h)
  /\ pending' = pending \ {h} /\ failed' = "none"
  /\ UNCHANGED <<hook, step>>

BeginAndRaise(h) ==
  /\ Due(h)
  /\ failed' = h
  /\ UNCHANGED <<pending, hook, step>>

Raise ==
  /\ hook # "none"
  /\ pending' = pending \cup {hook} /\ failed' = hook
  /\ hook' = "none" /\ step' = "idle"

Owe(h) == pending' = pending \cup {h} /\ UNCHANGED <<failed, hook, step>>

\* What the other sides change, and what goes wrong: each kind at most once.
Change == changes < MaxChanges /\ changes' = changes + 1 /\ UNCHANGED faults
Fault(kind) ==
  /\ kind \notin faults /\ Cardinality(faults) < MaxFaults
  /\ faults' = faults \cup {kind}
  /\ UNCHANGED changes
NoFault == UNCHANGED counters

Resting(hooks) == hook = "none" /\ hooks \cap pending = {}

\* The hook is killed: the machine keeps what it did, and it will be run again.
HookKilled == Raise /\ Fault("killed")

================================================================================
