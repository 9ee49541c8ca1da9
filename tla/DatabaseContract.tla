---------------------------- MODULE DatabaseContract ---------------------------
(***************************************************************************)
(* What the `database` relation promises, whoever leads Landscape and      *)
(* whatever is lost or retried: Landscape asks before the provider shares  *)
(* a user, and a unit is given that user's credentials only once they are  *)
(* shared.  Neither is ever taken back.                                    *)
(***************************************************************************)
CONSTANT Units

VARIABLES
  asked,   \* Landscape has asked for a database
  shared,  \* the provider has shared the user
  using    \* the units that have been given the user's credentials

vars == <<asked, shared, using>>

Init == asked = FALSE /\ shared = FALSE /\ using = {}

Ask == asked' = TRUE /\ UNCHANGED <<shared, using>>

Share == asked /\ shared' = TRUE /\ UNCHANGED <<asked, using>>

Use(u) == shared /\ using' = using \cup {u} /\ UNCHANGED <<asked, shared>>

Next == Ask \/ Share \/ \E u \in Units : Use(u)

Spec == Init /\ [][Next]_vars

================================================================================
