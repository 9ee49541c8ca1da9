------------------------------ MODULE SharedKeys ------------------------------
(***************************************************************************)
(* What the replicas of one Landscape Server application promise about the *)
(* keys they share (the secret token and the cookie encryption key): a key *)
(* the operator offers is the one to use; for a key that is not offered,   *)
(* one is published to all units, once; a unit only ever adopts the key    *)
(* that is due at that moment.                                             *)
(***************************************************************************)

CONSTANTS Units,    \* the units of the application
          Keys,     \* the names of the shared keys
          Values,   \* the values a key may have
          None      \* no value

VARIABLES offered,    \* the key the operator offers, or None
          published,  \* the key published to the units, or None
          adopted     \* the key each unit uses, or None

vars == <<offered, published, adopted>>

Init == /\ offered \in [Keys -> Values \cup {None}]
        /\ published = [k \in Keys |-> None]
        /\ adopted = [u \in Units |-> published]

\* The operator offers other keys, or withdraws them.
Offer == /\ offered' \in [Keys -> Values \cup {None}]
         /\ UNCHANGED <<published, adopted>>

Due(k, pub) == IF offered[k] # None THEN offered[k] ELSE pub[k]

\* Only a key that is neither offered nor published yet may be published.
PublishWhatIsMissing ==
  /\ published' \in [Keys -> Values \cup {None}]
  /\ \A k \in Keys : published'[k] # published[k] =>
                       Due(k, published) = None

\* A unit publishes what is missing, then adopts keys that are due.
Share(u) ==
  /\ PublishWhatIsMissing
  /\ \E own \in [Keys -> Values \cup {None}] :
       /\ adopted' = [adopted EXCEPT ![u] = own]
       /\ \A k \in Keys : own[k] # adopted[u][k] =>
                            own[k] = Due(k, published') /\ own[k] # None
  /\ UNCHANGED offered

Next == Offer \/ \E u \in Units : Share(u)

Spec == Init /\ [][Next]_vars
================================================================================
