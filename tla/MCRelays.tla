-------------------------------- MODULE MCRelays -------------------------------
(***************************************************************************)
(* Small instances of Relays: an open relay, relays with each kind of      *)
(* credentials and of encryption, and one whose data are not valid.        *)
(***************************************************************************)
EXTENDS Relays

Offer(host, security, auth) ==
  [host |-> host, security |-> security, auth |-> auth, valid |-> TRUE]

MCOffers == {Offer("relay1", "none", "none"),
             Offer("relay1", "starttls", "inline"),
             Offer("relay2", "tls", "secret"),
             [Offer("relay2", "tls", "secret") EXCEPT !.valid = FALSE]}

PlainOffers == {Offer("relay1", "none", "none"), Offer("relay2", "tls", "secret")}

================================================================================
