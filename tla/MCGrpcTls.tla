------------------------------- MODULE MCGrpcTls -------------------------------
(***************************************************************************)
(* Small instances of GrpcTls.                                             *)
(***************************************************************************)
EXTENDS GrpcTls, TLC

CONSTANTS h1, h2

Both == [valid |-> TRUE, enabled |-> Services, host |-> h1]
MessengerOnly == [Both EXCEPT !.enabled = {"hostagent-messenger"}]
Renamed == [Both EXCEPT !.host = h2]
Off == [Both EXCEPT !.enabled = {}]
Invalid == [Both EXCEPT !.valid = FALSE]

AllConfigs == {Both, MessengerOnly, Renamed, Off, Invalid}
OnlyBoth == {Both}

AllServices == Services
OldOrNewServer == {{}, Services}
NewServer == {Services}

\* Certificates are interchangeable.
CertSymmetry == Permutations(Certs)
================================================================================
