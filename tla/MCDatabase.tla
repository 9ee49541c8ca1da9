------------------------------ MODULE MCDatabase -------------------------------
(***************************************************************************)
(* Small instances of Database: two units, two hosts, every kind of        *)
(* provider.                                                               *)
(***************************************************************************)
EXTENDS Database

PortOnly == [NoOption EXCEPT !.port = "configured"]
HostOnly == [NoOption EXCEPT !.host = "manual"]
PasswordOnly == [NoOption EXCEPT !.password = LandscapePassword]
SchemaOnly == [NoOption EXCEPT !.schemaUser = "configured", !.schemaPassword = SchemaPassword]

MCConfigs == {NoOption, HostOnly, PortOnly, PasswordOnly, SchemaOnly}

Plain == [staggered |-> FALSE, subordinate |-> FALSE]
Staggered == [Plain EXCEPT !.staggered = TRUE]
Subordinate == [Plain EXCEPT !.subordinate = TRUE]

\* Every kind of provider without options, and every set of options with the
\* plain provider.
MCScenarios == {[config |-> NoOption, provider |-> p] : p \in {Plain, Staggered, Subordinate}}
          \cup {[config |-> c, provider |-> Plain] : c \in MCConfigs}

================================================================================
