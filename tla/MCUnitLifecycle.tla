---------------------------- MODULE MCUnitLifecycle ----------------------------
(***************************************************************************)
(* UnitLifecycle for TLC: the configurations of the small instances.       *)
(***************************************************************************)
EXTENDS UnitLifecycle

Plain == DefaultConfig

\* A plain configuration, an invalid one, a manual database with demo data, and
\* one with every optional section.
MCConfigs == {Plain,
              [Plain EXCEPT !.valid = FALSE],
              [Plain EXCEPT !.db = TRUE, !.demo = TRUE],
              [valid |-> TRUE, db |-> TRUE, demo |-> FALSE, license |-> TRUE,
               sso |-> TRUE, gpg |-> TRUE, cert |-> TRUE]}

================================================================================
