----------------------------- MODULE MCHaproxyRoutes ---------------------------
(***************************************************************************)
(* Small instances of HaproxyRoutes: two units, two workers, ports that    *)
(* are close together.                                                     *)
(***************************************************************************)
EXTENDS HaproxyRoutes, TLC

Defaults ==
  [workers |-> 2,
   base |-> "appserver" :> 20 @@ "pingserver" :> 10 @@ "message-server" :> 30
              @@ "api" :> 40 @@ "package-upload" :> 50 @@ "hostagent-messenger" :> 60
              @@ "ubuntu-installer-attach" :> 61,
   redirect |-> "default", root |-> "none", grpc |-> {},
   check |-> [r \in HttpRoutes |-> IF r = "repository" THEN "none" ELSE "absolute"],
   timeout |-> [r \in HttpRoutes |-> 1], signOn |-> {}, minInstall |-> FALSE,
   mode |-> "standalone"]

\* swapped: appserver and pingserver change their ports, the gRPC services are enabled.
\* lastPort: the second api worker would listen on port 65536.
\* overlap, where oneWorker has none: the second api worker would listen on the message server's first port.
Variants ==
  [default   |-> Defaults,
   swapped   |-> [Defaults EXCEPT !.base["appserver"] = 10, !.base["pingserver"] = 20,
                                  !.redirect = "all", !.root = "domain", !.signOn = Oidc,
                                  !.grpc = {"hostagent-messenger"}],
   overlap   |-> [Defaults EXCEPT !.base["api"] = 29],
   oneWorker |-> [Defaults EXCEPT !.base["api"] = 29, !.workers = 1, !.redirect = "none",
                                  !.signOn = OpenId, !.minInstall = TRUE,
                                  !.grpc = {"ubuntu-installer-attach"}],
   noTimeout |-> [Defaults EXCEPT !.timeout["api"] = 0],
   lastPort  |-> [Defaults EXCEPT !.base["api"] = 65535],
   badUrl    |-> [Defaults EXCEPT !.root = "unparsable", !.grpc = {"hostagent-messenger"}]]

MCConfigs == {"default", "swapped", "overlap", "oneWorker", "noTimeout", "lastPort",
              "badUrl"}
MCOptions == [c \in MCConfigs |-> Variants[c]]

FirstRoutes == Routes \ {"hostagent-messenger"}
Moving == {"pingserver", "hostagent-messenger"}

================================================================================
