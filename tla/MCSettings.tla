----------------------------- MODULE MCSettings -----------------------------
(* An instance of Settings: one service, three contexts in each other. *)
EXTENDS Settings

MCTexts == {"", " ", "db", "2"}
MCEntries == [t \in MCTexts |-> IF t \in {"", " "} THEN {} ELSE {t}]
MCVariables == {"DOCMESH_SERVICES", "READINESS_REQUIRED_SERVICES", "READINESS_TIMEOUT_SECONDS", "DB_URL"}
MCServiceOf == [s \in {"db"} |-> "DB_URL"]
MCEnvironments ==
  {[v \in MCVariables |-> Unset], [v \in MCVariables |-> IF v = "READINESS_TIMEOUT_SECONDS" THEN "2" ELSE "db"],
   [v \in MCVariables |-> IF v = "DB_URL" THEN Unset ELSE " "]}
MCOverrides ==
  {[v \in {"DOCMESH_SERVICES", "DB_URL"} |-> "db"], [v \in {"DOCMESH_SERVICES"} |-> Unset],
   [v \in {"READINESS_REQUIRED_SERVICES", "DOCMESH_SERVICES"} |-> "db"],
   [v \in {"READINESS_TIMEOUT_SECONDS"} |-> "2"], [v \in {"DB_URL"} |-> ""]}
MCSelections == {{}, {"db"}, {"all"}}
=============================================================================
