---- MODULE MCMcpService ----
EXTENDS McpService, TLC

CONSTANTS Scans, Reviews, Executions, Recoveries

AllHandles == Scans \cup Reviews \cup Executions \cup Recoveries
TypeOfAll ==
  [h \in AllHandles |-> CASE h \in Scans -> "scan" [] h \in Reviews -> "review"
                          [] h \in Executions -> "execution" [] h \in Recoveries -> "recovery"]
AllStates == {"ACTIVE", "WAITING_FOR_HUMAN_CONFIRMATION", "READY_FOR_EXECUTION",
              "EXECUTING", "COMPLETE", "RECONCILIATION_REQUIRED", "FAILED"}
Interchangeable ==
  UNION {Permutations(S) : S \in {Threads, Scans, Reviews, Executions, Recoveries}}
====
