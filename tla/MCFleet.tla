--------------------------------- MODULE MCFleet ---------------------------------
(***************************************************************************)
(* Three namespaces: one is routed to the hub as it should be, one in the  *)
(* format of Slack, one with another token; and one is routed to nowhere.  *)
(***************************************************************************)
EXTENDS Fleet

Team(namespaces, url, format, token) ==
  [namespaces |-> namespaces, url |-> url, format |-> format, token |-> token]

TeamRoutes ==
  <<Team({"payments"}, "hub", "generic", "secret"),
    Team({"dev"}, "", "generic", ""),
    Team({"*"}, "hub", Slack, "secret")>>

Diagnoses == [ns \in Namespaces |-> IF ns = "payments" THEN 3 ELSE 1]

Default == [url |-> "hub", format |-> "generic", token |-> ""]

=============================================================================
