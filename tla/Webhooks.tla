-------------------------------- MODULE Webhooks --------------------------------
(***************************************************************************)
(* Where the notifications of a namespace go: internal/notify/router.go,   *)
(* and the parameters of modules Notifications and Fleet.                  *)
(***************************************************************************)
EXTENDS Naturals

CONSTANTS
  Namespaces,    \* namespaces of the cluster
  Causes,        \* root causes
  Routes,        \* the routes of --notify-config: [namespaces, url, format, token]
  Fallback,      \* the default: [url, format, token]
  Window,        \* groupWindow, in ticks of the clock
  MaxTime,       \* bound: ticks of the clock
  MaxDiagnoses,  \* bound: namespace -> diagnoses of each of its groups
  MaxFailures,   \* bound: failed sends
  MaxRestarts    \* bound: restarts of the process

NoURL == ""
Any   == "*"

ASSUME WebhooksAssumption ==
  /\ Window \in Nat /\ MaxTime \in Nat /\ MaxDiagnoses \in [Namespaces -> Nat]
  /\ MaxFailures \in Nat /\ MaxRestarts \in Nat
  /\ \A i \in DOMAIN Routes : Routes[i].url \in STRING
  /\ Fallback.url \in STRING

\* Diagnoses are grouped by namespace and root cause.
Groups == Namespaces \X Causes

Matches(route, ns) == Any \in route.namespaces \/ ns \in route.namespaces

\* Router.Route: the first route that matches, also when its URL is empty;
\* else the default.
Target(ns) ==
  LET matching == {i \in DOMAIN Routes : Matches(Routes[i], ns)} IN
  IF matching = {} THEN Fallback
  ELSE Routes[CHOOSE i \in matching : \A j \in matching : i <= j]

Route(ns) == Target(ns).url

=============================================================================
