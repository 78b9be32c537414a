---------------------------- MODULE MCReconciler ----------------------------
(***************************************************************************)
(* Small clusters for the model checking of Reconciler.                    *)
(***************************************************************************)
EXTENDS ReconcilerLedger, TLC

\* One container per pod.
OneContainer == [p \in PodNames |-> <<"app">>]

\* An init container and an application container.
InitAndApp == [p \in PodNames |-> <<"setup", "app">>]

\* Two pods whose containers have the same diagnosis name.
Colliding == ("api" :> <<"server-proxy">>) @@ ("api-server" :> <<"proxy">>)

\* Bounds on the restart counts.
Restarts(bound(_, _)) == [p \in PodNames |-> [c \in Containers |-> bound(p, c)]]

NoRestart   == Restarts(LAMBDA p, c : 0)
OneRestart  == Restarts(LAMBDA p, c : 1)
TwoRestarts == Restarts(LAMBDA p, c : 2)
AppAlone    == Restarts(LAMBDA p, c : IF c = "app" THEN 1 ELSE 0)
ServerAlone == Restarts(LAMBDA p, c : IF p = "api-server" THEN 1 ELSE 0)

=============================================================================
