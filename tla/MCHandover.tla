------------------------------- MODULE MCHandover -------------------------------
(***************************************************************************)
(* One pod with one container for the model checking of Handover.          *)
(***************************************************************************)
EXTENDS Handover

OneContainer == [p \in PodNames |-> <<"app">>]

OneRestart == [p \in PodNames |-> [c \in Containers |-> 1]]

=============================================================================
