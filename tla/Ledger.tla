--------------------------------- MODULE Ledger ---------------------------------
(***************************************************************************)
(* What the control loop promises, without caches, queue, versions or      *)
(* steps of a call.  Containers move from one failure episode to a later   *)
(* one.  The ledger has one entry per name; an entry stays with its pod,   *)
(* is replaced only by a newer episode, one that its container has         *)
(* reached, and is told to the outside at most once, before the next entry *)
(* is made.  It is forgotten only when the incarnation it is about is      *)
(* gone.  What is due may be dropped: nobody is told then.                 *)
(***************************************************************************)
EXTENDS Naturals

CONSTANTS
  Slots,   \* the containers: <<pod name, container name>>
  Names,   \* the names of the entries
  NameOf,  \* slot -> the name of its entry
  NoPod    \* the pod of an entry that is not there

VARIABLES
  reached,   \* slot -> the episode that it is in
  there,     \* the slots whose pod exists
  recorded,  \* name -> the entry of the ledger
  due,       \* the entry that was made and is still to be told: at most one
  told       \* what was told

vars == <<reached, there, recorded, due, told>>

Episode == [uid : Nat, restarts : Nat]

Blank == [pod |-> NoPod, episode |-> [uid |-> 0, restarts |-> 0]]

Newer(e, f) == e.uid > f.uid \/ (e.uid = f.uid /\ e.restarts > f.restarts)

Init ==
  /\ reached \in [Slots -> Episode]
  /\ there = Slots
  /\ recorded = [n \in Names |-> Blank]
  /\ due = {}
  /\ told = {}

\* Containers fail again, pods go, or come back as a later incarnation.
Advance ==
  /\ reached' \in [Slots -> Episode]
  /\ \A s \in Slots : reached'[s] = reached[s] \/ Newer(reached'[s], reached[s])
  /\ \A s \in there' \ there : reached'[s].uid > reached[s].uid
  /\ there' \subseteq Slots
  /\ UNCHANGED <<recorded, due, told>>

\* An episode is entered for slot s; it is due to be told, unless the one who
\* entered it does not learn that it did.
Record(s) ==
  LET old == recorded[NameOf[s]]
      new == recorded'[NameOf[s]].episode
  IN
  /\ due = {}
  /\ old.pod \in {s[1], NoPod}
  /\ new \in Episode
  /\ Newer(new, old.episode)
  /\ ~Newer(new, reached[s])
  /\ recorded' = [recorded EXCEPT ![NameOf[s]] = [pod |-> s[1], episode |-> new]]
  /\ due' = {[slot |-> s, episode |-> new]} \/ due' = {}
  /\ UNCHANGED <<reached, there, told>>

Tell ==
  /\ due # {}
  /\ told' = told \cup due
  /\ due' = {}
  /\ UNCHANGED <<reached, there, recorded>>

Drop ==
  /\ due' = {}
  /\ UNCHANGED <<reached, there, recorded, told>>

\* Entry n is about an incarnation that is there.
Current(n) ==
  \E s \in there :
    /\ NameOf[s] = n
    /\ s[1] = recorded[n].pod
    /\ reached[s].uid = recorded[n].episode.uid

Forget(n) ==
  /\ ~Current(n)
  /\ recorded' = [recorded EXCEPT ![n] = Blank]
  /\ UNCHANGED <<reached, there, due, told>>

Next ==
  \/ Advance
  \/ \E s \in Slots : Record(s)
  \/ Tell
  \/ Drop
  \/ \E n \in Names : Forget(n)

Spec == Init /\ [][Next]_vars

=============================================================================
