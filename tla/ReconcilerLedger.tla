---------------------------- MODULE ReconcilerLedger ----------------------------
(***************************************************************************)
(* Reconciler implements Ledger: the refinement mapping.  An entry is      *)
(* the status of a stored PodDiagnosis; what is due is what the worker     *)
(* has stored and not yet announced.                                       *)
(***************************************************************************)
EXTENDS Reconciler

Slots == UNION {{<<p, ContainersOf[p][i]>> : i \in DOMAIN ContainersOf[p]} : p \in PodNames}

NameOf == [s \in Slots |-> diagnosisName(s[1], s[2])]

Reached ==
  [s \in Slots |-> [uid |-> pods[s[1]].uid, restarts |-> pods[s[1]].restarts[s[2]]]]

There == {s \in Slots : pods[s[1]].phase # "absent"}

\* An object whose status was never written is no entry.
Recorded ==
  [n \in DiagNames |-> [pod |-> IF diags[n].status = NoEpisode THEN NoPod ELSE diags[n].pod,
                        episode |-> diags[n].status]]

Noted(a) ==
  [slot |-> <<a.pod, a.container>>, episode |-> [uid |-> a.uid, restarts |-> a.restarts]]

Due  == IF worker.pc = "announce" THEN {Noted(Announcing)} ELSE {}
Told == {Noted(a) : a \in announced}

L == INSTANCE Ledger WITH Names <- DiagNames, reached <- Reached, there <- There,
                          recorded <- Recorded, due <- Due, told <- Told

\* The control loop, with its lagging caches, rejected and ambiguous writes,
\* garbage collection and restarts of the process, keeps a ledger: a status
\* that it stores is newer than the one it replaces and of an episode that the
\* container has reached, and is told at most once, before the next one is
\* stored (controller.go:142-257).
ImplementsLedger == L!Spec

=============================================================================
