------------------------------ MODULE LedgerProofs ------------------------------
(***************************************************************************)
(* Reconciler implements Ledger, for any pods, containers and bounds.      *)
(***************************************************************************)
EXTENDS ReconcilerLedger, ReconcilerProofs

LEMMA SlotOf ==
  ASSUME NEW p \in PodNames, NEW i \in DOMAIN ContainersOf[p]
  PROVE  /\ <<p, ContainersOf[p][i]>> \in Slots
         /\ NameOf[<<p, ContainersOf[p][i]>>] = diagnosisName(p, ContainersOf[p][i])
  <1>1. <<p, ContainersOf[p][i]>> \in Slots
    BY DEF Slots
  <1> QED
    BY <1>1 DEF NameOf

LEMMA SlotFacts ==
  ASSUME NEW s \in Slots
  PROVE  /\ s[1] \in PodNames /\ s[2] \in Containers
         /\ \E i \in DOMAIN ContainersOf[s[1]] : s[2] = ContainersOf[s[1]][i]
         /\ NameOf[s] = diagnosisName(s[1], s[2]) /\ NameOf[s] \in DiagNames
  <1>1. PICK p \in PodNames : \E i \in DOMAIN ContainersOf[p] : s = <<p, ContainersOf[p][i]>>
    BY DEF Slots
  <1>2. PICK i \in DOMAIN ContainersOf[p] : s = <<p, ContainersOf[p][i]>>
    BY <1>1
  <1> QED
    BY <1>2, ContainerFacts, SlotOf

\* An object that does not exist carries no status.
AbsentIsBlank == \A n \in DiagNames : ~Exists(diags[n]) => diags[n] = NoDiag

LEMMA AbsentInit == Init => AbsentIsBlank
  BY DEF Init, AbsentIsBlank

LEMMA AbsentNext == TypeOK /\ EpisodeInv /\ AbsentIsBlank /\ [Next]_vars => AbsentIsBlank'
  <1> SUFFICES ASSUME TypeOK, EpisodeInv, AbsentIsBlank, [Next]_vars, NEW n \in DiagNames,
                      ~Exists(diags'[n])
               PROVE  diags'[n] = NoDiag
    BY DEF AbsentIsBlank, Exists
  <1>1. CASE diags' = diags
    BY <1>1 DEF AbsentIsBlank
  <1>2. CASE \E m \in DiagNames : CollectGarbage(m)
    BY <1>2 DEF AbsentIsBlank, CollectGarbage, TypeOK
  <1>3. CASE /\ worker.pc \in {"write", "status"}
             /\ Accepts
             /\ diags' = [diags EXCEPT ![DiagKey] = Persisted(Written)]
    <2>1. Exists(Persisted(Written))
      BY <1>3, PersistedFacts, WrittenFacts, WriteIsSound, EpisodeWriter, BusyContainer DEF EpisodeInv, CopiesAreEarlier, Pod, Exists
    <2> QED
      BY <1>3, <2>1 DEF AbsentIsBlank, TypeOK
  <1> QED
    BY <1>1, <1>2, <1>3, StepsOfDiags

ReachedOK == Reached \in [Slots -> L!Episode]

LEMMA ReachedType == TypeOK => ReachedOK
  <1> SUFFICES ASSUME TypeOK, NEW s \in Slots
               PROVE  [uid |-> pods[s[1]].uid, restarts |-> pods[s[1]].restarts[s[2]]] \in L!Episode
    BY DEF ReachedOK, Reached
  <1> QED
    BY SlotFacts DEF TypeOK, Pod, L!Episode

LEMMA RefinementInit == Init => L!Init
  <1> SUFFICES ASSUME Init PROVE L!Init
    OBVIOUS
  <1>1. Reached \in [Slots -> L!Episode]
    BY TypeInit, ReachedType DEF ReachedOK
  <1>2. There = Slots
    BY SlotFacts DEF Init, There, FreshPod
  <1>3. Recorded = [n \in DiagNames |-> L!Blank]
    BY DEF Init, Recorded, NoDiag, L!Blank, NoEpisode
  <1>4. Due = {} /\ Told = {}
    BY DEF Init, Due, Told, Idle
  <1> QED
    BY <1>1, <1>2, <1>3, <1>4 DEF L!Init

\* A step that is not the worker's changes only what the containers reached.
LEMMA AdvanceStep ==
  ASSUME TypeOK, TypeOK', [Next]_vars, UNCHANGED <<diags, worker, announced>>
  PROVE  L!Advance
  <1>1. Reached' \in [Slots -> L!Episode]
    <2>1. ReachedOK'
      BY ReachedType, PTL
    <2> QED
      BY <2>1 DEF ReachedOK
  <1>2. ASSUME NEW s \in Slots PROVE Reached'[s] = Reached[s] \/ L!Newer(Reached'[s], Reached[s])
    <2>1. s[1] \in PodNames /\ s[2] \in Containers /\ Earlier(pods[s[1]], pods'[s[1]])
      BY SlotFacts, PodsMoveForward
    <2>2. /\ pods[s[1]].uid \in Nat /\ pods'[s[1]].uid \in Nat
          /\ pods[s[1]].restarts[s[2]] \in Nat /\ pods'[s[1]].restarts[s[2]] \in Nat
      BY <2>1 DEF TypeOK, Pod
    <2>3. /\ Reached[s] = [uid |-> pods[s[1]].uid, restarts |-> pods[s[1]].restarts[s[2]]]
          /\ Reached'[s] = [uid |-> pods'[s[1]].uid, restarts |-> pods'[s[1]].restarts[s[2]]]
      BY DEF Reached
    <2> QED
      BY <2>1, <2>2, <2>3 DEF Earlier, L!Newer
  <1>3. ASSUME NEW s \in There' \ There PROVE Reached'[s].uid > Reached[s].uid
    <2>1. s \in Slots /\ s[1] \in PodNames /\ pods'[s[1]].phase # "absent" /\ pods[s[1]].phase = "absent"
      BY SlotFacts DEF There
    <2>2. pods[s[1]].uid \in Nat /\ pods'[s[1]].uid \in Nat
      BY <2>1 DEF TypeOK, Pod
    <2>3. \A p \in PodNames, u \in Nat : u <= pods[p].uid /\ IsThere(p, u)' => IsThere(p, u)
      BY ThereBefore
    <2>4. \A u \in Nat : u = pods'[s[1]].uid => IsThere(s[1], u)'
      BY <2>1 DEF IsThere
    <2>5. ~(pods'[s[1]].uid <= pods[s[1]].uid)
      BY <2>1, <2>2, <2>3, <2>4 DEF IsThere
    <2> QED
      BY <2>1, <2>2, <2>5 DEF Reached
  <1>4. There' \subseteq Slots
    BY DEF There
  <1>5. Recorded' = Recorded /\ Told' = Told /\ Due' = Due
    BY DEF Recorded, Told, Due, Noted, Announcing, RestartCount, Container
  <1> QED
    BY <1>1, <1>2, <1>3, <1>4, <1>5 DEF L!Advance

\* The garbage collector forgets an entry whose incarnation is gone.
LEMMA ForgetStep ==
  ASSUME TypeOK, EpisodeInv, NEW n \in DiagNames, CollectGarbage(n)
  PROVE  L!Forget(n)
  <1>1. /\ diags' = [diags EXCEPT ![n] = NoDiag] /\ OwnerIsGone(diags[n])
        /\ pods' = pods /\ worker' = worker /\ announced' = announced
    BY DEF CollectGarbage, operator
  <1>2. ~L!Current(n)
    <2> SUFFICES ASSUME NEW s \in There, NameOf[s] = n, s[1] = Recorded[n].pod,
                        Reached[s].uid = Recorded[n].episode.uid
                 PROVE  FALSE
      BY DEF L!Current
    <2>1. s \in Slots /\ s[1] \in PodNames /\ pods[s[1]].phase # "absent"
      BY SlotFacts DEF There
    <2>2. diags[n].pod = s[1] /\ diags[n].status.uid = pods[s[1]].uid
      BY <2>1, ConstantsAssumption DEF Recorded, Reached
    <2>3. PICK i \in DOMAIN ContainersOf[s[1]] : n = diagnosisName(s[1], ContainersOf[s[1]][i])
      BY <2>1, SlotFacts
    <2>4. Behind(diags[n], pods[s[1]], ContainersOf[s[1]][i])
      BY <2>1, <2>2, <2>3, EpisodeInvNeverAhead DEF NeverAhead, PodsBehind
    <2>5. diags[n].uid \in Nat /\ diags[n].status.uid \in Nat /\ pods[s[1]].uid \in Nat
      BY <2>1 DEF TypeOK, Diag, Episode, Pod
    <2> QED
      BY <1>1, <2>1, <2>2, <2>4, <2>5 DEF OwnerIsGone, Behind
  <1>3. Recorded' = [Recorded EXCEPT ![n] = L!Blank]
    <2>1. \A m \in DiagNames : diags'[m] = IF m = n THEN NoDiag ELSE diags[m]
      BY <1>1 DEF TypeOK
    <2>2. \A m \in DiagNames : Recorded'[m] = IF m = n THEN L!Blank ELSE Recorded[m]
      BY <2>1 DEF Recorded, NoDiag, L!Blank, NoEpisode
    <2> QED
      BY <2>2 DEF Recorded
  <1>4. Reached' = Reached /\ There' = There /\ Told' = Told /\ Due' = Due
    BY <1>1 DEF Reached, There, Told, Due, Noted, Announcing, RestartCount, Container
  <1> QED
    BY <1>2, <1>3, <1>4 DEF L!Forget

\* An accepted write of the object's spec is no entry.
LEMMA WriteIsNoEntry ==
  ASSUME TypeOK, EpisodeInv, AbsentIsBlank, worker.pc = "write", Accepts,
         diags' = [diags EXCEPT ![DiagKey] = Persisted(Written)]
  PROVE  Recorded' = Recorded
  <1>1. DiagKey \in DiagNames /\ diags[DiagKey] \in Diag
    BY BusyContainer DEF TypeOK
  <1>2. \A m \in DiagNames : diags'[m] = IF m = DiagKey THEN Persisted(Written) ELSE diags[m]
    BY DEF TypeOK
  <1>3. /\ Persisted(Written).status = Written.status
        /\ Persisted(Written).pod = worker.key
        /\ Exists(diags[DiagKey]) => Written.status = diags[DiagKey].status /\ diags[DiagKey].pod = worker.key
        /\ ~Exists(diags[DiagKey]) => Written.status = NoEpisode
    BY PersistedFacts, WrittenFacts, WriteIsSound, EpisodeWriter
  <1>4. ~Exists(diags[DiagKey]) => diags[DiagKey].status = NoEpisode
    BY <1>1 DEF AbsentIsBlank, NoDiag
  <1>5. Recorded'[DiagKey] = Recorded[DiagKey]
    BY <1>1, <1>2, <1>3, <1>4 DEF Recorded
  <1> QED
    BY <1>2, <1>5 DEF Recorded

\* An accepted write of the status enters an episode.
LEMMA RecordStep ==
  ASSUME TypeOK, EpisodeInv, worker.pc = "status", Accepts,
         diags' = [diags EXCEPT ![DiagKey] = Persisted(Written)],
         pods' = pods, announced' = announced,
         Due' = {} \/ Due' = {Noted(Announcing)}
  PROVE  L!Record(<<worker.key, Container>>) /\ <<worker.key, Container>> \in Slots
  <1> DEFINE s == <<worker.key, Container>>
             e == [uid |-> worker.pod.uid, restarts |-> RestartCount]
  <1>1. /\ worker.key \in PodNames /\ worker.at \in DOMAIN ContainersOf[worker.key]
        /\ Container \in Containers /\ RestartCount \in Nat /\ DiagKey \in DiagNames
        /\ worker.pod \in Pod /\ worker.pod.uid \in Nat /\ worker.pod.uid >= 1
    BY BusyContainer DEF Pod, EpisodeInv, CopiesAreEarlier
  <1>2. s \in Slots /\ NameOf[s] = DiagKey
    BY <1>1, SlotOf DEF DiagKey, Container
  <1>3. /\ Written.status = e /\ Newer(e, diags[DiagKey].status) /\ diags[DiagKey].pod = worker.key
        /\ Persisted(Written).status = e /\ Persisted(Written).pod = worker.key
    BY PersistedFacts, WrittenFacts, WriteIsSound, EpisodeWriter
  <1>4. Recorded' = [Recorded EXCEPT ![DiagKey] = [pod |-> worker.key, episode |-> e]]
    <2>1. \A m \in DiagNames : diags'[m] = IF m = DiagKey THEN Persisted(Written) ELSE diags[m]
      BY DEF TypeOK
    <2>2. e # NoEpisode
      BY <1>1 DEF NoEpisode
    <2> QED
      BY <1>1, <1>3, <2>1, <2>2 DEF Recorded
  <1>5. /\ Recorded[DiagKey].pod \in {worker.key, NoPod}
        /\ Recorded[DiagKey].episode = diags[DiagKey].status
        /\ Recorded'[DiagKey].episode = e
    BY <1>1, <1>3, <1>4 DEF Recorded
  <1>6. ~L!Newer(e, Reached[s])
    <2>1. Earlier(worker.pod, pods[worker.key])
      <3>1. /\ Earlier(worker.pod, podCache[worker.key])
            /\ Earlier(podCache[worker.key], pods[worker.key])
        BY <1>1 DEF EpisodeInv, CopiesAreEarlier
      <3> QED
        BY <1>1, <3>1, EarlierTransitive DEF TypeOK
    <2>2. /\ pods[worker.key].uid \in Nat /\ pods[worker.key].restarts[Container] \in Nat
      BY <1>1 DEF TypeOK, Pod
    <2>3. Reached[s] = [uid |-> pods[worker.key].uid, restarts |-> pods[worker.key].restarts[Container]]
      BY <1>2 DEF Reached
    <2>4. RestartCount = worker.pod.restarts[Container]
      BY DEF RestartCount
    <2> QED
      BY <1>1, <2>1, <2>2, <2>3, <2>4 DEF Earlier, L!Newer
  <1>7. Due = {} /\ Noted(Announcing) = [slot |-> s, episode |-> e]
    BY DEF Due, Noted, Announcing
  <1>8. Reached' = Reached /\ There' = There /\ Told' = Told
    BY DEF Reached, There, Told, Noted
  <1>9. L!Newer(e, diags[DiagKey].status)
    BY <1>3 DEF Newer, L!Newer
  <1>10. e \in L!Episode
    BY <1>1 DEF L!Episode
  <1> QED
    BY <1>2, <1>4, <1>5, <1>6, <1>7, <1>8, <1>9, <1>10 DEF L!Record

LEMMA RefinementNext ==
  TypeOK /\ TypeOK' /\ EpisodeInv /\ AbsentIsBlank /\ [Next]_vars => [L!Next]_(L!vars)
  <1> SUFFICES ASSUME TypeOK, TypeOK', EpisodeInv, AbsentIsBlank, [Next]_vars
               PROVE  L!Next \/ UNCHANGED L!vars
    OBVIOUS
  <1>1. CASE UNCHANGED <<diags, worker, announced>>
    BY <1>1, AdvanceStep DEF L!Next
  <1>2. CASE \E n \in DiagNames : CollectGarbage(n)
    BY <1>2, ForgetStep DEF L!Next
  <1>3. ASSUME pods' = pods, diags' = diags, announced' = announced, Due' = Due \/ Due' = {}
        PROVE  L!Drop \/ UNCHANGED L!vars
    BY <1>3 DEF L!Drop, L!vars, Reached, There, Recorded, Told, Noted
  <1>4. CASE \/ \E p \in PodNames : Reconcile(p)
             \/ GetDiagnosis \/ WriteRejected
             \/ Restart
    <2>1. worker'.pc # "announce"
      <3>1. ASSUME GetDiagnosis, ~(NextContainer \/ Return) PROVE worker'.pc = "write"
        BY <3>1 DEF GetDiagnosis, TypeOK, Worker
      <3>2. CASE \E p \in PodNames : Reconcile(p)
        BY <3>2 DEF Reconcile, Idle
      <3>3. CASE GetDiagnosis
        BY <3>1, <3>3, NextContainerPc
      <3>4. CASE WriteRejected \/ Restart
        BY <3>4, NextContainerPc DEF WriteRejected, Restart, Idle
      <3> QED
        BY <1>4, <3>2, <3>3, <3>4
    <2>2. pods' = pods /\ diags' = diags /\ announced' = announced
      BY <1>4 DEF Reconcile, GetDiagnosis, WriteRejected, Restart
    <2> QED
      BY <1>3, <2>1, <2>2 DEF Due, L!Next
  <1>5. CASE CreateOrUpdate
    <2>1. /\ worker.pc = "write" /\ Accepts /\ pods' = pods /\ announced' = announced
          /\ diags' = [diags EXCEPT ![DiagKey] = Persisted(Written)]
          /\ worker'.pc = "status"
      BY <1>5 DEF CreateOrUpdate, Written, TypeOK, Worker
    <2> QED
      BY <2>1, WriteIsNoEntry DEF L!vars, Reached, There, Told, Noted, Due
  <1>6. CASE UpdateStatus
    <2>1. /\ worker.pc = "status" /\ Accepts /\ pods' = pods /\ announced' = announced
          /\ diags' = [diags EXCEPT ![DiagKey] = Persisted(Written)]
          /\ worker'.pc = "announce" /\ worker'.key = worker.key
          /\ worker'.pod = worker.pod /\ worker'.at = worker.at
      BY <1>6 DEF UpdateStatus, Written, TypeOK, Worker
    <2>2. Due' = {Noted(Announcing)}
      BY <2>1 DEF Due, Noted, Announcing, RestartCount, Container
    <2> QED
      BY <2>1, <2>2, RecordStep DEF L!Next
  <1>7. CASE WriteFails
    <2>1. /\ worker.pc \in {"write", "status"} /\ pods' = pods /\ announced' = announced
          /\ \/ diags' = diags
             \/ Accepts /\ diags' = [diags EXCEPT ![DiagKey] = Persisted(Written)]
          /\ worker'.pc = "idle"
      BY <1>7 DEF WriteFails, Return, Idle
    <2>2. Due = {} /\ Due' = {}
      BY <2>1 DEF Due
    <2>3. CASE diags' = diags
      BY <1>3, <2>1, <2>2, <2>3 DEF L!Next
    <2>4. CASE worker.pc = "write" /\ diags' # diags
      BY <2>1, <2>2, <2>4, WriteIsNoEntry DEF L!vars, Reached, There, Told, Noted
    <2>5. CASE worker.pc = "status" /\ diags' # diags
      BY <2>1, <2>2, <2>5, RecordStep DEF L!Next
    <2> QED
      BY <2>1, <2>3, <2>4, <2>5
  <1>8. CASE Announce
    <2>1. /\ worker.pc = "announce" /\ pods' = pods /\ diags' = diags
          /\ announced' = announced \cup {Announcing} /\ worker'.pc # "announce"
      BY <1>8, NextContainerPc DEF Announce
    <2>2. Due = {Noted(Announcing)} /\ Due' = {}
      BY <2>1 DEF Due
    <2>3. Told' = Told \cup Due
      BY <2>1, <2>2 DEF Told, Noted
    <2> QED
      BY <2>1, <2>2, <2>3 DEF L!Tell, L!Next, Reached, There, Recorded
  <1>9. \/ UNCHANGED <<diags, worker, announced>>
        \/ \E n \in DiagNames : CollectGarbage(n)
        \/ \E p \in PodNames : Reconcile(p)
        \/ GetDiagnosis \/ WriteRejected \/ Restart
        \/ CreateOrUpdate \/ UpdateStatus \/ WriteFails \/ Announce
    BY DEF Next, Environment, KubeletReportsFailure, KubeletReportsRunning, DeletePod, RemovePod,
           CreatePod, Informers, SyncPod, TimerFires, SyncDiag, WorkerStep, vars, operator
  <1> QED
    BY <1>1, <1>2, <1>4, <1>5, <1>6, <1>7, <1>8, <1>9

\* The control loop keeps the ledger.
THEOREM ReconcilerImplementsLedger == Spec => ImplementsLedger
  <1>1. Spec => [](TypeOK /\ EpisodeInv /\ AbsentIsBlank)
    BY EpisodeInvariant, AbsentInit, AbsentNext, PTL DEF Spec
  <1> QED
    BY <1>1, RefinementInit, RefinementNext, PTL DEF Spec, ImplementsLedger, L!Spec

=============================================================================
