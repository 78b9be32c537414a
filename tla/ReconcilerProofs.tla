--------------------------- MODULE ReconcilerProofs ---------------------------
(***************************************************************************)
(* Theorems about Reconciler, for any pods, containers and bounds.         *)
(***************************************************************************)
EXTENDS Reconciler, TLAPS

-----------------------------------------------------------------------------
(* Containers and names.                                                   *)

LEMMA ContainerFacts ==
  ASSUME NEW p \in PodNames, NEW i \in DOMAIN ContainersOf[p]
  PROVE  /\ i \in Nat
         /\ ContainersOf[p][i] \in Containers
         /\ diagnosisName(p, ContainersOf[p][i]) \in DiagNames
  <1>1. ContainersOf \in [PodNames -> Seq(STRING)]
    BY ConstantsAssumption
  <1>2. ContainersOf[p] \in Seq(STRING)
    BY <1>1
  <1>3. i \in Nat
    BY <1>2
  <1>4. ContainersOf[p][i] \in Containers
    BY DEF Containers
  <1>5. diagnosisName(p, ContainersOf[p][i]) \in DiagNames
    BY DEF DiagNames
  <1> QED
    BY <1>3, <1>4, <1>5

LEMMA BusyContainer ==
  ASSUME TypeOK, worker.pc # "idle"
  PROVE  /\ worker.key \in PodNames
         /\ worker.at \in DOMAIN ContainersOf[worker.key]
         /\ Container \in Containers
         /\ RestartCount \in Nat
         /\ DiagKey \in DiagNames
         /\ worker.pod \in Pod
         /\ worker.diagObj \in Diag
  <1>1. worker \in Worker /\ worker.key \in PodNames /\ worker.at \in DOMAIN ContainersOf[worker.key]
    BY DEF TypeOK
  <1>2. Container \in Containers /\ DiagKey \in DiagNames
    BY <1>1, ContainerFacts DEF Container, DiagKey
  <1>3. RestartCount \in Nat
    BY <1>1, <1>2 DEF RestartCount, Worker, Pod
  <1> QED
    BY <1>1, <1>2, <1>3 DEF Worker

LEMMA NoDiagType == NoDiag \in Diag
  BY DEF NoDiag, Diag, NoEpisode, Episode

LEMMA IdleType == Idle \in Worker
  BY NoDiagType DEF Idle, Worker, NoPodSnapshot, FreshPod, Pod

LEMMA PersistedType ==
  ASSUME TypeOK, worker.pc # "idle", NEW d \in Diag
  PROVE  /\ Persisted(d) \in Diag
         /\ FreshVersion \in Versions
         /\ FreshVersion \notin {diags[DiagKey].rv, diagCache[DiagKey].rv, worker.diagObj.rv}
  <1>1. \E v \in Versions : v \notin {diags[DiagKey].rv, diagCache[DiagKey].rv, worker.diagObj.rv}
    BY DEF Versions
  <1>2. /\ FreshVersion \in Versions
        /\ FreshVersion \notin {diags[DiagKey].rv, diagCache[DiagKey].rv, worker.diagObj.rv}
    BY <1>1 DEF FreshVersion
  <1> QED
    BY <1>2 DEF Persisted, Diag, Versions

LEMMA DiagnosedType ==
  ASSUME TypeOK, worker.pc # "idle", NEW d \in Diag
  PROVE  Diagnosed(d) \in Diag
  BY BusyContainer DEF Diagnosed, Diag, Pod, Episode

LEMMA NextContainerType ==
  ASSUME TypeOK, worker.pc # "idle", NextContainer \/ Return
  PROVE  /\ worker' \in Worker
         /\ worker'.pc = "idle" => worker' = Idle
         /\ worker'.pc # "idle" => worker'.key \in PodNames /\ worker'.at \in DOMAIN ContainersOf[worker'.key]
         /\ delayed' \subseteq PodNames
  <1> USE BusyContainer
  <1>1. CASE Return
    BY <1>1, IdleType DEF Return, TypeOK, Idle
  <1>2. CASE NextContainer
    <2> DEFINE rest == NextFailing(worker.key, worker.pod, worker.at)
    <2>1. CASE rest = {} /\ Return
      BY <2>1, <1>1
    <2>2. CASE \E i \in rest :
                 /\ worker' = [worker EXCEPT !.pc = "get", !.at = i, !.diagObj = NoDiag]
                 /\ delayed' = delayed
      <3>1. PICK i \in rest :
                 /\ worker' = [worker EXCEPT !.pc = "get", !.at = i, !.diagObj = NoDiag]
                 /\ delayed' = delayed
        BY <2>2
      <3>2. i \in DOMAIN ContainersOf[worker.key] /\ i \in Nat
        BY ContainerFacts DEF NextFailing
      <3> QED
        BY <3>1, <3>2, NoDiagType DEF TypeOK, Worker
    <2> QED
      BY <1>2, <2>1, <2>2 DEF NextContainer
  <1> QED
    BY <1>1, <1>2

-----------------------------------------------------------------------------
(* Type correctness.                                                       *)

LEMMA TypeInit == Init => TypeOK
  <1> SUFFICES ASSUME Init PROVE TypeOK
    OBVIOUS
  <1>1. FreshPod(1) \in Pod
    BY DEF FreshPod, Pod
  <1> QED
    BY <1>1, NoDiagType, IdleType DEF Init, TypeOK, Idle

LEMMA PodChangeType ==
  ASSUME NEW pod \in Pod
  PROVE  /\ \A c : [pod EXCEPT !.failing = @ \ {c}] \in Pod
         /\ [pod EXCEPT !.phase = "terminating"] \in Pod
         /\ [pod EXCEPT !.phase = "absent"] \in Pod
         /\ FreshPod(pod.uid + 1) \in Pod
  <1>1. ASSUME NEW c PROVE [pod EXCEPT !.failing = @ \ {c}] \in Pod
    BY DEF Pod
  <1>2. [pod EXCEPT !.phase = "terminating"] \in Pod /\ [pod EXCEPT !.phase = "absent"] \in Pod
    BY DEF Pod
  <1>3. FreshPod(pod.uid + 1) \in Pod
    BY DEF FreshPod, Pod
  <1> QED
    BY <1>1, <1>2, <1>3

LEMMA TypeEnvironment == TypeOK /\ Environment => TypeOK'
  <1> SUFFICES ASSUME TypeOK, Environment PROVE TypeOK'
    OBVIOUS
  <1> USE DEF TypeOK
  <1>1. ASSUME NEW p \in PodNames, NEW i \in DOMAIN ContainersOf[p], KubeletReportsFailure(p, i)
        PROVE  TypeOK'
    <2> DEFINE c == ContainersOf[p][i]
    <2>1. c \in Containers
      BY ContainerFacts
    <2>2. PICK n \in {pods[p].restarts[c], pods[p].restarts[c] + 1} :
            pods' = [pods EXCEPT ![p].failing = @ \cup {c}, ![p].restarts[c] = n]
      BY <1>1 DEF KubeletReportsFailure
    <2>3. pods[p] \in Pod /\ n \in Nat
      BY <2>1, <2>2 DEF Pod
    <2>4. pods' \in [PodNames -> Pod]
      BY <2>1, <2>2, <2>3 DEF Pod
    <2> QED
      BY <1>1, <2>4 DEF KubeletReportsFailure, operator
  <1>2. ASSUME NEW p \in PodNames, NEW i \in DOMAIN ContainersOf[p], KubeletReportsRunning(p, i)
        PROVE  TypeOK'
    <2> DEFINE x == [pods[p] EXCEPT !.failing = @ \ {ContainersOf[p][i]}]
    <2>1. x \in Pod
      BY PodChangeType
    <2>2. pods' = [pods EXCEPT ![p] = x]
      BY <1>2 DEF KubeletReportsRunning
    <2>3. pods' \in [PodNames -> Pod]
      BY <2>1, <2>2
    <2> QED
      BY <1>2, <2>3 DEF KubeletReportsRunning, operator
  <1>3. ASSUME NEW p \in PodNames, DeletePod(p) \/ RemovePod(p) \/ CreatePod(p)
        PROVE  TypeOK'
    <2>1. \/ pods' = [pods EXCEPT ![p] = [pods[p] EXCEPT !.phase = "terminating"]]
          \/ pods' = [pods EXCEPT ![p] = [pods[p] EXCEPT !.phase = "absent"]]
          \/ pods' = [pods EXCEPT ![p] = FreshPod(pods[p].uid + 1)]
      BY <1>3 DEF DeletePod, RemovePod, CreatePod
    <2>2. \E x \in Pod : pods' = [pods EXCEPT ![p] = x]
      BY <2>1, PodChangeType
    <2>3. pods' \in [PodNames -> Pod]
      BY <2>2
    <2> QED
      BY <1>3, <2>3 DEF DeletePod, RemovePod, CreatePod, operator
  <1>4. ASSUME NEW n \in DiagNames, CollectGarbage(n)
        PROVE  TypeOK'
    BY <1>4, NoDiagType DEF CollectGarbage, operator
  <1> QED
    BY <1>1, <1>2, <1>3, <1>4 DEF Environment

LEMMA TypeNext == TypeOK /\ [Next]_vars => TypeOK'
  <1> SUFFICES ASSUME TypeOK, [Next]_vars PROVE TypeOK'
    OBVIOUS
  <1>1. CASE Environment
    BY <1>1, TypeEnvironment
  <1>2. ASSUME NEW p \in PodNames, SyncPod(p) PROVE TypeOK'
    BY <1>2 DEF SyncPod, TypeOK
  <1>3. ASSUME NEW p \in PodNames, TimerFires(p) PROVE TypeOK'
    BY <1>3 DEF TimerFires, TypeOK
  <1>4. ASSUME NEW n \in DiagNames, SyncDiag(n) PROVE TypeOK'
    BY <1>4 DEF SyncDiag, TypeOK, OwnersOf, Diag
  <1>5. ASSUME NEW p \in PodNames, Reconcile(p) PROVE TypeOK'
    <2>1. CASE worker' = worker
      BY <1>5, <2>1 DEF Reconcile, TypeOK
    <2>2. ASSUME NEW i \in NextFailing(p, podCache[p], 0),
                 worker' = [Idle EXCEPT !.pc = "get", !.key = p, !.pod = podCache[p], !.at = i]
          PROVE  TypeOK'
      <3>1. i \in DOMAIN ContainersOf[p] /\ i \in Nat
        BY ContainerFacts DEF NextFailing
      <3>2. worker' \in Worker /\ worker'.pc = "get" /\ worker'.key = p /\ worker'.at = i
        BY <2>2, <3>1, IdleType DEF TypeOK, Worker
      <3> QED
        BY <1>5, <3>1, <3>2 DEF Reconcile, TypeOK
    <2> QED
      BY <1>5, <2>1, <2>2 DEF Reconcile
  <1>6. CASE GetDiagnosis
    <2>0. worker.pc # "idle"
      BY <1>6 DEF GetDiagnosis
    <2>1. CASE NextContainer \/ Return
      BY <1>6, <2>0, <2>1, NextContainerType DEF GetDiagnosis, TypeOK
    <2>2. CASE /\ worker' = [worker EXCEPT !.pc = "write", !.diagObj = Claim(diagCache[DiagKey])]
               /\ delayed' = delayed
      <3>1. Claim(diagCache[DiagKey]) \in Diag
        BY <2>0, BusyContainer, NoDiagType DEF TypeOK, Claim, Diag, Pod
      <3> QED
        BY <1>6, <2>0, <2>2, <3>1, BusyContainer DEF GetDiagnosis, TypeOK, Worker
    <2> QED
      BY <1>6, <2>1, <2>2 DEF GetDiagnosis
  <1>7. CASE CreateOrUpdate
    <2>1. worker.pc # "idle"
      BY <1>7 DEF CreateOrUpdate
    <2>2. Persisted(worker.diagObj) \in Diag
      BY <2>1, BusyContainer, PersistedType
    <2> QED
      BY <1>7, <2>1, <2>2 DEF CreateOrUpdate, TypeOK, Worker
  <1>8. CASE UpdateStatus
    <2>1. worker.pc # "idle"
      BY <1>8 DEF UpdateStatus
    <2>2. Persisted(Diagnosed(worker.diagObj)) \in Diag
      BY <2>1, BusyContainer, PersistedType, DiagnosedType
    <2> QED
      BY <1>8, <2>1, <2>2 DEF UpdateStatus, TypeOK, Worker
  <1>9. CASE WriteRejected
    BY <1>9, NextContainerType DEF WriteRejected, TypeOK
  <1>10. CASE WriteFails
    <2>1. worker.pc # "idle"
      BY <1>10 DEF WriteFails
    <2>2. /\ Persisted(worker.diagObj) \in Diag
          /\ Persisted(Diagnosed(worker.diagObj)) \in Diag
          /\ Persisted(Written) \in Diag
      BY <2>1, BusyContainer, PersistedType, DiagnosedType DEF Written
    <2>3. diags' \in [DiagNames -> Diag]
      BY <1>10, <2>2 DEF WriteFails, TypeOK
    <2>4. worker' \in Worker /\ delayed' \subseteq PodNames
          /\ (worker'.pc = "idle" => worker' = Idle)
          /\ (worker'.pc # "idle" => worker'.key \in PodNames /\ worker'.at \in DOMAIN ContainersOf[worker'.key])
      BY <1>10, <2>1, NextContainerType DEF WriteFails
    <2> QED
      BY <1>10, <2>3, <2>4 DEF WriteFails, TypeOK
  <1>11. CASE Announce
    <2>1. worker.pc # "idle"
      BY <1>11 DEF Announce
    <2>2. Announcing \in Announcement
      BY <2>1, BusyContainer DEF Announcing, Announcement, Pod
    <2> QED
      BY <1>11, <2>1, <2>2, NextContainerType DEF Announce, TypeOK
  <1>12. CASE Restart
    BY <1>12, IdleType DEF Restart, Listed, TypeOK, Idle
  <1>13. CASE UNCHANGED vars
    BY <1>13 DEF vars, TypeOK
  <1> QED
    BY <1>1, <1>2, <1>3, <1>4, <1>5, <1>6, <1>7, <1>8, <1>9, <1>10, <1>11, <1>12, <1>13
       DEF Next, Informers, WorkerStep

\* The state of the model always has its type; in particular a busy worker is
\* at a container that the pod it reconciles has.
THEOREM TypeCorrect == Spec => []TypeOK
  BY TypeInit, TypeNext, PTL DEF Spec

-----------------------------------------------------------------------------
(* No failing pod is forgotten.                                            *)

LEMMA ForgottenInit == Init => NeverForgotten
  BY DEF Init, NeverForgotten, failingPodPredicate, NextFailing, FreshPod

LEMMA ForgottenNext == TypeOK /\ NeverForgotten /\ [Next]_vars => NeverForgotten'
  <1> SUFFICES ASSUME TypeOK, NeverForgotten, [Next]_vars,
                      NEW p \in PodNames,
                      podCache'[p].phase = "live", failingPodPredicate(p, podCache'[p])
               PROVE  p \in queue' \cup delayed' \cup {worker'.key}
    BY DEF NeverForgotten, failingPodPredicate, NextFailing
  <1> DEFINE same == podCache'[p] = podCache[p]
  <1>0. same => p \in queue \cup delayed \cup {worker.key}
    BY DEF NeverForgotten
  <1>1. CASE Environment
    BY <1>1, <1>0 DEF Environment, operator, KubeletReportsFailure, KubeletReportsRunning,
         DeletePod, RemovePod, CreatePod, CollectGarbage
  <1>2. ASSUME NEW q \in PodNames, SyncPod(q) PROVE p \in queue' \cup delayed' \cup {worker'.key}
    BY <1>2, <1>0 DEF SyncPod, TypeOK
  <1>3. ASSUME NEW q \in PodNames, TimerFires(q) PROVE p \in queue' \cup delayed' \cup {worker'.key}
    BY <1>3, <1>0 DEF TimerFires
  <1>4. ASSUME NEW n \in DiagNames, SyncDiag(n) PROVE p \in queue' \cup delayed' \cup {worker'.key}
    BY <1>4, <1>0 DEF SyncDiag
  <1>5. ASSUME NEW q \in PodNames, Reconcile(q) PROVE p \in queue' \cup delayed' \cup {worker'.key}
    <2>1. podCache' = podCache /\ worker.pc = "idle"
      BY <1>5 DEF Reconcile
    <2>2. worker = Idle
      BY <2>1 DEF TypeOK
    <2>3. p \in queue \cup delayed
      BY <1>0, <2>1, <2>2, ConstantsAssumption DEF Idle
    <2>4. p # q => p \in queue' \cup delayed'
      BY <1>5, <2>3 DEF Reconcile
    <2>5. p = q => worker'.key = p
      BY <1>5, <2>1 DEF Reconcile, failingPodPredicate, Idle
    <2> QED
      BY <2>4, <2>5
  <1>6. CASE \/ GetDiagnosis /\ (NextContainer \/ Return)
             \/ WriteRejected \/ WriteFails \/ Announce
    <2>1. NextContainer \/ Return
      BY <1>6 DEF WriteRejected, WriteFails, Announce
    <2>2. worker.key \in delayed' \cup {worker'.key} /\ delayed \subseteq delayed'
      BY <2>1 DEF NextContainer, Return, TypeOK, Worker
    <2>3. same /\ queue' = queue
      BY <1>6 DEF GetDiagnosis, WriteRejected, WriteFails, Announce
    <2> QED
      BY <1>0, <2>2, <2>3
  <1>7. CASE \/ GetDiagnosis /\ ~(NextContainer \/ Return)
             \/ CreateOrUpdate \/ UpdateStatus
    <2>1. worker'.key = worker.key
      BY <1>7 DEF GetDiagnosis, CreateOrUpdate, UpdateStatus, TypeOK, Worker
    <2>2. same /\ queue' = queue /\ delayed' = delayed
      BY <1>7 DEF GetDiagnosis, CreateOrUpdate, UpdateStatus
    <2> QED
      BY <1>0, <2>1, <2>2
  <1>8. CASE Restart
    <2>1. podCache[p].phase # "absent" /\ failingPodPredicate(p, podCache[p])
      BY <1>8 DEF Restart
    <2> QED
      BY <1>8, <2>1 DEF Restart, Listed
  <1>9. CASE UNCHANGED vars
    BY <1>9, <1>0 DEF vars
  <1> QED
    BY <1>1, <1>2, <1>3, <1>4, <1>5, <1>6, <1>7, <1>8, <1>9 DEF Next, Informers, WorkerStep

\* Whatever a Reconcile call meets, and across restarts of the process, a pod
\* that the operator sees failing has a wake-up pending.
THEOREM FailingPodsAreNeverForgotten == Spec => []NeverForgotten
  BY TypeCorrect, ForgottenInit, ForgottenNext, PTL DEF Spec

-----------------------------------------------------------------------------
(* Order of pod states and diagnoses.                                      *)

LEMMA EarlierTransitive ==
  ASSUME NEW a \in Pod, NEW b \in Pod, NEW c \in Pod, Earlier(a, b), Earlier(b, c)
  PROVE  Earlier(a, c)
  BY DEF Earlier, Pod

LEMMA EarlierReflexive == \A a \in Pod : Earlier(a, a)
  BY DEF Earlier, Pod

LEMMA BehindLater ==
  ASSUME NEW d \in Diag, NEW a \in Pod, NEW b \in Pod, NEW c \in Containers,
         Behind(d, a, c), Earlier(a, b)
  PROVE  Behind(d, b, c)
  <1>1. /\ d.uid \in Nat /\ d.status.uid \in Nat /\ d.status.restarts \in Nat
        /\ a.uid \in Nat /\ b.uid \in Nat
        /\ a.restarts[c] \in Nat /\ b.restarts[c] \in Nat
    BY DEF Diag, Episode, Pod
  <1> QED
    BY <1>1 DEF Behind, Earlier

LEMMA PodsBehindLater ==
  ASSUME TypeOK, NEW p \in PodNames, NEW a \in Pod, NEW b \in Pod,
         PodsBehind(p, a), Earlier(a, b)
  PROVE  PodsBehind(p, b)
  BY BehindLater, ContainerFacts DEF PodsBehind, TypeOK

\* What the environment does to a pod only makes it later.
LEMMA PodsMoveForward ==
  ASSUME TypeOK, [Next]_vars, NEW p \in PodNames
  PROVE  Earlier(pods[p], pods'[p])
  <1> USE DEF TypeOK
  <1>0. pods[p] \in Pod
    OBVIOUS
  <1>1. ASSUME NEW q \in PodNames, NEW i \in DOMAIN ContainersOf[q], KubeletReportsFailure(q, i)
        PROVE  Earlier(pods[p], pods'[p])
    <2> DEFINE c == ContainersOf[q][i]
    <2>1. PICK n \in {pods[q].restarts[c], pods[q].restarts[c] + 1} :
            pods' = [pods EXCEPT ![q].failing = @ \cup {c}, ![q].restarts[c] = n]
      BY <1>1 DEF KubeletReportsFailure
    <2>2. c \in Containers /\ pods[q] \in Pod
      BY ContainerFacts
    <2>3. pods[q].restarts \in [Containers -> Nat] /\ pods[q].uid \in Nat
      BY <2>2 DEF Pod
    <2>4. CASE p # q
      BY <2>1, <2>4, <1>0, EarlierReflexive
    <2>5. CASE p = q
      <3>1. pods'[p].uid = pods[p].uid /\ pods'[p].restarts = [pods[p].restarts EXCEPT ![c] = n]
        BY <2>1, <2>2, <2>5
      <3> QED
        BY <3>1, <2>1, <2>2, <2>3, <2>5 DEF Earlier
    <2> QED
      BY <2>4, <2>5
  <1>2. ASSUME NEW q \in PodNames, NEW i \in DOMAIN ContainersOf[q], KubeletReportsRunning(q, i)
        PROVE  Earlier(pods[p], pods'[p])
    <2>1. pods'[p].uid = pods[p].uid /\ pods'[p].restarts = pods[p].restarts
      BY <1>2 DEF KubeletReportsRunning, Pod
    <2> QED
      BY <1>0, <2>1 DEF Earlier, Pod
  <1>3. ASSUME NEW q \in PodNames, DeletePod(q) \/ RemovePod(q)
        PROVE  Earlier(pods[p], pods'[p])
    <2>1. \E phase : pods' = [pods EXCEPT ![q] = [pods[q] EXCEPT !.phase = phase]]
      BY <1>3 DEF DeletePod, RemovePod
    <2>2. pods'[p].uid = pods[p].uid /\ pods'[p].restarts = pods[p].restarts
      BY <2>1 DEF Pod
    <2> QED
      BY <1>0, <2>2 DEF Earlier, Pod
  <1>4. ASSUME NEW q \in PodNames, CreatePod(q)
        PROVE  Earlier(pods[p], pods'[p])
    <2>1. CASE p # q
      BY <1>4, <2>1, <1>0, EarlierReflexive DEF CreatePod
    <2>2. CASE p = q
      BY <1>4, <2>2, <1>0 DEF CreatePod, FreshPod, Earlier, Pod
    <2> QED
      BY <2>1, <2>2
  <1>5. CASE pods' = pods
    BY <1>0, <1>5, EarlierReflexive
  <1>6. \/ pods' = pods
        \/ \E q \in PodNames : \/ \E i \in DOMAIN ContainersOf[q] :
                                    KubeletReportsFailure(q, i) \/ KubeletReportsRunning(q, i)
                               \/ DeletePod(q) \/ RemovePod(q) \/ CreatePod(q)
    BY DEF Next, Environment, CollectGarbage, Informers, SyncPod, TimerFires, SyncDiag, Reconcile,
           WorkerStep, GetDiagnosis, CreateOrUpdate, UpdateStatus, WriteRejected, Announce,
           WriteFails, Restart, vars
  <1> QED
    BY <1>1, <1>2, <1>3, <1>4, <1>5, <1>6

-----------------------------------------------------------------------------
(* What the worker writes.                                                 *)

\* The name of a diagnosis and its owner determine the container.
LEMMA OwnNames ==
  ASSUME TypeOK, worker.pc # "idle", NEW i \in DOMAIN ContainersOf[worker.key],
         diagnosisName(worker.key, ContainersOf[worker.key][i]) = DiagKey
  PROVE  ContainersOf[worker.key][i] = Container
  BY NamesOfOnePod, BusyContainer, ContainerFacts DEF DiagKey

\* What a write needs to be sound, however old the writer's copy of its pod is:
\* the part of EpisodeInv that also holds of the call of a former leader.
WriterInv ==
  /\ worker.pc # "idle" => worker.pod.uid >= 1
  /\ VersionsAreFaithful
  /\ WorkerHolds

LEMMA EpisodeWriter == EpisodeInv => WriterInv
  BY DEF EpisodeInv, CopiesAreEarlier, WriterInv

\* An accepted write replaces the object that the writer decided on.
LEMMA WrittenFacts ==
  ASSUME TypeOK, WriterInv, worker.pc \in {"write", "status"}, Accepts
  PROVE  /\ Written \in Diag
         /\ Written.pod = worker.key
         /\ Written.uid = worker.pod.uid /\ worker.pod.uid \in Nat /\ worker.pod.uid >= 1
         /\ Exists(diags[DiagKey]) => diags[DiagKey].pod = worker.key
         /\ worker.pc = "write" =>
              IF Exists(diags[DiagKey])
              THEN Written.status = diags[DiagKey].status /\ Written.status.restarts # RestartCount
              ELSE Written.status = NoEpisode
         /\ worker.pc = "status" =>
              /\ Exists(diags[DiagKey])
              /\ Written.status = [uid |-> worker.pod.uid, restarts |-> RestartCount]
              /\ \/ diags[DiagKey].status = NoEpisode
                 \/ diags[DiagKey].status.restarts # RestartCount
  <1> DEFINE stored == diags[DiagKey]
             mine   == worker.diagObj
  <1>0. worker.pc # "idle"
    OBVIOUS
  <1>1. /\ mine \in Diag /\ stored \in Diag /\ DiagKey \in DiagNames
        /\ worker.pod.uid \in Nat /\ RestartCount \in Nat
    BY <1>0, BusyContainer DEF TypeOK, Pod
  <1>2. worker.pod.uid >= 1
    BY <1>0 DEF WriterInv
  <1>3. CASE worker.pc = "write"
    <2>1. CASE mine.rv = 0
      <3>1. mine = [NoDiag EXCEPT !.pod = worker.key, !.uid = worker.pod.uid]
        BY <1>3, <2>1 DEF WriterInv, WorkerHolds
      <3>2. ~Exists(stored)
        BY <2>1 DEF Accepts
      <3>3. mine.pod = worker.key /\ mine.uid = worker.pod.uid /\ mine.status = NoEpisode
        BY <3>1 DEF NoDiag
      <3> QED
        BY <1>1, <1>2, <1>3, <3>2, <3>3 DEF Written
    <2>2. CASE mine.rv # 0
      <3>1. /\ stored.pod = worker.key
            /\ mine = [stored EXCEPT !.pod = worker.key, !.uid = worker.pod.uid]
            /\ stored.status.restarts # RestartCount
        BY <1>3, <2>2 DEF WriterInv, WorkerHolds
      <3>2. mine.pod = worker.key /\ mine.uid = worker.pod.uid /\ mine.status = stored.status
        BY <3>1, <1>1 DEF Diag
      <3>3. Exists(stored)
        BY <2>2 DEF Accepts
      <3> QED
        BY <1>1, <1>2, <1>3, <3>1, <3>2, <3>3 DEF Written
    <2> QED
      BY <2>1, <2>2
  <1>4. CASE worker.pc = "status"
    <2>1. /\ mine.rv # 0 /\ mine.pod = worker.key /\ mine.uid = worker.pod.uid
          /\ mine.status = NoEpisode \/ mine.status.restarts # RestartCount
          /\ mine = stored
      BY <1>4 DEF WriterInv, WorkerHolds
    <2>2. Exists(stored)
      BY <2>1 DEF Accepts
    <2>3. /\ Written \in Diag /\ Written.pod = worker.key /\ Written.uid = worker.pod.uid
          /\ Written.status = [uid |-> worker.pod.uid, restarts |-> RestartCount]
      BY <1>0, <1>1, <1>4, <2>1, DiagnosedType DEF Written, Diagnosed, Diag
    <2> QED
      BY <1>1, <1>2, <1>4, <2>1, <2>2, <2>3
  <1> QED
    BY <1>3, <1>4

\* The stored object that an accepted write replaces is behind the snapshot.
LEMMA StoredIsBehind ==
  ASSUME TypeOK, EpisodeInv, worker.pc # "idle", diags[DiagKey].pod = worker.key
  PROVE  Behind(diags[DiagKey], worker.pod, Container)
  BY BusyContainer DEF EpisodeInv, DiagnosesAreBehind, PodsBehind, DiagKey, Container

\* If all diagnoses are behind the writer's copy of its pod, what it writes is
\* too, and a new status is newer than the one it replaces.
LEMMA WriteIsSound ==
  ASSUME TypeOK, EpisodeInv, worker.pc \in {"write", "status"}, Accepts
  PROVE  /\ Behind(Written, worker.pod, Container)
         /\ Exists(diags[DiagKey]) => diags[DiagKey].uid <= Written.uid
         /\ worker.pc = "status" => Newer(Written.status, diags[DiagKey].status)
  <1> DEFINE stored == diags[DiagKey]
  <1>0. worker.pc # "idle" /\ WriterInv
    BY EpisodeWriter
  <1>1. /\ stored \in Diag
        /\ worker.pod.uid \in Nat /\ worker.pod.uid >= 1 /\ RestartCount \in Nat
        /\ worker.pod.restarts[Container] = RestartCount
    BY <1>0, BusyContainer, WrittenFacts DEF TypeOK, RestartCount
  <1>2. /\ stored.uid \in Nat /\ stored.status.uid \in Nat /\ stored.status.restarts \in Nat
    BY <1>1 DEF Diag, Episode
  <1>3. Exists(stored) => Behind(stored, worker.pod, Container)
    BY <1>0, WrittenFacts, StoredIsBehind
  <1>4. CASE worker.pc = "write"
    <2>1. Behind(Written, worker.pod, Container)
      BY <1>0, <1>1, <1>2, <1>3, <1>4, WrittenFacts DEF Behind, NoEpisode
    <2> QED
      BY <1>0, <1>1, <1>2, <1>3, <1>4, <2>1, WrittenFacts DEF Behind
  <1>5. CASE worker.pc = "status"
    <2>1. /\ Written.uid = worker.pod.uid
          /\ Written.status = [uid |-> worker.pod.uid, restarts |-> RestartCount]
          /\ Behind(stored, worker.pod, Container)
          /\ stored.status = NoEpisode \/ stored.status.restarts # RestartCount
      BY <1>0, <1>3, <1>5, WrittenFacts
    <2>2. Behind(Written, worker.pod, Container)
      BY <1>1, <2>1 DEF Behind
    <2>3. Newer(Written.status, stored.status)
      BY <1>1, <1>2, <2>1 DEF Newer, Behind, NoEpisode
    <2> QED
      BY <1>1, <1>2, <2>1, <2>2, <2>3 DEF Behind
  <1> QED
    BY <1>4, <1>5

-----------------------------------------------------------------------------
(* Which steps change what.                                                *)

LEMMA StepsOfDiags ==
  ASSUME TypeOK, [Next]_vars
  PROVE  \/ diags' = diags
         \/ \E n \in DiagNames : CollectGarbage(n)
         \/ /\ worker.pc \in {"write", "status"}
            /\ Accepts
            /\ diags' = [diags EXCEPT ![DiagKey] = Persisted(Written)]
            /\ diagCache' = diagCache /\ podCache' = podCache
            /\ CreateOrUpdate \/ UpdateStatus \/ WriteFails
  BY DEF Next, Environment, KubeletReportsFailure, KubeletReportsRunning, DeletePod, RemovePod, CreatePod,
         Informers, SyncPod, TimerFires, SyncDiag, Reconcile, WorkerStep, GetDiagnosis,
         CreateOrUpdate, UpdateStatus, WriteRejected, Announce, WriteFails, Restart, vars, operator, Written

LEMMA StepsOfPodCache ==
  ASSUME [Next]_vars
  PROVE  podCache' = podCache \/ \E p \in PodNames : SyncPod(p)
  BY DEF Next, Environment, KubeletReportsFailure, KubeletReportsRunning, DeletePod, RemovePod, CreatePod,
         CollectGarbage, Informers, TimerFires, SyncDiag, Reconcile, WorkerStep, GetDiagnosis,
         CreateOrUpdate, UpdateStatus, WriteRejected, Announce, WriteFails, Restart, vars, operator

LEMMA StepsOfDiagCache ==
  ASSUME [Next]_vars
  PROVE  diagCache' = diagCache \/ \E n \in DiagNames : SyncDiag(n)
  BY DEF Next, Environment, KubeletReportsFailure, KubeletReportsRunning, DeletePod, RemovePod, CreatePod,
         CollectGarbage, Informers, TimerFires, SyncPod, Reconcile, WorkerStep, GetDiagnosis,
         CreateOrUpdate, UpdateStatus, WriteRejected, Announce, WriteFails, Restart, vars, operator

\* The worker stays as it is, becomes idle, takes a snapshot of the cached
\* pod, or goes on with the snapshot that it has.
LEMMA StepsOfWorker ==
  ASSUME TypeOK, [Next]_vars
  PROVE  \/ worker' = worker
         \/ worker' = Idle
         \/ \E p \in PodNames :
              /\ Reconcile(p)
              /\ worker'.pc = "get" /\ worker'.key = p /\ worker'.pod = podCache[p]
         \/ /\ worker.pc # "idle"
            /\ worker'.pod = worker.pod /\ worker'.key = worker.key
            /\ GetDiagnosis \/ CreateOrUpdate \/ UpdateStatus \/ Announce
  <1>1. CASE \E p \in PodNames : Reconcile(p)
    BY <1>1 DEF Reconcile, Idle
  <1>2. CASE WorkerStep
    <2>1. CASE NextContainer
      BY <1>2, <2>1 DEF NextContainer, Return, WorkerStep, TypeOK, Worker, GetDiagnosis,
           CreateOrUpdate, UpdateStatus, WriteRejected, Announce
    <2>2. CASE ~NextContainer
      BY <1>2, <2>2 DEF Return, WorkerStep, TypeOK, Worker, GetDiagnosis,
           CreateOrUpdate, UpdateStatus, WriteRejected, Announce
    <2> QED
      BY <2>1, <2>2
  <1>3. CASE Environment \/ Informers \/ WriteFails \/ Restart \/ UNCHANGED vars
    BY <1>3 DEF Environment, KubeletReportsFailure, KubeletReportsRunning, DeletePod, RemovePod, CreatePod,
         CollectGarbage, Informers, SyncPod, TimerFires, SyncDiag, WriteFails, Return, Restart, vars, operator
  <1> QED
    BY <1>1, <1>2, <1>3 DEF Next

-----------------------------------------------------------------------------
(* Each conjunct of EpisodeInv is preserved.                               *)

LEMMA EpisodeInit == Init => EpisodeInv
  <1> SUFFICES ASSUME Init PROVE EpisodeInv
    OBVIOUS
  <1>1. \A p \in PodNames : podCache[p] = FreshPod(1) /\ pods[p] = FreshPod(1)
    BY DEF Init
  <1>2. CopiesAreEarlier
    BY <1>1 DEF Init, Idle, CopiesAreEarlier, Earlier, FreshPod
  <1>3. \A n \in DiagNames : diags[n] = NoDiag /\ diagCache[n] = NoDiag
    BY DEF Init
  <1>4. DiagnosesAreBehind
    <2>1. \A p \in PodNames : PodsBehind(p, podCache[p])
      BY <1>3, ContainerFacts, ConstantsAssumption DEF PodsBehind, NoDiag
    <2> QED
      BY <2>1 DEF Init, Idle, DiagnosesAreBehind
  <1>5. VersionsAreFaithful
    BY <1>3 DEF VersionsAreFaithful, NoDiag, Exists
  <1>6. WorkerHolds
    BY DEF Init, Idle, WorkerHolds
  <1> QED
    BY <1>2, <1>4, <1>5, <1>6 DEF EpisodeInv

LEMMA CopiesNext == TypeOK /\ TypeOK' /\ CopiesAreEarlier /\ [Next]_vars => CopiesAreEarlier'
  <1> SUFFICES ASSUME TypeOK, TypeOK', CopiesAreEarlier, [Next]_vars PROVE CopiesAreEarlier'
    OBVIOUS
  <1>1. ASSUME NEW p \in PodNames
        PROVE  /\ podCache'[p].uid >= 1 /\ Earlier(podCache'[p], pods'[p])
               /\ podCache[p] \in Pod /\ Earlier(podCache[p], podCache'[p])
    <2>1. /\ podCache[p] \in Pod /\ podCache'[p] \in Pod /\ pods[p] \in Pod /\ pods'[p] \in Pod
          /\ podCache[p].uid \in Nat /\ pods[p].uid \in Nat
      BY DEF TypeOK, Pod
    <2>2. podCache[p].uid >= 1 /\ Earlier(podCache[p], pods[p]) /\ Earlier(pods[p], pods'[p])
      BY PodsMoveForward DEF CopiesAreEarlier
    <2>3. CASE podCache'[p] = podCache[p]
      BY <2>1, <2>2, <2>3, EarlierTransitive, EarlierReflexive
    <2>4. CASE podCache'[p] = pods[p]
      <3>1. pods[p].uid >= 1
        BY <2>1, <2>2 DEF Earlier
      <3> QED
        BY <2>1, <2>2, <2>4, <3>1
    <2>5. podCache'[p] = podCache[p] \/ podCache'[p] = pods[p]
      BY StepsOfPodCache DEF SyncPod, TypeOK
    <2> QED
      BY <2>1, <2>3, <2>4, <2>5
  <1>2. ASSUME worker'.pc # "idle"
        PROVE  worker'.pod.uid >= 1 /\ Earlier(worker'.pod, podCache'[worker'.key])
    <2>1. CASE worker'.pod = worker.pod /\ worker'.key = worker.key /\ worker.pc # "idle"
      <3>1. /\ worker.pod.uid >= 1 /\ Earlier(worker.pod, podCache[worker.key])
            /\ worker.key \in PodNames /\ worker.pod \in Pod
        BY <2>1, BusyContainer DEF CopiesAreEarlier
      <3>2. podCache[worker.key] \in Pod /\ podCache'[worker.key] \in Pod
            /\ Earlier(podCache[worker.key], podCache'[worker.key])
        BY <3>1, <1>1 DEF TypeOK
      <3>3. Earlier(worker.pod, podCache'[worker.key])
        BY <3>1, <3>2, EarlierTransitive
      <3> QED
        BY <2>1, <3>1, <3>3
    <2>2. CASE \E p \in PodNames : Reconcile(p) /\ worker'.key = p /\ worker'.pod = podCache[p]
      <3>1. PICK p \in PodNames : worker'.key = p /\ worker'.pod = podCache[p]
        BY <2>2
      <3> QED
        BY <1>1, <3>1 DEF CopiesAreEarlier
    <2> QED
      BY <1>2, <2>1, <2>2, StepsOfWorker DEF Idle
  <1> QED
    BY <1>1, <1>2 DEF CopiesAreEarlier

\* The version of what a write stores is one that no stale copy bears.
LEMMA PersistedFacts ==
  ASSUME TypeOK, WriterInv, worker.pc \in {"write", "status"}, Accepts
  PROVE  LET d == Persisted(Written) IN
         /\ d \in Diag
         /\ d.rv # 0
         /\ d.pod = Written.pod /\ d.uid = Written.uid /\ d.status = Written.status
         /\ d.rv = diagCache[DiagKey].rv => d = diags[DiagKey] /\ Exists(diags[DiagKey])
  <1>1. Written \in Diag /\ Written.uid = worker.pod.uid /\ worker.pod.uid >= 1 /\ worker.pod.uid \in Nat
    BY WrittenFacts
  <1>2. Persisted(Written) \in Diag /\ FreshVersion \in Versions /\ FreshVersion # diagCache[DiagKey].rv
    BY <1>1, PersistedType
  <1>3. CASE Written = diags[DiagKey]
    <2>1. Persisted(Written) = Written /\ Exists(diags[DiagKey])
      BY <1>1, <1>3 DEF Persisted, Exists
    <2>2. Written.rv # 0
      BY <1>3, <2>1, BusyContainer DEF WriterInv, VersionsAreFaithful
    <2> QED
      BY <1>2, <1>3, <2>1, <2>2
  <1>4. CASE Written # diags[DiagKey]
    <2>1. Persisted(Written) = [Written EXCEPT !.rv = FreshVersion]
      BY <1>4 DEF Persisted
    <2> QED
      BY <1>1, <1>2, <2>1 DEF Diag, Versions
  <1> QED
    BY <1>3, <1>4

LEMMA VersionsNext == TypeOK /\ WriterInv /\ [Next]_vars => VersionsAreFaithful'
  <1> SUFFICES ASSUME TypeOK, WriterInv, [Next]_vars, NEW n \in DiagNames
               PROVE  /\ Exists(diags'[n]) <=> diags'[n].pod # NoPod
                      /\ Exists(diags'[n]) => diags'[n].rv # 0
                      /\ Exists(diagCache'[n]) => diagCache'[n].rv # 0
                      /\ Exists(diags'[n]) /\ diagCache'[n].rv = diags'[n].rv => diagCache'[n] = diags'[n]
    BY DEF VersionsAreFaithful
  <1>0. /\ Exists(diags[n]) <=> diags[n].pod # NoPod
        /\ Exists(diags[n]) => diags[n].rv # 0
        /\ Exists(diagCache[n]) => diagCache[n].rv # 0
        /\ Exists(diags[n]) /\ diagCache[n].rv = diags[n].rv => diagCache[n] = diags[n]
    BY DEF WriterInv, VersionsAreFaithful
  <1>1. CASE diags' = diags
    BY <1>0, <1>1, StepsOfDiagCache DEF SyncDiag, TypeOK
  <1>2. CASE \E m \in DiagNames : CollectGarbage(m)
    BY <1>0, <1>2 DEF CollectGarbage, operator, NoDiag, Exists, TypeOK
  <1>3. CASE /\ worker.pc \in {"write", "status"}
             /\ Accepts
             /\ diags' = [diags EXCEPT ![DiagKey] = Persisted(Written)]
             /\ diagCache' = diagCache
    <2>1. CASE n # DiagKey
      BY <1>0, <1>3, <2>1
    <2>2. CASE n = DiagKey
      <3>1. diags'[n] = Persisted(Written)
        BY <1>3, <2>2 DEF TypeOK
      <3>2. Written.pod # NoPod /\ Written.uid \in Nat /\ Written.uid >= 1
        BY <1>3, WrittenFacts, BusyContainer, ConstantsAssumption
      <3> QED
        BY <1>0, <1>3, <2>2, <3>1, <3>2, PersistedFacts DEF Exists
    <2> QED
      BY <2>1, <2>2
  <1> QED
    BY <1>1, <1>2, <1>3, StepsOfDiags

\* A step leaves the diagnoses of p behind a state x of p, if x is not before
\* the snapshot that the worker may be diagnosing.
LEMMA BehindStep ==
  ASSUME TypeOK, EpisodeInv, [Next]_vars, NEW p \in PodNames, NEW x \in Pod, PodsBehind(p, x),
         worker.pc # "idle" /\ worker.key = p => Earlier(worker.pod, x)
  PROVE  PodsBehind(p, x)'
  <1> SUFFICES ASSUME NEW i \in DOMAIN ContainersOf[p],
                      diags'[diagnosisName(p, ContainersOf[p][i])].pod = p
               PROVE  Behind(diags'[diagnosisName(p, ContainersOf[p][i])], x, ContainersOf[p][i])
    BY DEF PodsBehind, Behind
  <1> DEFINE c == ContainersOf[p][i]
             n == diagnosisName(p, c)
  <1>0. n \in DiagNames /\ c \in Containers
    BY ContainerFacts
  <1>1. CASE diags'[n] = diags[n]
    BY <1>1 DEF PodsBehind
  <1>2. CASE \E m \in DiagNames : CollectGarbage(m)
    <2>1. diags'[n] = diags[n] \/ diags'[n] = NoDiag
      BY <1>0, <1>2 DEF CollectGarbage, TypeOK
    <2>2. diags'[n] # NoDiag
      BY ConstantsAssumption DEF NoDiag
    <2> QED
      BY <1>1, <2>1, <2>2
  <1>3. CASE /\ worker.pc \in {"write", "status"}
             /\ Accepts
             /\ diags' = [diags EXCEPT ![DiagKey] = Persisted(Written)]
             /\ n = DiagKey
    <2> DEFINE d == Persisted(Written)
    <2>1. diags'[n] = d
      BY <1>0, <1>3 DEF TypeOK
    <2>2. /\ d \in Diag /\ d.pod = worker.key /\ d.uid = Written.uid /\ d.status = Written.status
          /\ Behind(Written, worker.pod, Container)
      BY <1>3, PersistedFacts, WrittenFacts, WriteIsSound, EpisodeWriter
    <2>3. worker.key = p /\ Earlier(worker.pod, x) /\ worker.pod \in Pod
      BY <1>3, <2>1, <2>2, BusyContainer
    <2>4. c = Container
      BY <1>3, <2>3, OwnNames
    <2>5. Behind(d, worker.pod, c)
      BY <2>2, <2>4 DEF Behind
    <2> QED
      BY <1>0, <2>1, <2>2, <2>3, <2>5, BehindLater
  <1>4. CASE /\ worker.pc \in {"write", "status"}
             /\ diags' = [diags EXCEPT ![DiagKey] = Persisted(Written)]
             /\ n # DiagKey
    BY <1>1, <1>4
  <1> QED
    BY <1>1, <1>2, <1>3, <1>4, StepsOfDiags

LEMMA BehindNext == TypeOK /\ TypeOK' /\ EpisodeInv /\ [Next]_vars => DiagnosesAreBehind'
  <1> SUFFICES ASSUME TypeOK, TypeOK', EpisodeInv, [Next]_vars PROVE DiagnosesAreBehind'
    OBVIOUS
  <1>1. ASSUME NEW p \in PodNames
        PROVE  PodsBehind(p, podCache[p])' /\ PodsBehind(p, podCache[p]) /\ podCache[p] \in Pod
    <2> DEFINE x == podCache'[p]
    <2>1. /\ podCache[p] \in Pod /\ x \in Pod /\ pods[p] \in Pod
          /\ PodsBehind(p, podCache[p]) /\ Earlier(podCache[p], pods[p])
      BY DEF EpisodeInv, DiagnosesAreBehind, CopiesAreEarlier, TypeOK
    <2>2. Earlier(podCache[p], x)
      BY <2>1, StepsOfPodCache, EarlierReflexive DEF SyncPod, TypeOK
    <2>3. PodsBehind(p, x)
      BY <2>1, <2>2, PodsBehindLater
    <2>4. worker.pc # "idle" /\ worker.key = p => Earlier(worker.pod, x)
      BY <2>1, <2>2, BusyContainer, EarlierTransitive DEF EpisodeInv, CopiesAreEarlier
    <2>5. \A y \in Pod : y = x => PodsBehind(p, y)'
      BY <2>1, <2>3, <2>4, BehindStep
    <2> QED
      BY <2>1, <2>5
  <1>2. ASSUME worker'.pc # "idle" PROVE PodsBehind(worker.key, worker.pod)'
    <2>1. CASE worker'.pod = worker.pod /\ worker'.key = worker.key /\ worker.pc # "idle"
      <3>1. worker.key \in PodNames /\ worker.pod \in Pod /\ PodsBehind(worker.key, worker.pod)
        BY <2>1, BusyContainer DEF EpisodeInv, DiagnosesAreBehind
      <3>2. \A q \in PodNames, y \in Pod : q = worker.key /\ y = worker.pod => PodsBehind(q, y)'
        BY <3>1, BehindStep, EarlierReflexive
      <3> QED
        BY <2>1, <3>1, <3>2
    <2>2. CASE \E p \in PodNames : Reconcile(p) /\ worker'.key = p /\ worker'.pod = podCache[p]
      <3>1. PICK p \in PodNames : Reconcile(p) /\ worker'.key = p /\ worker'.pod = podCache[p]
        BY <2>2
      <3>2. podCache' = podCache
        BY <3>1 DEF Reconcile
      <3> QED
        BY <1>1, <3>1, <3>2
    <2> QED
      BY <1>2, <2>1, <2>2, StepsOfWorker DEF Idle
  <1> QED
    BY <1>1, <1>2 DEF DiagnosesAreBehind

LEMMA NextContainerPc ==
  ASSUME TypeOK, NextContainer \/ Return
  PROVE  worker'.pc \in {"get", "idle"}
  <1>1. CASE Return
    BY <1>1 DEF Return, Idle
  <1>2. CASE \E i : worker' = [worker EXCEPT !.pc = "get", !.at = i, !.diagObj = NoDiag]
    BY <1>2 DEF TypeOK, Worker
  <1> QED
    BY <1>1, <1>2 DEF NextContainer

LEMMA HoldsNext == TypeOK /\ TypeOK' /\ WriterInv /\ [Next]_vars => WorkerHolds'
  <1> SUFFICES ASSUME TypeOK, TypeOK', WriterInv, [Next]_vars, worker'.pc \in {"write", "status"}
               PROVE  WorkerHolds'
    BY DEF WorkerHolds
  <1>1. CASE worker' = worker /\ diags' = diags
    BY <1>1 DEF WriterInv, WorkerHolds, DiagKey, Container, RestartCount, Accepts
  <1>2. CASE worker' = worker /\ \E n \in DiagNames : CollectGarbage(n)
    <2>1. DiagKey' = DiagKey /\ RestartCount' = RestartCount /\ DiagKey \in DiagNames
      BY <1>2, BusyContainer DEF DiagKey, Container, RestartCount
    <2>2. diags'[DiagKey] = diags[DiagKey] \/ diags'[DiagKey] = NoDiag
      BY <1>2, <2>1 DEF CollectGarbage, TypeOK
    <2>3. CASE diags'[DiagKey] = diags[DiagKey]
      BY <1>2, <2>1, <2>3 DEF WriterInv, WorkerHolds, Accepts
    <2>4. CASE diags'[DiagKey] = NoDiag
      <3>1. worker.diagObj.rv # 0 => ~Accepts'
        BY <1>2, <2>1, <2>4 DEF Accepts, NoDiag, Exists
      <3> QED
        BY <1>2, <2>1, <3>1 DEF WriterInv, WorkerHolds
    <2> QED
      BY <2>2, <2>3, <2>4
  <1>3. CASE GetDiagnosis
    <2> DEFINE cached == diagCache[DiagKey]
    <2>1. /\ worker.pc = "get" /\ worker.pc # "idle"
          /\ ~AlreadyDiagnosed(cached) /\ ~AlreadyOwned(cached)
          /\ worker' = [worker EXCEPT !.pc = "write", !.diagObj = Claim(cached)]
          /\ diags' = diags
      BY <1>3, NextContainerPc DEF GetDiagnosis
    <2>2. /\ worker'.pc = "write" /\ worker'.diagObj = Claim(cached)
          /\ worker'.key = worker.key /\ worker'.pod = worker.pod /\ worker'.at = worker.at
      BY <2>1 DEF TypeOK, Worker
    <2>3. DiagKey' = DiagKey /\ RestartCount' = RestartCount /\ DiagKey \in DiagNames
      BY <2>1, <2>2, BusyContainer DEF DiagKey, Container, RestartCount
    <2>4. CASE ~Exists(cached)
      <3>1. Claim(cached) = [NoDiag EXCEPT !.pod = worker.key, !.uid = worker.pod.uid]
        BY <2>4 DEF Claim
      <3>2. Claim(cached).rv = 0
        BY <3>1 DEF NoDiag
      <3> QED
        BY <2>2, <3>1, <3>2 DEF WorkerHolds
    <2>5. CASE Exists(cached)
      <3>1. /\ cached \in Diag /\ cached.rv # 0
            /\ Exists(diags[DiagKey]) /\ cached.rv = diags[DiagKey].rv => cached = diags[DiagKey]
        BY <2>3, <2>5 DEF WriterInv, VersionsAreFaithful, TypeOK
      <3>2. /\ cached.pod = worker.key
            /\ cached.status.restarts # RestartCount
        BY <2>1, <2>5 DEF AlreadyOwned, AlreadyDiagnosed
      <3>3. Claim(cached) = [cached EXCEPT !.pod = worker.key, !.uid = worker.pod.uid]
        BY <2>5 DEF Claim
      <3>4. Claim(cached).rv = cached.rv
        BY <3>1, <3>3 DEF Diag
      <3>5. Accepts' => cached = diags[DiagKey]
        BY <2>1, <2>2, <2>3, <3>1, <3>4 DEF Accepts
      <3> QED
        BY <2>1, <2>2, <2>3, <3>1, <3>2, <3>3, <3>4, <3>5 DEF WorkerHolds
    <2> QED
      BY <2>4, <2>5
  <1>4. CASE CreateOrUpdate
    <2>1. /\ worker.pc = "write" /\ Accepts /\ worker.pc # "idle"
          /\ diags' = [diags EXCEPT ![DiagKey] = Persisted(Written)]
          /\ worker' = [worker EXCEPT !.pc = "status", !.diagObj = Persisted(Written)]
      BY <1>4 DEF CreateOrUpdate, Written
    <2>2. /\ worker'.pc = "status" /\ worker'.diagObj = Persisted(Written)
          /\ worker'.key = worker.key /\ worker'.pod = worker.pod /\ worker'.at = worker.at
      BY <2>1 DEF TypeOK, Worker
    <2>3. DiagKey' = DiagKey /\ RestartCount' = RestartCount /\ DiagKey \in DiagNames
      BY <2>1, <2>2, BusyContainer DEF DiagKey, Container, RestartCount
    <2>4. /\ Persisted(Written).rv # 0
          /\ Persisted(Written).pod = worker.key
          /\ Persisted(Written).uid = worker.pod.uid
          /\ Persisted(Written).status = NoEpisode \/ Persisted(Written).status.restarts # RestartCount
      BY <2>1, PersistedFacts, WrittenFacts
    <2>5. diags'[DiagKey] = Persisted(Written)
      BY <2>1, <2>3 DEF TypeOK
    <2> QED
      BY <2>2, <2>3, <2>4, <2>5 DEF WorkerHolds
  <1>5. \/ worker' = worker /\ (diags' = diags \/ \E n \in DiagNames : CollectGarbage(n))
        \/ GetDiagnosis \/ CreateOrUpdate
    <2>1. CASE WriteRejected \/ WriteFails \/ Announce \/ Restart
      BY <2>1, NextContainerPc DEF WriteRejected, WriteFails, Announce, Restart, Idle
    <2>4. ~UpdateStatus
      BY DEF UpdateStatus, TypeOK, Worker
    <2>3. CASE \E p \in PodNames : Reconcile(p)
      BY <2>3 DEF Reconcile, Idle
    <2>2. CASE Environment \/ Informers \/ UNCHANGED vars
      BY <2>2 DEF Environment, KubeletReportsFailure, KubeletReportsRunning, DeletePod, RemovePod,
           CreatePod, CollectGarbage, Informers, SyncPod, TimerFires, SyncDiag, vars, operator
    <2> QED
      BY <2>1, <2>2, <2>3, <2>4 DEF Next, WorkerStep
  <1> QED
    BY <1>1, <1>2, <1>3, <1>4, <1>5

\* A call that goes on keeps its snapshot.
LEMMA CallKeepsSnapshot ==
  ASSUME TypeOK, WorkerStep \/ WriteFails
  PROVE  /\ worker.pc # "idle" /\ pods' = pods /\ podCache' = podCache /\ queue' = queue
         /\ worker' = Idle \/ (worker'.pod = worker.pod /\ worker'.key = worker.key)
  <1>1. /\ worker.pc # "idle" /\ pods' = pods /\ podCache' = podCache /\ queue' = queue
    BY DEF WorkerStep, GetDiagnosis, CreateOrUpdate, UpdateStatus, WriteRejected, Announce, WriteFails
  <1>2. ~\E p \in PodNames : Reconcile(p)
    BY <1>1 DEF Reconcile
  <1> QED
    BY <1>1, <1>2, StepsOfWorker DEF Next

\* A step of any kind keeps what the writes of the call need.
LEMMA WriterNext ==
  TypeOK /\ TypeOK' /\ WriterInv /\ [Next]_vars /\ (worker'.pc # "idle" => worker'.pod.uid >= 1)
    => WriterInv'
  BY VersionsNext, HoldsNext DEF WriterInv

LEMMA EpisodeNext == TypeOK /\ TypeOK' /\ EpisodeInv /\ [Next]_vars => EpisodeInv'
  BY CopiesNext, BehindNext, VersionsNext, HoldsNext, EpisodeWriter DEF EpisodeInv

LEMMA EpisodeInvariant == Spec => [](TypeOK /\ EpisodeInv)
  BY TypeInit, TypeNext, EpisodeInit, EpisodeNext, PTL DEF Spec

\* Copies are earlier states of what they are copies of, a version is never
\* given to two objects that somebody could mix up, and a write that the
\* server takes replaces the object that the worker decided on.
THEOREM AcceptedWritesAreNewer == Spec => []EpisodeInv
  BY EpisodeInvariant, PTL

-----------------------------------------------------------------------------
(* What is written has happened.                                           *)

LEMMA ReachedLater ==
  ASSUME NEW a \in Pod, NEW b \in Pod, NEW c \in Containers, NEW e,
         e.uid \in Nat, e.restarts \in Nat, HasReached(a, c, e), Earlier(a, b)
  PROVE  HasReached(b, c, e)
  BY DEF HasReached, Earlier, Pod

LEMMA PodsReachedLater ==
  ASSUME TypeOK, NEW p \in PodNames, NEW a \in Pod, NEW b \in Pod,
         PodsReached(p, a), Earlier(a, b)
  PROVE  PodsReached(p, b)
  <1> SUFFICES ASSUME NEW i \in DOMAIN ContainersOf[p],
                      diags[diagnosisName(p, ContainersOf[p][i])].pod = p
               PROVE  LET d == diags[diagnosisName(p, ContainersOf[p][i])] IN
                      d.uid <= b.uid /\ HasReached(b, ContainersOf[p][i], d.status)
    BY DEF PodsReached
  <1> DEFINE d == diags[diagnosisName(p, ContainersOf[p][i])]
  <1>1. d \in Diag /\ ContainersOf[p][i] \in Containers
    BY ContainerFacts DEF TypeOK
  <1>2. d.uid \in Nat /\ d.status.uid \in Nat /\ d.status.restarts \in Nat /\ a.uid \in Nat /\ b.uid \in Nat
    BY <1>1 DEF Diag, Episode, Pod
  <1>3. d.uid <= a.uid /\ HasReached(a, ContainersOf[p][i], d.status)
    BY DEF PodsReached
  <1> QED
    BY <1>1, <1>2, <1>3, ReachedLater DEF Earlier

\* The episode that the worker is about has happened to a state x of the pod
\* that is not before its snapshot.
LEMMA SnapshotReached ==
  ASSUME TypeOK, worker.pc # "idle", NEW x \in Pod, Earlier(worker.pod, x),
         NEW e, e.uid = worker.pod.uid, e.restarts = RestartCount
  PROVE  /\ worker.pod.uid <= x.uid
         /\ HasReached(x, Container, e)
  <1>1. /\ worker.pod \in Pod /\ Container \in Containers
        /\ worker.pod.restarts[Container] = RestartCount
    BY BusyContainer DEF RestartCount
  <1>2. /\ worker.pod.uid \in Nat /\ x.uid \in Nat
        /\ worker.pod.restarts[Container] \in Nat /\ x.restarts[Container] \in Nat
    BY <1>1 DEF Pod
  <1> QED
    BY <1>1, <1>2 DEF HasReached, Earlier

\* A step stores for p only what state x of p has been through, if x is not
\* before the snapshot that the worker may be diagnosing.
LEMMA ReachedStep ==
  ASSUME TypeOK, TypeOK', WriterInv, [Next]_vars, NEW p \in PodNames, NEW x \in Pod, x.uid >= 1,
         PodsReached(p, x), worker.pc # "idle" /\ worker.key = p => Earlier(worker.pod, x)
  PROVE  PodsReached(p, x)'
  <1> SUFFICES ASSUME NEW i \in DOMAIN ContainersOf[p],
                      diags'[diagnosisName(p, ContainersOf[p][i])].pod = p
               PROVE  LET d == diags'[diagnosisName(p, ContainersOf[p][i])] IN
                      d.uid <= x.uid /\ HasReached(x, ContainersOf[p][i], d.status)
    BY DEF PodsReached, HasReached
  <1> DEFINE c == ContainersOf[p][i]
             n == diagnosisName(p, c)
  <1>1. n \in DiagNames /\ c \in Containers /\ diags'[n] \in Diag
    BY ContainerFacts DEF TypeOK
  <1>2. x.uid \in Nat /\ diags'[n].uid \in Nat
    BY <1>1 DEF Diag, Pod
  <1>3. CASE diags'[n] = diags[n]
    BY <1>3 DEF PodsReached
  <1>4. CASE \E m \in DiagNames : CollectGarbage(m)
    <2>1. diags'[n] = diags[n] \/ diags'[n] = NoDiag
      BY <1>1, <1>4 DEF CollectGarbage, TypeOK
    <2>2. diags'[n] # NoDiag
      BY ConstantsAssumption DEF NoDiag
    <2> QED
      BY <1>3, <2>1, <2>2
  <1>5. CASE /\ worker.pc \in {"write", "status"}
             /\ Accepts
             /\ diags' = [diags EXCEPT ![DiagKey] = Persisted(Written)]
             /\ n = DiagKey
    <2>1. /\ diags'[n].pod = worker.key /\ diags'[n].uid = worker.pod.uid
          /\ diags'[n].status = Written.status
      BY <1>1, <1>5, PersistedFacts, WrittenFacts DEF TypeOK
    <2>2. worker.key = p /\ worker.pc # "idle" /\ Earlier(worker.pod, x)
      BY <1>5, <2>1
    <2>3. c = Container
      BY <1>5, <2>2, OwnNames
    <2>4. /\ worker.pod.uid <= x.uid
          /\ \A e : e.uid = worker.pod.uid /\ e.restarts = RestartCount => HasReached(x, c, e)
      <3>1. \A e : e.uid = worker.pod.uid /\ e.restarts = RestartCount =>
              worker.pod.uid <= x.uid /\ HasReached(x, c, e)
        BY <2>2, <2>3, SnapshotReached
      <3>2. [uid |-> worker.pod.uid, restarts |-> RestartCount].uid = worker.pod.uid
            /\ [uid |-> worker.pod.uid, restarts |-> RestartCount].restarts = RestartCount
        OBVIOUS
      <3> QED
        BY <3>1, <3>2
    <2>5. CASE worker.pc = "status"
      <3>1. diags'[n].status = [uid |-> worker.pod.uid, restarts |-> RestartCount]
        BY <1>5, <2>1, <2>5, WrittenFacts
      <3>2. diags'[n].status.uid = worker.pod.uid /\ diags'[n].status.restarts = RestartCount
        BY <3>1
      <3> QED
        BY <2>1, <2>4, <3>2
    <2>6. CASE worker.pc = "write" /\ Exists(diags[n])
      <3>1. diags[n].pod = p /\ diags'[n].status = diags[n].status
        BY <1>5, <2>1, <2>2, <2>6, WrittenFacts
      <3> QED
        BY <2>1, <2>4, <3>1 DEF PodsReached
    <2>7. CASE worker.pc = "write" /\ ~Exists(diags[n])
      <3>1. diags'[n].status = NoEpisode
        BY <1>5, <2>1, <2>7, WrittenFacts
      <3>2. diags'[n].status.uid = 0
        BY <3>1 DEF NoEpisode
      <3> QED
        BY <1>2, <2>1, <2>4, <3>2 DEF HasReached
    <2> QED
      BY <1>5, <2>5, <2>6, <2>7
  <1>6. CASE n # DiagKey /\ diags' = [diags EXCEPT ![DiagKey] = Persisted(Written)]
    BY <1>3, <1>6
  <1> QED
    BY <1>3, <1>4, <1>5, <1>6, StepsOfDiags

LEMMA StepsOfAnnounced ==
  ASSUME [Next]_vars
  PROVE  announced' = announced \/ Announce
  BY DEF Next, Environment, KubeletReportsFailure, KubeletReportsRunning, DeletePod, RemovePod, CreatePod,
         CollectGarbage, Informers, TimerFires, SyncPod, SyncDiag, Reconcile, WorkerStep, GetDiagnosis,
         CreateOrUpdate, UpdateStatus, WriteRejected, WriteFails, Restart, vars, operator

\* This needs of the writer's snapshot only that it is a past state of the pod.
LEMMA ReachedNext ==
  ASSUME TypeOK, TypeOK', WriterInv, OnlyReached, [Next]_vars,
         \A p \in PodNames : pods[p].uid >= 1,
         worker.pc # "idle" => Earlier(worker.pod, pods[worker.key])
  PROVE  OnlyReached'
  <1>1. ASSUME NEW p \in PodNames PROVE PodsReached(p, pods[p])'
    <2> DEFINE x == pods'[p]
    <2>1. pods[p] \in Pod /\ x \in Pod /\ Earlier(pods[p], x) /\ PodsReached(p, pods[p])
      BY PodsMoveForward DEF TypeOK, OnlyReached
    <2>2. PodsReached(p, x) /\ x.uid >= 1
      BY <2>1, PodsReachedLater DEF Earlier, Pod
    <2>3. worker.pc # "idle" /\ worker.key = p => Earlier(worker.pod, x)
      BY <2>1, BusyContainer, EarlierTransitive
    <2>4. \A y \in Pod : y = x => PodsReached(p, y)'
      BY <2>1, <2>2, <2>3, ReachedStep
    <2> QED
      BY <2>1, <2>4
  <1>2. ASSUME NEW a \in announced'
        PROVE  HasReached(pods'[a.pod], a.container, a)
    <2>1. /\ a.pod \in PodNames /\ a.container \in Containers /\ a.uid \in Nat /\ a.restarts \in Nat
          /\ pods[a.pod] \in Pod /\ pods'[a.pod] \in Pod /\ Earlier(pods[a.pod], pods'[a.pod])
      BY <1>2, PodsMoveForward DEF TypeOK, Announcement
    <2>2. HasReached(pods[a.pod], a.container, a)
      <3>1. CASE a \in announced
        BY <3>1 DEF OnlyReached
      <3>2. CASE a \notin announced
        <4>1. worker.pc # "idle" /\ a = Announcing
          BY <1>2, <3>2, StepsOfAnnounced DEF Announce
        <4>2. /\ a.pod = worker.key /\ a.container = Container
              /\ a.uid = worker.pod.uid /\ a.restarts = RestartCount
          BY <4>1 DEF Announcing
        <4> QED
          BY <2>1, <4>1, <4>2, SnapshotReached
      <3> QED
        BY <3>1, <3>2
    <2> QED
      BY <2>1, <2>2, ReachedLater
  <1> QED
    BY <1>1, <1>2 DEF OnlyReached, HasReached

\* If the worker's snapshot has been through all that is stored for its pod,
\* what the worker stores is newer.
LEMMA ForwardStep ==
  TypeOK /\ WriterInv /\ (worker.pc # "idle" => PodsReached(worker.key, worker.pod)) /\ [Next]_vars
    => StatusMovesForward /\ OwnerMovesForward
  <1> SUFFICES ASSUME TypeOK, WriterInv, worker.pc # "idle" => PodsReached(worker.key, worker.pod), [Next]_vars,
                      NEW n \in DiagNames, Survives(n)
               PROVE  /\ diags'[n].status # diags[n].status => Newer(diags'[n].status, diags[n].status)
                      /\ diags'[n].pod = diags[n].pod /\ diags'[n].uid >= diags[n].uid
    BY DEF StatusMovesForward, OwnerMovesForward
  <1>0. diags[n] \in Diag /\ diags[n].uid \in Nat
    BY DEF TypeOK, Diag
  <1>1. CASE diags'[n] = diags[n]
    BY <1>0, <1>1
  <1>2. CASE \E m \in DiagNames : CollectGarbage(m)
    <2>1. diags'[n] = diags[n] \/ diags'[n] = NoDiag
      BY <1>2 DEF CollectGarbage, TypeOK
    <2> QED
      BY <1>1, <2>1 DEF Survives, NoDiag, Exists
  <1>3. CASE /\ worker.pc \in {"write", "status"}
             /\ Accepts
             /\ diags' = [diags EXCEPT ![DiagKey] = Persisted(Written)]
    <2>1. CASE n # DiagKey
      BY <1>1, <1>3, <2>1
    <2>2. CASE n = DiagKey
      <3>1. diags'[n] = Persisted(Written) /\ Exists(diags[n])
        BY <1>3, <2>2 DEF TypeOK, Survives
      <3>2. /\ diags'[n].pod = worker.key /\ diags'[n].uid = worker.pod.uid
            /\ diags'[n].status = Written.status /\ diags[n].pod = worker.key
            /\ worker.pod.uid \in Nat /\ worker.pod.uid >= 1
        BY <1>3, <2>2, <3>1, PersistedFacts, WrittenFacts
      <3>3. diags[n].uid <= worker.pod.uid /\ HasReached(worker.pod, Container, diags[n].status)
        BY <1>3, <2>2, <3>2, BusyContainer DEF PodsReached, DiagKey, Container
      <3>4. CASE worker.pc = "write"
        BY <1>0, <1>3, <2>2, <3>1, <3>2, <3>3, <3>4, WrittenFacts
      <3>5. CASE worker.pc = "status"
        <4>1. /\ diags'[n].status = [uid |-> worker.pod.uid, restarts |-> RestartCount]
              /\ diags[n].status = NoEpisode \/ diags[n].status.restarts # RestartCount
          BY <1>3, <2>2, <3>2, <3>5, WrittenFacts
        <4>2. diags[n].status.uid \in Nat /\ diags[n].status.restarts \in Nat /\ RestartCount \in Nat
          BY <1>0, <3>5, BusyContainer DEF Diag, Episode
        <4>3. Newer(diags'[n].status, diags[n].status)
          BY <3>2, <3>3, <4>1, <4>2 DEF Newer, HasReached, NoEpisode, RestartCount
        <4> QED
          BY <1>0, <3>2, <3>3, <4>3
      <3> QED
        BY <1>3, <3>4, <3>5
    <2> QED
      BY <2>1, <2>2
  <1> QED
    BY <1>1, <1>2, <1>3, StepsOfDiags

-----------------------------------------------------------------------------
(* What follows from EpisodeInv.                                           *)

LEMMA EpisodeInvNeverAhead == TypeOK /\ EpisodeInv => NeverAhead
  BY PodsBehindLater DEF EpisodeInv, DiagnosesAreBehind, CopiesAreEarlier, NeverAhead, TypeOK

\* No diagnosis names an incarnation or a restart count that its container
\* has not reached.
THEOREM DiagnosesAreNeverAhead == Spec => []NeverAhead
  BY EpisodeInvariant, EpisodeInvNeverAhead, PTL

LEMMA BehindIsReached == \A p \in PodNames, x \in Pod : TypeOK /\ PodsBehind(p, x) => PodsReached(p, x)
  <1> SUFFICES ASSUME NEW p \in PodNames, NEW x \in Pod, TypeOK, PodsBehind(p, x),
                      NEW i \in DOMAIN ContainersOf[p],
                      diags[diagnosisName(p, ContainersOf[p][i])].pod = p
               PROVE  LET d == diags[diagnosisName(p, ContainersOf[p][i])] IN
                      d.uid <= x.uid /\ HasReached(x, ContainersOf[p][i], d.status)
    BY DEF PodsReached
  <1> DEFINE d == diags[diagnosisName(p, ContainersOf[p][i])]
  <1>1. Behind(d, x, ContainersOf[p][i])
    BY DEF PodsBehind
  <1>2. d.uid \in Nat /\ d.status.uid \in Nat /\ x.uid \in Nat
    BY ContainerFacts DEF TypeOK, Diag, Episode, Pod
  <1> QED
    BY <1>1, <1>2 DEF Behind, HasReached

LEMMA StepMovesForward ==
  TypeOK /\ EpisodeInv /\ [Next]_vars => StatusMovesForward /\ OwnerMovesForward
  <1>1. TypeOK /\ EpisodeInv /\ worker.pc # "idle" => PodsReached(worker.key, worker.pod)
    BY BehindIsReached, BusyContainer DEF EpisodeInv, DiagnosesAreBehind
  <1> QED
    BY <1>1, EpisodeWriter, ForwardStep

\* The status of a stored diagnosis only moves to a later episode.
THEOREM StatusesAdvance == Spec => DiagnosesAdvance
  <1>1. TypeOK /\ EpisodeInv /\ [Next]_vars => [StatusMovesForward]_vars
    BY StepMovesForward
  <1> QED
    BY <1>1, EpisodeInvariant, PTL DEF Spec, DiagnosesAdvance

\* A stored diagnosis stays with the pods of one name, and moves only to later
\* incarnations of that pod.
THEOREM OwnersAdvance == Spec => OwnerAdvances
  <1>1. TypeOK /\ EpisodeInv /\ [Next]_vars => [OwnerMovesForward]_vars
    BY StepMovesForward
  <1> QED
    BY <1>1, EpisodeInvariant, PTL DEF Spec, OwnerAdvances

-----------------------------------------------------------------------------
(* Announcements.                                                          *)

\* An incarnation that exists after a step and is not a new one existed before.
LEMMA ThereBefore ==
  ASSUME TypeOK, [Next]_vars, NEW p \in PodNames, NEW uid \in Nat,
         uid <= pods[p].uid, IsThere(p, uid)'
  PROVE  IsThere(p, uid)
  <1>1. CASE pods'[p] = pods[p]
    BY <1>1 DEF IsThere
  <1>2. CASE \E i \in DOMAIN ContainersOf[p] : KubeletReportsFailure(p, i) \/ KubeletReportsRunning(p, i)
    <2>1. pods'[p].uid = pods[p].uid /\ pods[p].phase = "live"
      BY <1>2 DEF KubeletReportsFailure, KubeletReportsRunning, TypeOK, Pod
    <2> QED
      BY <2>1 DEF IsThere
  <1>3. CASE DeletePod(p) \/ RemovePod(p)
    <2>1. \E phase : pods' = [pods EXCEPT ![p] = [pods[p] EXCEPT !.phase = phase]]
      BY <1>3 DEF DeletePod, RemovePod
    <2>2. pods'[p].uid = pods[p].uid /\ pods[p].phase # "absent"
      BY <1>3, <2>1 DEF DeletePod, RemovePod, TypeOK, Pod
    <2> QED
      BY <2>2 DEF IsThere
  <1>4. CASE CreatePod(p)
    <2>1. pods'[p].uid = pods[p].uid + 1 /\ pods[p].uid \in Nat
      BY <1>4 DEF CreatePod, FreshPod, TypeOK, Pod
    <2> QED
      BY <2>1 DEF IsThere
  <1>5. ASSUME NEW q \in PodNames, q # p,
               \/ \E i \in DOMAIN ContainersOf[q] : KubeletReportsFailure(q, i) \/ KubeletReportsRunning(q, i)
               \/ DeletePod(q) \/ RemovePod(q) \/ CreatePod(q)
        PROVE  pods'[p] = pods[p]
    BY <1>5 DEF KubeletReportsFailure, KubeletReportsRunning, DeletePod, RemovePod, CreatePod, TypeOK
  <1>6. \/ pods' = pods
        \/ \E q \in PodNames : \/ \E i \in DOMAIN ContainersOf[q] :
                                    KubeletReportsFailure(q, i) \/ KubeletReportsRunning(q, i)
                               \/ DeletePod(q) \/ RemovePod(q) \/ CreatePod(q)
    BY DEF Next, Environment, CollectGarbage, Informers, SyncPod, TimerFires, SyncDiag, Reconcile,
           WorkerStep, GetDiagnosis, CreateOrUpdate, UpdateStatus, WriteRejected, Announce,
           WriteFails, Restart, vars
  <1> QED
    BY <1>1, <1>2, <1>3, <1>4, <1>5, <1>6

\* The garbage collector spares a diagnosis of an incarnation that exists.
LEMMA CollectorSpares ==
  ASSUME TypeOK, EpisodeInv, NEW m \in DiagNames, CollectGarbage(m),
         NEW p \in PodNames, NEW i \in DOMAIN ContainersOf[p],
         diags[diagnosisName(p, ContainersOf[p][i])].pod = p,
         IsThere(p, diags[diagnosisName(p, ContainersOf[p][i])].status.uid)
  PROVE  diags'[diagnosisName(p, ContainersOf[p][i])] = diags[diagnosisName(p, ContainersOf[p][i])]
  <1> DEFINE n == diagnosisName(p, ContainersOf[p][i])
             d == diags[n]
  <1>1. d.status.uid <= d.uid /\ d.uid <= pods[p].uid
    BY EpisodeInvNeverAhead DEF NeverAhead, PodsBehind, Behind
  <1>2. d.status.uid \in Nat /\ d.uid \in Nat /\ pods[p].uid \in Nat
    BY ContainerFacts DEF TypeOK, Diag, Episode, Pod
  <1>3. ~OwnerIsGone(d)
    BY <1>1, <1>2 DEF OwnerIsGone, IsThere
  <1> QED
    BY <1>3 DEF CollectGarbage

LEMMA AnnouncementInit == Init => AnnouncementInv
  BY DEF Init, Idle, AnnouncementInv, AnnouncedIsStored

\* What was announced of an existing pod before a step is stored after it.
LEMMA AnnouncedStays ==
  ASSUME TypeOK, TypeOK', EpisodeInv, EpisodeInv', [Next]_vars,
         NEW p \in PodNames, NEW i \in DOMAIN ContainersOf[p], NEW uid \in Nat, NEW restarts \in Nat,
         uid <= pods[p].uid, IsThere(p, uid)',
         diags[diagnosisName(p, ContainersOf[p][i])].pod = p,
         diags[diagnosisName(p, ContainersOf[p][i])].status.uid = uid,
         restarts <= diags[diagnosisName(p, ContainersOf[p][i])].status.restarts
  PROVE  LET d == diags'[diagnosisName(p, ContainersOf[p][i])] IN
         d.pod = p /\ d.status.uid = uid /\ restarts <= d.status.restarts
  <1> DEFINE n == diagnosisName(p, ContainersOf[p][i])
  <1>0. n \in DiagNames /\ IsThere(p, uid)
    BY ContainerFacts, ThereBefore
  <1>1. CASE diags'[n] = diags[n]
    BY <1>1
  <1>2. CASE \E m \in DiagNames : CollectGarbage(m)
    BY <1>0, <1>1, <1>2, CollectorSpares
  <1>3. CASE /\ worker.pc \in {"write", "status"}
             /\ Accepts
             /\ diags' = [diags EXCEPT ![DiagKey] = Persisted(Written)]
    <2>1. CASE n # DiagKey
      BY <1>1, <1>3, <2>1
    <2>2. CASE n = DiagKey
      <3>1. Exists(diags[n]) /\ Exists(diags'[n])
        <4>1. Exists(diags[n])
          BY <1>0, ConstantsAssumption DEF EpisodeInv, VersionsAreFaithful
        <4>2. diags'[n].pod = worker.key
          BY <1>0, <1>3, <2>2, PersistedFacts, WrittenFacts, WriteIsSound, EpisodeWriter DEF TypeOK
        <4>3. Exists(diags'[n])
          BY <1>0, <1>3, <4>2, BusyContainer, ConstantsAssumption DEF EpisodeInv, VersionsAreFaithful
        <4> QED
          BY <4>1, <4>3
      <3>2. /\ diags'[n].pod = p
            /\ diags'[n].status # diags[n].status => Newer(diags'[n].status, diags[n].status)
        BY <1>0, <3>1, StepMovesForward DEF StatusMovesForward, OwnerMovesForward, Survives
      <3>3. diags'[n].status.uid <= pods'[p].uid
        <4>0. NeverAhead'
          BY EpisodeInvNeverAhead, PTL
        <4>1. Behind(diags'[n], pods'[p], ContainersOf[p][i])
          BY <3>2, <4>0 DEF NeverAhead, PodsBehind, Behind
        <4>2. diags'[n].status.uid \in Nat /\ diags'[n].uid \in Nat /\ pods'[p].uid \in Nat
          BY <1>0 DEF TypeOK, Diag, Episode, Pod
        <4> QED
          BY <4>1, <4>2 DEF Behind
      <3>4. /\ diags[n].status.uid \in Nat /\ diags[n].status.restarts \in Nat
            /\ diags'[n].status.uid \in Nat /\ diags'[n].status.restarts \in Nat
        BY <1>0 DEF TypeOK, Diag, Episode
      <3>5. pods'[p].uid = uid
        BY DEF IsThere
      <3> QED
        BY <3>2, <3>3, <3>4, <3>5 DEF Newer
    <2> QED
      BY <2>1, <2>2
  <1> QED
    BY <1>1, <1>2, <1>3, StepsOfDiags

\* Nothing that the worker is about to announce was announced before.
LEMMA AnnouncingIsNew ==
  ASSUME TypeOK, EpisodeInv, AnnouncementInv, worker.pc = "status", Accepts,
         IsThere(worker.key, worker.pod.uid)
  PROVE  Announcing \notin announced
  <1> SUFFICES ASSUME Announcing \in announced PROVE FALSE
    OBVIOUS
  <1>1. /\ worker.key \in PodNames /\ worker.at \in DOMAIN ContainersOf[worker.key]
        /\ worker.pod.uid \in Nat /\ RestartCount \in Nat /\ DiagKey \in DiagNames
    BY BusyContainer DEF Pod
  <1>2. /\ diags[DiagKey].status.uid = worker.pod.uid
        /\ RestartCount <= diags[DiagKey].status.restarts
    BY <1>1 DEF AnnouncementInv, AnnouncedIsStored, Announcing, DiagKey, Container
  <1>3. Newer([uid |-> worker.pod.uid, restarts |-> RestartCount], diags[DiagKey].status)
    BY WrittenFacts, WriteIsSound, EpisodeWriter
  <1>4. diags[DiagKey].status.restarts \in Nat
    BY <1>1 DEF TypeOK, Diag, Episode
  <1> QED
    BY <1>1, <1>2, <1>3, <1>4 DEF Newer

LEMMA AnnouncementNext ==
  TypeOK /\ TypeOK' /\ EpisodeInv /\ EpisodeInv' /\ AnnouncementInv /\ [Next]_vars => AnnouncementInv'
  <1> SUFFICES ASSUME TypeOK, TypeOK', EpisodeInv, EpisodeInv', AnnouncementInv, [Next]_vars
               PROVE  AnnouncementInv'
    OBVIOUS
  <1>1. ASSUME Announce
        PROVE  /\ announced' = announced \cup {Announcing}
               /\ worker.pc # "idle" /\ worker.key \in PodNames /\ worker.at \in DOMAIN ContainersOf[worker.key]
               /\ Announcing.uid <= pods[worker.key].uid
               /\ Announcing.pod = worker.key /\ Announcing.container = Container
               /\ Announcing.uid = worker.pod.uid /\ Announcing.restarts = RestartCount
               /\ pods' = pods /\ diags' = diags /\ worker'.pc # "announce"
    <2>1. worker.pc # "idle" /\ worker.key \in PodNames /\ worker.at \in DOMAIN ContainersOf[worker.key]
      BY <1>1, BusyContainer DEF Announce
    <2>2. worker.pod.uid \in Nat /\ podCache[worker.key].uid \in Nat /\ pods[worker.key].uid \in Nat
      BY <2>1, BusyContainer DEF TypeOK, Pod
    <2>3. worker.pod.uid <= pods[worker.key].uid
      BY <2>1, <2>2 DEF EpisodeInv, CopiesAreEarlier, Earlier
    <2>4. worker'.pc # "announce"
      BY <1>1, NextContainerPc DEF Announce
    <2> QED
      BY <1>1, <2>1, <2>3, <2>4 DEF Announce, Announcing
  <1>2. ASSUME NEW a \in announced'
        PROVE  a.uid <= pods'[a.pod].uid
    <2>1. CASE a \in announced
      <3>1. /\ a.pod \in PodNames /\ a.uid <= pods[a.pod].uid /\ a.uid \in Nat
            /\ Earlier(pods[a.pod], pods'[a.pod])
            /\ pods[a.pod].uid \in Nat /\ pods'[a.pod].uid \in Nat
        BY <2>1, PodsMoveForward DEF AnnouncementInv, TypeOK, Announcement, Pod
      <3> QED
        BY <3>1 DEF Earlier
    <2>2. CASE a \notin announced
      BY <2>2, <1>1, StepsOfAnnounced
    <2> QED
      BY <2>1, <2>2
  <1>3. AnnouncedIsStored'
    <2> SUFFICES ASSUME NEW p \in PodNames, NEW i \in DOMAIN ContainersOf[p], NEW a \in announced',
                        a.pod = p, a.container = ContainersOf[p][i], IsThere(p, a.uid)'
                 PROVE  LET d == diags'[diagnosisName(p, ContainersOf[p][i])] IN
                        d.pod = p /\ d.status.uid = a.uid /\ a.restarts <= d.status.restarts
      BY DEF AnnouncedIsStored, IsThere
    <2>1. CASE a \in announced
      <3>1. a.uid <= pods[p].uid /\ a.uid \in Nat /\ a.restarts \in Nat
        BY <2>1 DEF AnnouncementInv, TypeOK, Announcement
      <3>2. IsThere(p, a.uid)
        BY <3>1, ThereBefore
      <3>3. LET d == diags[diagnosisName(p, ContainersOf[p][i])] IN
            d.pod = p /\ d.status.uid = a.uid /\ a.restarts <= d.status.restarts
        BY <2>1, <3>2 DEF AnnouncementInv, AnnouncedIsStored
      <3> QED
        BY <3>1, <3>3, AnnouncedStays
    <2>2. CASE a \notin announced
      <3>1. Announce /\ a = Announcing
        BY <2>2, <1>1, StepsOfAnnounced
      <3>2. /\ p = worker.key /\ ContainersOf[p][i] = Container
            /\ a.uid = worker.pod.uid /\ a.restarts = RestartCount
            /\ pods' = pods /\ diags' = diags /\ worker.pc = "announce" /\ worker.pc # "idle"
        BY <1>1, <3>1 DEF Announce
      <3>3. IsThere(worker.key, worker.pod.uid)
        BY <3>2 DEF IsThere
      <3>4. /\ diags[DiagKey].pod = worker.key
            /\ diags[DiagKey].status = [uid |-> worker.pod.uid, restarts |-> RestartCount]
        BY <3>2, <3>3 DEF AnnouncementInv
      <3>5. RestartCount \in Nat
        BY <3>2, BusyContainer
      <3> QED
        BY <3>2, <3>4, <3>5 DEF DiagKey
    <2> QED
      BY <2>1, <2>2
  <1>4. ASSUME worker'.pc = "announce", IsThere(worker.key, worker.pod.uid)'
        PROVE  /\ diags'[DiagKey'].pod = worker'.key
               /\ diags'[DiagKey'].status = [uid |-> worker'.pod.uid, restarts |-> RestartCount']
               /\ Announcing' \notin announced'
    <2>1. CASE UpdateStatus
      <3>1. /\ worker.pc = "status" /\ worker.pc # "idle" /\ Accepts /\ pods' = pods /\ announced' = announced
            /\ worker'.key = worker.key /\ worker'.pod = worker.pod /\ worker'.at = worker.at
            /\ diags' = [diags EXCEPT ![DiagKey] = Persisted(Written)]
        BY <2>1 DEF UpdateStatus, TypeOK, Worker, Written
      <3>2. DiagKey' = DiagKey /\ RestartCount' = RestartCount /\ Announcing' = Announcing
            /\ DiagKey \in DiagNames
        BY <3>1, BusyContainer DEF DiagKey, Container, RestartCount, Announcing
      <3>3. diags'[DiagKey] = Persisted(Written)
        BY <3>1, <3>2 DEF TypeOK
      <3>4. IsThere(worker.key, worker.pod.uid)
        BY <1>4, <3>1 DEF IsThere
      <3>5. Announcing \notin announced
        BY <3>1, <3>4, AnnouncingIsNew
      <3> QED
        BY <3>1, <3>2, <3>3, <3>5, PersistedFacts, WrittenFacts, WriteIsSound, EpisodeWriter
    <2>2. CASE worker' = worker
      <3>1. /\ DiagKey' = DiagKey /\ RestartCount' = RestartCount /\ Announcing' = Announcing
            /\ worker.pc = "announce" /\ worker.pc # "idle"
        BY <1>4, <2>2 DEF DiagKey, Container, RestartCount, Announcing
      <3>2. /\ worker.key \in PodNames /\ worker.at \in DOMAIN ContainersOf[worker.key]
            /\ worker.pod.uid \in Nat /\ RestartCount \in Nat
            /\ podCache[worker.key].uid \in Nat /\ pods[worker.key].uid \in Nat
        BY <3>1, BusyContainer DEF TypeOK, Pod
      <3>3. worker.pod.uid <= pods[worker.key].uid
        BY <3>1, <3>2 DEF EpisodeInv, CopiesAreEarlier, Earlier
      <3>4. IsThere(worker.key, worker.pod.uid)'
        BY <1>4
      <3>5. \A q \in PodNames, u \in Nat : q = worker.key /\ u = worker.pod.uid => IsThere(q, u)'
        BY <2>2, <3>4 DEF IsThere
      <3>6. IsThere(worker.key, worker.pod.uid)
        BY <3>2, <3>3, <3>5, ThereBefore
      <3>7. /\ diags[DiagKey].pod = worker.key
            /\ diags[DiagKey].status = [uid |-> worker.pod.uid, restarts |-> RestartCount]
            /\ Announcing \notin announced
        BY <3>1, <3>6 DEF AnnouncementInv
      <3>8. diags'[DiagKey] = diags[DiagKey]
        <4>1. CASE \E m \in DiagNames : CollectGarbage(m)
          BY <3>2, <3>6, <3>7, <4>1, CollectorSpares DEF DiagKey, Container
        <4>2. CASE diags' = diags
          BY <4>2
        <4> QED
          BY <3>1, <4>1, <4>2, StepsOfDiags
      <3>9. announced' = announced
        BY <3>1, <2>2, <1>1, StepsOfAnnounced
      <3> QED
        BY <2>2, <3>1, <3>7, <3>8, <3>9
    <2>3. UpdateStatus \/ worker' = worker
      <3>1. worker' # Idle
        BY <1>4 DEF Idle
      <3>2. ASSUME GetDiagnosis PROVE worker'.pc \in {"get", "idle", "write"}
        <4>1. CASE NextContainer \/ Return
          BY <4>1, NextContainerPc
        <4>2. CASE ~(NextContainer \/ Return)
          BY <3>2, <4>2 DEF GetDiagnosis, TypeOK, Worker
        <4> QED
          BY <4>1, <4>2
      <3>3. ASSUME CreateOrUpdate PROVE worker'.pc = "status"
        BY <3>3 DEF CreateOrUpdate, TypeOK, Worker
      <3> QED
        BY <1>1, <1>4, <3>1, <3>2, <3>3, StepsOfWorker
    <2> QED
      BY <2>1, <2>2, <2>3
  <1> QED
    BY <1>2, <1>3, <1>4 DEF AnnouncementInv

\* As long as a pod exists, what was announced of it is the stored diagnosis
\* or older, and what is about to be announced is new.
THEOREM AnnouncementInvariant == Spec => []AnnouncementInv
  BY EpisodeInvariant, AnnouncementInit, AnnouncementNext, PTL DEF Spec

LEMMA AnnounceStep == AnnouncementInv /\ [Next]_vars => AnnouncesOnce
  BY DEF AnnouncementInv, AnnouncesOnce, Announce

\* While a pod exists, no episode of it is announced twice.
THEOREM EpisodesAreAnnouncedOnce == Spec => AnnouncedOnce
  <1>1. AnnouncementInv /\ [Next]_vars => [AnnouncesOnce]_vars
    BY AnnounceStep
  <1> QED
    BY <1>1, AnnouncementInvariant, PTL DEF Spec, AnnouncedOnce

=============================================================================
