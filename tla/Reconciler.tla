------------------------------ MODULE Reconciler ------------------------------
(***************************************************************************)
(* The control loop of PodDoctor: internal/controller, seen together with  *)
(* the parts of Kubernetes it talks to.                                    *)
(*                                                                         *)
(*   API server   pods, diags          what is stored                      *)
(*   informers    podCache, diagCache  what r.Get returns: a lagging copy  *)
(*   work queue   queue, delayed       keys to reconcile now / after a     *)
(*                                     timer (RequeueAfter or back-off)    *)
(*   worker       worker               the one Reconcile call in progress  *)
(*                                                                         *)
(* Pods crash, restart, go away and come back under the same name while    *)
(* the worker is between two API calls; API writes are rejected, fail, or  *)
(* are applied although the caller sees an error; the process restarts at  *)
(* any step.  A diagnosis is abstracted to the episode it is about: the    *)
(* rules that turn evidence into a root cause are module Diagnosis.        *)
(***************************************************************************)
EXTENDS Naturals, Sequences

CONSTANTS
  PodNames,      \* names of the pods of one namespace
  ContainersOf,  \* pod name -> its container names, init containers first
  Deletable,     \* bound: the pod names whose pods may be deleted
  MaxUid,        \* bound: incarnations of one pod name
  MaxRestarts,   \* bound: pod name -> container -> restart count
  MaxFaults      \* bound: failed API writes and process restarts together

Containers == UNION {{ContainersOf[p][i] : i \in DOMAIN ContainersOf[p]} : p \in PodNames}

\* The name of the PodDiagnosis of container c of pod p.
diagnosisName(p, c) == p \o "-" \o c

DiagNames ==
  UNION {{diagnosisName(p, ContainersOf[p][i]) : i \in DOMAIN ContainersOf[p]} : p \in PodNames}

NoPod == ""      \* no pod: the owner of an object that does not exist

ASSUME ConstantsAssumption ==
  /\ NoPod \notin PodNames
  /\ ContainersOf \in [PodNames -> Seq(STRING)]
  /\ MaxUid \in Nat
  /\ MaxRestarts \in [PodNames -> [Containers -> Nat]]
  /\ MaxFaults \in Nat

\* Within one pod, diagnosisName tells the containers apart.
ASSUME NamesOfOnePod ==
  \A p \in PodNames : \A c, d \in Containers :
    diagnosisName(p, c) = diagnosisName(p, d) => c = d

VARIABLES
  pods,       \* API server: pod name -> the pod, or its last incarnation
  diags,      \* API server: diagnosis name -> PodDiagnosis
  podCache,   \* informer copy of pods
  diagCache,  \* informer copy of diags
  queue,      \* work queue: pod keys ready to be reconciled
  delayed,    \* pod keys that a timer puts back into the queue
  worker,     \* local state of the Reconcile call in progress
  faults,     \* API faults and process restarts so far (bounded)
  announced   \* ghost: the diagnoses that reached the metric, Event, webhook

vars == <<pods, diags, podCache, diagCache, queue, delayed, worker, faults, announced>>

-----------------------------------------------------------------------------
(***************************** Data ****************************************)

\* An episode is one restart count of one incarnation of a pod.  uid 0 stands
\* for the zero value of a status that was never written.
Episode   == [uid : Nat, restarts : Nat]
NoEpisode == [uid |-> 0, restarts |-> 0]

\* phase "terminating" is a pod with a deletion timestamp.  `failing` holds
\* the containers in a trigger waiting reason.
Pod == [uid : Nat, phase : {"absent", "live", "terminating"},
        failing : SUBSET Containers, restarts : [Containers -> Nat]]

FreshPod(uid) ==
  [uid |-> uid, phase |-> "live", failing |-> {}, restarts |-> [c \in Containers |-> 0]]

NoPodSnapshot == [FreshPod(0) EXCEPT !.phase = "absent"]

\* Resource versions are only compared for equality, with the copies still
\* held, so a few of them are enough (see FreshVersion).  A Create carries 0.
Versions == 1..4

\* A PodDiagnosis: resource version, controller owner (pod name and uid; the
\* spec repeats both), status.  status.restarts is LastDiagnosedRestartCount
\* and RestartCount; status.uid is a ghost naming the incarnation diagnosed.
\* uid 0: the object does not exist.
Diag == [rv : Versions \cup {0}, pod : PodNames \cup {NoPod}, uid : Nat,
         status : Episode, firstObserved : Episode]

NoDiag == [rv |-> 0, pod |-> NoPod, uid |-> 0,
           status |-> NoEpisode, firstObserved |-> NoEpisode]

Exists(d) == d.uid # 0

\* Program counter of reconcileContainer: about to read the PodDiagnosis,
\* to create or update it, to write its status, to announce it.
Worker == [pc : {"idle", "get", "write", "status", "announce"},
           key : PodNames \cup {NoPod}, pod : Pod, at : Nat, diagObj : Diag]

Idle == [pc |-> "idle", key |-> NoPod, pod |-> NoPodSnapshot, at |-> 0, diagObj |-> NoDiag]

Announcement == [pod : PodNames, container : Containers, uid : Nat, restarts : Nat]

-----------------------------------------------------------------------------
(************************ The cluster around the operator ******************)

Init ==
  /\ pods = [p \in PodNames |-> FreshPod(1)]
  /\ diags = [n \in DiagNames |-> NoDiag]
  /\ podCache = pods
  /\ diagCache = diags
  /\ queue = {}
  /\ delayed = {}
  /\ worker = Idle
  /\ faults = 0
  /\ announced = {}

operator == <<podCache, diagCache, queue, delayed, worker, faults, announced>>

\* The kubelet reports container i of p in a trigger waiting reason: with the
\* same restart count (an image pull back-off, or an instance that just died)
\* or with one more.
KubeletReportsFailure(p, i) ==
  LET c == ContainersOf[p][i] IN
  /\ pods[p].phase = "live"
  /\ \E n \in {pods[p].restarts[c], pods[p].restarts[c] + 1} :
       /\ n <= MaxRestarts[p][c]
       /\ c \in pods[p].failing => n > pods[p].restarts[c]
       /\ pods' = [pods EXCEPT ![p].failing = @ \cup {c}, ![p].restarts[c] = n]
  /\ UNCHANGED <<operator, diags>>

\* The container runs again (or the image was pulled).
KubeletReportsRunning(p, i) ==
  LET c == ContainersOf[p][i] IN
  /\ pods[p].phase = "live"
  /\ c \in pods[p].failing
  /\ pods' = [pods EXCEPT ![p].failing = @ \ {c}]
  /\ UNCHANGED <<operator, diags>>

DeletePod(p) ==
  /\ p \in Deletable
  /\ pods[p].phase = "live"
  /\ pods' = [pods EXCEPT ![p].phase = "terminating"]
  /\ UNCHANGED <<operator, diags>>

RemovePod(p) ==
  /\ pods[p].phase = "terminating"
  /\ pods' = [pods EXCEPT ![p].phase = "absent"]
  /\ UNCHANGED <<operator, diags>>

\* A new pod under the same name (a StatefulSet replica, a bare pod).
CreatePod(p) ==
  /\ pods[p].phase = "absent"
  /\ pods[p].uid < MaxUid
  /\ pods' = [pods EXCEPT ![p] = FreshPod(pods[p].uid + 1)]
  /\ UNCHANGED <<operator, diags>>

OwnerIsGone(d) ==
  \/ pods[d.pod].uid # d.uid
  \/ pods[d.pod].phase = "absent"

\* The garbage collector deletes an object whose owner, by uid, is gone.
CollectGarbage(n) ==
  /\ Exists(diags[n])
  /\ OwnerIsGone(diags[n])
  /\ diags' = [diags EXCEPT ![n] = NoDiag]
  /\ UNCHANGED <<operator, pods>>

-----------------------------------------------------------------------------
(*************************** Informers and queue ***************************)

\* findFailingContainers: the index of the next failing container of `pod`
\* after index i, as a set of at most one element.
NextFailing(p, pod, i) ==
  LET failing(j) == ContainersOf[p][j] \in pod.failing IN
  {j \in DOMAIN ContainersOf[p] :
     /\ j > i
     /\ failing(j)
     /\ \A k \in DOMAIN ContainersOf[p] : k > i /\ k < j => ~failing(k)}

failingPodPredicate(p, pod) == NextFailing(p, pod, 0) # {}

\* A watch event of pod p.  A deletion carries the last state of the pod.
SyncPod(p) ==
  /\ podCache[p] # pods[p]
  /\ podCache' = [podCache EXCEPT ![p] = pods[p]]
  /\ queue' = IF failingPodPredicate(p, pods[p]) THEN queue \cup {p} ELSE queue
  /\ UNCHANGED <<pods, diags, diagCache, delayed, worker, faults, announced>>

\* Owns(&PodDiagnosis{}): the pods that own the old and the new object.
OwnersOf(old, new) == {old.pod, new.pod} \ {NoPod}

\* A watch event of PodDiagnosis n.
SyncDiag(n) ==
  /\ diagCache[n] # diags[n]
  /\ diagCache' = [diagCache EXCEPT ![n] = diags[n]]
  /\ queue' = queue \cup OwnersOf(diagCache[n], diags[n])
  /\ UNCHANGED <<pods, diags, podCache, delayed, worker, faults, announced>>

\* RequeueAfter or the back-off of a failed reconcile expires.
TimerFires(p) ==
  /\ p \in delayed
  /\ delayed' = delayed \ {p}
  /\ queue' = queue \cup {p}
  /\ UNCHANGED <<pods, diags, podCache, diagCache, worker, faults, announced>>

-----------------------------------------------------------------------------
(******************************* Reconcile *********************************)

\* Reconcile takes key p and reads the pod: nothing to do when it is not
\* found, being deleted or not failing; else it starts with the first failing
\* container of this snapshot.
Reconcile(p) ==
  LET pod == podCache[p]
      first == NextFailing(p, pod, 0)
  IN
  /\ worker.pc = "idle"
  /\ p \in queue
  /\ queue' = queue \ {p}
  /\ \/ /\ pod.phase # "live" \/ first = {}
        /\ worker' = worker
     \/ /\ pod.phase = "live"
        /\ \E i \in first :
             worker' = [Idle EXCEPT !.pc = "get", !.key = p, !.pod = pod, !.at = i]
  /\ UNCHANGED <<pods, diags, podCache, diagCache, delayed, faults, announced>>

\* Mutants of Return: the key does not come back; the call leaves its state.
ReturnForgets   == worker' = Idle /\ delayed' = delayed
ReturnKeepsCall == worker' = [worker EXCEPT !.pc = "idle"] /\ delayed' = delayed \cup {worker.key}

\* Reconcile returns with RequeueAfter, with Requeue or with an error: in
\* each case the key comes back after a delay.
Return ==
  /\ worker' = Idle
  /\ delayed' = delayed \cup {worker.key}

\* reconcileContainer returned (false, nil): the loop goes on.
NextContainer ==
  LET rest == NextFailing(worker.key, worker.pod, worker.at) IN
  \/ \E i \in rest :
       /\ worker' = [worker EXCEPT !.pc = "get", !.at = i, !.diagObj = NoDiag]
       /\ delayed' = delayed
  \/ /\ rest = {}
     /\ Return

Container    == ContainersOf[worker.key][worker.at]
RestartCountNext == worker.pod.restarts[Container] + 1  \* mutant of RestartCount
RestartCount == worker.pod.restarts[Container]
DiagKeyOfPod == diagnosisName(worker.key, ContainersOf[worker.key][1])  \* mutant of DiagKey
DiagKey      == diagnosisName(worker.key, Container)

\* Mutants of AlreadyDiagnosed: no deduplication; once per object.
DiagnosedNever(d) == FALSE
DiagnosedEver(d)  == Exists(d)

AlreadyDiagnosed(d) == Exists(d) /\ d.status.restarts = RestartCount

OwnedNever(d) == FALSE  \* mutant of AlreadyOwned

\* ctrl.SetControllerReference refuses an object whose controller owner has
\* another name; it does not compare uids.
AlreadyOwned(d) == Exists(d) /\ d.pod # worker.key

\* Mutant of Claim: the spec of an existing object is left as it was.
ClaimOnce(d) ==
  IF Exists(d) THEN [d EXCEPT !.pod = worker.key]
  ELSE [NoDiag EXCEPT !.pod = worker.key, !.uid = worker.pod.uid]

\* The object to write: a new one (resource version 0) or the cached one,
\* with spec and owner reference pointing at this incarnation of the pod.
Claim(d) ==
  [(IF Exists(d) THEN d ELSE NoDiag) EXCEPT !.pod = worker.key, !.uid = worker.pod.uid]

\* Reading the PodDiagnosis from the cache and what is decided on it.
GetDiagnosis ==
  LET cached == diagCache[DiagKey] IN
  /\ worker.pc = "get"
  /\ \/ /\ AlreadyDiagnosed(cached)
        /\ NextContainer
     \/ /\ ~AlreadyDiagnosed(cached)
        /\ AlreadyOwned(cached)
        /\ Return
     \/ /\ ~AlreadyDiagnosed(cached)
        /\ ~AlreadyOwned(cached)
        /\ worker' = [worker EXCEPT !.pc = "write", !.diagObj = Claim(cached)]
        /\ delayed' = delayed
  /\ UNCHANGED <<pods, diags, podCache, diagCache, queue, faults, announced>>

\* Mutant of Accepts: no optimistic lock.
AcceptsAnyVersion == (worker.diagObj.rv = 0) # Exists(diags[DiagKey])

\* The API server takes a Create when the object does not exist, an Update
\* when it exists in the version the writer read.
Accepts ==
  LET stored == diags[DiagKey] IN
  IF worker.diagObj.rv = 0
  THEN ~Exists(stored)
  ELSE Exists(stored) /\ stored.rv = worker.diagObj.rv

\* A version that no copy of the object bears.
FreshVersion ==
  CHOOSE v \in Versions : v \notin {diags[DiagKey].rv, diagCache[DiagKey].rv, worker.diagObj.rv}

\* What a write of d stores: an update that changes nothing keeps the version.
Persisted(d) == IF d = diags[DiagKey] THEN d ELSE [d EXCEPT !.rv = FreshVersion]

\* Create or Update of the object (spec and owner reference).  Update leaves the
\* stored status alone; an accepted one carries that status (WorkerHolds).
CreateOrUpdate ==
  /\ worker.pc = "write"
  /\ Accepts
  /\ diags' = [diags EXCEPT ![DiagKey] = Persisted(worker.diagObj)]
  /\ worker' = [worker EXCEPT !.pc = "status", !.diagObj = Persisted(worker.diagObj)]
  /\ UNCHANGED <<pods, podCache, diagCache, queue, delayed, faults, announced>>

\* The status for the restart count of the snapshot.  FirstObserved is only
\* set when it was zero.
Diagnosed(d) ==
  LET now == [uid |-> worker.pod.uid, restarts |-> RestartCount] IN
  [d EXCEPT !.status = now,
            !.firstObserved = IF @ = NoEpisode THEN now ELSE @]

\* Evidence is gathered, the rules run, and Status().Update succeeds.
UpdateStatus ==
  LET d == Persisted(Diagnosed(worker.diagObj)) IN
  /\ worker.pc = "status"
  /\ Accepts
  /\ diags' = [diags EXCEPT ![DiagKey] = d]
  /\ worker' = [worker EXCEPT !.pc = "announce", !.diagObj = d]
  /\ UNCHANGED <<pods, podCache, diagCache, queue, delayed, faults, announced>>

\* AlreadyExists, Conflict or NotFound: Reconcile gives up and is retried.
WriteRejected ==
  /\ worker.pc \in {"write", "status"}
  /\ ~Accepts
  /\ Return
  /\ UNCHANGED <<pods, diags, podCache, diagCache, queue, faults, announced>>

\* The object that the write in progress sends.
Written == IF worker.pc = "write" THEN worker.diagObj ELSE Diagnosed(worker.diagObj)

\* Any other error of the write, which was or was not applied.
WriteFails ==
  /\ worker.pc \in {"write", "status"}
  /\ faults < MaxFaults
  /\ faults' = faults + 1
  /\ \/ diags' = diags
     \/ /\ Accepts
        /\ diags' = [diags EXCEPT ![DiagKey] = Persisted(Written)]
  /\ Return
  /\ UNCHANGED <<pods, podCache, diagCache, queue, announced>>

Announcing ==
  [pod |-> worker.key, container |-> Container, uid |-> worker.pod.uid, restarts |-> RestartCount]

\* Mutant of Announce: a diagnosis is stored and nobody is told.
AnnounceNothing ==
  /\ worker.pc = "announce"
  /\ NextContainer
  /\ UNCHANGED <<pods, diags, podCache, diagCache, queue, faults, announced>>

\* Metric, Event and notification of a stored diagnosis; their errors are
\* logged and ignored.
Announce ==
  /\ worker.pc = "announce"
  /\ announced' = announced \cup {Announcing}
  /\ NextContainer
  /\ UNCHANGED <<pods, diags, podCache, diagCache, queue, faults>>

\* A new process finds every object of its informers' lists in the queue.
Listed(podCopies, diagCopies) ==
  {p \in PodNames :
     \/ podCopies[p].phase # "absent" /\ failingPodPredicate(p, podCopies[p])
     \/ \E n \in DiagNames : diagCopies[n].pod = p}

\* The process dies and a new one starts.  Its informers list what the API server
\* serves, here as stale as before; a fresh list is SyncPod and SyncDiag after
\* it.  Another replica that takes over is module Handover.
Restart ==
  /\ faults < MaxFaults
  /\ faults' = faults + 1
  /\ worker' = Idle
  /\ delayed' = {}
  /\ queue' = Listed(podCache, diagCache)
  /\ UNCHANGED <<pods, diags, podCache, diagCache, announced>>

-----------------------------------------------------------------------------

Environment ==
  \/ \E p \in PodNames : \E i \in DOMAIN ContainersOf[p] :
       KubeletReportsFailure(p, i) \/ KubeletReportsRunning(p, i)
  \/ \E p \in PodNames : DeletePod(p) \/ RemovePod(p) \/ CreatePod(p)
  \/ \E n \in DiagNames : CollectGarbage(n)

Informers ==
  \/ \E p \in PodNames : SyncPod(p) \/ TimerFires(p)
  \/ \E n \in DiagNames : SyncDiag(n)

\* The steps of a Reconcile call that does not fail.
WorkerStep == GetDiagnosis \/ CreateOrUpdate \/ UpdateStatus \/ WriteRejected \/ Announce

Next ==
  \/ Environment
  \/ Informers
  \/ \E p \in PodNames : Reconcile(p)
  \/ WorkerStep
  \/ WriteFails
  \/ Restart

Spec == Init /\ [][Next]_vars

(***************************************************************************)
(* Fairness.  Watches deliver, timers fire, the worker goroutine runs and  *)
(* the garbage collector works: weak fairness.  A key in the queue is      *)
(* disabled whenever the worker is busy with another one, and the work     *)
(* queue is first-in first-out: strong fairness of Reconcile.  Nothing is  *)
(* assumed of the pods, of faults or of restarts.                          *)
(***************************************************************************)
Fairness ==
  /\ \A p \in PodNames : WF_vars(SyncPod(p)) /\ WF_vars(TimerFires(p)) /\ SF_vars(Reconcile(p))
  /\ \A n \in DiagNames : WF_vars(SyncDiag(n)) /\ WF_vars(CollectGarbage(n))
  /\ WF_vars(WorkerStep)

FairSpec == Spec /\ Fairness

-----------------------------------------------------------------------------
(****************************** Properties *********************************)

\* Types.  A busy worker is at a container of the pod it reconciles.
TypeOK ==
  /\ pods \in [PodNames -> Pod]
  /\ podCache \in [PodNames -> Pod]
  /\ diags \in [DiagNames -> Diag]
  /\ diagCache \in [DiagNames -> Diag]
  /\ queue \subseteq PodNames
  /\ delayed \subseteq PodNames
  /\ worker \in Worker
  /\ worker.pc = "idle" => worker = Idle
  /\ worker.pc # "idle" => worker.key \in PodNames /\ worker.at \in DOMAIN ContainersOf[worker.key]
  /\ faults \in Nat
  /\ announced \subseteq Announcement

\* No failing pod is forgotten: whatever returned early, failed or crashed, a
\* live pod that the cache shows in a trigger state is queued, waits for a
\* timer or is being reconciled.  (Every return of Reconcile, lines 111-140,
\* and the event sources of lines 551-555.)
NeverForgotten ==
  \A p \in PodNames :
    podCache[p].phase = "live" /\ failingPodPredicate(p, podCache[p])
      => p \in queue \cup delayed \cup {worker.key}

Newer(e, f) == e.uid > f.uid \/ (e.uid = f.uid /\ e.restarts > f.restarts)

Survives(n) == Exists(diags[n]) /\ Exists(diags'[n])

StatusMovesForward ==
  \A n \in DiagNames :
    Survives(n) /\ diags'[n].status # diags[n].status
      => Newer(diags'[n].status, diags[n].status)

\* The status of a stored diagnosis only moves forward: to a higher restart
\* count of the same incarnation or to a later incarnation, although it is
\* computed from a lagging copy of the pod and deduplicated, with = and not
\* <=, against a lagging copy of itself (lines 157-161 and 186-227).
DiagnosesAdvance == [][StatusMovesForward]_vars

OwnerMovesForward ==
  \A n \in DiagNames :
    Survives(n) => diags'[n].pod = diags[n].pod /\ diags'[n].uid >= diags[n].uid

\* A stored diagnosis never passes to a pod of another name, nor from an
\* incarnation of its pod back to an earlier one (lines 163-177).
OwnerAdvances == [][OwnerMovesForward]_vars

\* Diagnosis d of container c is not ahead of this state of its pod.
Behind(d, pod, c) ==
  /\ d.uid <= pod.uid
  /\ d.status.uid <= d.uid
  /\ d.status.uid = pod.uid => d.status.restarts <= pod.restarts[c]

\* So are all stored diagnoses that p owns.
PodsBehind(p, pod) ==
  \A i \in DOMAIN ContainersOf[p] :
    LET d == diags[diagnosisName(p, ContainersOf[p][i])] IN
    d.pod = p => Behind(d, pod, ContainersOf[p][i])

\* No diagnosis is ahead of the pod it describes: it names an incarnation and
\* a restart count that this container has reached (lines 163-177, 205-220).
NeverAhead == \A p \in PodNames : PodsBehind(p, pods[p])

\* Container c of this pod has been through episode e.
HasReached(pod, c, e) == e.uid < pod.uid \/ (e.uid = pod.uid /\ e.restarts <= pod.restarts[c])

\* This state of pod p has been through all that is stored for it.
PodsReached(p, pod) ==
  \A i \in DOMAIN ContainersOf[p] :
    LET d == diags[diagnosisName(p, ContainersOf[p][i])] IN
    d.pod = p => d.uid <= pod.uid /\ HasReached(pod, ContainersOf[p][i], d.status)

\* What remains of NeverAhead when calls of two replicas overlap (Handover):
\* however old the snapshots that they write from, and whoever writes last,
\* only what has happened is stored and announced (lines 163-177, 205-256).
OnlyReached ==
  /\ \A p \in PodNames : PodsReached(p, pods[p])
  /\ \A a \in announced : HasReached(pods[a.pod], a.container, a)

\* Incarnation uid of pod p exists.
IsThere(p, uid) == pods[p].uid = uid /\ pods[p].phase # "absent"

AnnouncesOnce == Announce /\ IsThere(worker.key, worker.pod.uid) => Announcing \notin announced

\* While a pod exists, none of its episodes is announced twice, across
\* retries, ambiguous writes, name reuse and restarts of the process
\* (lines 222-250).
AnnouncedOnce == [][AnnouncesOnce]_vars

HasDiagnosis(p, i, u, r) ==
  LET d == diags[diagnosisName(p, ContainersOf[p][i])] IN
  d.pod = p /\ d.status = [uid |-> u, restarts |-> r]

\* Container i of p is in a failure episode that has no PodDiagnosis.
Undiagnosed(p, i) ==
  LET c == ContainersOf[p][i] IN
  /\ pods[p].phase = "live"
  /\ c \in pods[p].failing
  /\ ~HasDiagnosis(p, i, pods[p].uid, pods[p].restarts[c])

\* No container stays in a failure episode for ever without a PodDiagnosis
\* for that episode (README.md:127-129).
EveryEpisodeDiagnosed ==
  \A p \in PodNames : \A i \in DOMAIN ContainersOf[p] : []<>~Undiagnosed(p, i)

\* The same for the episodes after at least one restart.
RestartsDiagnosed ==
  \A p \in PodNames : \A i \in DOMAIN ContainersOf[p] :
    []<>~(Undiagnosed(p, i) /\ pods[p].restarts[ContainersOf[p][i]] > 0)

\* The object of this container carries its restart count.
CountsAgree(p, i) ==
  LET c == ContainersOf[p][i]
      d == diags[diagnosisName(p, c)]
  IN Exists(d) /\ d.pod = p /\ d.status.restarts = pods[p].restarts[c]

\* The loop never gives a failing container up: whatever write is lost, and
\* whichever replica dies or takes over, its object gets to the restart count
\* of the container, which is what the loop compares (lines 111-161).
EpisodesSettle ==
  \A p \in PodNames : \A i \in DOMAIN ContainersOf[p] :
    []<>~(/\ pods[p].phase = "live"
          /\ ContainersOf[p][i] \in pods[p].failing
          /\ ~CountsAgree(p, i))

\* Every stored determination reaches the metric, the Event and the
\* notification (metrics.go:10, "counts every root-cause determination").
EveryDeterminationAnnounced ==
  \A p \in PodNames : \A i \in DOMAIN ContainersOf[p] :
    \A u \in 1..MaxUid, r \in 0..MaxRestarts[p][ContainersOf[p][i]] :
      HasDiagnosis(p, i, u, r) ~>
        ([pod |-> p, container |-> ContainersOf[p][i], uid |-> u, restarts |-> r] \in announced)

-----------------------------------------------------------------------------
(***************************************************************************)
(* The inductive invariant behind DiagnosesAdvance, OwnerAdvances,         *)
(* NeverAhead and AnnouncedOnce.  Every copy of a pod is an earlier state  *)
(* of the one it was taken from, a diagnosis is never ahead of the pod the *)
(* worker could have made it from, and a version number held by a copy     *)
(* still means the object that it was read from.                           *)
(***************************************************************************)

\* a is b or an earlier state of b, of the same or an earlier incarnation.
Earlier(a, b) ==
  \/ a.uid < b.uid
  \/ a.uid = b.uid /\ \A c \in Containers : a.restarts[c] <= b.restarts[c]

CopiesAreEarlier ==
  /\ \A p \in PodNames : podCache[p].uid >= 1 /\ Earlier(podCache[p], pods[p])
  /\ worker.pc # "idle" => worker.pod.uid >= 1 /\ Earlier(worker.pod, podCache[worker.key])

DiagnosesAreBehind ==
  /\ \A p \in PodNames : PodsBehind(p, podCache[p])
  /\ worker.pc # "idle" => PodsBehind(worker.key, worker.pod)

VersionsAreFaithful ==
  \A n \in DiagNames :
    /\ Exists(diags[n]) <=> diags[n].pod # NoPod
    /\ Exists(diags[n]) => diags[n].rv # 0
    /\ Exists(diagCache[n]) => diagCache[n].rv # 0
    /\ Exists(diags[n]) /\ diagCache[n].rv = diags[n].rv => diagCache[n] = diags[n]

\* What the worker holds before its two writes, if the server accepts them.
WorkerHolds ==
  LET stored == diags[DiagKey]
      mine   == worker.diagObj
  IN
  /\ worker.pc = "write" =>
       IF mine.rv = 0
       THEN mine = [NoDiag EXCEPT !.pod = worker.key, !.uid = worker.pod.uid]
       ELSE Accepts =>
              /\ stored.pod = worker.key
              /\ mine = [stored EXCEPT !.pod = worker.key, !.uid = worker.pod.uid]
              /\ stored.status.restarts # RestartCount
  /\ worker.pc = "status" =>
       /\ mine.rv # 0
       /\ mine.pod = worker.key
       /\ mine.uid = worker.pod.uid
       /\ mine.status = NoEpisode \/ mine.status.restarts # RestartCount
       /\ Accepts => mine = stored

EpisodeInv == CopiesAreEarlier /\ DiagnosesAreBehind /\ VersionsAreFaithful /\ WorkerHolds

\* The inductive invariant behind AnnouncedOnce: as long as a pod exists, what
\* was announced of it is the stored diagnosis or older than it.
AnnouncedIsStored ==
  \A p \in PodNames : \A i \in DOMAIN ContainersOf[p] : \A a \in announced :
    LET d == diags[diagnosisName(p, ContainersOf[p][i])] IN
    (a.pod = p /\ a.container = ContainersOf[p][i] /\ IsThere(p, a.uid)) =>
      d.pod = p /\ d.status.uid = a.uid /\ a.restarts <= d.status.restarts

AnnouncementInv ==
  /\ AnnouncedIsStored
  /\ \A a \in announced : a.uid <= pods[a.pod].uid
  /\ (worker.pc = "announce" /\ IsThere(worker.key, worker.pod.uid)) =>
       /\ diags[DiagKey].pod = worker.key
       /\ diags[DiagKey].status = [uid |-> worker.pod.uid, restarts |-> RestartCount]
       /\ Announcing \notin announced

=============================================================================
