----------------------------- MODULE HandoverProofs -----------------------------
(***************************************************************************)
(* Theorems about Handover, for any pods, containers and bounds.           *)
(*                                                                         *)
(* The facts about a call of Reconcile (ReconcilerProofs) hold of the call *)
(* of the leader and, as the instance FP, of the call of a former leader.  *)
(* What one of them does to the copies of the other is HeldWriter.         *)
(***************************************************************************)
EXTENDS Handover, ReconcilerProofs

FP == INSTANCE ReconcilerProofs WITH worker <- former, diagCache <- formerDiags,
                                     delayed <- formerTimers

-----------------------------------------------------------------------------
(* The invariants of a call, for whichever replica makes it.               *)

SharedTyped ==
  /\ pods \in [PodNames -> Pod]
  /\ podCache \in [PodNames -> Pod]
  /\ diags \in [DiagNames -> Diag]
  /\ queue \subseteq PodNames
  /\ faults \in Nat
  /\ announced \subseteq Announcement

CallTyped(call, copies, timers) ==
  /\ copies \in [DiagNames -> Diag]
  /\ timers \subseteq PodNames
  /\ call \in Worker
  /\ call.pc = "idle" => call = Idle
  /\ call.pc # "idle" => call.key \in PodNames /\ call.at \in DOMAIN ContainersOf[call.key]

StoredWell(stored) ==
  \A n \in DiagNames :
    /\ Exists(stored[n]) <=> stored[n].pod # NoPod
    /\ Exists(stored[n]) => stored[n].rv # 0

FaithfulTo(copies, stored) ==
  \A n \in DiagNames :
    /\ Exists(copies[n]) => copies[n].rv # 0
    /\ Exists(stored[n]) /\ copies[n].rv = stored[n].rv => copies[n] = stored[n]

ContainerOf(call) == ContainersOf[call.key][call.at]

KeyOf(call) == diagnosisName(call.key, ContainerOf(call))

CountOf(call) == call.pod.restarts[ContainerOf(call)]

\* The API server would take the write of this object.
Taken(mine, stored) ==
  IF mine.rv = 0 THEN ~Exists(stored) ELSE Exists(stored) /\ stored.rv = mine.rv

HoldsOf(call, mine, stored) ==
  /\ call.pc = "write" =>
       IF mine.rv = 0
       THEN mine = [NoDiag EXCEPT !.pod = call.key, !.uid = call.pod.uid]
       ELSE Taken(mine, stored) =>
              /\ stored.pod = call.key
              /\ mine = [stored EXCEPT !.pod = call.key, !.uid = call.pod.uid]
              /\ stored.status.restarts # CountOf(call)
  /\ call.pc = "status" =>
       /\ mine.rv # 0
       /\ mine.pod = call.key
       /\ mine.uid = call.pod.uid
       /\ mine.status = NoEpisode \/ mine.status.restarts # CountOf(call)
       /\ Taken(mine, stored) => mine = stored

WriterOf(call, copies, stored) ==
  /\ call.pc # "idle" => call.pod.uid >= 1
  /\ StoredWell(stored)
  /\ FaithfulTo(copies, stored)
  /\ HoldsOf(call, call.diagObj, stored[KeyOf(call)])

LEMMA LeaderTyped == TypeOK <=> SharedTyped /\ CallTyped(worker, diagCache, delayed)
  BY DEF TypeOK, SharedTyped, CallTyped

LEMMA LeaderWriter == WriterInv <=> WriterOf(worker, diagCache, diags)
  BY DEF WriterInv, WriterOf, VersionsAreFaithful, StoredWell, FaithfulTo, WorkerHolds, HoldsOf, Taken,
         Accepts, DiagKey, KeyOf, RestartCount, CountOf, Container, ContainerOf

LEMMA FormerTyped == F!TypeOK <=> SharedTyped /\ CallTyped(former, formerDiags, formerTimers)
  BY DEF F!TypeOK, SharedTyped, CallTyped,
         F!Pod, Pod, F!Diag, Diag, F!Worker, Worker, F!Idle, Idle, F!NoDiag, NoDiag, F!NoPodSnapshot, NoPodSnapshot,
         F!FreshPod, FreshPod, F!NoPod, NoPod, F!NoEpisode, NoEpisode, F!Episode, Episode, F!Versions, Versions,
         F!Containers, Containers, F!DiagNames, DiagNames, F!diagnosisName, diagnosisName,
         F!Announcement, Announcement

LEMMA FormerTypedFP == FP!TypeOK <=> SharedTyped /\ CallTyped(former, formerDiags, formerTimers)
  BY DEF FP!TypeOK, SharedTyped, CallTyped,
         FP!Pod, Pod, FP!Diag, Diag, FP!Worker, Worker, FP!Idle, Idle, FP!NoDiag, NoDiag, FP!NoPodSnapshot, NoPodSnapshot,
         FP!FreshPod, FreshPod, FP!NoPod, NoPod, FP!NoEpisode, NoEpisode, FP!Episode, Episode, FP!Versions, Versions,
         FP!Containers, Containers, FP!DiagNames, DiagNames, FP!diagnosisName, diagnosisName,
         FP!Announcement, Announcement

LEMMA FormerWriter ==
  WriterOf(former, formerDiags, diags) <=>
    /\ former.pc # "idle" => former.pod.uid >= 1
    /\ F!VersionsAreFaithful
    /\ F!WorkerHolds
  BY DEF WriterOf, F!VersionsAreFaithful, StoredWell, FaithfulTo, F!WorkerHolds, HoldsOf, Taken,
         F!Accepts, F!DiagKey, KeyOf, F!RestartCount, CountOf, F!Container, ContainerOf,
         F!Exists, Exists, F!NoDiag, NoDiag, F!NoPod, NoPod, F!NoEpisode, NoEpisode,
         F!DiagNames, DiagNames, F!diagnosisName, diagnosisName

LEMMA FormerWriterFP == FP!WriterInv <=> WriterOf(former, formerDiags, diags)
  BY DEF FP!WriterInv, WriterOf, FP!VersionsAreFaithful, StoredWell, FaithfulTo, FP!WorkerHolds, HoldsOf, Taken,
         FP!Accepts, FP!DiagKey, KeyOf, FP!RestartCount, CountOf, FP!Container, ContainerOf,
         FP!Exists, Exists, FP!NoDiag, NoDiag, FP!NoPod, NoPod, FP!NoEpisode, NoEpisode,
         FP!DiagNames, DiagNames, FP!diagnosisName, diagnosisName

-----------------------------------------------------------------------------
(* A step of the call of the former leader.                                *)

LEMMA SameStep == (F!WorkerStep <=> FP!WorkerStep) /\ (F!WriteFails <=> FP!WriteFails)
  <1> USE DEF F!NextContainer, FP!NextContainer, F!Return, FP!Return, F!NextFailing, FP!NextFailing,
         F!Diagnosed, FP!Diagnosed, F!Persisted, FP!Persisted, F!FreshVersion, FP!FreshVersion,
         F!Accepts, FP!Accepts, F!Exists, FP!Exists, F!DiagKey, FP!DiagKey,
         F!RestartCount, FP!RestartCount, F!Container, FP!Container,
         F!Idle, FP!Idle, F!NoDiag, FP!NoDiag, F!NoPodSnapshot, FP!NoPodSnapshot,
         F!FreshPod, FP!FreshPod, F!NoPod, FP!NoPod, F!NoEpisode, FP!NoEpisode, F!Versions, FP!Versions,
         F!Containers, FP!Containers, F!diagnosisName, FP!diagnosisName
  <1>1. F!WorkerStep <=> FP!WorkerStep
    BY DEF F!WorkerStep, FP!WorkerStep, F!GetDiagnosis, FP!GetDiagnosis, F!CreateOrUpdate, FP!CreateOrUpdate,
         F!UpdateStatus, FP!UpdateStatus, F!WriteRejected, FP!WriteRejected, F!Announce, FP!Announce,
         F!Claim, FP!Claim, F!AlreadyOwned, FP!AlreadyOwned, F!AlreadyDiagnosed, FP!AlreadyDiagnosed,
         F!Announcing, FP!Announcing
  <1>2. F!WriteFails <=> FP!WriteFails
    BY DEF F!WriteFails, FP!WriteFails, F!Written, FP!Written
  <1> QED
    BY <1>1, <1>2

\* What ReconcilerProofs says of such a step.
LEMMA FormerStep ==
  ASSUME SharedTyped, CallTyped(former, formerDiags, formerTimers), F!WorkerStep \/ F!WriteFails
  PROVE  /\ SharedTyped'
         /\ CallTyped(former, formerDiags, formerTimers)'
         /\ former.pc # "idle" /\ pods' = pods /\ podCache' = podCache /\ queue' = queue
         /\ former'.pc # "idle" => former'.pod = former.pod /\ former'.key = former.key
         /\ WriterOf(former, formerDiags, diags) => WriterOf(former, formerDiags, diags)'
  <1>1. FP!TypeOK /\ (FP!WorkerStep \/ FP!WriteFails)
    BY FormerTypedFP, SameStep
  <1>2. [FP!Next]_FP!vars
    BY <1>1 DEF FP!Next
  <1>3. FP!TypeOK'
    BY <1>1, <1>2, FP!TypeNext, ConstantsAssumption, NamesOfOnePod
       DEF FP!NoPod, NoPod, FP!Containers, Containers, FP!diagnosisName, diagnosisName
  <1>4. /\ former.pc # "idle" /\ pods' = pods /\ podCache' = podCache /\ queue' = queue
        /\ former' = FP!Idle \/ (former'.pod = former.pod /\ former'.key = former.key)
    BY <1>1, FP!CallKeepsSnapshot, ConstantsAssumption, NamesOfOnePod
       DEF FP!NoPod, NoPod, FP!Containers, Containers, FP!diagnosisName, diagnosisName
  <1>5. SharedTyped' /\ CallTyped(former, formerDiags, formerTimers)'
    BY <1>3, FormerTypedFP, PTL
  <1>6. ASSUME WriterOf(former, formerDiags, diags)
        PROVE  WriterOf(former, formerDiags, diags)'
    <2>1. FP!WriterInv
      BY <1>6, FormerWriterFP
    <2>2. former'.pc # "idle" => former'.pod.uid >= 1
      BY <1>4, <1>6 DEF WriterOf, FP!Idle
    <2>3. FP!WriterInv'
      BY <1>1, <1>2, <1>3, <2>1, <2>2, FP!WriterNext, ConstantsAssumption, NamesOfOnePod
         DEF FP!NoPod, NoPod, FP!Containers, Containers, FP!diagnosisName, diagnosisName
    <2> QED
      BY <2>3, FormerWriterFP, PTL
  <1> QED
    BY <1>4, <1>5, <1>6 DEF FP!Idle

\* What it writes has happened, if its snapshot has.
LEMMA FormerReached ==
  ASSUME SharedTyped, CallTyped(former, formerDiags, formerTimers), F!WorkerStep \/ F!WriteFails,
         WriterOf(former, formerDiags, diags), OnlyReached,
         \A p \in PodNames : pods[p].uid >= 1,
         former.pc # "idle" => Earlier(former.pod, pods[former.key])
  PROVE  OnlyReached'
  <1>1. FP!TypeOK /\ FP!WriterInv /\ [FP!Next]_FP!vars
    BY FormerTypedFP, FormerWriterFP, SameStep DEF FP!Next
  <1>2. FP!TypeOK'
    BY FormerStep, FormerTypedFP, PTL
  <1>3. FP!OnlyReached <=> OnlyReached
    BY DEF FP!OnlyReached, OnlyReached, FP!PodsReached, PodsReached, FP!HasReached, HasReached,
           FP!diagnosisName, diagnosisName
  <1>4. former.pc # "idle" => FP!Earlier(former.pod, pods[former.key])
    BY DEF FP!Earlier, Earlier, FP!Containers, Containers
  <1>5. FP!OnlyReached'
    BY <1>1, <1>2, <1>3, <1>4, FP!ReachedNext, ConstantsAssumption, NamesOfOnePod
       DEF FP!NoPod, NoPod, FP!Containers, Containers, FP!diagnosisName, diagnosisName
  <1>6. FP!OnlyReached' <=> OnlyReached'
    BY DEF FP!OnlyReached, OnlyReached, FP!PodsReached, PodsReached, FP!HasReached, HasReached,
           FP!diagnosisName, diagnosisName
  <1> QED
    BY <1>5, <1>6

\* So does what any state of a pod has been through, if the state is not
\* before the former leader's snapshot of that pod.
LEMMA FormerReachedStep ==
  ASSUME SharedTyped, CallTyped(former, formerDiags, formerTimers), F!WorkerStep \/ F!WriteFails,
         WriterOf(former, formerDiags, diags), NEW p \in PodNames, NEW x \in Pod, x.uid >= 1,
         PodsReached(p, x), former.pc # "idle" /\ former.key = p => Earlier(former.pod, x)
  PROVE  PodsReached(p, x)'
  <1>1. FP!TypeOK /\ FP!WriterInv /\ [FP!Next]_FP!vars
    BY FormerTypedFP, FormerWriterFP, SameStep DEF FP!Next
  <1>2. FP!TypeOK'
    BY FormerStep, FormerTypedFP, PTL
  <1>3. FP!PodsReached(p, x) <=> PodsReached(p, x)
    BY DEF FP!PodsReached, PodsReached, FP!HasReached, HasReached, FP!diagnosisName, diagnosisName
  <1>4. former.pc # "idle" /\ former.key = p => FP!Earlier(former.pod, x)
    BY DEF FP!Earlier, Earlier, FP!Containers, Containers
  <1>5. x \in FP!Pod
    BY DEF FP!Pod, Pod, FP!Containers, Containers
  <1>6. FP!PodsReached(p, x)'
    BY <1>1, <1>2, <1>3, <1>4, <1>5, FP!ReachedStep, ConstantsAssumption, NamesOfOnePod
       DEF FP!NoPod, NoPod, FP!Containers, Containers, FP!diagnosisName, diagnosisName
  <1>7. FP!PodsReached(p, x)' <=> PodsReached(p, x)'
    BY DEF FP!PodsReached, PodsReached, FP!HasReached, HasReached, FP!diagnosisName, diagnosisName
  <1> QED
    BY <1>6, <1>7

-----------------------------------------------------------------------------
(* What a write does to the copies that others hold.                       *)

LEMMA CallKey ==
  ASSUME NEW call, NEW copies, NEW timers, CallTyped(call, copies, timers), call.pc # "idle"
  PROVE  KeyOf(call) \in DiagNames /\ call.diagObj \in Diag
  BY ContainerFacts DEF CallTyped, KeyOf, ContainerOf, Worker

LEMMA HeldFacts ==
  ASSUME NEW n \in DiagNames, NEW d \in Diag
  PROVE  /\ Held(n, d) \in Diag
         /\ Held(n, d).pod = d.pod /\ Held(n, d).uid = d.uid /\ Held(n, d).status = d.status
         /\ Held(n, d).rv = 0 <=> d.rv = 0
         /\ d.rv = 0 \/ diags'[n] = diags[n] => Held(n, d) = d
         /\ diags'[n] # diags[n] /\ d.rv # 0 => Held(n, d).rv # diags'[n].rv
  <1> DEFINE v == CHOOSE v \in Versions : v # diags'[n].rv
  <1>1. \E w \in Versions : w # diags'[n].rv
    BY DEF Versions
  <1>2. v \in Versions /\ v # diags'[n].rv
    BY <1>1
  <1>3. CASE diags'[n] # diags[n] /\ d.rv # 0 /\ d.rv = diags'[n].rv
    <2>1. Held(n, d) = [d EXCEPT !.rv = v]
      BY <1>3 DEF Held
    <2> QED
      BY <1>2, <1>3, <2>1 DEF Diag, Versions
  <1>4. CASE ~(diags'[n] # diags[n] /\ d.rv # 0 /\ d.rv = diags'[n].rv)
    <2>1. Held(n, d) = d
      BY <1>4 DEF Held
    <2> QED
      BY <1>4, <2>1
  <1> QED
    BY <1>3, <1>4

LEMMA HeldCopiesFacts ==
  ASSUME NEW copies \in [DiagNames -> Diag], FaithfulTo(copies, diags), StoredWell(diags')
  PROVE  FaithfulTo(HeldCopies(copies), diags')
  <1> SUFFICES ASSUME NEW n \in DiagNames
               PROVE  /\ Exists(HeldCopies(copies)[n]) => HeldCopies(copies)[n].rv # 0
                      /\ Exists(diags'[n]) /\ HeldCopies(copies)[n].rv = diags'[n].rv
                           => HeldCopies(copies)[n] = diags'[n]
    BY DEF FaithfulTo
  <1>1. HeldCopies(copies)[n] = Held(n, copies[n]) /\ copies[n] \in Diag
    BY DEF HeldCopies
  <1>2. /\ Exists(copies[n]) => copies[n].rv # 0
        /\ Exists(diags[n]) /\ copies[n].rv = diags[n].rv => copies[n] = diags[n]
        /\ Exists(diags'[n]) => diags'[n].rv # 0
    BY DEF FaithfulTo, StoredWell
  <1> QED
    BY <1>1, <1>2, HeldFacts DEF Exists

LEMMA HeldCallFacts ==
  ASSUME NEW call, NEW copies, NEW timers, CallTyped(call, copies, timers)
  PROVE  /\ CallTyped(HeldCall(call), HeldCopies(copies), timers)
         /\ HeldCall(call).pc = call.pc /\ HeldCall(call).key = call.key
         /\ HeldCall(call).pod = call.pod /\ KeyOf(HeldCall(call)) = KeyOf(call)
         /\ CountOf(HeldCall(call)) = CountOf(call)
         /\ call.pc = "idle" => HeldCall(call) = call
         /\ call.pc # "idle" => HeldCall(call).diagObj = Held(KeyOf(call), call.diagObj)
  <1>1. HeldCopies(copies) \in [DiagNames -> Diag]
    BY HeldFacts DEF HeldCopies, CallTyped
  <1>2. CASE call.pc = "idle"
    BY <1>1, <1>2 DEF HeldCall, CallTyped
  <1>3. CASE call.pc # "idle"
    <2> DEFINE d == Held(KeyOf(call), call.diagObj)
    <2>1. HeldCall(call) = [call EXCEPT !.diagObj = d]
      BY <1>3 DEF HeldCall, KeyOf, ContainerOf
    <2>2. d \in Diag /\ call \in Worker
      BY <1>3, CallKey, HeldFacts DEF CallTyped
    <2>3. /\ HeldCall(call) \in Worker /\ HeldCall(call).diagObj = d
          /\ HeldCall(call).pc = call.pc /\ HeldCall(call).key = call.key
          /\ HeldCall(call).pod = call.pod /\ HeldCall(call).at = call.at
      BY <2>1, <2>2 DEF Worker
    <2> QED
      BY <1>1, <1>3, <2>3 DEF CallTyped, KeyOf, CountOf, ContainerOf
  <1> QED
    BY <1>2, <1>3

\* A call keeps what its writes need when another call writes.
LEMMA HeldWriter ==
  ASSUME NEW call, NEW copies, NEW timers, CallTyped(call, copies, timers),
         WriterOf(call, copies, diags), StoredWell(diags')
  PROVE  WriterOf(HeldCall(call), HeldCopies(copies), diags')
  <1>1. FaithfulTo(HeldCopies(copies), diags')
    BY HeldCopiesFacts DEF CallTyped, WriterOf
  <1>2. CASE call.pc = "idle"
    BY <1>1, <1>2, HeldCallFacts DEF WriterOf, HoldsOf
  <1>3. CASE call.pc # "idle"
    <2> DEFINE k    == KeyOf(call)
               mine == Held(k, call.diagObj)
    <2>1. /\ HeldCall(call).pc = call.pc /\ HeldCall(call).key = call.key
          /\ HeldCall(call).pod = call.pod /\ KeyOf(HeldCall(call)) = k
          /\ CountOf(HeldCall(call)) = CountOf(call) /\ HeldCall(call).diagObj = mine
      BY <1>3, HeldCallFacts
    <2>2. /\ k \in DiagNames
          /\ mine.pod = call.diagObj.pod /\ mine.uid = call.diagObj.uid
          /\ mine.status = call.diagObj.status
          /\ mine.rv = 0 <=> call.diagObj.rv = 0
          /\ call.diagObj.rv = 0 \/ diags'[k] = diags[k] => mine = call.diagObj
          /\ diags'[k] # diags[k] /\ call.diagObj.rv # 0 => mine.rv # diags'[k].rv
      BY <1>3, CallKey, HeldFacts
    <2>3. HoldsOf(call, call.diagObj, diags[k]) /\ (call.pc # "idle" => call.pod.uid >= 1)
      BY DEF WriterOf
    <2>4. HoldsOf(call, mine, diags'[k])
      <3>1. CASE diags'[k] = diags[k]
        BY <2>2, <2>3, <3>1
      <3>2. CASE call.diagObj.rv = 0
        BY <2>2, <2>3, <3>2 DEF HoldsOf
      <3>3. CASE diags'[k] # diags[k] /\ call.diagObj.rv # 0
        <4>1. ~Taken(mine, diags'[k])
          BY <2>2, <3>3 DEF Taken
        <4> QED
          BY <2>2, <2>3, <3>3, <4>1 DEF HoldsOf
      <3> QED
        BY <3>1, <3>2, <3>3
    <2>5. HoldsOf(HeldCall(call), mine, diags'[k])
      BY <2>1, <2>4 DEF HoldsOf
    <2> QED
      BY <1>1, <2>1, <2>3, <2>5 DEF WriterOf
  <1> QED
    BY <1>2, <1>3

-----------------------------------------------------------------------------
(* Type correctness.                                                       *)

LEMMA HandoverTyped ==
  HandoverTypeOK <=>
    /\ SharedTyped
    /\ CallTyped(worker, diagCache, delayed)
    /\ CallTyped(former, formerDiags, formerTimers)
  BY LeaderTyped, FormerTyped DEF HandoverTypeOK

LEMMA EmptyTypes ==
  NoDiags \in [DiagNames -> Diag] /\ CallTyped(Idle, NoDiags, {})
  BY NoDiagType, IdleType DEF NoDiags, CallTyped, Idle

\* What a step of the leader does to a call that is left over.
OthersHold ==
  /\ former' = HeldCall(former)
  /\ formerDiags' = HeldCopies(formerDiags)
  /\ formerTimers' = formerTimers

FormerSees == \E n \in DiagNames : FormerSyncs(n)

LEMMA LeaderSteps ==
  ASSUME HandoverNext
  PROVE  \/ World
         \/ (Next /\ OthersHold)
         \/ FormerGoesOn \/ FormerSees \/ FormerExits \/ TakeOver
  BY DEF HandoverNext, Lead, OthersHold, Next, FormerSees

LEMMA HandoverTypeInit == HandoverInit => HandoverTypeOK
  <1> SUFFICES ASSUME HandoverInit PROVE HandoverTypeOK
    OBVIOUS
  <1>1. TypeOK
    BY TypeInit DEF HandoverInit
  <1>2. CallTyped(former, formerDiags, formerTimers)
    BY EmptyTypes DEF HandoverInit
  <1> QED
    BY <1>1, <1>2, LeaderTyped, HandoverTyped

LEMMA HandoverTypeNext == HandoverTypeOK /\ [HandoverNext]_allVars => HandoverTypeOK'
  <1> SUFFICES ASSUME HandoverTypeOK, [HandoverNext]_allVars
               PROVE  /\ SharedTyped'
                      /\ CallTyped(worker, diagCache, delayed)'
                      /\ CallTyped(former, formerDiags, formerTimers)'
    BY HandoverTyped, PTL
  <1>0. /\ TypeOK /\ SharedTyped
        /\ CallTyped(worker, diagCache, delayed) /\ CallTyped(former, formerDiags, formerTimers)
    BY HandoverTyped, LeaderTyped
  <1>typed. TypeOK' => SharedTyped' /\ CallTyped(worker, diagCache, delayed)'
    BY LeaderTyped, PTL
  <1>1. CASE World
    <2>1. TypeOK'
      BY <1>0, <1>1, TypeNext DEF World, Next
    <2> QED
      BY <1>0, <1>1, <1>typed, <2>1 DEF World, previous, CallTyped
  <1>2. CASE Next /\ OthersHold
    <2>1. TypeOK'
      BY <1>0, <1>2, TypeNext
    <2>2. CallTyped(HeldCall(former), HeldCopies(formerDiags), formerTimers)
      BY <1>0, HeldCallFacts
    <2>3. CallTyped(former, formerDiags, formerTimers)'
      BY <1>2, <2>2 DEF OthersHold, CallTyped
    <2> QED
      BY <1>typed, <2>1, <2>3
  <1>3. CASE FormerGoesOn
    <2>1. SharedTyped' /\ CallTyped(former, formerDiags, formerTimers)'
      BY <1>0, <1>3, FormerStep DEF FormerGoesOn
    <2>2. CallTyped(HeldCall(worker), HeldCopies(diagCache), delayed)
      BY <1>0, HeldCallFacts
    <2>3. CallTyped(worker, diagCache, delayed)'
      BY <1>3, <2>2 DEF FormerGoesOn, CallTyped
    <2> QED
      BY <2>1, <2>3
  <1>4. CASE FormerSees
    <2>1. formerDiags' \in [DiagNames -> Diag]
      BY <1>0, <1>4 DEF FormerSees, FormerSyncs, SharedTyped, CallTyped
    <2> QED
      BY <1>0, <1>4, <2>1 DEF FormerSees, FormerSyncs, vars, SharedTyped, CallTyped
  <1>5. CASE FormerExits
    <2>1. CallTyped(former, formerDiags, formerTimers)'
      BY <1>5, EmptyTypes DEF FormerExits, CallTyped
    <2> QED
      BY <1>0, <1>5, <2>1 DEF FormerExits, vars, SharedTyped, CallTyped
  <1>6. CASE TakeOver
    <2>1. CallTyped(worker, IF worker = Idle THEN NoDiags ELSE diagCache, {})
      BY <1>0, EmptyTypes DEF CallTyped
    <2>2. CallTyped(former, formerDiags, formerTimers)'
      BY <1>6, <2>1 DEF TakeOver, CallTyped
    <2>3. CallTyped(worker, diagCache, delayed)'
      BY <1>0, <1>6, EmptyTypes DEF TakeOver, CallTyped, SharedTyped
    <2>4. SharedTyped'
      BY <1>0, <1>6 DEF TakeOver, SharedTyped, Handed, Listed
    <2> QED
      BY <2>2, <2>3, <2>4
  <1>7. CASE UNCHANGED allVars
    BY <1>0, <1>7 DEF allVars, vars, previous, SharedTyped, CallTyped
  <1> QED
    BY <1>1, <1>2, <1>3, <1>4, <1>5, <1>6, <1>7, LeaderSteps

\* The state of both replicas always has its type, whoever leads and however
\* the calls of the two overlap.
THEOREM HandoverTypeCorrect == HandoverSpec => []HandoverTypeOK
  BY HandoverTypeInit, HandoverTypeNext, PTL DEF HandoverSpec

-----------------------------------------------------------------------------
(* No failing pod is forgotten.                                            *)

LEMMA HandoverForgottenNext ==
  HandoverTypeOK /\ NeverForgotten /\ [HandoverNext]_allVars => NeverForgotten'
  <1> SUFFICES ASSUME HandoverTypeOK, NeverForgotten, [HandoverNext]_allVars PROVE NeverForgotten'
    OBVIOUS
  <1>0. /\ TypeOK /\ SharedTyped
        /\ CallTyped(worker, diagCache, delayed) /\ CallTyped(former, formerDiags, formerTimers)
    BY HandoverTyped, LeaderTyped
  <1>1. CASE World \/ (Next /\ OthersHold)
    BY <1>0, <1>1, ForgottenNext DEF World, Next
  <1>2. CASE FormerGoesOn
    <2>1. podCache' = podCache /\ queue' = queue
      BY <1>0, <1>2, FormerStep DEF FormerGoesOn
    <2>2. delayed' = delayed /\ worker'.key = worker.key
      BY <1>0, <1>2, HeldCallFacts DEF FormerGoesOn
    <2> QED
      BY <2>1, <2>2 DEF NeverForgotten, failingPodPredicate, NextFailing
  <1>3. CASE FormerSees \/ FormerExits \/ UNCHANGED allVars
    BY <1>3 DEF FormerSees, FormerSyncs, FormerExits, allVars, vars, NeverForgotten, failingPodPredicate, NextFailing
  <1>4. CASE TakeOver
    BY <1>4 DEF TakeOver, Handed, Listed, NeverForgotten, failingPodPredicate, NextFailing
  <1> QED
    BY <1>1, <1>2, <1>3, <1>4, LeaderSteps

\* The replica that leads has a wake-up pending for every pod that it sees
\* failing, also when it has just taken over.
THEOREM NothingIsForgottenInHandover == HandoverSpec => []NeverForgotten
  <1>1. HandoverInit => NeverForgotten
    BY ForgottenInit DEF HandoverInit
  <1> QED
    BY <1>1, HandoverTypeInit, HandoverTypeNext, HandoverForgottenNext, PTL DEF HandoverSpec

-----------------------------------------------------------------------------
(* The inductive invariant.                                                *)

\* The snapshot of the former leader is not after those of the leader.
FormerBefore ==
  former.pc # "idle" =>
    /\ Earlier(former.pod, podCache[former.key])
    /\ worker.pc # "idle" /\ worker.key = former.key => Earlier(former.pod, worker.pod)

LEMMA HandoverParts ==
  HandoverInv <=>
    /\ CopiesAreEarlier
    /\ WriterOf(worker, diagCache, diags)
    /\ WriterOf(former, formerDiags, diags)
    /\ FormerBefore
    /\ LeaderHasSeen
  BY LeaderWriter, FormerWriter
     DEF HandoverInv, NoLostUpdate, CopiesAreEarlier, WriterInv, FormerIsEarlier, FormerBefore

\* Empty copies are copies of anything.
LEMMA NothingHeld ==
  ASSUME NEW stored, StoredWell(stored)
  PROVE  FaithfulTo(NoDiags, stored) /\ WriterOf(Idle, NoDiags, stored)
  <1>1. \A n \in DiagNames : NoDiags[n].rv = 0 /\ ~Exists(NoDiags[n])
    BY DEF NoDiags, NoDiag, Exists
  <1>2. FaithfulTo(NoDiags, stored)
    BY <1>1 DEF FaithfulTo, StoredWell
  <1> QED
    BY <1>2 DEF WriterOf, HoldsOf, Idle

LEMMA HandoverInvInit == HandoverInit => HandoverInv
  <1> SUFFICES ASSUME HandoverInit PROVE HandoverInv
    OBVIOUS
  <1>1. EpisodeInv /\ TypeOK
    BY EpisodeInit, TypeInit DEF HandoverInit
  <1>2. CopiesAreEarlier /\ WriterOf(worker, diagCache, diags)
    BY <1>1, EpisodeWriter, LeaderWriter DEF EpisodeInv
  <1>3. WriterOf(former, formerDiags, diags) /\ FormerBefore
    BY <1>2, NothingHeld DEF HandoverInit, WriterOf, FormerBefore, Idle
  <1>4. LeaderHasSeen
    BY <1>1, BehindIsReached, BusyContainer DEF EpisodeInv, DiagnosesAreBehind, LeaderHasSeen, TypeOK
  <1> QED
    BY <1>2, <1>3, <1>4, HandoverParts

\* The garbage collector takes no version from a copy that means it.
LEMMA CollectedWriter ==
  ASSUME NEW call, NEW copies, NEW timers, CallTyped(call, copies, timers), SharedTyped, Environment,
         WriterOf(call, copies, diags)
  PROVE  WriterOf(call, copies, diags')
  <1>1. \A n \in DiagNames : diags'[n] = diags[n] \/ diags'[n] = NoDiag
    BY DEF Environment, KubeletReportsFailure, KubeletReportsRunning, DeletePod, RemovePod, CreatePod,
           CollectGarbage, SharedTyped
  <1>2. NoDiag.rv = 0 /\ NoDiag.pod = NoPod /\ ~Exists(NoDiag)
    BY DEF NoDiag, Exists
  <1>3. FaithfulTo(copies, diags')
    BY <1>1, <1>2 DEF FaithfulTo, WriterOf
  <1>4. StoredWell(diags')
    BY <1>1, <1>2 DEF StoredWell, WriterOf
  <1>5. HoldsOf(call, call.diagObj, diags'[KeyOf(call)])
    <2>1. CASE call.pc = "idle"
      BY <2>1 DEF HoldsOf
    <2>2. CASE call.pc # "idle"
      <3>1. diags'[KeyOf(call)] = diags[KeyOf(call)] \/ diags'[KeyOf(call)] = NoDiag
        BY <1>1, <2>2, CallKey
      <3> QED
        BY <1>2, <3>1 DEF HoldsOf, Taken, WriterOf
    <2> QED
      BY <2>1, <2>2
  <1> QED
    BY <1>3, <1>4, <1>5 DEF WriterOf

\* The leader's copy of a pod only gets later, and the call in progress keeps
\* its snapshot or starts from the copy.
LEMMA ViewsMoveForward ==
  ASSUME TypeOK, TypeOK', CopiesAreEarlier, [Next]_vars
  PROVE  /\ \A p \in PodNames : Earlier(podCache[p], podCache'[p])
         /\ \/ worker'.pc = "idle"
            \/ /\ worker.pc # "idle"
               /\ worker'.pod = worker.pod /\ worker'.key = worker.key
            \/ /\ worker'.key \in PodNames
               /\ worker'.pod = podCache[worker'.key] /\ podCache' = podCache
  <1>1. \A p \in PodNames : Earlier(podCache[p], podCache'[p])
    BY StepsOfPodCache, EarlierReflexive DEF SyncPod, TypeOK, CopiesAreEarlier
  <1>2. \A p \in PodNames : Reconcile(p) => podCache' = podCache
    BY DEF Reconcile
  <1> QED
    BY <1>1, <1>2, StepsOfWorker DEF Idle

LEMMA SeenNext ==
  TypeOK /\ TypeOK' /\ CopiesAreEarlier /\ WriterInv /\ LeaderHasSeen /\ [Next]_vars => LeaderHasSeen'
  <1> SUFFICES ASSUME TypeOK, TypeOK', CopiesAreEarlier, WriterInv, LeaderHasSeen, [Next]_vars
               PROVE  LeaderHasSeen'
    OBVIOUS
  <1>1. ASSUME NEW p \in PodNames
        PROVE  PodsReached(p, podCache[p])'
    <2> DEFINE x == podCache'[p]
    <2>1. /\ podCache[p] \in Pod /\ x \in Pod /\ podCache[p].uid >= 1
          /\ PodsReached(p, podCache[p]) /\ Earlier(podCache[p], x)
      BY ViewsMoveForward DEF LeaderHasSeen, CopiesAreEarlier, TypeOK
    <2>2. PodsReached(p, x) /\ x.uid >= 1
      BY <2>1, PodsReachedLater DEF Earlier, Pod
    <2>3. worker.pc # "idle" /\ worker.key = p => Earlier(worker.pod, x)
      BY <2>1, BusyContainer, EarlierTransitive DEF CopiesAreEarlier
    <2>4. \A y \in Pod : y = x => PodsReached(p, y)'
      BY <2>1, <2>2, <2>3, ReachedStep
    <2> QED
      BY <2>1, <2>4
  <1>2. ASSUME worker'.pc # "idle" PROVE PodsReached(worker.key, worker.pod)'
    <2>1. CASE worker.pc # "idle" /\ worker'.pod = worker.pod /\ worker'.key = worker.key
      <3>1. /\ worker.key \in PodNames /\ worker.pod \in Pod /\ worker.pod.uid >= 1
            /\ PodsReached(worker.key, worker.pod)
        BY <2>1, BusyContainer DEF LeaderHasSeen, CopiesAreEarlier
      <3>2. \A q \in PodNames, y \in Pod : q = worker.key /\ y = worker.pod => PodsReached(q, y)'
        BY <3>1, ReachedStep, EarlierReflexive
      <3> QED
        BY <2>1, <3>1, <3>2
    <2>2. CASE worker'.key \in PodNames /\ worker'.pod = podCache[worker'.key] /\ podCache' = podCache
      BY <1>1, <2>2
    <2> QED
      BY <1>2, <2>1, <2>2, ViewsMoveForward
  <1> QED
    BY <1>1, <1>2 DEF LeaderHasSeen

\* What a step of the leader, or of the world around it, does to the two
\* relations between its snapshots and a call that is left over.
LEMMA BeforeNext ==
  ASSUME TypeOK, TypeOK', CopiesAreEarlier, [Next]_vars,
         CallTyped(former, formerDiags, formerTimers), FormerBefore, former.pc # "idle"
  PROVE  /\ Earlier(former.pod, podCache'[former.key])
         /\ worker'.pc # "idle" /\ worker'.key = former.key => Earlier(former.pod, worker'.pod)
  <1>1. /\ former.key \in PodNames /\ former.pod \in Pod
        /\ podCache[former.key] \in Pod /\ podCache'[former.key] \in Pod
        /\ Earlier(former.pod, podCache[former.key])
    BY DEF CallTyped, Worker, TypeOK, FormerBefore
  <1>2. Earlier(former.pod, podCache'[former.key])
    BY <1>1, ViewsMoveForward, EarlierTransitive
  <1>3. worker'.pc # "idle" /\ worker'.key = former.key => Earlier(former.pod, worker'.pod)
    BY <1>1, ViewsMoveForward DEF FormerBefore
  <1> QED
    BY <1>2, <1>3

LEMMA HandoverInvNext ==
  HandoverTypeOK /\ HandoverTypeOK' /\ HandoverInv /\ [HandoverNext]_allVars => HandoverInv'
  <1> SUFFICES ASSUME HandoverTypeOK, HandoverTypeOK', HandoverInv, [HandoverNext]_allVars
               PROVE  /\ CopiesAreEarlier'
                      /\ WriterOf(worker, diagCache, diags)'
                      /\ WriterOf(former, formerDiags, diags)'
                      /\ FormerBefore'
                      /\ LeaderHasSeen'
    BY HandoverParts, PTL
  <1>0. /\ TypeOK /\ SharedTyped
        /\ CallTyped(worker, diagCache, delayed) /\ CallTyped(former, formerDiags, formerTimers)
    BY HandoverTyped, LeaderTyped
  <1>1. TypeOK' /\ SharedTyped'
    BY HandoverTyped, LeaderTyped, PTL
  <1>2. /\ CopiesAreEarlier /\ FormerBefore /\ LeaderHasSeen /\ WriterInv
        /\ WriterOf(worker, diagCache, diags) /\ WriterOf(former, formerDiags, diags)
    BY HandoverParts, LeaderWriter
  <1>3. ASSUME [Next]_vars
        PROVE  /\ CopiesAreEarlier' /\ WriterOf(worker, diagCache, diags)' /\ LeaderHasSeen'
               /\ former.pc # "idle" =>
                    /\ Earlier(former.pod, podCache'[former.key])
                    /\ worker'.pc # "idle" /\ worker'.key = former.key => Earlier(former.pod, worker'.pod)
    <2>1. CopiesAreEarlier'
      BY <1>0, <1>1, <1>2, <1>3, CopiesNext
    <2>2. WriterInv'
      BY <1>0, <1>1, <1>2, <1>3, <2>1, WriterNext DEF CopiesAreEarlier
    <2>3. WriterOf(worker, diagCache, diags)'
      BY <2>2, LeaderWriter, PTL
    <2> QED
      BY <1>0, <1>1, <1>2, <1>3, <2>1, <2>3, SeenNext, BeforeNext
  <1>4. CASE World
    <2>1. Environment /\ [Next]_vars
      BY <1>4 DEF World, Next
    <2>2. WriterOf(former, formerDiags, diags)'
      BY <1>0, <1>2, <1>4, <2>1, CollectedWriter DEF World, previous, WriterOf
    <2> QED
      BY <1>3, <1>4, <2>1, <2>2 DEF World, previous, FormerBefore
  <1>5. CASE Next /\ OthersHold
    <2>1. StoredWell(diags')
      BY <1>3, <1>5 DEF WriterOf
    <2>2. WriterOf(HeldCall(former), HeldCopies(formerDiags), diags')
      BY <1>0, <1>2, <2>1, HeldWriter
    <2>3. FormerBefore'
      BY <1>0, <1>3, <1>5, HeldCallFacts DEF OthersHold, FormerBefore
    <2> QED
      BY <1>3, <1>5, <2>2, <2>3 DEF OthersHold, WriterOf
  <1>6. CASE FormerGoesOn
    <2>1. /\ WriterOf(former, formerDiags, diags)'
          /\ pods' = pods /\ podCache' = podCache
          /\ former'.pc # "idle" => former'.pod = former.pod /\ former'.key = former.key
          /\ former.pc # "idle"
      BY <1>0, <1>2, <1>6, FormerStep DEF FormerGoesOn
    <2>2. StoredWell(diags')
      BY <2>1 DEF WriterOf
    <2>3. WriterOf(HeldCall(worker), HeldCopies(diagCache), diags')
      BY <1>0, <1>2, <2>2, HeldWriter
    <2>4. worker'.pc = worker.pc /\ worker'.pod = worker.pod /\ worker'.key = worker.key
      BY <1>0, <1>6, HeldCallFacts DEF FormerGoesOn
    <2>5. CopiesAreEarlier' /\ FormerBefore'
      BY <1>2, <2>1, <2>4 DEF CopiesAreEarlier, FormerBefore
    <2>6. ASSUME NEW p \in PodNames, NEW x \in Pod, x.uid >= 1, PodsReached(p, x),
                 former.key = p => Earlier(former.pod, x)
          PROVE  PodsReached(p, x)'
      BY <1>0, <1>2, <1>6, <2>6, FormerReachedStep DEF FormerGoesOn
    <2>7. \A p \in PodNames, x \in Pod : p \in PodNames /\ x = podCache[p] => PodsReached(p, x)'
      BY <1>0, <1>2, <2>1, <2>6 DEF LeaderHasSeen, CopiesAreEarlier, FormerBefore
    <2>8. \A p \in PodNames, x \in Pod : worker.pc # "idle" /\ p = worker.key /\ x = worker.pod => PodsReached(p, x)'
      BY <1>0, <1>2, <2>1, <2>6 DEF LeaderHasSeen, CopiesAreEarlier, FormerBefore
    <2>9. LeaderHasSeen'
      <3>1. \A p \in PodNames : PodsReached(p, podCache[p])'
        BY <1>0, <2>1, <2>7 DEF SharedTyped
      <3>2. worker'.pc # "idle" => PodsReached(worker.key, worker.pod)'
        BY <1>0, <2>4, <2>8 DEF CallTyped, Worker
      <3> QED
        BY <3>1, <3>2 DEF LeaderHasSeen
    <2> QED
      BY <1>6, <2>1, <2>3, <2>5, <2>9 DEF FormerGoesOn, WriterOf
  <1>7. CASE FormerSees
    <2>1. FaithfulTo(formerDiags', diags)
      BY <1>0, <1>2, <1>7 DEF FormerSees, FormerSyncs, FaithfulTo, WriterOf, StoredWell, CallTyped
    <2> QED
      BY <1>2, <1>7, <2>1
         DEF FormerSees, FormerSyncs, vars, CopiesAreEarlier, FormerBefore, LeaderHasSeen, PodsReached, HasReached, WriterOf
  <1>8. CASE FormerExits
    BY <1>2, <1>8, NothingHeld
       DEF FormerExits, vars, CopiesAreEarlier, FormerBefore, LeaderHasSeen, PodsReached, HasReached, WriterOf, Idle
  <1>9. CASE TakeOver
    <2>1. \A p \in PodNames : /\ podCache[p] \in Pod /\ pods[p] \in Pod /\ podCache[p].uid >= 1
                              /\ Earlier(podCache[p], pods[p]) /\ pods[p].uid >= 1
      BY <1>0, <1>2 DEF CopiesAreEarlier, SharedTyped, Earlier, Pod
    <2>2. CopiesAreEarlier'
      BY <1>9, <2>1, EarlierReflexive DEF TakeOver, CopiesAreEarlier, Idle
    <2>3. WriterOf(Idle, diags, diags)
      BY <1>2 DEF WriterOf, HoldsOf, FaithfulTo, StoredWell, Idle
    <2>4. WriterOf(worker, IF worker = Idle THEN NoDiags ELSE diagCache, diags)
      BY <1>2, NothingHeld DEF WriterOf
    <2>5. FormerBefore'
      <3>1. worker.pc # "idle" => Earlier(worker.pod, pods[worker.key])
        BY <1>0, <1>2, <2>1, EarlierTransitive DEF CopiesAreEarlier, CallTyped, Worker
      <3> QED
        BY <1>9, <3>1 DEF TakeOver, FormerBefore, Idle
    <2>6. LeaderHasSeen'
      <3>1. \A p \in PodNames : PodsReached(p, pods[p])
        BY <1>0, <1>2, <2>1, PodsReachedLater DEF LeaderHasSeen
      <3> QED
        BY <1>9, <3>1 DEF TakeOver, LeaderHasSeen, PodsReached, HasReached, Idle
    <2> QED
      BY <1>9, <2>2, <2>3, <2>4, <2>5, <2>6 DEF TakeOver, WriterOf
  <1>10. CASE UNCHANGED allVars
    BY <1>2, <1>10
       DEF allVars, vars, previous, CopiesAreEarlier, FormerBefore, LeaderHasSeen, PodsReached, HasReached, WriterOf
  <1> QED
    BY <1>4, <1>5, <1>6, <1>7, <1>8, <1>9, <1>10, LeaderSteps

LEMMA HandoverInvariant == HandoverSpec => [](HandoverTypeOK /\ HandoverInv)
  BY HandoverTypeInit, HandoverTypeNext, HandoverInvInit, HandoverInvNext, PTL DEF HandoverSpec

\* Copies are past states of what they are copies of, a version number in any
\* copy, of whichever replica, still means the object it was read from, and the
\* leader's copies have been through all that is stored.
THEOREM HandoverInvCorrect == HandoverSpec => []HandoverInv
  BY HandoverInvariant, PTL

\* A write that the API server takes, of the leader or of a former one,
\* replaces the object that the writer decided on.
THEOREM NoUpdateIsLost == HandoverSpec => []NoLostUpdate
  <1>1. HandoverInv => NoLostUpdate
    BY DEF HandoverInv
  <1> QED
    BY <1>1, HandoverInvariant, PTL

-----------------------------------------------------------------------------
(* What is stored has happened.                                            *)

LEMMA HandoverReachedNext ==
  HandoverTypeOK /\ HandoverTypeOK' /\ HandoverInv /\ OnlyReached /\ [HandoverNext]_allVars
    => OnlyReached'
  <1> SUFFICES ASSUME HandoverTypeOK, HandoverTypeOK', HandoverInv, OnlyReached, [HandoverNext]_allVars
               PROVE  OnlyReached'
    OBVIOUS
  <1>1. /\ TypeOK /\ SharedTyped
        /\ CallTyped(worker, diagCache, delayed) /\ CallTyped(former, formerDiags, formerTimers)
    BY HandoverTyped, LeaderTyped
  <1>2. TypeOK'
    BY HandoverTyped, LeaderTyped, PTL
  <1>3. /\ CopiesAreEarlier /\ FormerBefore
        /\ WriterInv /\ WriterOf(former, formerDiags, diags)
    BY HandoverParts, LeaderWriter
  <1>4. \A p \in PodNames : pods[p].uid >= 1
    BY <1>1, <1>3 DEF CopiesAreEarlier, Earlier, SharedTyped, Pod
  <1>5. /\ worker.pc # "idle" => Earlier(worker.pod, pods[worker.key])
        /\ former.pc # "idle" => Earlier(former.pod, pods[former.key])
    BY <1>1, <1>3, EarlierTransitive DEF CopiesAreEarlier, FormerBefore, CallTyped, Worker, SharedTyped
  <1>6. CASE World \/ (Next /\ OthersHold)
    <2>1. [Next]_vars
      BY <1>6 DEF World, Next
    <2> QED
      BY <1>1, <1>2, <1>3, <1>4, <1>5, <2>1, ReachedNext
  <1>7. CASE FormerGoesOn
    BY <1>1, <1>3, <1>4, <1>5, <1>7, FormerReached DEF FormerGoesOn
  <1>8. CASE FormerSees \/ FormerExits \/ TakeOver \/ UNCHANGED allVars
    <2>1. diags' = diags /\ pods' = pods /\ announced' = announced
      BY <1>8 DEF FormerSees, FormerSyncs, FormerExits, TakeOver, allVars, vars
    <2> QED
      BY <2>1 DEF OnlyReached, PodsReached, HasReached
  <1> QED
    BY <1>6, <1>7, <1>8, LeaderSteps

\* However old the snapshot of the replica that writes last, what is stored
\* and what is announced has happened to the container that it names.
THEOREM OnlyReachedIsStored == HandoverSpec => []OnlyReached
  <1>1. HandoverInit => OnlyReached
    BY ContainerFacts, ConstantsAssumption DEF HandoverInit, Init, OnlyReached, PodsReached, NoDiag
  <1> QED
    BY <1>1, HandoverInvariant, HandoverReachedNext, PTL DEF HandoverSpec

-----------------------------------------------------------------------------
(* The leader only moves diagnoses forward.                                *)

LEMMA LeaderForwardStep ==
  HandoverTypeOK /\ HandoverInv /\ [HandoverNext]_allVars
    => FormerGoesOn \/ (StatusMovesForward /\ OwnerMovesForward)
  <1> SUFFICES ASSUME HandoverTypeOK, HandoverInv, [HandoverNext]_allVars, ~FormerGoesOn
               PROVE  StatusMovesForward /\ OwnerMovesForward
    OBVIOUS
  <1>1. TypeOK /\ WriterInv /\ LeaderHasSeen
    BY HandoverTyped, LeaderTyped, HandoverParts, LeaderWriter
  <1>2. CASE World \/ (Next /\ OthersHold)
    <2>1. [Next]_vars
      BY <1>2 DEF World, Next
    <2> QED
      BY <1>1, <2>1, ForwardStep DEF LeaderHasSeen
  <1>3. CASE FormerSees \/ FormerExits \/ TakeOver \/ UNCHANGED allVars
    <2>1. diags' = diags
      BY <1>3 DEF FormerSees, FormerSyncs, FormerExits, TakeOver, allVars, vars
    <2>2. \A n \in DiagNames : diags[n].uid \in Nat
      BY <1>1 DEF TypeOK, Diag
    <2> QED
      BY <2>1, <2>2 DEF StatusMovesForward, OwnerMovesForward
  <1> QED
    BY <1>2, <1>3, LeaderSteps

\* Whatever a former leader stored or stores meanwhile, the one that leads
\* only moves diagnoses to later episodes and later incarnations.
THEOREM LeadersMoveForward == HandoverSpec => LeaderAdvances
  <1>1. HandoverTypeOK /\ HandoverInv /\ [HandoverNext]_allVars
          => [FormerGoesOn \/ (StatusMovesForward /\ OwnerMovesForward)]_allVars
    BY LeaderForwardStep
  <1> QED
    BY <1>1, HandoverInvariant, PTL DEF HandoverSpec, LeaderAdvances

=============================================================================
