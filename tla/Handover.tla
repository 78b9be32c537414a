-------------------------------- MODULE Handover --------------------------------
(***************************************************************************)
(* Two replicas of the operator and a lease (cmd/main.go).  The informers  *)
(* of a controller start when its replica is elected: a standby holds no   *)
(* copies, and the replica that gets the lease lists what is stored.       *)
(*                                                                         *)
(* A leader that stops in good order waits for its calls before it gives   *)
(* the lease back.  One that could not renew its lease, or that was given  *)
(* up on, may still be in the middle of a call of Reconcile, or have its   *)
(* last write on the way, when the next one starts.                        *)
(*                                                                         *)
(* The variables of Reconciler are those of the leader.  The call of the   *)
(* former leader is an instance of Reconciler over the same API server.    *)
(***************************************************************************)
EXTENDS Reconciler

VARIABLES
  former,        \* the call that a former leader has in progress
  formerDiags,   \* its informer copy, and the timers of its process
  formerTimers

previous == <<former, formerDiags, formerTimers>>

F == INSTANCE Reconciler WITH worker <- former, diagCache <- formerDiags,
                              delayed <- formerTimers

NoDiags == [n \in DiagNames |-> NoDiag]

allVars == <<vars, previous>>

HandoverInit ==
  /\ Init
  /\ former = Idle
  /\ formerDiags = NoDiags
  /\ formerTimers = {}

-----------------------------------------------------------------------------

\* A copy of object n that somebody else holds while it is written.  A version
\* stands for a number that grows for ever, Reconciler takes the next one from
\* a few: a copy that was stale before keeps a number other than the new one.
Held(n, d) ==
  IF diags'[n] # diags[n] /\ d.rv # 0 /\ d.rv = diags'[n].rv
  THEN [d EXCEPT !.rv = CHOOSE v \in Versions : v # diags'[n].rv]
  ELSE d

HeldCopies(copies) == [n \in DiagNames |-> Held(n, copies[n])]

HeldCall(call) ==
  IF call.pc = "idle" THEN call
  ELSE [call EXCEPT !.diagObj = Held(diagnosisName(call.key, ContainersOf[call.key][call.at]), @)]

\* A step of the leader, which is Reconciler.
Lead(step) ==
  /\ step
  /\ former' = HeldCall(former)
  /\ formerDiags' = HeldCopies(formerDiags)
  /\ UNCHANGED formerTimers

\* The call of the former leader goes on.
FormerGoesOn ==
  /\ F!WorkerStep \/ F!WriteFails
  /\ worker' = HeldCall(worker)
  /\ diagCache' = HeldCopies(diagCache)
  /\ UNCHANGED delayed

\* A watch event reaches the former leader while its call goes on.
FormerSyncs(n) ==
  /\ former # Idle
  /\ formerDiags[n] # diags[n]
  /\ formerDiags' = [formerDiags EXCEPT ![n] = diags[n]]
  /\ UNCHANGED <<vars, former, formerTimers>>

\* The process of the former leader exits, also before its call is done.
FormerExits ==
  /\ former # Idle \/ formerTimers # {}
  /\ former' = Idle
  /\ formerDiags' = NoDiags
  /\ formerTimers' = {}
  /\ UNCHANGED vars

World == Environment /\ UNCHANGED previous

\* Mutant of Handed: the new leader's queue is empty.
NothingHanded == {}

\* What the controllers of the new leader find in their queue: the objects of
\* the first lists of its informers.
Handed == Listed(pods, diags)

\* Another replica gets the lease, lists what is stored, and starts.  (If one
\* list is later than the other, this is the earlier one, and SyncPod or
\* SyncDiag follow.)  Bound: one former call at a time.
TakeOver ==
  /\ faults < MaxFaults
  /\ former = Idle
  /\ faults' = faults + 1
  /\ former' = worker
  /\ formerDiags' = IF worker = Idle THEN NoDiags ELSE diagCache
  /\ formerTimers' = {}
  /\ podCache' = pods
  /\ diagCache' = diags
  /\ worker' = Idle
  /\ delayed' = {}
  /\ queue' = Handed
  /\ UNCHANGED <<pods, diags, announced>>

HandoverNext ==
  \/ World
  \/ Lead(Informers)
  \/ \E p \in PodNames : Lead(Reconcile(p))
  \/ Lead(WorkerStep)
  \/ Lead(WriteFails)
  \/ Lead(Restart)
  \/ FormerGoesOn
  \/ FormerExits
  \/ \E n \in DiagNames : FormerSyncs(n)
  \/ TakeOver

HandoverSpec == HandoverInit /\ [][HandoverNext]_allVars

\* As in Reconciler, for the leader.  Nothing is assumed of a former one.
HandoverFairness ==
  /\ \A p \in PodNames :
       /\ WF_allVars(Lead(SyncPod(p)))
       /\ WF_allVars(Lead(TimerFires(p)))
       /\ SF_allVars(Lead(Reconcile(p)))
  /\ \A n \in DiagNames :
       /\ WF_allVars(Lead(SyncDiag(n)))
       /\ WF_allVars(CollectGarbage(n) /\ UNCHANGED previous)
  /\ WF_allVars(Lead(WorkerStep))

FairHandoverSpec == HandoverSpec /\ HandoverFairness

-----------------------------------------------------------------------------
(****************************** Properties *********************************)

\* Types, of both replicas.
HandoverTypeOK == TypeOK /\ F!TypeOK

\* Neither the leader nor a former leader writes over what the other stored:
\* if the API server takes the write, the stored object is still the one that
\* the writer decided on (lines 186-191 and 222-224).
NoLostUpdate == VersionsAreFaithful /\ F!VersionsAreFaithful /\ WorkerHolds /\ F!WorkerHolds

\* The replica that leads never moves a diagnosis backwards, whatever a former
\* one stored before or stores meanwhile, although both compare counts with =
\* (lines 157-161, 186-227).  Only the call that a former leader has left over
\* can: its snapshot may be older than what the new leader stored.
LeaderAdvances ==
  [][FormerGoesOn \/ (StatusMovesForward /\ OwnerMovesForward)]_allVars

-----------------------------------------------------------------------------
(***************************************************************************)
(* The inductive invariant behind NoLostUpdate, LeaderAdvances and         *)
(* OnlyReached.  In place of DiagnosesAreBehind, which a call left over    *)
(* breaks, it says that the leader's view of the pods has reached all that *)
(* is stored: its lists are later than the snapshot of the former leader.  *)
(***************************************************************************)

FormerIsEarlier ==
  former.pc # "idle" =>
    /\ former.pod.uid >= 1
    /\ Earlier(former.pod, podCache[former.key])
    /\ worker.pc # "idle" /\ worker.key = former.key => Earlier(former.pod, worker.pod)

LeaderHasSeen ==
  /\ \A p \in PodNames : PodsReached(p, podCache[p])
  /\ worker.pc # "idle" => PodsReached(worker.key, worker.pod)

HandoverInv == CopiesAreEarlier /\ FormerIsEarlier /\ NoLostUpdate /\ LeaderHasSeen

=============================================================================
