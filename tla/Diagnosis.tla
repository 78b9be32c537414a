------------------------------- MODULE Diagnosis -------------------------------
(***************************************************************************)
(* How one failing container is diagnosed: gatherEvidence, the four        *)
(* best-effort lookups of the controller, and the rules of                 *)
(* internal/diagnosis/rules.go.  The container status comes from the       *)
(* pod snapshot of the Reconcile call and is always there; a lookup may    *)
(* fail, and then its part of the evidence is as if there were none.       *)
(*                                                                         *)
(* Texts are abstracted to what they tell: a summary to the set of facts   *)
(* it mentions, a recommendation to the set of things it advises.          *)
(***************************************************************************)
EXTENDS Naturals, Sequences

CONSTANTS
  MaxEvents,   \* events kept as evidence (maxEvents in the code)
  ReadUnits,   \* log units read from the stream (maxBytes)
  KeepUnits,   \* log units kept (maxLen)
  MaxStream    \* bound: events of a pod, and units of a log

ASSUME SizesAssumption ==
  /\ MaxEvents \in Nat /\ ReadUnits \in Nat /\ KeepUnits \in Nat /\ MaxStream \in Nat

VARIABLES
  pc,       \* the lookup to do next, "diagnose" or "done"
  ev,       \* the evidence gathered so far
  stream,   \* what the log endpoint served: a ghost of the log lookup
  result    \* the diagnosis

vars == <<pc, ev, stream, result>>

-----------------------------------------------------------------------------
(******************************* Evidence **********************************)

\* Waiting reasons that trigger a diagnosis; ErrImagePull is treated like
\* ImagePullBackOff.
Waiting == {"CrashLoopBackOff", "ImagePullBackOff", "InvalidImageName"}

\* The last termination: its reason and its exit code.  "none" is a container
\* that has no last termination state, "StartError" stands for the three
\* reasons of a start that failed, "other" for Error, Completed and the rest;
\* exit code 1 stands for every code without a rule of its own.
Terminations ==
  {[reason |-> "none", code |-> 0], [reason |-> "OOMKilled", code |-> 137],
   [reason |-> "StartError", code |-> 128]}
  \cup [reason : {"other"}, code : {0, 1, 126, 127, 137, 139, 143}]

\* An event of the pod: a failed probe, or anything else.  A unit of a log:
\* one that mentions an out-of-memory condition, or a plain one.
Event == {"probe failed", "other"}
Unit  == {"oom", "plain"}

SeqUpTo(S, n) == UNION {[1..k -> S] : k \in 0..n}

Pressures == {"MemoryPressure", "DiskPressure"}

NoEvents  == <<>>
NoLog     == <<>>

\* The evidence when every lookup failed.
StatusAlone(waiting, term) ==
  [waiting |-> waiting, term |-> term, events |-> NoEvents, log |-> NoLog,
   rollout |-> FALSE, pressures |-> {}, notReady |-> FALSE]

\* recentEvents: the newest events first, at most MaxEvents of them.
recentEvents(events) == SubSeq(events, 1, IF Len(events) < MaxEvents THEN Len(events) ELSE MaxEvents)

\* logTail: at most ReadUnits are read from the beginning of the stream, fewer
\* when reading breaks off after n; the last KeepUnits of these are kept.
KeepAll(read) == read       \* mutant of LastUnits
LastUnits(read) ==
  SubSeq(read, IF Len(read) > KeepUnits THEN Len(read) - KeepUnits + 1 ELSE 1, Len(read))

logTail(log, n) ==
  LastUnits(SubSeq(log, 1, IF n < ReadUnits THEN n ELSE ReadUnits))

-----------------------------------------------------------------------------
(******************************** Rules ************************************)

Rank == [Low |-> 0, Medium |-> 1, High |-> 2]

Cause == {"ImagePullError", "BadCommand", "OOMKilled", "SegFault", "SignalKilled",
          "ApplicationError", "ProbeFailure", "RecentRollout", "Unknown"}

Result == [cause : Cause, confidence : DOMAIN Rank,
           tells : SUBSET {"rollout", "node", "notReady"},
           advises : SUBSET {"limits", "rollback", "node"}]

Primary(cause, confidence) ==
  [cause |-> cause, confidence |-> confidence, tells |-> {},
   advises |-> IF cause = "OOMKilled" THEN {"limits"} ELSE {}]

Mentions(log, unit) == \E i \in DOMAIN log : log[i] = unit

\* The exit code decides (`code` is not synthetic).
ByExitCode(code, log) ==
  CASE code = 137 -> Primary("OOMKilled", IF Mentions(log, "oom") THEN "High" ELSE "Medium")
    [] code = 139 -> Primary("SegFault", "High")
    [] code = 143 -> Primary("SignalKilled", "Medium")
    [] code \in {126, 127} -> Primary("BadCommand", "High")
    [] code = 0 -> Primary("Unknown", "Low")
    [] OTHER -> Primary("ApplicationError", "Medium")

\* Mutant of diagnosePrimary: the synthetic exit code of a container that did
\* not start is taken for a real one.
primaryByCode(e) ==
  IF e.waiting # "CrashLoopBackOff" THEN Primary("ImagePullError", "High")
  ELSE ByExitCode(e.term.code, e.log)

\* The first rule that matches, most specific signal first.  An empty
\* confidence is filled in as Low before anything reads it.
diagnosePrimary(e) ==
  CASE e.waiting # "CrashLoopBackOff" -> Primary("ImagePullError", "High")
    [] e.waiting = "CrashLoopBackOff" /\ e.term.reason = "none" -> Primary("Unknown", "Low")
    [] e.waiting = "CrashLoopBackOff" /\ e.term.reason = "OOMKilled" -> Primary("OOMKilled", "High")
    [] e.waiting = "CrashLoopBackOff" /\ e.term.reason = "StartError" -> Primary("BadCommand", "High")
    [] OTHER -> ByExitCode(e.term.code, e.log)

\* A recent rollout is the cause when there is no other, or goes with it.
WithRollout(e, res) ==
  IF ~e.rollout THEN res
  ELSE IF res.cause = "Unknown"
       THEN [Primary("RecentRollout", "Medium") EXCEPT !.tells = {"rollout"}, !.advises = {"rollback"}]
       ELSE [res EXCEPT !.tells = @ \cup {"rollout"}, !.advises = @ \cup {"rollback"}]

probeFailing(events) == Mentions(events, "probe failed")

\* Mutants of WithProbe: a failed probe explains every death; or never one
\* that left no trace.
ProbeExplainsAll(e, res) == IF probeFailing(e.events) THEN Primary("ProbeFailure", "High") ELSE res
ProbeExplainsKills(e, res) ==
  IF probeFailing(e.events) /\ res.cause \in {"SignalKilled", "ApplicationError"}
  THEN Primary("ProbeFailure", "High")
  ELSE res

\* A failed probe replaces the result of a death without a cause of its own.
WithProbe(e, res) ==
  IF probeFailing(e.events) /\ res.cause \in {"SignalKilled", "ApplicationError", "Unknown"}
  THEN Primary("ProbeFailure", "High")
  ELSE res

\* Mutants of Downgraded: left out; with the test of the events inverted.
NoDowngrade(e, res) == res
DowngradedByEvents(e, res) ==
  IF e.events # NoEvents /\ e.log = NoLog /\ ~e.rollout /\ res.confidence = "Medium"
  THEN [res EXCEPT !.confidence = "Low"]
  ELSE res

\* Medium needs something to back it.
Downgraded(e, res) ==
  IF e.events = NoEvents /\ e.log = NoLog /\ ~e.rollout /\ res.confidence = "Medium"
  THEN [res EXCEPT !.confidence = "Low"]
  ELSE res

\* Node conditions are added last; memory pressure confirms an OOM kill.
WithNode(e, res) ==
  LET confirmed == res.cause = "OOMKilled" /\ "MemoryPressure" \in e.pressures IN
  [res EXCEPT !.tells = @ \cup (IF e.pressures # {} THEN {"node"} ELSE {})
                          \cup (IF e.notReady THEN {"notReady"} ELSE {}),
              !.confidence = IF confirmed THEN "High" ELSE @,
              !.advises = IF confirmed THEN @ \cup {"node"} ELSE @]

\* Diagnose (rules.go).
DiagnoseOf(e) ==
  WithNode(e, Downgraded(e, WithProbe(e, WithRollout(e, diagnosePrimary(e)))))

-----------------------------------------------------------------------------
(************************ Gathering the evidence ***************************)

Init ==
  /\ pc = "events"
  /\ \E w \in Waiting, t \in Terminations : ev = StatusAlone(w, t)
  /\ stream = NoLog
  /\ result = Primary("Unknown", "Low")

\* The event search: what it finds, or nothing when it fails.
SearchEvents ==
  /\ pc = "events"
  /\ pc' = "log"
  /\ \E events \in SeqUpTo(Event, MaxStream) :
       ev' = [ev EXCEPT !.events = recentEvents(events)]
  /\ UNCHANGED <<stream, result>>

\* The previous log: refused (n = 0), or broken off after n units.
FetchLog ==
  /\ pc = "log"
  /\ pc' = "rollout"
  /\ \E log \in SeqUpTo(Unit, MaxStream) : \E n \in 0..Len(log) :
       /\ stream' = SubSeq(log, 1, n)
       /\ ev' = [ev EXCEPT !.log = logTail(log, n)]
  /\ UNCHANGED result

\* The ReplicaSet or ControllerRevision is young, or old, or not found.
LookUpRollout ==
  /\ pc = "rollout"
  /\ pc' = "node"
  /\ \E recent \in BOOLEAN : ev' = [ev EXCEPT !.rollout = recent]
  /\ UNCHANGED <<stream, result>>

\* The node's conditions; none when the pod has no node or it is not found.
LookUpNode ==
  /\ pc = "node"
  /\ pc' = "diagnose"
  /\ \E pressures \in SUBSET Pressures, notReady \in BOOLEAN :
       ev' = [ev EXCEPT !.pressures = pressures, !.notReady = notReady]
  /\ UNCHANGED <<stream, result>>

Diagnose ==
  /\ pc = "diagnose"
  /\ pc' = "done"
  /\ result' = DiagnoseOf(ev)
  /\ UNCHANGED <<ev, stream>>

Next == SearchEvents \/ FetchLog \/ LookUpRollout \/ LookUpNode \/ Diagnose

Spec == Init /\ [][Next]_vars

-----------------------------------------------------------------------------
(****************************** Properties *********************************)

Evidence == [waiting : Waiting, term : Terminations, events : SeqUpTo(Event, MaxEvents),
             log : SeqUpTo(Unit, KeepUnits), rollout : BOOLEAN,
             pressures : SUBSET Pressures, notReady : BOOLEAN]

\* Types; the evidence stays within the sizes that keep the object small.
TypeOK ==
  /\ pc \in {"events", "log", "rollout", "node", "diagnose", "done"}
  /\ ev \in Evidence
  /\ stream \in SeqUpTo(Unit, MaxStream)
  /\ result \in Result

Bare(e) == StatusAlone(e.waiting, e.term)

\* Whatever the lookups return, they change the root cause only of a death
\* that the container status leaves open, and only to a failed probe or to
\* the rollout (rules.go:61-85).
StatusDecides ==
  LET bare == DiagnoseOf(Bare(ev)) IN
  pc = "done" /\ result.cause # bare.cause =>
    /\ bare.cause \in {"Unknown", "SignalKilled", "ApplicationError"}
    /\ result.cause \in {"ProbeFailure", "RecentRollout"}

\* The evidence e if one lookup had failed.
Without(e) ==
  {[e EXCEPT !.events = NoEvents], [e EXCEPT !.log = NoLog],
   [e EXCEPT !.pressures = {}, !.notReady = FALSE]}

\* A failed lookup never makes the diagnosis more confident: not the events,
\* the log or the node (rules.go:78-107).
LosingALookup ==
  pc = "done" => \A e \in Without(ev) : Rank[DiagnoseOf(e).confidence] <= Rank[result.confidence]

Corroborated(e) == e.events # NoEvents \/ e.log # NoLog \/ e.rollout

\* Medium is backed by some evidence, and a cause that has some evidence is
\* not Low: the downgrade reads the final result (rules.go:91-96).
ConfidenceIsBacked ==
  pc = "done" =>
    /\ result.confidence = "Medium" => Corroborated(ev)
    /\ result.confidence = "Low" /\ result.cause # "Unknown" => ~Corroborated(ev)

\* Unknown is the answer only when nothing matches: no exit code, no failed
\* probe and no rollout (rules.go:61-110, 141-143, 205-206).
UnknownMeansNothing ==
  pc = "done" /\ result.cause = "Unknown" =>
    ev.term.code = 0 /\ ~ev.rollout /\ ~probeFailing(ev.events)

\* A container that never ran is a bad command or a bad image, whatever its
\* events say and whatever code was made up for it (rules.go:154-165).
StartErrorIsBadCommand ==
  pc = "done" /\ ev.term.reason = "StartError" => result.cause \in {"BadCommand", "ImagePullError"}

\* The claim of controller.go:358-359: "the tail of the crashed container's
\* previous run".
LogExcerptIsTail ==
  \E k \in 1..(Len(stream) + 1) : ev.log = SubSeq(stream, k, Len(stream))

=============================================================================
