---------------------------- MODULE DiagnosisProofs ----------------------------
(***************************************************************************)
(* Theorems about Diagnosis, for any sizes of the evidence.                *)
(***************************************************************************)
EXTENDS Diagnosis, SequenceTheorems, TLAPS

-----------------------------------------------------------------------------
(* What the proofs need to know of a state: the result is that of the      *)
(* rules, the status is one that a container can have.                     *)

Kept ==
  /\ ev.waiting \in Waiting
  /\ ev.term \in Terminations
  /\ ev.rollout \in BOOLEAN
  /\ ev = [waiting |-> ev.waiting, term |-> ev.term, events |-> ev.events, log |-> ev.log,
           rollout |-> ev.rollout, pressures |-> ev.pressures, notReady |-> ev.notReady]
  /\ pc = "done" => result = DiagnoseOf(ev)

LEMMA KeptInit == Init => Kept
  BY DEF Init, Kept, StatusAlone

LEMMA KeptNext == Kept /\ [Next]_vars => Kept'
  <1> SUFFICES ASSUME Kept, [Next]_vars PROVE Kept'
    OBVIOUS
  <1>1. CASE SearchEvents
    BY <1>1 DEF SearchEvents, Kept
  <1>2. CASE FetchLog
    BY <1>2 DEF FetchLog, Kept
  <1>3. CASE LookUpRollout
    BY <1>3 DEF LookUpRollout, Kept
  <1>4. CASE LookUpNode
    BY <1>4 DEF LookUpNode, Kept
  <1>5. CASE Diagnose
    <2>1. ev' = ev /\ result' = DiagnoseOf(ev) /\ pc' = "done"
      BY <1>5 DEF Diagnose
    <2>2. DiagnoseOf(ev)' = DiagnoseOf(ev)
      BY <2>1
    <2> QED
      BY <2>1, <2>2 DEF Kept
  <1>6. CASE UNCHANGED vars
    <2>1. DiagnoseOf(ev)' = DiagnoseOf(ev)
      BY <1>6 DEF vars
    <2> QED
      BY <1>6, <2>1 DEF vars, Kept
  <1> QED
    BY <1>1, <1>2, <1>3, <1>4, <1>5, <1>6 DEF Next

LEMMA AlwaysKept == Spec => []Kept
  BY KeptInit, KeptNext, PTL DEF Spec

-----------------------------------------------------------------------------
(* The rules, one after the other, for any evidence of this form.          *)

\* Results that no probe and no rollout took part in.
Direct == [cause : {"ImagePullError", "BadCommand", "OOMKilled", "SegFault", "SignalKilled",
                    "ApplicationError", "Unknown"},
           confidence : {"Low", "Medium", "High"},
           tells : SUBSET {"rollout", "node", "notReady"},
           advises : SUBSET {"limits", "rollback", "node"}]

LEMMA PrimaryIsDirect ==
  ASSUME NEW c \in {"ImagePullError", "BadCommand", "OOMKilled", "SegFault", "SignalKilled",
                    "ApplicationError", "Unknown"},
         NEW k \in {"Low", "Medium", "High"}
  PROVE  Primary(c, k) \in Direct /\ Primary(c, k).cause = c /\ Primary(c, k).confidence = k
  BY DEF Primary, Direct

LEMMA CodeCauses ==
  ASSUME NEW code \in {0, 1, 126, 127, 137, 139, 143}, NEW log, NEW log2
  PROVE  /\ ByExitCode(code, log) \in Direct
         /\ ByExitCode(code, log).cause = ByExitCode(code, log2).cause
         /\ ByExitCode(code, log).cause = "Unknown" <=> code = 0
         /\ ByExitCode(code, log).confidence = "Low" <=> code = 0
  <1>1. CASE code = 137
    BY <1>1, PrimaryIsDirect DEF ByExitCode
  <1>2. CASE code = 139
    BY <1>2, PrimaryIsDirect DEF ByExitCode
  <1>3. CASE code = 143
    BY <1>3, PrimaryIsDirect DEF ByExitCode
  <1>4. CASE code \in {126, 127}
    BY <1>4, PrimaryIsDirect DEF ByExitCode
  <1>5. CASE code = 0
    BY <1>5, PrimaryIsDirect DEF ByExitCode
  <1>6. CASE code = 1
    BY <1>6, PrimaryIsDirect DEF ByExitCode
  <1> QED
    BY <1>1, <1>2, <1>3, <1>4, <1>5, <1>6

LEMMA PrimaryCauses ==
  ASSUME NEW e, e.waiting \in Waiting, e.term \in Terminations
  PROVE  /\ diagnosePrimary(e) \in Direct
         /\ diagnosePrimary(e).cause = diagnosePrimary(Bare(e)).cause
         /\ diagnosePrimary(e).confidence = "Low" <=> diagnosePrimary(e).cause = "Unknown"
         /\ diagnosePrimary(e).cause = "Unknown" => e.term.code = 0
         /\ e.term.reason = "StartError" => diagnosePrimary(e).cause \in {"BadCommand", "ImagePullError"}
  <1>1. /\ e.term.reason \in {"none", "OOMKilled", "StartError", "other"}
        /\ e.term.reason = "none" => e.term.code = 0
        /\ e.term.reason = "other" => e.term.code \in {0, 1, 126, 127, 137, 139, 143}
    BY DEF Terminations
  <1>2. Bare(e).waiting = e.waiting /\ Bare(e).term = e.term
    BY DEF Bare, StatusAlone
  <1>3. CASE e.waiting # "CrashLoopBackOff"
    <2>1. /\ diagnosePrimary(e) = Primary("ImagePullError", "High")
          /\ diagnosePrimary(Bare(e)) = Primary("ImagePullError", "High")
      BY <1>2, <1>3 DEF diagnosePrimary
    <2> QED
      BY <2>1, PrimaryIsDirect
  <1>4. CASE e.waiting = "CrashLoopBackOff" /\ e.term.reason = "none"
    <2>1. /\ diagnosePrimary(e) = Primary("Unknown", "Low")
          /\ diagnosePrimary(Bare(e)) = Primary("Unknown", "Low")
      BY <1>2, <1>4 DEF diagnosePrimary
    <2> QED
      BY <1>1, <1>4, <2>1, PrimaryIsDirect
  <1>5. CASE e.waiting = "CrashLoopBackOff" /\ e.term.reason = "OOMKilled"
    <2>1. /\ diagnosePrimary(e) = Primary("OOMKilled", "High")
          /\ diagnosePrimary(Bare(e)) = Primary("OOMKilled", "High")
      BY <1>2, <1>5 DEF diagnosePrimary
    <2> QED
      BY <1>5, <2>1, PrimaryIsDirect
  <1>6. CASE e.waiting = "CrashLoopBackOff" /\ e.term.reason = "StartError"
    <2>1. /\ diagnosePrimary(e) = Primary("BadCommand", "High")
          /\ diagnosePrimary(Bare(e)) = Primary("BadCommand", "High")
      BY <1>2, <1>6 DEF diagnosePrimary
    <2> QED
      BY <2>1, PrimaryIsDirect
  <1>7. CASE e.waiting = "CrashLoopBackOff" /\ e.term.reason = "other"
    <2>1. /\ diagnosePrimary(e) = ByExitCode(e.term.code, e.log)
          /\ diagnosePrimary(Bare(e)) = ByExitCode(e.term.code, Bare(e).log)
      BY <1>2, <1>7 DEF diagnosePrimary
    <2> QED
      BY <1>1, <1>7, <2>1, CodeCauses
  <1> QED
    BY <1>1, <1>3, <1>4, <1>5, <1>6, <1>7

LEMMA BareMentionsNothing == \A e : ~probeFailing(Bare(e).events) /\ ~Bare(e).rollout
  BY DEF Bare, StatusAlone, probeFailing, Mentions, NoEvents

\* The cause and the confidence of the whole, from those of the first rule.
LEMMA CauseOf ==
  ASSUME NEW e, e.waiting \in Waiting, e.term \in Terminations
  PROVE  /\ LET p == diagnosePrimary(e).cause IN
            DiagnoseOf(e).cause =
              IF p = "Unknown" /\ e.rollout THEN "RecentRollout"
              ELSE IF probeFailing(e.events) /\ p \in {"SignalKilled", "ApplicationError", "Unknown"}
                   THEN "ProbeFailure"
                   ELSE p
         /\ DiagnoseOf(e).confidence = "Medium" => Corroborated(e)
         /\ DiagnoseOf(e).confidence = "Low" /\ DiagnoseOf(e).cause # "Unknown" => ~Corroborated(e)
  <1> DEFINE p == diagnosePrimary(e)
             r == WithRollout(e, p)
             q == WithProbe(e, r)
             d == Downgraded(e, q)
  <1>0. /\ p.cause \in {"ImagePullError", "BadCommand", "OOMKilled", "SegFault", "SignalKilled",
                        "ApplicationError", "Unknown"}
        /\ p.confidence = "Low" <=> p.cause = "Unknown"
        /\ p = [cause |-> p.cause, confidence |-> p.confidence, tells |-> p.tells, advises |-> p.advises]
    BY PrimaryCauses DEF Direct
  <1>1. /\ r.cause = IF p.cause = "Unknown" /\ e.rollout THEN "RecentRollout" ELSE p.cause
        /\ r.confidence = IF p.cause = "Unknown" /\ e.rollout THEN "Medium" ELSE p.confidence
        /\ r = [cause |-> r.cause, confidence |-> r.confidence, tells |-> r.tells, advises |-> r.advises]
    <2> HIDE DEF p
    <2> QED
      BY <1>0 DEF WithRollout, Primary
  <1>2. /\ q.cause = IF probeFailing(e.events) /\ r.cause \in {"SignalKilled", "ApplicationError", "Unknown"}
                     THEN "ProbeFailure" ELSE r.cause
        /\ q.confidence \in {r.confidence, "High"}
        /\ q.cause = "ProbeFailure" /\ r.cause # "ProbeFailure" => q.confidence = "High"
        /\ q = [cause |-> q.cause, confidence |-> q.confidence, tells |-> q.tells, advises |-> q.advises]
    <2> HIDE DEF r
    <2> QED
      BY <1>1 DEF WithProbe, Primary
  <1>3. /\ d.cause = q.cause
        /\ d.confidence = IF ~Corroborated(e) /\ q.confidence = "Medium" THEN "Low" ELSE q.confidence
        /\ d = [cause |-> d.cause, confidence |-> d.confidence, tells |-> d.tells, advises |-> d.advises]
    <2> HIDE DEF q
    <2> QED
      BY <1>2 DEF Downgraded, Corroborated
  <1>4. WithNode(e, d).cause = d.cause /\ WithNode(e, d).confidence \in {d.confidence, "High"}
    <2> HIDE DEF d
    <2> QED
      BY <1>3 DEF WithNode
  <1>5. DiagnoseOf(e).cause = d.cause /\ DiagnoseOf(e).confidence \in {d.confidence, "High"}
    BY <1>4 DEF DiagnoseOf
  <1> HIDE DEF p, r, q, d
  <1>6. p.cause = diagnosePrimary(e).cause
    BY DEF p
  <1> QED
    BY <1>0, <1>1, <1>2, <1>3, <1>5, <1>6

\* The status decides; the lookups explain what it leaves open.
THEOREM StatusAlwaysDecides == Spec => []StatusDecides
  <1>1. Kept => StatusDecides
    <2> SUFFICES ASSUME Kept, pc = "done" PROVE StatusDecides
      BY DEF StatusDecides
    <2>1. ev.waiting \in Waiting /\ ev.term \in Terminations /\ result.cause = DiagnoseOf(ev).cause
      BY DEF Kept
    <2>2. Bare(ev).waiting \in Waiting /\ Bare(ev).term \in Terminations
      BY <2>1 DEF Bare, StatusAlone
    <2>3. diagnosePrimary(ev).cause = diagnosePrimary(Bare(ev)).cause
      BY <2>1, PrimaryCauses
    <2>4. DiagnoseOf(Bare(ev)).cause = diagnosePrimary(Bare(ev)).cause
      BY <2>2, CauseOf, BareMentionsNothing
    <2> QED
      BY <2>1, <2>3, <2>4, CauseOf DEF StatusDecides
  <1> QED
    BY <1>1, AlwaysKept, PTL

\* Unknown is only the answer when no rule, probe or rollout matches.
THEOREM UnknownAlwaysMeansNothing == Spec => []UnknownMeansNothing
  <1>1. Kept => UnknownMeansNothing
    BY CauseOf, PrimaryCauses DEF Kept, UnknownMeansNothing
  <1> QED
    BY <1>1, AlwaysKept, PTL

\* No confidence without evidence, and no doubt in spite of it.
THEOREM ConfidenceIsAlwaysBacked == Spec => []ConfidenceIsBacked
  <1>1. Kept => ConfidenceIsBacked
    BY CauseOf DEF Kept, ConfidenceIsBacked
  <1> QED
    BY <1>1, AlwaysKept, PTL

\* A container that never ran is never given another cause.
THEOREM StartErrorsAreBadCommands == Spec => []StartErrorIsBadCommand
  <1>1. Kept => StartErrorIsBadCommand
    BY CauseOf, PrimaryCauses DEF Kept, StartErrorIsBadCommand
  <1> QED
    BY <1>1, AlwaysKept, PTL

-----------------------------------------------------------------------------
(* The confidence of the whole, from the first rule.                       *)

LEMMA ConfidenceOf ==
  ASSUME NEW e, e.waiting \in Waiting, e.term \in Terminations
  PROVE  LET p == diagnosePrimary(e)
             probed == probeFailing(e.events) /\ p.cause \in {"SignalKilled", "ApplicationError", "Unknown"}
                         /\ ~(p.cause = "Unknown" /\ e.rollout)
             before == IF probed THEN "High"
                       ELSE IF p.cause = "Unknown" /\ e.rollout THEN "Medium" ELSE p.confidence
         IN  DiagnoseOf(e).confidence =
               IF p.cause = "OOMKilled" /\ "MemoryPressure" \in e.pressures THEN "High"
               ELSE IF ~Corroborated(e) /\ before = "Medium" THEN "Low" ELSE before
  <1> DEFINE p == diagnosePrimary(e)
             r == WithRollout(e, p)
             q == WithProbe(e, r)
             d == Downgraded(e, q)
  <1>0. p = [cause |-> p.cause, confidence |-> p.confidence, tells |-> p.tells, advises |-> p.advises]
    BY PrimaryCauses DEF Direct
  <1>1. /\ r.cause = IF p.cause = "Unknown" /\ e.rollout THEN "RecentRollout" ELSE p.cause
        /\ r.confidence = IF p.cause = "Unknown" /\ e.rollout THEN "Medium" ELSE p.confidence
        /\ r = [cause |-> r.cause, confidence |-> r.confidence, tells |-> r.tells, advises |-> r.advises]
    <2> HIDE DEF p
    <2> QED
      BY <1>0 DEF WithRollout, Primary
  <1>2. /\ q.cause = IF probeFailing(e.events) /\ r.cause \in {"SignalKilled", "ApplicationError", "Unknown"}
                     THEN "ProbeFailure" ELSE r.cause
        /\ q.confidence = IF probeFailing(e.events) /\ r.cause \in {"SignalKilled", "ApplicationError", "Unknown"}
                          THEN "High" ELSE r.confidence
        /\ q = [cause |-> q.cause, confidence |-> q.confidence, tells |-> q.tells, advises |-> q.advises]
    <2> HIDE DEF r
    <2> QED
      BY <1>1 DEF WithProbe, Primary
  <1>3. /\ d.cause = q.cause
        /\ d.confidence = IF ~Corroborated(e) /\ q.confidence = "Medium" THEN "Low" ELSE q.confidence
        /\ d = [cause |-> d.cause, confidence |-> d.confidence, tells |-> d.tells, advises |-> d.advises]
    <2> HIDE DEF q
    <2> QED
      BY <1>2 DEF Downgraded, Corroborated
  <1>4. WithNode(e, d).confidence =
          IF d.cause = "OOMKilled" /\ "MemoryPressure" \in e.pressures THEN "High" ELSE d.confidence
    <2> HIDE DEF d
    <2> QED
      BY <1>3 DEF WithNode
  <1>5. DiagnoseOf(e).confidence =
          IF d.cause = "OOMKilled" /\ "MemoryPressure" \in e.pressures THEN "High" ELSE d.confidence
    BY <1>4 DEF DiagnoseOf
  <1> HIDE DEF p, r, q, d
  <1>6. p = diagnosePrimary(e)
    BY DEF p
  <1> QED
    BY <1>1, <1>2, <1>3, <1>5, <1>6

\* Without the log, an OOM kill may become Medium; nothing else changes.
LEMMA PrimaryWithoutLog ==
  ASSUME NEW e, NEW e2, e.waiting \in Waiting, e.term \in Terminations,
         e2.waiting = e.waiting, e2.term = e.term, e2.log \in {e.log, NoLog}
  PROVE  /\ diagnosePrimary(e2).cause = diagnosePrimary(e).cause
         /\ \/ diagnosePrimary(e2).confidence = diagnosePrimary(e).confidence
            \/ diagnosePrimary(e2).confidence = "Medium" /\ diagnosePrimary(e).confidence = "High"
  <1>1. e.term.reason = "other" => e.term.code \in {0, 1, 126, 127, 137, 139, 143}
    BY DEF Terminations
  <1>2. Mentions(e2.log, "oom") => Mentions(e.log, "oom")
    BY DEF Mentions, NoLog
  <1>3. CASE e.waiting # "CrashLoopBackOff" \/ e.term.reason # "other"
    BY <1>3 DEF diagnosePrimary, Terminations, Waiting
  <1>4. CASE e.waiting = "CrashLoopBackOff" /\ e.term.reason = "other"
    <2>1. /\ diagnosePrimary(e) = ByExitCode(e.term.code, e.log)
          /\ diagnosePrimary(e2) = ByExitCode(e.term.code, e2.log)
      BY <1>4 DEF diagnosePrimary
    <2>2. CASE e.term.code = 137
      BY <1>2, <2>1, <2>2, PrimaryIsDirect DEF ByExitCode
    <2>3. CASE e.term.code # 137
      BY <1>1, <1>4, <2>1, <2>3 DEF ByExitCode
    <2> QED
      BY <2>2, <2>3
  <1> QED
    BY <1>3, <1>4

LEMMA LosingOne ==
  ASSUME NEW e, NEW e2, e.waiting \in Waiting, e.term \in Terminations,
         e2.waiting = e.waiting, e2.term = e.term, e2.rollout = e.rollout,
         e2.log \in {e.log, NoLog}, e2.events \in {e.events, NoEvents},
         e2.pressures \in {e.pressures, {}}
  PROVE  Rank[DiagnoseOf(e2).confidence] <= Rank[DiagnoseOf(e).confidence]
  <1> DEFINE p  == diagnosePrimary(e)
             p2 == diagnosePrimary(e2)
  <1>1. /\ p2.cause = p.cause
        /\ p2.confidence = p.confidence \/ (p2.confidence = "Medium" /\ p.confidence = "High")
        /\ p.confidence \in {"Low", "Medium", "High"}
    BY PrimaryWithoutLog, PrimaryCauses DEF Direct
  <1>2. probeFailing(e2.events) => probeFailing(e.events)
    <2>1. CASE e2.events = NoEvents
      <3>1. ~probeFailing(NoEvents)
        BY DEF probeFailing, Mentions, NoEvents
      <3> QED
        BY <2>1, <3>1
    <2>2. CASE e2.events = e.events
      BY <2>2 DEF probeFailing
    <2> QED
      BY <2>1, <2>2
  <1>3. Corroborated(e2) => Corroborated(e)
    BY DEF Corroborated
  <1>4. "MemoryPressure" \in e2.pressures => "MemoryPressure" \in e.pressures
    OBVIOUS
  <1>5. /\ DiagnoseOf(e).confidence =
             LET probed == probeFailing(e.events) /\ p.cause \in {"SignalKilled", "ApplicationError", "Unknown"}
                             /\ ~(p.cause = "Unknown" /\ e.rollout)
                 before == IF probed THEN "High"
                           ELSE IF p.cause = "Unknown" /\ e.rollout THEN "Medium" ELSE p.confidence
             IN  IF p.cause = "OOMKilled" /\ "MemoryPressure" \in e.pressures THEN "High"
                 ELSE IF ~Corroborated(e) /\ before = "Medium" THEN "Low" ELSE before
        /\ DiagnoseOf(e2).confidence =
             LET probed == probeFailing(e2.events) /\ p2.cause \in {"SignalKilled", "ApplicationError", "Unknown"}
                             /\ ~(p2.cause = "Unknown" /\ e2.rollout)
                 before == IF probed THEN "High"
                           ELSE IF p2.cause = "Unknown" /\ e2.rollout THEN "Medium" ELSE p2.confidence
             IN  IF p2.cause = "OOMKilled" /\ "MemoryPressure" \in e2.pressures THEN "High"
                 ELSE IF ~Corroborated(e2) /\ before = "Medium" THEN "Low" ELSE before
    BY ConfidenceOf
  <1>6. Rank["Low"] = 0 /\ Rank["Medium"] = 1 /\ Rank["High"] = 2
    BY DEF Rank
  <1> HIDE DEF p, p2
  <1> QED
    BY <1>1, <1>2, <1>3, <1>4, <1>5, <1>6

\* A failed lookup never makes a diagnosis more confident.
THEOREM LosingALookupNeverHelps == Spec => []LosingALookup
  <1>1. Kept => LosingALookup
    <2> SUFFICES ASSUME Kept, pc = "done", NEW e \in Without(ev)
                 PROVE  Rank[DiagnoseOf(e).confidence] <= Rank[result.confidence]
      BY DEF LosingALookup
    <2>1. ev.waiting \in Waiting /\ ev.term \in Terminations /\ result = DiagnoseOf(ev)
      BY DEF Kept
    <2>2. /\ e.waiting = ev.waiting /\ e.term = ev.term /\ e.rollout = ev.rollout
          /\ e.log \in {ev.log, NoLog} /\ e.events \in {ev.events, NoEvents}
          /\ e.pressures \in {ev.pressures, {}}
      BY DEF Kept, Without
    <2> QED
      BY <2>1, <2>2, LosingOne
  <1> QED
    BY <1>1, AlwaysKept, PTL

-----------------------------------------------------------------------------
(* Types, from what the sequence operators keep.                           *)

LEMMA SeqUpToIsSeq ==
  ASSUME NEW S, NEW n \in Nat, NEW s \in SeqUpTo(S, n)
  PROVE  s \in Seq(S) /\ Len(s) \in 0..n
  <1>1. PICK k \in 0..n : s \in [1..k -> S]
    BY DEF SeqUpTo
  <1> QED
    BY <1>1

LEMMA SeqIsSeqUpTo ==
  ASSUME NEW S, NEW n \in Nat, NEW s \in Seq(S), Len(s) <= n
  PROVE  s \in SeqUpTo(S, n)
  <1>1. s \in [1..Len(s) -> S] /\ Len(s) \in 0..n
    BY LenProperties
  <1> QED
    BY <1>1 DEF SeqUpTo

\* A piece of a sequence.
LEMMA PieceType ==
  ASSUME NEW S, NEW s \in Seq(S), NEW m \in 1..(Len(s) + 1), NEW n \in 0..Len(s), m <= n + 1
  PROVE  SubSeq(s, m, n) \in Seq(S) /\ Len(SubSeq(s, m, n)) = n - m + 1
  <1>1. m \in Int /\ n \in Int /\ Len(s) \in Nat
    OBVIOUS
  <1>2. \A i \in m..n : s[i] \in S
    BY <1>1, ElementOfSeq
  <1>3. /\ SubSeq(s, m, n) \in Seq(S)
        /\ Len(SubSeq(s, m, n)) = IF m <= n THEN n - m + 1 ELSE 0
    BY <1>1, <1>2, SubSeqProperties
  <1> QED
    BY <1>1, <1>3

LEMMA EventsType ==
  ASSUME NEW events \in SeqUpTo(Event, MaxStream)
  PROVE  recentEvents(events) \in SeqUpTo(Event, MaxEvents)
  <1> DEFINE n == IF Len(events) < MaxEvents THEN Len(events) ELSE MaxEvents
  <1>1. events \in Seq(Event) /\ Len(events) \in Nat /\ MaxEvents \in Nat
    BY SizesAssumption, SeqUpToIsSeq
  <1>2. n \in 0..Len(events) /\ n <= MaxEvents
    BY <1>1
  <1>3. SubSeq(events, 1, n) \in Seq(Event) /\ Len(SubSeq(events, 1, n)) = n
    <2> HIDE DEF n
    <2> QED
      BY <1>1, <1>2, PieceType
  <1> HIDE DEF n
  <1>4. SubSeq(events, 1, n) \in SeqUpTo(Event, MaxEvents)
    BY <1>1, <1>2, <1>3, SeqIsSeqUpTo
  <1> QED
    BY <1>4 DEF recentEvents, n

LEMMA LogType ==
  ASSUME NEW log \in SeqUpTo(Unit, MaxStream), NEW n \in 0..Len(log)
  PROVE  /\ logTail(log, n) \in SeqUpTo(Unit, KeepUnits)
         /\ SubSeq(log, 1, n) \in SeqUpTo(Unit, MaxStream)
  <1> DEFINE r    == IF n < ReadUnits THEN n ELSE ReadUnits
             read == SubSeq(log, 1, r)
             m    == IF Len(read) > KeepUnits THEN Len(read) - KeepUnits + 1 ELSE 1
  <1>1. /\ log \in Seq(Unit) /\ Len(log) \in 0..MaxStream
        /\ MaxStream \in Nat /\ ReadUnits \in Nat /\ KeepUnits \in Nat
    BY SizesAssumption, SeqUpToIsSeq
  <1>2. r \in 0..Len(log)
    BY <1>1
  <1>3. read \in Seq(Unit) /\ Len(read) = r /\ Len(read) \in Nat
    <2> HIDE DEF r
    <2> QED
      BY <1>1, <1>2, PieceType
  <1> HIDE DEF r, read
  <1>4. /\ m \in 1..(Len(read) + 1) /\ m <= Len(read) + 1
        /\ Len(read) - m + 1 <= KeepUnits
    BY <1>1, <1>3
  <1> HIDE DEF m
  <1>5. /\ SubSeq(read, m, Len(read)) \in Seq(Unit)
        /\ Len(SubSeq(read, m, Len(read))) <= KeepUnits
    BY <1>3, <1>4, PieceType
  <1>6. SubSeq(read, m, Len(read)) \in SeqUpTo(Unit, KeepUnits)
    BY <1>1, <1>5, SeqIsSeqUpTo
  <1>7. logTail(log, n) = SubSeq(read, m, Len(read))
    BY DEF logTail, LastUnits, r, read, m
  <1>8. SubSeq(log, 1, n) \in Seq(Unit) /\ Len(SubSeq(log, 1, n)) = n
    BY <1>1, PieceType
  <1>9. SubSeq(log, 1, n) \in SeqUpTo(Unit, MaxStream)
    <2>1. n <= MaxStream
      BY <1>1
    <2> QED
      BY <1>1, <1>8, <2>1, SeqIsSeqUpTo
  <1> QED
    BY <1>6, <1>7, <1>9

LEMMA EmptyType == ASSUME NEW S, NEW n \in Nat PROVE <<>> \in SeqUpTo(S, n)
  <1>1. <<>> \in Seq(S) /\ Len(<<>>) <= n
    BY EmptySeq
  <1> QED
    BY <1>1, SeqIsSeqUpTo

LEMMA RulesKeepTypes ==
  ASSUME NEW e, e.waiting \in Waiting, e.term \in Terminations
  PROVE  DiagnoseOf(e) \in Result
  <1> DEFINE p == diagnosePrimary(e)
             r == WithRollout(e, p)
             q == WithProbe(e, r)
             d == Downgraded(e, q)
  <1>0. DOMAIN Rank = {"Low", "Medium", "High"}
    BY DEF Rank
  <1>1. p \in Result
    BY <1>0, PrimaryCauses DEF Direct, Result, Cause
  <1>2. r \in Result
    <2> HIDE DEF p
    <2> QED
      BY <1>0, <1>1 DEF WithRollout, Primary, Result, Cause
  <1>3. q \in Result
    <2> HIDE DEF r
    <2> QED
      BY <1>0, <1>2 DEF WithProbe, Primary, Result, Cause
  <1>4. d \in Result
    <2> HIDE DEF q
    <2> QED
      BY <1>0, <1>3 DEF Downgraded, Result
  <1>5. WithNode(e, d) \in Result
    <2> HIDE DEF d
    <2> QED
      BY <1>0, <1>4 DEF WithNode, Result
  <1> QED
    BY <1>5 DEF DiagnoseOf

LEMMA EvTypeInit == Init => TypeOK
  <1> SUFFICES ASSUME Init PROVE TypeOK
    OBVIOUS
  <1>1. /\ <<>> \in SeqUpTo(Event, MaxEvents)
        /\ <<>> \in SeqUpTo(Unit, KeepUnits)
        /\ <<>> \in SeqUpTo(Unit, MaxStream)
    BY EmptyType, SizesAssumption
  <1>2. ev \in Evidence
    BY <1>1 DEF Init, StatusAlone, Evidence, NoEvents, NoLog
  <1>3. result \in Result
    BY DEF Init, Primary, Result, Cause, Rank
  <1> QED
    BY <1>1, <1>2, <1>3 DEF Init, TypeOK, NoLog

LEMMA EvTypeNext == TypeOK /\ [Next]_vars => TypeOK'
  <1> SUFFICES ASSUME TypeOK, [Next]_vars PROVE TypeOK'
    OBVIOUS
  <1>0. ev \in Evidence /\ result \in Result /\ stream \in SeqUpTo(Unit, MaxStream)
    BY DEF TypeOK
  <1>1. CASE SearchEvents
    <2>1. PICK events \in SeqUpTo(Event, MaxStream) : ev' = [ev EXCEPT !.events = recentEvents(events)]
      BY <1>1 DEF SearchEvents
    <2>2. recentEvents(events) \in SeqUpTo(Event, MaxEvents)
      BY EventsType
    <2>3. ev' \in Evidence
      BY <1>0, <2>1, <2>2 DEF Evidence
    <2> QED
      BY <1>0, <1>1, <2>3 DEF SearchEvents, TypeOK
  <1>2. CASE FetchLog
    <2>0. PICK log \in SeqUpTo(Unit, MaxStream) : \E n \in 0..Len(log) :
            stream' = SubSeq(log, 1, n) /\ ev' = [ev EXCEPT !.log = logTail(log, n)]
      BY <1>2 DEF FetchLog
    <2>1. PICK n \in 0..Len(log) :
            stream' = SubSeq(log, 1, n) /\ ev' = [ev EXCEPT !.log = logTail(log, n)]
      BY <2>0
    <2>2. /\ logTail(log, n) \in SeqUpTo(Unit, KeepUnits)
          /\ SubSeq(log, 1, n) \in SeqUpTo(Unit, MaxStream)
      BY LogType
    <2>3. ev' \in Evidence
      BY <1>0, <2>1, <2>2 DEF Evidence
    <2> QED
      BY <1>0, <1>2, <2>1, <2>2, <2>3 DEF FetchLog, TypeOK
  <1>3. CASE LookUpRollout
    <2>1. ev' \in Evidence
      BY <1>0, <1>3 DEF LookUpRollout, Evidence
    <2> QED
      BY <1>0, <1>3, <2>1 DEF LookUpRollout, TypeOK
  <1>4. CASE LookUpNode
    <2>1. ev' \in Evidence
      BY <1>0, <1>4 DEF LookUpNode, Evidence
    <2> QED
      BY <1>0, <1>4, <2>1 DEF LookUpNode, TypeOK
  <1>5. CASE Diagnose
    <2>1. DiagnoseOf(ev) \in Result
      BY <1>0, RulesKeepTypes DEF Evidence
    <2> QED
      BY <1>0, <1>5, <2>1 DEF Diagnose, TypeOK
  <1>6. CASE UNCHANGED vars
    BY <1>6 DEF vars, TypeOK
  <1> QED
    BY <1>1, <1>2, <1>3, <1>4, <1>5, <1>6 DEF Next

\* The evidence stays within its sizes, for any sizes.
THEOREM EvidenceStaysSmall == Spec => []TypeOK
  BY EvTypeInit, EvTypeNext, PTL DEF Spec

=============================================================================
