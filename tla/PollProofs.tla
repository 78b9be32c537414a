------------------------------- MODULE PollProofs -------------------------------
(***************************************************************************)
(* Theorems about Poll, for any number of requests, versions and mounts.   *)
(***************************************************************************)
EXTENDS Poll, TLAPS

LEMMA FreeType == Free \in Request
BY DEF Free, Request

LEMMA TypeInit == Init => TypeOK
<1> SUFFICES ASSUME Init PROVE TypeOK
  OBVIOUS
<1>1. view \in View /\ (view.loading => ~view.fetched)
  BY DEF Init, View
<1>2. request \in [Requests -> Request]
  BY FreeType DEF Init
<1> QED BY <1>1, <1>2 DEF Init, TypeOK

\* An abort leaves a request as it is or frees it.
LEMMA AbortedType ==
  ASSUME TypeOK
  PROVE  /\ Aborted \in [Requests -> Request]
         /\ \A r \in Requests : Aborted[r] = Free \/ Aborted[r] = request[r]
BY FreeType DEF TypeOK, Aborted

LEMMA FetchType ==
  ASSUME TypeOK, NEW e \in Nat, FetchOnce(e)
  PROVE  request' \in [Requests -> Request] /\ abortRef' \in Requests
<1>1. Asked(e) \in Request
  BY DEF Asked, Free, Request
<1> QED BY <1>1, AbortedType DEF FetchOnce

LEMMA ShownType ==
  ASSUME TypeOK, NEW r \in Requests
  PROVE  /\ Shown(r) \in View
         /\ Shown(r).loading = FALSE
         /\ Shown(r).error \/ Shown(r).fetched
         /\ Shown(r).version = IF request[r].failed THEN view.version ELSE request[r].version
BY DEF TypeOK, View, Request, Shown

LEMMA TypeStep == TypeOK /\ [Next]_vars => TypeOK'
<1> SUFFICES ASSUME TypeOK, [Next]_vars PROVE TypeOK'
  OBVIOUS
<1>1. CASE Publish
  BY <1>1, PollAssumption DEF Publish, TypeOK
<1>2. CASE Mount
  <2>1. effect + 1 \in Nat
    BY DEF TypeOK
  <2>2. request' \in [Requests -> Request] /\ abortRef' \in Requests
    BY <1>2, <2>1, FetchType DEF Mount
  <2> QED BY <1>2, <2>1, <2>2 DEF Mount, TypeOK
<1>3. CASE Poll
  <2>1. request' \in [Requests -> Request] /\ abortRef' \in Requests
    BY <1>3, FetchType DEF Poll, TypeOK
  <2> QED BY <1>3, <2>1 DEF Poll, TypeOK
<1>4. CASE Unmount
  BY <1>4, AbortedType DEF Unmount, TypeOK
<1>5. ASSUME NEW r \in Requests, Answer(r) \/ Arrive(r) \/ Break(r) PROVE TypeOK'
  <2>1. request' \in [Requests -> Request]
    BY <1>5 DEF Answer, Arrive, Break, TypeOK, Request
  <2> QED BY <1>5, <2>1 DEF Answer, Arrive, Break, TypeOK
<1>6. ASSUME NEW r \in Requests, Continue(r) PROVE TypeOK'
  <2>1. request' \in [Requests -> Request]
    BY <1>6, FreeType DEF Continue, TypeOK
  <2>2. view' \in View /\ (view'.loading => ~view'.fetched)
    BY <1>6, ShownType DEF Continue, TypeOK
  <2> QED BY <1>6, <2>1, <2>2 DEF Continue, TypeOK
<1>7. CASE UNCHANGED vars
  BY <1>7 DEF vars, TypeOK
<1> QED BY <1>1, <1>2, <1>3, <1>4, <1>5, <1>6, <1>7 DEF Next

\* The states of the hook and of its requests are well typed.
THEOREM TypeCorrect == Spec => []TypeOK
BY TypeInit, TypeStep, PTL DEF Spec

-----------------------------------------------------------------------------

LEMMA PollInvInit == Init => PollInv
BY PollAssumption DEF Init, PollInv, OneAlive, AnsweredLater, Pending, Settled, Cancelled, Free

\* After a fetch of run e, the new request is the only pending one, and the
\* others are settled as they were.
LEMMA FetchStep ==
  ASSUME TypeOK, OneAlive, NEW e \in Nat, FetchOnce(e)
  PROVE  /\ abortRef' \in Requests
         /\ request'[abortRef'] = Asked(e)
         /\ \A r \in Requests \ {abortRef'} :
              ~Pending(r)' /\ (Settled(r)' => request'[r] = request[r])
<1>1. PICK q \in Requests : request' = [Aborted EXCEPT ![q] = Asked(e)] /\ abortRef' = q
  BY DEF FetchOnce
<1>2. request'[q] = Asked(e) /\ \A r \in Requests \ {q} : request'[r] = Aborted[r]
  BY <1>1, AbortedType
<1>3. ASSUME NEW r \in Requests \ {q} PROVE ~Pending(r)' /\ (Settled(r)' => request'[r] = request[r])
  <2>1. Aborted[r] = IF r = abortRef /\ Pending(r) THEN Free ELSE request[r]
    BY DEF Aborted
  <2>2. Pending(r) => r = abortRef
    BY DEF OneAlive
  <2> QED BY <1>2, <2>1, <2>2 DEF Pending, Settled, Free
<1> QED BY <1>1, <1>2, <1>3

LEMMA PollInvStep == TypeOK /\ PollInv /\ [Next]_vars => PollInv'
<1> SUFFICES ASSUME TypeOK, OneAlive, AnsweredLater, [Next]_vars PROVE OneAlive' /\ AnsweredLater'
  BY DEF PollInv
<1> USE DEF Pending, Settled, Cancelled
<1>1. CASE Publish
  BY <1>1 DEF Publish, OneAlive, AnsweredLater, TypeOK, Request, View
<1>2. CASE Mount
  <2>1. /\ abortRef' \in Requests
        /\ request'[abortRef'] = Asked(effect + 1)
        /\ \A r \in Requests \ {abortRef'} :
             ~Pending(r)' /\ (Settled(r)' => request'[r] = request[r])
    BY <1>2, FetchStep DEF Mount, TypeOK
  <2>2. effect' = effect + 1 /\ mounted' /\ UNCHANGED <<version, view>>
    BY <1>2 DEF Mount
  <2>3. request'[abortRef'].phase = "asked" /\ request'[abortRef'].effect = effect + 1
    BY <2>1 DEF Asked, Free
  <2>4. \A r \in Requests : request[r].effect <= effect /\ request[r].effect \in Nat
    BY DEF OneAlive, TypeOK, Request
  <2>5. \A r \in Requests \ {abortRef'} : request'[r].effect <= effect + 1
    <3>1. PICK q \in Requests : request' = [Aborted EXCEPT ![q] = Asked(effect + 1)] /\ abortRef' = q
      BY <1>2 DEF Mount, FetchOnce
    <3>2. \A r \in Requests \ {q} : request'[r] = Free \/ request'[r] = request[r]
      BY <3>1, AbortedType
    <3>3. effect \in Nat
      BY DEF TypeOK
    <3> QED BY <3>1, <3>2, <3>3, <2>4 DEF Free
  <2>6. effect \in Nat
    BY DEF TypeOK
  <2>7. \A r \in Requests \ {abortRef'} : Settled(r)' => Cancelled(r)'
    BY <2>1, <2>2, <2>4, <2>6
  <2>8. OneAlive'
    BY <2>1, <2>2, <2>3, <2>4, <2>5, <2>6, <2>7 DEF OneAlive
  <2>9. AnsweredLater'
    BY <2>1, <2>2, <2>3, <2>7 DEF AnsweredLater
  <2> QED BY <2>8, <2>9
<1>3. CASE Poll
  <2>1. /\ abortRef' \in Requests
        /\ request'[abortRef'] = Asked(effect)
        /\ \A r \in Requests \ {abortRef'} :
             ~Pending(r)' /\ (Settled(r)' => request'[r] = request[r])
    BY <1>3, FetchStep DEF Poll, TypeOK
  <2>2. mounted /\ (\A r \in Requests : ~Settled(r)) /\ UNCHANGED <<version, mounted, effect, view>>
    BY <1>3 DEF Poll
  <2>3. request'[abortRef'].phase = "asked" /\ request'[abortRef'].effect = effect
    BY <2>1 DEF Asked, Free
  <2>4. \A r \in Requests \ {abortRef'} : request'[r].effect <= effect
    <3>1. PICK q \in Requests : request' = [Aborted EXCEPT ![q] = Asked(effect)] /\ abortRef' = q
      BY <1>3 DEF Poll, FetchOnce
    <3>2. \A r \in Requests \ {q} : request'[r] = Free \/ request'[r] = request[r]
      BY <3>1, AbortedType
    <3> QED BY <3>1, <3>2 DEF Free, TypeOK, OneAlive
  <2>5. \A r \in Requests \ {abortRef'} : ~Pending(r)' /\ ~Settled(r)'
    BY <2>1, <2>2
  <2>6. effect \in Nat
    BY DEF TypeOK
  <2>7. OneAlive'
    BY <2>1, <2>2, <2>3, <2>4, <2>5, <2>6 DEF OneAlive
  <2>8. AnsweredLater'
    BY <2>2, <2>3, <2>5 DEF AnsweredLater
  <2> QED BY <2>7, <2>8
<1>4. CASE Unmount
  <2>1. ~mounted' /\ request' = Aborted /\ UNCHANGED <<version, effect, abortRef, view>>
    BY <1>4 DEF Unmount
  <2>2. ASSUME NEW r \in Requests
        PROVE  request'[r] = IF r = abortRef /\ Pending(r) THEN Free ELSE request[r]
    BY <2>1 DEF Aborted
  <2>3. \A r \in Requests : ~Pending(r)' /\ request'[r].effect <= effect
    BY <2>2 DEF OneAlive, TypeOK, Free
  <2>4. OneAlive'
    BY <2>1, <2>3 DEF OneAlive
  <2>5. AnsweredLater'
    BY <2>1, <2>3 DEF AnsweredLater
  <2> QED BY <2>4, <2>5
<1>5. ASSUME NEW q \in Requests, Answer(q) \/ Arrive(q) \/ Break(q)
      PROVE  OneAlive' /\ AnsweredLater'
  <2>1. UNCHANGED <<version, mounted, effect, abortRef, view>>
    BY <1>5 DEF Answer, Arrive, Break
  <2>2. \A r \in Requests \ {q} : request'[r] = request[r]
    BY <1>5 DEF Answer, Arrive, Break, TypeOK
  <2>3. /\ Pending(q)
        /\ request'[q].effect = request[q].effect
        /\ request'[q].version = version \/ request'[q].version = request[q].version
        /\ request'[q].phase = "answered" =>
             request'[q].version = version
        /\ request'[q].phase \in {"answered", "settled"}
        /\ request'[q].phase = "settled" /\ ~request'[q].failed =>
             request[q].phase = "answered" /\ request'[q].version = request[q].version
    BY <1>5 DEF Answer, Arrive, Break, TypeOK, Request
  <2>4. OneAlive'
    BY <2>1, <2>2, <2>3 DEF OneAlive
  <2>5. AnsweredLater'
    <3>1. version \in Nat /\ view.version \in Nat
      BY DEF TypeOK, View
    <3>2. ~Cancelled(q)
      BY <2>3 DEF OneAlive
    <3> QED BY <2>1, <2>2, <2>3, <3>1, <3>2 DEF AnsweredLater
  <2> QED BY <2>4, <2>5
<1>6. ASSUME NEW q \in Requests, Continue(q) PROVE OneAlive' /\ AnsweredLater'
  <2>1. /\ UNCHANGED <<version, mounted, effect, abortRef>>
        /\ Settled(q)
        /\ request'[q] = Free
        /\ \A r \in Requests \ {q} : request'[r] = request[r]
    BY <1>6 DEF Continue, TypeOK
  <2>2. OneAlive'
    BY <2>1 DEF OneAlive, TypeOK, Free
  <2>3. AnsweredLater'
    <3>1. CASE Cancelled(q)
      BY <1>6, <2>1, <3>1 DEF Continue, AnsweredLater, Free
    <3>2. CASE ~Cancelled(q)
      <4>1. view'.version = IF request[q].failed THEN view.version ELSE request[q].version
        BY <1>6, <3>2, ShownType DEF Continue
      <4>2. view'.version <= version
        BY <2>1, <3>2, <4>1 DEF AnsweredLater
      <4>3. \A r \in Requests \ {q} :
              ~Cancelled(r) => request[r].phase # "answered" /\ ~Settled(r)
        BY <2>1, <3>2 DEF OneAlive
      <4> QED BY <2>1, <4>2, <4>3 DEF AnsweredLater, Free
    <3> QED BY <3>1, <3>2
  <2> QED BY <2>2, <2>3
<1>7. CASE UNCHANGED vars
  BY <1>7 DEF vars, OneAlive, AnsweredLater
<1> QED BY <1>1, <1>2, <1>3, <1>4, <1>5, <1>6, <1>7 DEF Next

\* At any time one fetch at most can still change what is on the screen, and
\* its answer is not older.
THEOREM OneAnswerAtATime == Spec => []PollInv
<1>1. Init => TypeOK /\ PollInv
  BY TypeInit, PollInvInit
<1>2. (TypeOK /\ PollInv) /\ [Next]_vars => (TypeOK /\ PollInv)'
  BY TypeStep, PollInvStep
<1> QED BY <1>1, <1>2, PTL DEF Spec

-----------------------------------------------------------------------------

LEMMA OnlyContinueShows ==
  ASSUME TypeOK, [Next]_vars, view' # view
  PROVE  \E r \in Requests : Continue(r) /\ ~Cancelled(r)
<1>1. \E r \in Requests : Continue(r)
  BY DEF Next, Publish, Mount, Poll, Unmount, Answer, Arrive, Break, vars
<1>2. PICK r \in Requests : Continue(r)
  BY <1>1
<1>3. ~Cancelled(r)
  BY <1>2 DEF Continue
<1> QED BY <1>2, <1>3

\* The screen never goes back to older data.
THEOREM TheViewMovesForward == Spec => ViewMovesForward
<1>1. TypeOK /\ PollInv /\ [Next]_vars => [view'.version >= view.version]_vars
  <2> SUFFICES ASSUME TypeOK, PollInv, [Next]_vars, view' # view
               PROVE  view'.version >= view.version
    BY DEF TypeOK, View
  <2>1. PICK r \in Requests : Continue(r) /\ ~Cancelled(r)
    BY OnlyContinueShows
  <2>2. view'.version = IF request[r].failed THEN view.version ELSE request[r].version
    BY <2>1, ShownType DEF Continue
  <2>3. Settled(r) /\ view.version \in Nat /\ request[r].version \in Nat
    BY <2>1 DEF Continue, TypeOK, View, Request
  <2>4. ~request[r].failed => view.version <= request[r].version
    BY <2>1, <2>3 DEF PollInv, AnsweredLater
  <2> QED BY <2>2, <2>3, <2>4
<1> QED BY <1>1, TypeCorrect, OneAnswerAtATime, PTL DEF Spec, ViewMovesForward

\* What changes the screen is the fetch that was started last, by the effect
\* that is in place.
THEOREM OnlyTheLatestIsShown == Spec => OnlyTheLatest
<1> DEFINE Latest(r) == /\ Settled(r) /\ request'[r] = Free
                        /\ r = abortRef
                        /\ mounted /\ request[r].effect = effect
<1>1. TypeOK /\ PollInv /\ [Next]_vars => [view' # view => \E r \in Requests : Latest(r)]_vars
  <2> SUFFICES ASSUME TypeOK, PollInv, [Next]_vars, view' # view
               PROVE  \E r \in Requests : Latest(r)
    OBVIOUS
  <2>1. PICK r \in Requests : Continue(r) /\ ~Cancelled(r)
    BY OnlyContinueShows
  <2>2. Settled(r) /\ request'[r] = Free
    BY <2>1 DEF Continue, TypeOK
  <2>3. r = abortRef
    BY <2>1, <2>2 DEF PollInv, OneAlive
  <2>4. mounted /\ request[r].effect = effect
    BY <2>1 DEF Cancelled
  <2> QED BY <2>2, <2>3, <2>4
<1> QED BY <1>1, TypeCorrect, OneAnswerAtATime, PTL DEF Spec, OnlyTheLatest

\* "No crash loops" is only shown after an answer.
THEOREM AllClearIsAlwaysAnAnswer == Spec => []AllClearIsAnAnswer
<1>1. Init => AllClearIsAnAnswer
  BY DEF Init, AllClearIsAnAnswer, AllClear
<1>2. TypeOK /\ AllClearIsAnAnswer /\ [Next]_vars => AllClearIsAnAnswer'
  <2> SUFFICES ASSUME TypeOK, AllClearIsAnAnswer, [Next]_vars, view' # view
               PROVE  view'.error \/ view'.fetched
    BY DEF AllClearIsAnAnswer, AllClear
  <2>1. PICK r \in Requests : Continue(r) /\ ~Cancelled(r)
    BY OnlyContinueShows
  <2> QED BY <2>1, ShownType DEF Continue
<1> QED BY <1>1, <1>2, TypeCorrect, PTL DEF Spec

=============================================================================
