-------------------------- MODULE NotificationsProofs --------------------------
(***************************************************************************)
(* Theorems about Notifications, for any groups, routes and bounds.        *)
(***************************************************************************)
EXTENDS Notifications, TLAPS

LEMMA NothingType == Nothing \in [busy : BOOLEAN, group : Groups \cup {<<>>}, suppressed : Nat]
  BY DEF Nothing

LEMMA NewBucketType == TypeOK => \A b : NewBucket(b) \in Bucket
  BY DEF TypeOK, NewBucket, Bucket

\* Which numbers the sets of a group hold.
LastInv ==
  \A g \in Groups :
    /\ \A x : x \in Suppressed(g)
              <=> x \in Int /\ happened[g] - state[g].suppressed <= x /\ x < happened[g]
    /\ \A x : x \in InFlight(g)
              <=> /\ sending.busy /\ sending.group = g
                  /\ x \in Int /\ happened[g] - 1 - sending.suppressed <= x /\ x < happened[g]
    /\ happened[g] \in Nat /\ state[g].suppressed \in Nat /\ sending.suppressed \in Nat

LEMMA LastFacts == TypeOK => LastInv
  <1> SUFFICES ASSUME TypeOK, NEW g \in Groups
               PROVE  /\ \A x : x \in Suppressed(g)
                                <=> x \in Int /\ happened[g] - state[g].suppressed <= x /\ x < happened[g]
                      /\ \A x : x \in InFlight(g)
                                <=> /\ sending.busy /\ sending.group = g
                                    /\ x \in Int /\ happened[g] - 1 - sending.suppressed <= x /\ x < happened[g]
                      /\ happened[g] \in Nat /\ state[g].suppressed \in Nat /\ sending.suppressed \in Nat
    BY DEF LastInv
  <1>1. happened[g] \in Nat /\ state[g].suppressed \in Nat /\ sending.suppressed \in Nat
    BY DEF TypeOK, Bucket
  <1> QED
    BY <1>1 DEF Suppressed, InFlight, Last

LEMMA TypeInit == Init => TypeOK
  BY NothingType DEF Init, TypeOK, NoBucket, Bucket, Nothing

\* The two outcomes of Observe.
LEMMA ObserveSteps ==
  ASSUME TypeOK, NEW g \in Groups, Observe(g)
  PROVE  /\ happened' = [happened EXCEPT ![g] = @ + 1]
         /\ ~sending.busy
         /\ UNCHANGED <<now, received, doubtful, lost, failures, life>>
         /\ \/ /\ ~state[g].started \/ now >= state[g].windowStart + Window
               /\ state' = [state EXCEPT ![g] = NewBucket(state[g])]
               /\ sending' = [busy |-> TRUE, group |-> g, suppressed |-> state[g].suppressed]
               /\ sent' = sent \cup {[group |-> g, at |-> now, nr |-> happened[g], life |-> life]}
            \/ /\ state' = [state EXCEPT ![g] = [state[g] EXCEPT !.suppressed = state[g].suppressed + 1]]
               /\ UNCHANGED <<sending, sent>>
  BY DEF Observe, Observes, WindowClosed

LEMMA TypeNext == TypeOK /\ [Next]_vars => TypeOK'
  <1> SUFFICES ASSUME TypeOK, [Next]_vars PROVE TypeOK'
    OBVIOUS
  <1>1. CASE Tick
    BY <1>1 DEF Tick, TypeOK
  <1>2. ASSUME NEW g \in Groups, Observe(g) PROVE TypeOK'
    <2>1. state[g] \in Bucket /\ state[g].suppressed \in Nat
      BY DEF TypeOK, Bucket
    <2>2. [state[g] EXCEPT !.suppressed = state[g].suppressed + 1] \in Bucket
      BY <2>1 DEF Bucket
    <2>3. happened' \in [Groups -> Nat]
      <3>1. happened' = [happened EXCEPT ![g] = happened[g] + 1]
        BY <1>2, ObserveSteps
      <3> QED
        BY <3>1 DEF TypeOK
    <2>4. CASE /\ state' = [state EXCEPT ![g] = NewBucket(state[g])]
               /\ sending' = [busy |-> TRUE, group |-> g, suppressed |-> state[g].suppressed]
               /\ sent' = sent \cup {[group |-> g, at |-> now, nr |-> happened[g], life |-> life]}
      <3>1. state' \in [Groups -> Bucket]
        BY <2>4, NewBucketType DEF TypeOK
      <3>2. /\ sending' \in [busy : BOOLEAN, group : Groups \cup {<<>>}, suppressed : Nat]
            /\ sending'.busy => sending'.group \in Groups
        BY <2>1, <2>4
      <3>3. sent' \subseteq [group : Groups, at : Nat, nr : Nat, life : Nat]
        BY <2>4 DEF TypeOK
      <3>4. UNCHANGED <<now, received, doubtful, lost, failures, life>>
        BY <1>2, ObserveSteps
      <3> QED
        BY <2>3, <3>1, <3>2, <3>3, <3>4 DEF TypeOK
    <2>5. CASE /\ state' = [state EXCEPT ![g] = [state[g] EXCEPT !.suppressed = state[g].suppressed + 1]]
               /\ UNCHANGED <<sending, sent>>
      <3>1. state' \in [Groups -> Bucket]
        BY <2>2, <2>5 DEF TypeOK
      <3>2. UNCHANGED <<now, received, doubtful, lost, failures, life>>
        BY <1>2, ObserveSteps
      <3> QED
        BY <2>3, <2>5, <3>1, <3>2 DEF TypeOK
    <2> QED
      BY <1>2, <2>4, <2>5, ObserveSteps
  <1>3. CASE Send
    <2>1. received' \in [Groups -> SUBSET Int]
      BY <1>3, LastFacts DEF Send, TypeOK, LastInv
    <2> QED
      BY <1>3, <2>1, NothingType DEF Send, TypeOK, Nothing
  <1>4. CASE SendFails
    <2>1. lost' \in [Groups -> SUBSET Int]
      BY <1>4, LastFacts DEF SendFails, TypeOK, LastInv
    <2> QED
      BY <1>4, <2>1, NothingType DEF SendFails, TypeOK, Nothing
  <1>5. CASE TimesOut
    <2>1. doubtful' \in [Groups -> SUBSET Int]
      BY <1>5, LastFacts DEF TimesOut, TypeOK, LastInv
    <2> QED
      BY <1>5, <2>1, NothingType DEF TimesOut, GivesUp, TypeOK, Nothing
  <1>6. ASSUME NEW g \in Groups, Settle(g) PROVE TypeOK'
    <2>1. PICK K \in SUBSET doubtful[g] :
            /\ doubtful' = [doubtful EXCEPT ![g] = @ \ K]
            /\ \/ received' = [received EXCEPT ![g] = @ \cup K] /\ lost' = lost
               \/ lost' = [lost EXCEPT ![g] = @ \cup K] /\ received' = received
            /\ UNCHANGED <<now, state, sending, happened, sent, failures, life>>
      BY <1>6 DEF Settle
    <2>2. /\ doubtful' \in [Groups -> SUBSET Int]
          /\ received' \in [Groups -> SUBSET Int]
          /\ lost' \in [Groups -> SUBSET Int]
      BY <2>1 DEF TypeOK
    <2> QED
      BY <2>1, <2>2 DEF TypeOK
  <1>7. CASE Restart
    <2>1. lost' \in [Groups -> SUBSET Int] /\ doubtful' \in [Groups -> SUBSET Int]
      BY <1>7, LastFacts DEF Restart, Restarts, TypeOK, LastInv
    <2>2. state' \in [Groups -> Bucket]
      BY <1>7 DEF Restart, Restarts, NoBucket, Bucket
    <2> QED
      BY <1>7, <2>1, <2>2, NothingType DEF Restart, Restarts, TypeOK, Nothing
  <1>8. CASE UNCHANGED vars
    BY <1>8 DEF vars, TypeOK
  <1> QED
    BY <1>1, <1>2, <1>3, <1>4, <1>5, <1>6, <1>7, <1>8 DEF Next

\* The types hold for all groups, routes and bounds.
THEOREM TypeCorrect == Spec => []TypeOK
  BY TypeInit, TypeNext, PTL DEF Spec

-----------------------------------------------------------------------------
(* Every diagnosis has one fate.                                           *)

\* The fate of number x of group g: it has one if it happened, and only one.
OneFate(g, x) ==
  /\ \/ x \in received[g] \/ x \in doubtful[g] \/ x \in lost[g]
     \/ x \in Suppressed(g) \/ x \in InFlight(g)
     <=> x \in 0..(happened[g] - 1)
  /\ x \in received[g] => x \notin doubtful[g] /\ x \notin lost[g]
  /\ x \in doubtful[g] => x \notin lost[g]
  /\ x \in Suppressed(g) => x \notin received[g] /\ x \notin doubtful[g] /\ x \notin lost[g]
  /\ x \in InFlight(g) => x \notin received[g] /\ x \notin doubtful[g] /\ x \notin lost[g]
  /\ ~(x \in Suppressed(g) /\ x \in InFlight(g))

OneFateEach == \A g \in Groups : \A x : OneFate(g, x)

LEMMA FatesByNumber == AccountedFor <=> OneFateEach
  <1> SUFFICES ASSUME NEW g \in Groups
               PROVE  LET fates == Fates(g) IN
                      (/\ UNION {fates[i] : i \in DOMAIN fates} = 0..(happened[g] - 1)
                       /\ \A i, j \in DOMAIN fates : i # j => fates[i] \cap fates[j] = {})
                      <=> \A x : OneFate(g, x)
    BY DEF AccountedFor, OneFateEach
  <1> DEFINE fates == Fates(g)
  <1>1. /\ DOMAIN fates = {1, 2, 3, 4, 5}
        /\ fates[1] = received[g] /\ fates[2] = doubtful[g] /\ fates[3] = lost[g]
        /\ fates[4] = Suppressed(g) /\ fates[5] = InFlight(g)
    BY DEF Fates
  <1> HIDE DEF fates
  <1>2. \A x : x \in UNION {fates[i] : i \in DOMAIN fates}
               <=> \/ x \in received[g] \/ x \in doubtful[g] \/ x \in lost[g]
                   \/ x \in Suppressed(g) \/ x \in InFlight(g)
    BY <1>1
  <1>3. (\A i, j \in DOMAIN fates : i # j => fates[i] \cap fates[j] = {})
        <=> \A i, j \in {1, 2, 3, 4, 5} : i # j => \A x : ~(x \in fates[i] /\ x \in fates[j])
    BY <1>1
  <1>4. (UNION {fates[i] : i \in DOMAIN fates} = 0..(happened[g] - 1))
        <=> \A x : x \in UNION {fates[i] : i \in DOMAIN fates} <=> x \in 0..(happened[g] - 1)
    OBVIOUS
  <1>5. ASSUME \A i, j \in {1, 2, 3, 4, 5} : i # j => \A x : ~(x \in fates[i] /\ x \in fates[j]),
               UNION {fates[i] : i \in DOMAIN fates} = 0..(happened[g] - 1),
               NEW x
        PROVE  OneFate(g, x)
    BY <1>1, <1>2, <1>5 DEF OneFate
  <1>6. ASSUME \A x : OneFate(g, x)
        PROVE  /\ UNION {fates[i] : i \in DOMAIN fates} = 0..(happened[g] - 1)
               /\ \A i, j \in {1, 2, 3, 4, 5} : i # j => \A x : ~(x \in fates[i] /\ x \in fates[j])
    BY <1>1, <1>2, <1>4, <1>6 DEF OneFate
  <1> QED
    BY <1>3, <1>5, <1>6 DEF fates

LEMMA AccountsInit == Init => AccountedFor
  <1> SUFFICES ASSUME Init PROVE AccountedFor
    OBVIOUS
  <1>1. ASSUME NEW g \in Groups, NEW x PROVE OneFate(g, x)
    BY DEF Init, OneFate, Suppressed, InFlight, Last, NoBucket, Nothing
  <1> QED
    BY <1>1, FatesByNumber DEF OneFateEach

LEMMA AccountsNext == TypeOK /\ TypeOK' /\ AccountedFor /\ [Next]_vars => AccountedFor'
  <1> SUFFICES ASSUME TypeOK, TypeOK', AccountedFor, [Next]_vars PROVE AccountedFor'
    OBVIOUS
  <1>a. LastInv /\ LastInv'
    BY LastFacts, PTL
  <1>b. OneFateEach
    BY FatesByNumber
  <1> SUFFICES ASSUME NEW g \in Groups, NEW x PROVE OneFate(g, x)'
    <2>1. OneFateEach'
      BY DEF OneFateEach
    <2> QED
      BY <2>1, FatesByNumber, PTL
  <1> DEFINE suppressed == x \in Int /\ happened[g] - state[g].suppressed <= x /\ x < happened[g]
             inFlight   == /\ sending.busy /\ sending.group = g
                           /\ x \in Int /\ happened[g] - 1 - sending.suppressed <= x /\ x < happened[g]
  <1>0. /\ x \in Suppressed(g) <=> suppressed
        /\ x \in InFlight(g) <=> inFlight
        /\ x \in Suppressed(g)' <=> suppressed'
        /\ x \in InFlight(g)' <=> inFlight'
        /\ happened[g] \in Nat /\ state[g].suppressed \in Nat /\ sending.suppressed \in Nat
        /\ OneFate(g, x)
    BY <1>a, <1>b DEF LastInv, OneFateEach
  <1>1. CASE Tick \/ UNCHANGED vars
    BY <1>0, <1>1 DEF Tick, vars, OneFate
  <1>2. ASSUME NEW k \in Groups, Observe(k) PROVE OneFate(g, x)'
    <2>0. /\ happened'[g] = IF g = k THEN happened[g] + 1 ELSE happened[g]
          /\ received' = received /\ doubtful' = doubtful /\ lost' = lost
          /\ ~sending.busy
      <3>1. happened' = [happened EXCEPT ![k] = happened[k] + 1]
        BY <1>2, ObserveSteps
      <3> QED
        BY <1>2, <3>1, ObserveSteps DEF TypeOK
    <2>1. CASE /\ state' = [state EXCEPT ![k] = NewBucket(state[k])]
               /\ sending' = [busy |-> TRUE, group |-> k, suppressed |-> state[k].suppressed]
      <3>1. state'[g].suppressed = IF g = k THEN 0 ELSE state[g].suppressed
        BY <2>1 DEF TypeOK, NewBucket
      <3> QED
        BY <1>0, <2>0, <2>1, <3>1 DEF OneFate
    <2>2. CASE /\ state' = [state EXCEPT ![k] = [state[k] EXCEPT !.suppressed = state[k].suppressed + 1]]
               /\ sending' = sending
      <3>1. state'[g].suppressed = IF g = k THEN state[g].suppressed + 1 ELSE state[g].suppressed
        BY <2>2 DEF TypeOK, Bucket
      <3> QED
        BY <1>0, <2>0, <2>2, <3>1 DEF OneFate
    <2> QED
      BY <1>2, <2>1, <2>2, ObserveSteps
  <1>3. CASE Send \/ SendFails \/ TimesOut
    <2>1. /\ sending.busy /\ sending.group \in Groups /\ ~sending'.busy
          /\ state' = state /\ happened' = happened
      BY <1>3 DEF Send, SendFails, TimesOut, GivesUp, Nothing, TypeOK
    <2> DEFINE moved(S) == IF sending.group = g THEN S[g] \cup InFlight(g) ELSE S[g]
    <2>2. \/ received'[g] = moved(received) /\ doubtful' = doubtful /\ lost' = lost
          \/ lost'[g] = moved(lost) /\ received' = received /\ doubtful' = doubtful
          \/ doubtful'[g] = moved(doubtful) /\ received' = received /\ lost' = lost
      BY <1>3, <2>1 DEF Send, SendFails, TimesOut, GivesUp, TypeOK
    <2> QED
      BY <1>0, <2>1, <2>2 DEF OneFate
  <1>4. ASSUME NEW h \in Groups, Settle(h) PROVE OneFate(g, x)'
    <2>1. PICK K \in SUBSET doubtful[h] :
            /\ doubtful' = [doubtful EXCEPT ![h] = @ \ K]
            /\ \/ received' = [received EXCEPT ![h] = @ \cup K] /\ lost' = lost
               \/ lost' = [lost EXCEPT ![h] = @ \cup K] /\ received' = received
            /\ UNCHANGED <<now, state, sending, happened, sent, failures, life>>
      BY <1>4 DEF Settle
    <2>2. CASE g # h
      BY <1>0, <2>1, <2>2 DEF OneFate, TypeOK
    <2>3. CASE g = h
      <3>1. /\ doubtful'[g] = doubtful[g] \ K
            /\ \/ received'[g] = received[g] \cup K /\ lost'[g] = lost[g]
               \/ lost'[g] = lost[g] \cup K /\ received'[g] = received[g]
        BY <2>1, <2>3 DEF TypeOK
      <3> QED
        BY <1>0, <2>1, <2>3, <3>1 DEF OneFate
    <2> QED
      BY <2>2, <2>3
  <1>5. CASE Restart
    <2>1. /\ lost'[g] = lost[g] \cup Suppressed(g) /\ doubtful'[g] = doubtful[g] \cup InFlight(g)
          /\ state'[g].suppressed = 0 /\ ~sending'.busy
          /\ happened' = happened /\ received' = received
      BY <1>5 DEF Restart, Restarts, NoBucket, Nothing
    <2> QED
      BY <1>0, <2>1 DEF OneFate
  <1> QED
    BY <1>1, <1>2, <1>3, <1>4, <1>5 DEF Next

\* Every diagnosis is accounted for, whatever fails and restarts.
THEOREM EveryDiagnosisAccountedFor == Spec => []AccountedFor
  BY TypeInit, TypeNext, AccountsInit, AccountsNext, PTL DEF Spec

-----------------------------------------------------------------------------
(* One notification per window.  What was sent by this process is not      *)
(* later than the start of the window of its group.                        *)

SentInv ==
  /\ OnePerWindow
  /\ \A a \in sent :
       /\ a.nr < happened[a.group]
       /\ a.life <= life
       /\ a.life = life => state[a.group].started /\ a.at <= state[a.group].windowStart
  /\ \A a \in sent : a.at <= now

LEMMA SentInit == Init => SentInv
  BY DEF Init, SentInv, OnePerWindow

LEMMA SentNext == TypeOK /\ SentInv /\ [Next]_vars => SentInv'
  <1> SUFFICES ASSUME TypeOK, SentInv, [Next]_vars PROVE SentInv'
    OBVIOUS
  <1>0. \A a \in sent : a.group \in Groups /\ a.at \in Nat /\ a.nr \in Nat /\ a.life \in Nat
    BY DEF TypeOK
  <1>1. CASE Tick
    BY <1>0, <1>1 DEF Tick, SentInv, OnePerWindow, TypeOK
  <1>2. ASSUME NEW k \in Groups, Observe(k) PROVE SentInv'
    <2> DEFINE new == [group |-> k, at |-> now, nr |-> happened[k], life |-> life]
    <2>0. /\ happened' = [happened EXCEPT ![k] = @ + 1] /\ now' = now /\ life' = life
          /\ \A g \in Groups : happened'[g] = IF g = k THEN happened[g] + 1 ELSE happened[g]
          /\ \A g \in Groups : happened[g] \in Nat
      BY <1>2, ObserveSteps DEF TypeOK
    <2>1. CASE /\ ~state[k].started \/ now >= state[k].windowStart + Window
               /\ state' = [state EXCEPT ![k] = NewBucket(state[k])]
               /\ sent' = sent \cup {new}
      <3>1. \A g \in Groups : state'[g] = IF g = k THEN [started |-> TRUE, windowStart |-> now, suppressed |-> 0]
                                                   ELSE state[g]
        BY <2>1 DEF TypeOK, NewBucket
      <3>2. \A a \in sent : a.group = k /\ a.life = life => now >= a.at + Window
        BY <1>0, <2>1, WebhooksAssumption DEF SentInv, TypeOK, Bucket
      <3>3. \A a \in sent : a.group = k => a.nr < new.nr
        BY DEF SentInv
      <3>4. OnePerWindow'
        <4> SUFFICES ASSUME NEW a \in sent', NEW b \in sent',
                            a.group = b.group, a.life = b.life, a.nr < b.nr
                     PROVE  b.at >= a.at + Window
          BY DEF OnePerWindow
        <4>1. CASE a \in sent /\ b \in sent
          BY <4>1 DEF SentInv, OnePerWindow
        <4>2. CASE a \in sent /\ b = new
          BY <3>2, <4>2
        <4>3. CASE a = new /\ b \in sent
          BY <1>0, <2>0, <3>3, <4>3
        <4>4. CASE a = new /\ b = new
          BY <2>0, <4>4
        <4> QED
          BY <2>1, <4>1, <4>2, <4>3, <4>4
      <3>5. ASSUME NEW a \in sent'
            PROVE  /\ a.nr < happened'[a.group] /\ a.life <= life'
                   /\ a.life = life' => state'[a.group].started /\ a.at <= state'[a.group].windowStart
                   /\ a.at <= now'
        <4>1. CASE a \in sent
          BY <1>0, <2>0, <3>1, <4>1 DEF SentInv
        <4>2. CASE a = new
          BY <2>0, <3>1, <4>2 DEF TypeOK
        <4> QED
          BY <2>1, <4>1, <4>2
      <3> QED
        BY <3>4, <3>5 DEF SentInv
    <2>2. CASE /\ state' = [state EXCEPT ![k] = [state[k] EXCEPT !.suppressed = state[k].suppressed + 1]]
               /\ sent' = sent
      <3>1. \A g \in Groups : state'[g].started = state[g].started /\ state'[g].windowStart = state[g].windowStart
        BY <2>2 DEF TypeOK, Bucket
      <3> QED
        BY <1>0, <2>0, <2>2, <3>1 DEF SentInv, OnePerWindow
    <2> QED
      BY <1>2, <2>1, <2>2, ObserveSteps
  <1>3. CASE Send \/ SendFails \/ TimesOut \/ (\E g \in Groups : Settle(g)) \/ UNCHANGED vars
    <2>1. UNCHANGED <<now, state, happened, sent, life>>
      BY <1>3 DEF Send, SendFails, TimesOut, GivesUp, Settle, vars
    <2> QED
      BY <2>1 DEF SentInv, OnePerWindow
  <1>4. CASE Restart
    BY <1>0, <1>4 DEF Restart, Restarts, SentInv, OnePerWindow, TypeOK
  <1> QED
    BY <1>1, <1>2, <1>3, <1>4 DEF Next

\* A process never sends two notifications of a group within one window.
THEOREM AlwaysOnePerWindow == Spec => []OnePerWindow
  <1>1. SentInv => OnePerWindow
    BY DEF SentInv
  <1> QED
    BY <1>1, TypeCorrect, SentInit, SentNext, PTL DEF Spec

=============================================================================
