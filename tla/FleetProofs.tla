------------------------------ MODULE FleetProofs ------------------------------
(***************************************************************************)
(* Theorems about Fleet: the operator and the hub implement Notifications, *)
(* for any groups, routes, tokens and bounds.                              *)
(***************************************************************************)
EXTENDS Fleet, FiniteSetTheorems, TLAPS

-----------------------------------------------------------------------------
(* The lemmas of NotificationsProofs are about the sender of Fleet, with   *)
(* the hub as its receiver.                                                *)

NP == INSTANCE NotificationsProofs WITH received <- Received, doubtful <- Doubtful

LEMMA SameGroups == N!Groups = Groups /\ NP!Groups = Groups
  BY DEF N!Groups, NP!Groups, Groups

LEMMA SameSets ==
  \A g : /\ NP!Suppressed(g) = N!Suppressed(g)
         /\ NP!InFlight(g) = N!InFlight(g)
         /\ NP!Last(g, 1) = N!Last(g, 1)
  BY DEF NP!Suppressed, N!Suppressed, NP!InFlight, N!InFlight, NP!Last, N!Last

LEMMA SameTypeOK == NP!TypeOK <=> N!TypeOK
  BY SameGroups DEF NP!TypeOK, N!TypeOK, NP!Bucket, N!Bucket

LEMMA SameAccountedFor == NP!AccountedFor <=> N!AccountedFor
  BY SameGroups, SameSets DEF NP!AccountedFor, N!AccountedFor, NP!Fates, N!Fates

LEMMA SameVars == NP!vars = N!vars /\ (NP!vars)' = (N!vars)'
  BY DEF NP!vars, N!vars

LEMMA SameInit == NP!Init <=> N!Init
  BY SameGroups DEF NP!Init, N!Init, NP!Nothing, N!Nothing, NP!NoBucket, N!NoBucket

LEMMA SameRoutes == \A ns : N!Route(ns) = Route(ns) /\ NP!Route(ns) = Route(ns)
  BY DEF N!Route, NP!Route, Route, N!Target, NP!Target, Target,
         N!Matches, NP!Matches, Matches, N!Any, NP!Any, Any

LEMMA SameObserve == \A g : NP!Observe(g) <=> N!Observe(g)
  BY SameRoutes
  DEF NP!Observe, N!Observe, NP!Observes, N!Observes, NP!WindowClosed, N!WindowClosed,
      NP!NewBucket, N!NewBucket, NP!NoURL, N!NoURL

LEMMA SameNext == NP!Next <=> N!Next
  <1>1. NP!Tick <=> N!Tick
    BY DEF NP!Tick, N!Tick
  <1>2. \A g : NP!Settle(g) <=> N!Settle(g)
    BY DEF NP!Settle, N!Settle
  <1>3. NP!Send <=> N!Send
    BY SameSets DEF NP!Send, N!Send, NP!Nothing, N!Nothing
  <1>4. NP!SendFails <=> N!SendFails
    BY SameSets DEF NP!SendFails, N!SendFails, NP!Nothing, N!Nothing
  <1>5. NP!TimesOut <=> N!TimesOut
    BY SameSets DEF NP!TimesOut, N!TimesOut, NP!GivesUp, N!GivesUp, NP!Nothing, N!Nothing
  <1>6. NP!Restart <=> N!Restart
    BY SameSets, SameGroups DEF NP!Restart, N!Restart, NP!Restarts, N!Restarts,
       NP!Nothing, N!Nothing, NP!NoBucket, N!NoBucket
  <1> QED
    BY SameGroups, SameObserve, <1>1, <1>2, <1>3, <1>4, <1>5, <1>6 DEF NP!Next, N!Next

\* What NotificationsProofs shows of a step.
LEMMA SenderInit == N!Init => N!TypeOK /\ N!AccountedFor
  BY NP!TypeInit, NP!AccountsInit, WebhooksAssumption, SameInit, SameTypeOK, SameAccountedFor

LEMMA SenderTypeNext == N!TypeOK /\ [N!Next]_(N!vars) => (N!TypeOK)'
  <1>1. NP!TypeOK /\ [NP!Next]_(NP!vars) => (NP!TypeOK)'
    BY NP!TypeNext, WebhooksAssumption
  <1>2. (NP!TypeOK)' <=> (N!TypeOK)'
    BY SameTypeOK, PTL
  <1> QED
    BY <1>1, <1>2, SameTypeOK, SameNext, SameVars

LEMMA SenderAccountsNext ==
  N!TypeOK /\ N!AccountedFor /\ [N!Next]_(N!vars) => (N!AccountedFor)'
  <1>1. NP!TypeOK /\ (NP!TypeOK)' /\ NP!AccountedFor /\ [NP!Next]_(NP!vars) => (NP!AccountedFor)'
    BY NP!AccountsNext, WebhooksAssumption
  <1>2. ((NP!TypeOK)' <=> (N!TypeOK)') /\ ((NP!AccountedFor)' <=> (N!AccountedFor)')
    BY SameTypeOK, SameAccountedFor, PTL
  <1> QED
    BY <1>1, <1>2, SameTypeOK, SameAccountedFor, SameNext, SameVars, SenderTypeNext

\* N!OnePerWindow follows from N!Spec.
LEMMA SenderOnePerWindow == N!Spec => []N!OnePerWindow
  <1>1. NP!Spec => []NP!OnePerWindow
    BY NP!AlwaysOnePerWindow, WebhooksAssumption
  <1>2. NP!OnePerWindow <=> N!OnePerWindow
    BY DEF NP!OnePerWindow, N!OnePerWindow
  <1>3. [N!Next]_(N!vars) => [NP!Next]_(NP!vars)
    BY SameNext, SameVars
  <1>4. N!Spec => NP!Spec
    BY <1>3, SameInit, PTL DEF N!Spec, NP!Spec
  <1> QED
    BY <1>1, <1>2, <1>4, PTL

-----------------------------------------------------------------------------
(* What requests and rows stand for.                                       *)

LEMMA ToldMember ==
  \A S, g, x : x \in Told(S, g) <=> \E r \in S : r.group = g /\ x \in Covered(r)
  BY DEF Told

LEMMA CoveredMember ==
  ASSUME NEW r, r.nr \in Nat, r.count \in Nat
  PROVE  /\ \A x : x \in Covered(r) <=> x \in Int /\ r.nr + 1 - r.count <= x /\ x <= r.nr
         /\ r.count >= 1 => r.nr \in Covered(r)
  BY DEF Covered

\* The fields of requests and rows.
LEMMA Fields ==
  ASSUME FleetTypeOK
  PROVE  /\ \A r \in requests : /\ r.group \in Groups /\ r.nr \in Nat /\ r.life \in Nat /\ r.count \in Nat
                                /\ r.phase \in {"posted", "inserting", "stored"}
                                /\ r.waiting \in BOOLEAN /\ r.at \in Nat
         /\ \A r \in rows : /\ r.cluster \in {Ours, Theirs} /\ r.group \in Groups
                            /\ r.nr \in Nat /\ r.life \in Nat /\ r.count \in Nat /\ r.at \in Nat
         /\ \A g \in Groups : happened[g] \in Nat /\ state[g].suppressed \in Nat
         /\ sending.suppressed \in Nat /\ sending.busy \in BOOLEAN
         /\ sending.busy => sending.group \in Groups
  <1>1. N!TypeOK /\ requests \subseteq Request /\ rows \subseteq Row
    BY DEF FleetTypeOK
  <1>2. \A r \in requests : /\ r.group \in Groups /\ r.nr \in Nat /\ r.life \in Nat /\ r.count \in Nat
                            /\ r.phase \in {"posted", "inserting", "stored"}
                            /\ r.waiting \in BOOLEAN /\ r.at \in Nat
    BY <1>1 DEF Request
  <1>3. \A r \in rows : /\ r.cluster \in {Ours, Theirs} /\ r.group \in Groups
                        /\ r.nr \in Nat /\ r.life \in Nat /\ r.count \in Nat /\ r.at \in Nat
    BY <1>1 DEF Row
  <1>4. /\ \A g \in Groups : happened[g] \in Nat /\ state[g].suppressed \in Nat
        /\ sending.suppressed \in Nat /\ sending.busy \in BOOLEAN
        /\ sending.busy => sending.group \in Groups
    BY <1>1, SameGroups DEF N!TypeOK, N!Bucket
  <1> QED
    BY <1>2, <1>3, <1>4

\* The row of a request.
LEMMA RowFacts ==
  ASSUME NEW r
  PROVE  LET row == RowOf(r) IN
         /\ row.cluster = Ours /\ row.group = r.group /\ row.nr = r.nr /\ row.life = r.life
         /\ row.count = r.count /\ row.at = r.at
         /\ IdOf(row) = IdOf(r) /\ Covered(row) = Covered(r)
  BY DEF RowOf, IdOf, Covered

LEMMA SameId ==
  \A q, r : IdOf(q) = IdOf(r) <=> q.group = r.group /\ q.nr = r.nr /\ q.life = r.life
  BY DEF IdOf

\* The inductive invariant.
IInv == FleetTypeOK /\ IsFiniteSet(rows) /\ AccountedFor /\ FleetInv

-----------------------------------------------------------------------------
(* The ways a request ends.                                                *)

\* The request r ends without a row.
Drops(r) ==
  /\ r.phase # "stored"
  /\ Ends(r)
  /\ Lose(r)
  /\ UNCHANGED <<rows, accepted>>

\* The request r ends and has its row.
Keeps(r) ==
  /\ r.phase # "posted"
  /\ Ends(r)
  /\ rows' = rows \cup {RowOf(r)}
  /\ accepted' \in {accepted, accepted \cup {IdOf(r)}}
  /\ UNCHANGED <<failures, lost>>

LEMMA RequestSteps ==
  ASSUME FleetTypeOK, FleetInv, NEW r \in requests
  PROVE  /\ Refuse(r) => Drops(r)
         /\ Reply(r) => Keeps(r)
         /\ Break(r) => Drops(r) \/ Keeps(r)
  <1>1. r.phase = "stored" => rows = rows \cup {RowOf(r)}
    BY DEF FleetInv, RowsOfRequests
  <1> QED
    BY <1>1 DEF Refuse, Reply, Break, Drops, Keeps

-----------------------------------------------------------------------------
(* FleetInv is preserved.                                                  *)

\* Nobody waits for a request while the sender is idle.
LEMMA IdleSender ==
  ASSUME FleetTypeOK, ~sending.busy, NEW r \in requests
  PROVE  ~r.waiting
  BY DEF FleetTypeOK

\* What Observe does in Fleet.
LEMMA ObserveFacts ==
  ASSUME FleetTypeOK, NEW g \in Groups, Observe(g)
  PROVE  /\ ~sending.busy
         /\ happened' = [happened EXCEPT ![g] = happened[g] + 1]
         /\ \A h \in Groups : happened'[h] = IF h = g THEN happened[h] + 1 ELSE happened[h]
         /\ UNCHANGED <<now, lost, rows, accepted, failures, life>>
         /\ \/ /\ requests' = requests \cup {Posted(g)}
               /\ sending' = [busy |-> TRUE, group |-> g, suppressed |-> state[g].suppressed]
            \/ /\ requests' = requests
               /\ sending' = sending
  <1>1. /\ ~sending.busy
        /\ happened' = [happened EXCEPT ![g] = happened[g] + 1]
        /\ UNCHANGED <<now, lost, rows, accepted, failures, life>>
        /\ \/ /\ requests' = requests \cup {Posted(g)}
              /\ sending' = [busy |-> TRUE, group |-> g, suppressed |-> state[g].suppressed]
           \/ /\ requests' = requests
              /\ sending' = sending
    BY DEF Observe, N!Observes
  <1>2. \A h \in Groups : happened'[h] = IF h = g THEN happened[h] + 1 ELSE happened[h]
    BY <1>1, SameGroups DEF FleetTypeOK, N!TypeOK
  <1> QED
    BY <1>1, <1>2

LEMMA PostedFacts ==
  ASSUME NEW g
  PROVE  LET p == Posted(g) IN
         /\ p.group = g /\ p.nr = happened[g] /\ p.life = life /\ p.count = 1 + state[g].suppressed
         /\ p.phase = "posted" /\ p.waiting = TRUE /\ p.at = 0
  BY DEF Posted

\* A request that was given up is the request that it was.
LEMMA GivenUpFacts ==
  ASSUME FleetTypeOK
  PROVE  /\ \A r \in requests : \E q \in GivenUp :
              /\ q.group = r.group /\ q.nr = r.nr /\ q.life = r.life /\ q.count = r.count
              /\ q.phase = r.phase /\ q.at = r.at /\ Covered(q) = Covered(r)
         /\ \A q \in GivenUp : ~q.waiting
         /\ \A q \in GivenUp : q \in Request /\ \E r \in requests :
              /\ q = [r EXCEPT !.waiting = FALSE]
              /\ q.group = r.group /\ q.nr = r.nr /\ q.life = r.life /\ q.count = r.count
              /\ q.phase = r.phase /\ q.at = r.at /\ Covered(q) = Covered(r) /\ RowOf(q) = RowOf(r)
  <1>1. ASSUME NEW r \in requests
        PROVE  LET q == [r EXCEPT !.waiting = FALSE] IN
               /\ q \in Request /\ ~q.waiting
               /\ q.group = r.group /\ q.nr = r.nr /\ q.life = r.life /\ q.count = r.count
               /\ q.phase = r.phase /\ q.at = r.at
    BY DEF FleetTypeOK, Request
  <1>2. ASSUME NEW r \in requests, NEW q, q = [r EXCEPT !.waiting = FALSE]
        PROVE  Covered(q) = Covered(r) /\ RowOf(q) = RowOf(r)
    BY <1>1, <1>2 DEF Covered, RowOf
  <1> QED
    BY <1>1, <1>2 DEF GivenUp

\* A request whose INSERT was sent or whose row was stored is the request that
\* it was.
LEMMA AdvancedFacts ==
  ASSUME FleetTypeOK, NEW r \in requests,
         NEW q \in {[r EXCEPT !.phase = "inserting", !.at = now], [r EXCEPT !.phase = "stored"]}
  PROVE  /\ q \in Request /\ q.waiting = r.waiting
         /\ q.group = r.group /\ q.nr = r.nr /\ q.life = r.life /\ q.count = r.count
         /\ q.phase = "stored" \/ q.phase = "inserting"
         /\ Covered(q) = Covered(r) /\ IdOf(q) = IdOf(r)
  <1>1. /\ q \in Request /\ q.waiting = r.waiting
        /\ q.group = r.group /\ q.nr = r.nr /\ q.life = r.life /\ q.count = r.count
        /\ q.phase = "stored" \/ q.phase = "inserting"
    <2>1. r \in Request /\ now \in Nat
      BY DEF FleetTypeOK, N!TypeOK
    <2> QED
      BY <2>1 DEF Request
  <1>2. Covered(q) = Covered(r) /\ IdOf(q) = IdOf(r)
    BY <1>1 DEF Covered, IdOf
  <1> QED
    BY <1>1, <1>2

LEMMA InsertingFacts ==
  ASSUME FleetTypeOK, NEW r \in requests
  PROVE  [r EXCEPT !.phase = "inserting", !.at = now].phase = "inserting"
  BY DEF FleetTypeOK, Request

LEMMA StoredFacts ==
  ASSUME FleetTypeOK, NEW r \in requests
  PROVE  LET q == [r EXCEPT !.phase = "stored"] IN q.phase = "stored" /\ RowOf(q) = RowOf(r)
  <1>1. r \in Request
    BY DEF FleetTypeOK
  <1> QED
    BY <1>1 DEF Request, RowOf

LEMMA OurRowsNext ==
  /\ rows' = rows => OurRows' = OurRows
  /\ \A r : rows' = rows \cup {RowOf(r)} => OurRows' = OurRows \cup {RowOf(r)}
  /\ \A g : OthersIngest(g) => OurRows' = OurRows
  <1>1. \A r : RowOf(r).cluster = Ours
    BY RowFacts
  <1>2. \A g : ForeignRow(g).cluster # Ours
    BY DEF ForeignRow, Theirs, Ours
  <1> QED
    BY <1>1, <1>2 DEF OurRows, OthersIngest

\* The kinds of steps, as far as FleetInv is concerned.
Replaces(r, q) == requests' = (requests \ {r}) \cup {q}

LEMMA StepKinds ==
  ASSUME FleetTypeOK, FleetInv, [Next]_vars
  PROVE  \/ UNCHANGED <<requests, rows, accepted, sending, happened>>
         \/ \E g \in Groups : Observe(g)
         \/ /\ requests' = GivenUp /\ ~sending'.busy
            /\ UNCHANGED <<rows, accepted, happened>>
         \/ /\ OurRows' = OurRows /\ rows \subseteq rows'
            /\ UNCHANGED <<requests, accepted, sending, happened>>
         \/ \E r \in requests : Drops(r) \/ Keeps(r)
         \/ \E r \in requests, q \in Request :
              /\ q = [r EXCEPT !.phase = "inserting", !.at = now]
              /\ r.phase = "posted" /\ Replaces(r, q)
              /\ UNCHANGED <<rows, accepted, sending, happened>>
         \/ \E r \in requests, q \in Request :
              /\ q = [r EXCEPT !.phase = "stored"]
              /\ r.phase = "inserting" /\ Replaces(r, q) /\ rows' = rows \cup {RowOf(r)}
              /\ UNCHANGED <<accepted, sending, happened>>
  <1>1. Tick \/ UNCHANGED vars => UNCHANGED <<requests, rows, accepted, sending, happened>>
    BY DEF Tick, vars, hub, sender
  <1>2. TimesOut \/ Restart => /\ requests' = GivenUp /\ ~sending'.busy
                               /\ UNCHANGED <<rows, accepted, happened>>
    BY DEF TimesOut, Restart, N!GivesUp, N!Restarts, N!Nothing
  <1>3. ASSUME NEW g \in Groups, OthersIngest(g)
        PROVE  OurRows' = OurRows /\ rows \subseteq rows' /\ UNCHANGED <<requests, accepted, sending, happened>>
    BY <1>3, OurRowsNext DEF OthersIngest, sender
  <1>4. ASSUME NEW r \in requests, Insert(r)
        PROVE  \E q \in Request :
                 /\ q = [r EXCEPT !.phase = "inserting", !.at = now]
                 /\ r.phase = "posted" /\ Replaces(r, q)
                 /\ UNCHANGED <<rows, accepted, sending, happened>>
    BY <1>4, AdvancedFacts DEF Insert, sender, Replaces
  <1>5. ASSUME NEW r \in requests, Commit(r)
        PROVE  \E q \in Request :
                 /\ q = [r EXCEPT !.phase = "stored"]
                 /\ r.phase = "inserting" /\ Replaces(r, q) /\ rows' = rows \cup {RowOf(r)}
                 /\ UNCHANGED <<accepted, sending, happened>>
    BY <1>5, AdvancedFacts DEF Commit, sender, Replaces
  <1> QED
    BY <1>1, <1>2, <1>3, <1>4, <1>5, RequestSteps DEF Next

LEMMA WaitsNext == FleetTypeOK /\ FleetInv /\ [Next]_vars => WaitsForLast'
  <1> SUFFICES ASSUME FleetTypeOK, FleetInv, [Next]_vars PROVE WaitsForLast'
    OBVIOUS
  <1>0. WaitsForLast
    BY DEF FleetInv
  <1>1. CASE UNCHANGED <<requests, sending, happened>>
    BY <1>0, <1>1 DEF WaitsForLast
  <1>2. ASSUME NEW g \in Groups, Observe(g) PROVE WaitsForLast'
    <2>1. CASE requests' = requests
      BY <1>2, <2>1, ObserveFacts, IdleSender DEF WaitsForLast
    <2>2. CASE /\ requests' = requests \cup {Posted(g)}
               /\ sending' = [busy |-> TRUE, group |-> g, suppressed |-> state[g].suppressed]
      <3>1. /\ Posted(g).group = g /\ Posted(g).nr = happened[g]
            /\ Posted(g).count = 1 + state[g].suppressed
        BY PostedFacts
      <3>2. happened'[g] = happened[g] + 1 /\ \A r \in requests : ~r.waiting
        BY <1>2, ObserveFacts, IdleSender
      <3>3. ASSUME NEW r \in requests', r.waiting PROVE r = Posted(g)
        BY <2>2, <3>2, <3>3
      <3> QED
        BY <2>2, <3>1, <3>2, <3>3 DEF WaitsForLast
    <2> QED
      BY <1>2, <2>1, <2>2, ObserveFacts
  <1>3. CASE requests' = GivenUp
    BY <1>3, GivenUpFacts DEF WaitsForLast
  <1>4. ASSUME NEW r \in requests, Drops(r) \/ Keeps(r) PROVE WaitsForLast'
    <2>1. /\ requests' = requests \ {r} /\ happened' = happened
          /\ ~r.waiting => sending' = sending
      BY <1>4 DEF Drops, Keeps, Ends
    <2>2. r.waiting => \A q \in requests' : ~q.waiting
      BY <2>1 DEF FleetTypeOK
    <2> QED
      BY <1>0, <2>1, <2>2 DEF WaitsForLast
  <1>5. ASSUME NEW r \in requests,
               NEW q \in {[r EXCEPT !.phase = "inserting", !.at = now], [r EXCEPT !.phase = "stored"]},
               Replaces(r, q), UNCHANGED <<sending, happened>>
        PROVE  WaitsForLast'
    <2>1. q.waiting = r.waiting /\ q.group = r.group /\ q.nr = r.nr /\ q.count = r.count
      BY AdvancedFacts
    <2> QED
      BY <1>0, <1>5, <2>1 DEF Replaces, WaitsForLast
  <1> QED
    BY <1>1, <1>2, <1>3, <1>4, <1>5, StepKinds

LEMMA NumbersNext == FleetTypeOK /\ FleetInv /\ [Next]_vars => NumbersAreUnique'
  <1> SUFFICES ASSUME FleetTypeOK, FleetInv, [Next]_vars PROVE NumbersAreUnique'
    OBVIOUS
  <1>0. NumbersAreUnique
    BY DEF FleetInv
  <1>f. OurRows \subseteq rows
    BY DEF OurRows
  <1>1. CASE UNCHANGED <<requests, happened>> /\ OurRows' = OurRows
    BY <1>0, <1>1 DEF NumbersAreUnique
  <1>2. ASSUME NEW g \in Groups, Observe(g) PROVE NumbersAreUnique'
    <2>1. CASE requests' = requests
      BY <1>0, <1>2, <1>f, <2>1, ObserveFacts, OurRowsNext, Fields DEF NumbersAreUnique
    <2>2. CASE requests' = requests \cup {Posted(g)}
      <3>0. /\ Posted(g).group = g /\ Posted(g).nr = happened[g]
            /\ Posted(g).count = 1 + state[g].suppressed
        BY PostedFacts
      <3>n. /\ happened[g] \in Nat /\ state[g].suppressed \in Nat
            /\ \A h \in Groups : happened[h] \in Nat
            /\ \A r \in requests \cup OurRows : r.group \in Groups /\ r.nr \in Nat
        BY <1>f, Fields
      <3>h. /\ \A h \in Groups : happened'[h] = IF h = g THEN happened[h] + 1 ELSE happened[h]
            /\ OurRows' = OurRows
        BY <1>2, ObserveFacts, OurRowsNext
      <3>1. \A r \in requests : r.group = g => r.nr # Posted(g).nr
        BY <1>0, <3>0, <3>n DEF NumbersAreUnique
      <3>2. Posted(g).count >= 1 /\ Posted(g).nr < happened'[g]
        BY <3>0, <3>n, <3>h
      <3>3. \A r \in requests' : r.count >= 1 /\ r.nr < happened'[r.group]
        BY <1>0, <2>2, <3>0, <3>2, <3>n, <3>h DEF NumbersAreUnique
      <3>4. \A q, r \in requests' : q.group = r.group /\ q.nr = r.nr => q = r
        BY <1>0, <2>2, <3>0, <3>1 DEF NumbersAreUnique
      <3>5. /\ \A row \in OurRows' : row.nr < happened'[row.group]
            /\ \A q, r \in OurRows' : q.group = r.group /\ q.nr = r.nr => q = r
        BY <1>0, <3>n, <3>h DEF NumbersAreUnique
      <3> QED
        BY <3>3, <3>4, <3>5 DEF NumbersAreUnique
    <2> QED
      BY <1>2, <2>1, <2>2, ObserveFacts
  <1>3. CASE requests' = GivenUp /\ UNCHANGED <<rows, happened>>
    <2>1. \A q \in requests' : \E r \in requests :
             /\ q = [r EXCEPT !.waiting = FALSE]
             /\ q.group = r.group /\ q.nr = r.nr /\ q.count = r.count
      BY <1>3, GivenUpFacts
    <2>2. OurRows' = OurRows
      BY <1>3, OurRowsNext
    <2>3. ASSUME NEW q1 \in requests', NEW q2 \in requests', q1.group = q2.group, q1.nr = q2.nr
          PROVE  q1 = q2
      <3>1. PICK r1 \in requests : q1 = [r1 EXCEPT !.waiting = FALSE] /\ q1.group = r1.group /\ q1.nr = r1.nr
        BY <2>1
      <3>2. PICK r2 \in requests : q2 = [r2 EXCEPT !.waiting = FALSE] /\ q2.group = r2.group /\ q2.nr = r2.nr
        BY <2>1
      <3>3. r1 = r2
        BY <1>0, <2>3, <3>1, <3>2 DEF NumbersAreUnique
      <3> QED
        BY <3>1, <3>2, <3>3
    <2>4. \A q \in requests' : q.count >= 1 /\ q.nr < happened'[q.group]
      BY <1>0, <1>3, <2>1 DEF NumbersAreUnique
    <2>5. /\ \A row \in OurRows' : row.nr < happened'[row.group]
          /\ \A q, r \in OurRows' : q.group = r.group /\ q.nr = r.nr => q = r
      BY <1>0, <1>3, <2>2 DEF NumbersAreUnique
    <2> QED
      BY <2>3, <2>4, <2>5 DEF NumbersAreUnique
  <1>4. ASSUME NEW r \in requests, Drops(r) \/ Keeps(r) PROVE NumbersAreUnique'
    <2>1. /\ requests' = requests \ {r} /\ happened' = happened
          /\ rows' = rows \/ (r.phase # "posted" /\ rows' = rows \cup {RowOf(r)})
      BY <1>4 DEF Drops, Keeps, Ends
    <2>2. \A row \in OurRows : row.group = r.group /\ row.nr = r.nr => row = RowOf(r)
      BY DEF FleetInv, RowsOfRequests
    <2> QED
      BY <1>0, <2>1, <2>2, OurRowsNext, RowFacts DEF NumbersAreUnique
  <1>5. ASSUME NEW r \in requests,
               NEW q \in {[r EXCEPT !.phase = "inserting", !.at = now], [r EXCEPT !.phase = "stored"]},
               Replaces(r, q), happened' = happened,
               rows' = rows \/ rows' = rows \cup {RowOf(r)}
        PROVE  NumbersAreUnique'
    <2>1. \A row \in OurRows : row.group = r.group /\ row.nr = r.nr => row = RowOf(r)
      BY DEF FleetInv, RowsOfRequests
    <2>2. q.group = r.group /\ q.nr = r.nr /\ q.count = r.count
      BY AdvancedFacts
    <2>3. \A p \in requests' : p.count >= 1 /\ p.nr < happened'[p.group]
      BY <1>0, <1>5, <2>2 DEF Replaces, NumbersAreUnique
    <2>4. \A p, s \in requests' : p.group = s.group /\ p.nr = s.nr => p = s
      BY <1>0, <1>5, <2>2 DEF Replaces, NumbersAreUnique
    <2>5. /\ \A row \in OurRows' : row.nr < happened'[row.group]
          /\ \A p, s \in OurRows' : p.group = s.group /\ p.nr = s.nr => p = s
      BY <1>0, <1>5, <2>1, OurRowsNext, RowFacts DEF NumbersAreUnique
    <2> QED
      BY <2>3, <2>4, <2>5 DEF NumbersAreUnique
  <1> QED
    BY <1>1, <1>2, <1>3, <1>4, <1>5, StepKinds, OurRowsNext

LEMMA RowsNext == FleetTypeOK /\ FleetInv /\ [Next]_vars => RowsOfRequests'
  <1> SUFFICES ASSUME FleetTypeOK, FleetInv, [Next]_vars PROVE RowsOfRequests'
    OBVIOUS
  <1>0. RowsOfRequests
    BY DEF FleetInv
  <1>f. OurRows \subseteq rows
    BY DEF OurRows
  <1>1. CASE UNCHANGED <<requests, rows>>
    BY <1>0, <1>1 DEF RowsOfRequests, OurRows
  <1>2. ASSUME NEW g \in Groups, Observe(g) PROVE RowsOfRequests'
    <2>1. CASE requests' = requests
      BY <1>0, <1>2, <2>1, ObserveFacts DEF RowsOfRequests, OurRows
    <2>2. CASE requests' = requests \cup {Posted(g)}
      <3>1. Posted(g).group = g /\ Posted(g).nr = happened[g] /\ Posted(g).phase = "posted"
        BY PostedFacts
      <3>2. rows' = rows /\ OurRows' = OurRows
        BY <1>2, ObserveFacts, OurRowsNext
      <3>3. \A row \in OurRows : row.group = g => row.nr # happened[g]
        BY <1>f, Fields DEF FleetInv, NumbersAreUnique
      <3> QED
        BY <1>0, <2>2, <3>1, <3>2, <3>3 DEF RowsOfRequests
    <2> QED
      BY <1>2, <2>1, <2>2, ObserveFacts
  <1>3. CASE requests' = GivenUp /\ rows' = rows
    <2>1. \A q \in requests' : \E r \in requests :
             /\ q.group = r.group /\ q.nr = r.nr /\ q.phase = r.phase /\ RowOf(q) = RowOf(r)
      BY <1>3, GivenUpFacts
    <2>2. OurRows' = OurRows
      BY <1>3, OurRowsNext
    <2> QED
      BY <1>0, <1>3, <2>1, <2>2 DEF RowsOfRequests
  <1>4. ASSUME NEW r \in requests, Drops(r) \/ Keeps(r) PROVE RowsOfRequests'
    <2>1. /\ requests' = requests \ {r}
          /\ rows' = rows \/ rows' = rows \cup {RowOf(r)}
      BY <1>4 DEF Drops, Keeps, Ends
    <2>2. \A q \in requests' : ~(q.group = r.group /\ q.nr = r.nr)
      BY <2>1 DEF FleetInv, NumbersAreUnique
    <2>3. RowOf(r).group = r.group /\ RowOf(r).nr = r.nr
      BY RowFacts
    <2>4. OurRows' = OurRows \/ OurRows' = OurRows \cup {RowOf(r)}
      BY <2>1, OurRowsNext
    <2> QED
      BY <1>0, <2>1, <2>2, <2>3, <2>4 DEF RowsOfRequests
  <1>5. ASSUME NEW r \in requests, NEW q,
               q = [r EXCEPT !.phase = "inserting", !.at = now],
               r.phase = "posted", Replaces(r, q), rows' = rows
        PROVE  RowsOfRequests'
    <2>1. q.group = r.group /\ q.nr = r.nr /\ q.phase = "inserting"
      BY <1>5, AdvancedFacts, InsertingFacts
    <2>2. OurRows' = OurRows
      BY <1>5, OurRowsNext
    <2>3. \A row \in OurRows : ~(row.group = r.group /\ row.nr = r.nr)
      BY <1>0, <1>5 DEF RowsOfRequests
    <2>4. requests' = (requests \ {r}) \cup {q} /\ rows' = rows
      BY <1>5 DEF Replaces
    <2>5. \A p \in requests' : p.phase = "stored" => RowOf(p) \in rows'
      BY <1>0, <2>1, <2>4 DEF RowsOfRequests
    <2>6. \A p \in requests', row \in OurRows' :
             p.group = row.group /\ p.nr = row.nr => p.phase = "stored" /\ row = RowOf(p)
      BY <1>0, <2>1, <2>2, <2>3, <2>4 DEF RowsOfRequests
    <2> QED
      BY <2>5, <2>6 DEF RowsOfRequests
  <1>6. ASSUME NEW r \in requests, NEW q,
               q = [r EXCEPT !.phase = "stored"],
               r.phase = "inserting", Replaces(r, q), rows' = rows \cup {RowOf(r)}
        PROVE  RowsOfRequests'
    <2>1. q.group = r.group /\ q.nr = r.nr /\ q.phase = "stored" /\ RowOf(q) = RowOf(r)
      BY <1>6, AdvancedFacts, StoredFacts
    <2>2. OurRows' = OurRows \cup {RowOf(r)}
      BY <1>6, OurRowsNext
    <2>3. /\ \A row \in OurRows : ~(row.group = r.group /\ row.nr = r.nr)
          /\ RowOf(r).group = r.group /\ RowOf(r).nr = r.nr
      BY <1>0, <1>6, RowFacts DEF RowsOfRequests
    <2>4. \A p \in requests : p.group = r.group /\ p.nr = r.nr => p = r
      BY DEF FleetInv, NumbersAreUnique
    <2>5. requests' = (requests \ {r}) \cup {q} /\ rows' = rows \cup {RowOf(r)}
      BY <1>6 DEF Replaces
    <2>6. \A p \in requests' : p.phase = "stored" => RowOf(p) \in rows'
      BY <1>0, <2>1, <2>5 DEF RowsOfRequests
    <2>7. \A p \in requests', row \in OurRows' :
             p.group = row.group /\ p.nr = row.nr => p.phase = "stored" /\ row = RowOf(p)
      BY <1>0, <2>1, <2>2, <2>3, <2>4, <2>5 DEF RowsOfRequests
    <2> QED
      BY <2>6, <2>7 DEF RowsOfRequests
  <1>7. CASE requests' = requests /\ OurRows' = OurRows /\ rows \subseteq rows'
    BY <1>0, <1>7 DEF RowsOfRequests
  <1> QED
    BY <1>1, <1>2, <1>3, <1>4, <1>5, <1>6, <1>7, StepKinds

-----------------------------------------------------------------------------
(* No diagnosis is covered twice: a new request covers what was suppressed *)
(* and its own diagnosis, which AccountedFor keeps apart from the rest.    *)

LEMMA DoubtfulMember ==
  ASSUME NEW g \in Groups
  PROVE  \A x : x \in Doubtful[g] <=> \E r \in requests : ~r.waiting /\ r.group = g /\ x \in Covered(r)
  <1>1. Doubtful[g] = Told({r \in requests : ~r.waiting}, g)
    BY DEF Doubtful
  <1> QED
    BY <1>1, ToldMember

LEMMA ReceivedMember ==
  ASSUME NEW g \in Groups
  PROVE  \A x : x \in Received[g] <=>
                \E row \in OurRows : IsOver(row) /\ row.group = g /\ x \in Covered(row)
  <1>1. Received[g] = Told({row \in rows : row.cluster = Ours /\ IsOver(row)}, g)
    BY DEF Received
  <1> QED
    BY <1>1, ToldMember DEF OurRows

LEMMA SuppressedMember ==
  ASSUME FleetTypeOK, NEW g \in Groups
  PROVE  \A x : x \in N!Suppressed(g)
                <=> x \in Int /\ happened[g] - state[g].suppressed <= x /\ x < happened[g]
  BY Fields DEF N!Suppressed, N!Last

LEMMA SuppressedIsNew ==
  ASSUME AccountedFor, NEW g \in Groups, NEW x \in N!Suppressed(g)
  PROVE  x \notin Received[g] /\ x \notin Doubtful[g]
  <1> DEFINE fates == N!Fates(g)
  <1>1. \A i, j \in DOMAIN fates : i # j => fates[i] \cap fates[j] = {}
    BY SameGroups DEF AccountedFor, N!AccountedFor
  <1>2. /\ DOMAIN fates = {1, 2, 3, 4, 5}
        /\ fates[1] = Received[g] /\ fates[2] = Doubtful[g] /\ fates[4] = N!Suppressed(g)
    BY DEF N!Fates
  <1> HIDE DEF fates
  <1>3. fates[1] \cap fates[4] = {} /\ fates[2] \cap fates[4] = {}
    BY <1>1, <1>2
  <1> QED
    BY <1>2, <1>3

LEMMA PostedIsNew ==
  ASSUME IInv, ~sending.busy, NEW g \in Groups
  PROVE  /\ \A r \in requests : r.group = g => Covered(r) \cap Covered(Posted(g)) = {}
         /\ \A row \in OurRows : row.group = g => Covered(row) \cap Covered(Posted(g)) = {}
  <1> DEFINE p == Posted(g)
  <1>0. FleetTypeOK /\ AccountedFor /\ FleetInv
    BY DEF IInv
  <1>1. /\ happened[g] \in Nat /\ state[g].suppressed \in Nat
        /\ p.nr = happened[g] /\ p.count = 1 + state[g].suppressed
    BY <1>0, Fields, PostedFacts
  <1>2. \A x : x \in Covered(p)
               <=> x \in Int /\ happened[g] - state[g].suppressed <= x /\ x <= happened[g]
    BY <1>1 DEF Covered
  <1> HIDE DEF p
  <1>3. \A x \in Covered(p) : x < happened[g] => x \notin Received[g] /\ x \notin Doubtful[g]
    BY <1>0, <1>2, SuppressedMember, SuppressedIsNew
  <1>4. ASSUME NEW r \in requests, r.group = g, NEW x \in Covered(r) PROVE x \notin Covered(p)
    <2>1. r.nr \in Nat /\ r.count \in Nat /\ r.nr < happened[g]
      BY <1>0, <1>4, Fields DEF FleetInv, NumbersAreUnique
    <2>2. x \in Int /\ x < happened[g]
      BY <1>1, <2>1, CoveredMember
    <2>3. x \in Doubtful[g]
      BY <1>0, <1>4, DoubtfulMember, IdleSender
    <2> QED
      BY <1>3, <2>2, <2>3
  <1>5. ASSUME NEW row \in OurRows, row.group = g, NEW x \in Covered(row) PROVE x \notin Covered(p)
    <2>1. row.nr \in Nat /\ row.count \in Nat /\ row.nr < happened[g]
      BY <1>0, <1>5, Fields DEF FleetInv, NumbersAreUnique, OurRows
    <2>2. x \in Int /\ x < happened[g]
      BY <1>1, <2>1, CoveredMember
    <2>3. CASE IsOver(row)
      BY <1>3, <1>5, <2>2, <2>3, ReceivedMember
    <2>4. CASE ~IsOver(row)
      <3>1. PICK r \in requests : IdOf(r) = IdOf(row)
        BY <2>4 DEF IsOver
      <3>2. r.group = g /\ row = RowOf(r)
        BY <1>0, <1>5, <3>1, SameId DEF FleetInv, RowsOfRequests
      <3>3. Covered(r) = Covered(row)
        BY <3>2, RowFacts
      <3> QED
        BY <1>4, <1>5, <3>2, <3>3
    <2> QED
      BY <2>3, <2>4
  <1> QED
    BY <1>4, <1>5 DEF p

LEMMA CoveredNext == IInv /\ [Next]_vars => CoveredOnce'
  <1> SUFFICES ASSUME IInv, [Next]_vars PROVE CoveredOnce'
    OBVIOUS
  <1>0. /\ FleetTypeOK /\ FleetInv
        /\ \A q, r \in requests : q.group = r.group /\ q # r => Covered(q) \cap Covered(r) = {}
        /\ \A r \in requests, row \in OurRows :
             r.group = row.group /\ r.nr # row.nr => Covered(r) \cap Covered(row) = {}
        /\ \A a, b \in OurRows : a.group = b.group /\ a # b => Covered(a) \cap Covered(b) = {}
    BY DEF IInv, FleetInv, CoveredOnce, ToldOnce
  <1>1. CASE requests' = requests /\ OurRows' = OurRows
    BY <1>0, <1>1 DEF CoveredOnce, ToldOnce
  <1>2. ASSUME NEW g \in Groups, Observe(g) PROVE CoveredOnce'
    <2>0. OurRows' = OurRows /\ ~sending.busy
      BY <1>0, <1>2, ObserveFacts, OurRowsNext
    <2>1. CASE requests' = requests
      BY <1>1, <2>0, <2>1
    <2>2. CASE requests' = requests \cup {Posted(g)}
      <3>1. Posted(g).group = g
        BY PostedFacts
      <3>2. /\ \A r \in requests : r.group = g => Covered(r) \cap Covered(Posted(g)) = {}
            /\ \A row \in OurRows : row.group = g => Covered(row) \cap Covered(Posted(g)) = {}
        BY <2>0, PostedIsNew
      <3>3. \A q, r \in requests' : q.group = r.group /\ q # r => Covered(q) \cap Covered(r) = {}
        BY <1>0, <2>2, <3>1, <3>2
      <3>4. \A r \in requests', row \in OurRows' :
              r.group = row.group /\ r.nr # row.nr => Covered(r) \cap Covered(row) = {}
        BY <1>0, <2>0, <2>2, <3>1, <3>2
      <3> QED
        BY <1>0, <2>0, <3>3, <3>4 DEF CoveredOnce, ToldOnce
    <2> QED
      BY <1>0, <1>2, <2>1, <2>2, ObserveFacts
  <1>3. CASE requests' = GivenUp /\ rows' = rows
    <2>1. \A q \in requests' : \E r \in requests :
             /\ q = [r EXCEPT !.waiting = FALSE]
             /\ q.group = r.group /\ q.nr = r.nr /\ Covered(q) = Covered(r)
      BY <1>0, <1>3, GivenUpFacts
    <2>2. OurRows' = OurRows
      BY <1>3, OurRowsNext
    <2>3. ASSUME NEW q1 \in requests', NEW q2 \in requests', q1.group = q2.group, q1 # q2
          PROVE  Covered(q1) \cap Covered(q2) = {}
      <3>1. PICK r1 \in requests : /\ q1 = [r1 EXCEPT !.waiting = FALSE]
                                   /\ q1.group = r1.group /\ Covered(q1) = Covered(r1)
        BY <2>1
      <3>2. PICK r2 \in requests : /\ q2 = [r2 EXCEPT !.waiting = FALSE]
                                   /\ q2.group = r2.group /\ Covered(q2) = Covered(r2)
        BY <2>1
      <3>3. r1 # r2
        BY <2>3, <3>1, <3>2
      <3> QED
        BY <1>0, <2>3, <3>1, <3>2, <3>3
    <2>4. \A r \in requests', row \in OurRows' :
            r.group = row.group /\ r.nr # row.nr => Covered(r) \cap Covered(row) = {}
      BY <1>0, <2>1, <2>2
    <2> QED
      BY <1>0, <2>2, <2>3, <2>4 DEF CoveredOnce, ToldOnce
  <1>4. ASSUME NEW r \in requests, NEW Q,
               \/ Q = {}
               \/ \E q \in Q : /\ Q = {q} /\ Covered(q) = Covered(r)
                               /\ q.group = r.group /\ q.nr = r.nr,
               requests' = (requests \ {r}) \cup Q,
               OurRows' = OurRows \/ OurRows' = OurRows \cup {RowOf(r)}
        PROVE  CoveredOnce'
    <2>1. \A q \in Q : Q = {q} /\ Covered(q) = Covered(r) /\ q.group = r.group /\ q.nr = r.nr
      BY <1>4
    <2>2. Covered(RowOf(r)) = Covered(r) /\ RowOf(r).group = r.group /\ RowOf(r).nr = r.nr
      BY RowFacts
    <2>3. \A a \in OurRows : a.group = r.group /\ a # RowOf(r) => Covered(a) \cap Covered(r) = {}
      BY <1>0 DEF FleetInv, RowsOfRequests
    <2>4. \A p, q \in requests' : p.group = q.group /\ p # q => Covered(p) \cap Covered(q) = {}
      BY <1>0, <1>4, <2>1
    <2>5. \A p \in requests', row \in OurRows' :
            p.group = row.group /\ p.nr # row.nr => Covered(p) \cap Covered(row) = {}
      BY <1>0, <1>4, <2>1, <2>2
    <2>6. \A a, b \in OurRows' : a.group = b.group /\ a # b => Covered(a) \cap Covered(b) = {}
      BY <1>0, <1>4, <2>2, <2>3
    <2> QED
      BY <2>4, <2>5, <2>6 DEF CoveredOnce, ToldOnce
  <1>5. ASSUME NEW r \in requests, Drops(r) \/ Keeps(r) PROVE CoveredOnce'
    <2>1. /\ requests' = (requests \ {r}) \cup {}
          /\ OurRows' = OurRows \/ OurRows' = OurRows \cup {RowOf(r)}
      BY <1>5, OurRowsNext DEF Drops, Keeps, Ends
    <2> QED
      BY <1>4, <2>1
  <1>6. ASSUME NEW r \in requests,
               NEW q \in {[r EXCEPT !.phase = "inserting", !.at = now], [r EXCEPT !.phase = "stored"]},
               Replaces(r, q), rows' = rows \/ rows' = rows \cup {RowOf(r)}
        PROVE  CoveredOnce'
    <2>1. Covered(q) = Covered(r) /\ q.group = r.group /\ q.nr = r.nr
      BY <1>0, AdvancedFacts
    <2>2. /\ requests' = (requests \ {r}) \cup {q}
          /\ OurRows' = OurRows \/ OurRows' = OurRows \cup {RowOf(r)}
      BY <1>6, OurRowsNext DEF Replaces
    <2> QED
      BY <1>4, <2>1, <2>2
  <1> QED
    BY <1>0, <1>1, <1>2, <1>3, <1>5, <1>6, StepKinds, OurRowsNext

-----------------------------------------------------------------------------
(* The refinement.  Every step of Fleet is a step of Notifications with    *)
(* the hub as the receiver, or leaves Notifications as it is.              *)

\* The requests and the rows that Notifications knows of.
Abandoned == {r \in requests : ~r.waiting}
Stored    == {row \in OurRows : IsOver(row)}

\* What a set of requests or rows covers, per group.
Account(S) == [g \in Groups |-> Told(S, g)]

LEMMA ReceiverFacts ==
  /\ Received = Account(Stored)
  /\ Received' = Account(Stored')
  /\ Doubtful = Account(Abandoned)
  /\ Doubtful' = Account(Abandoned')
  <1>1. Stored = {row \in rows : row.cluster = Ours /\ IsOver(row)}
    BY DEF Stored, OurRows
  <1>2. Received = Account(Stored)
    BY <1>1 DEF Received, Account
  <1>3. Doubtful = Account(Abandoned)
    BY DEF Doubtful, Account, Abandoned
  <1>4. Stored' = {row \in rows' : row.cluster = Ours /\ IsOver(row)'}
    BY DEF Stored, OurRows
  <1>5. Received' = Account(Stored')
    BY <1>4 DEF Received, Account
  <1>6. Doubtful' = Account(Abandoned')
    BY DEF Doubtful, Account, Abandoned
  <1> QED
    BY <1>2, <1>3, <1>5, <1>6

\* What a set of records covers with one more or one less.
LEMMA ToldWith ==
  ASSUME NEW S, NEW r, NEW g
  PROVE  Told(S \cup {r}, g) = IF r.group = g THEN Told(S, g) \cup Covered(r) ELSE Told(S, g)
  <1>1. \A x : x \in Told(S \cup {r}, g) <=> x \in Told(S, g) \/ (r.group = g /\ x \in Covered(r))
    BY ToldMember
  <1>2. r.group = g => Told(S \cup {r}, g) = Told(S, g) \cup Covered(r)
    BY <1>1
  <1>3. r.group # g => Told(S \cup {r}, g) = Told(S, g)
    BY <1>1
  <1> QED
    BY <1>2, <1>3

LEMMA ToldWithout ==
  ASSUME NEW S, NEW r \in S, NEW g,
         \A q \in S : q.group = r.group /\ q # r => Covered(q) \cap Covered(r) = {}
  PROVE  Told(S \ {r}, g) = IF r.group = g THEN Told(S, g) \ Covered(r) ELSE Told(S, g)
  <1>1. \A x : x \in Told(S \ {r}, g) <=> x \in Told(S, g) /\ ~(r.group = g /\ x \in Covered(r))
    BY ToldMember
  <1>2. r.group = g => Told(S \ {r}, g) = Told(S, g) \ Covered(r)
    BY <1>1
  <1>3. r.group # g => Told(S \ {r}, g) = Told(S, g)
    BY <1>1
  <1> QED
    BY <1>2, <1>3

LEMMA UpdateWith ==
  ASSUME NEW S, NEW r, r.group \in Groups
  PROVE  Account(S \cup {r}) = [Account(S) EXCEPT ![r.group] = @ \cup Covered(r)]
  <1> DEFINE e == Account(S \cup {r})
             u == [Account(S) EXCEPT ![r.group] = @ \cup Covered(r)]
  <1>1. ASSUME NEW g \in Groups PROVE e[g] = u[g]
    <2>1. e[g] = IF r.group = g THEN Told(S, g) \cup Covered(r) ELSE Told(S, g)
      BY ToldWith DEF Account
    <2> QED
      BY <2>1 DEF Account
  <1>2. e = [g \in Groups |-> e[g]] /\ u = [g \in Groups |-> u[g]]
    BY DEF Account
  <1> HIDE DEF e, u
  <1>3. e = u
    BY <1>1, <1>2
  <1> QED
    BY <1>3 DEF e, u

LEMMA UpdateWithout ==
  ASSUME NEW S, NEW r \in S, r.group \in Groups,
         \A q \in S : q.group = r.group /\ q # r => Covered(q) \cap Covered(r) = {}
  PROVE  Account(S \ {r}) = [Account(S) EXCEPT ![r.group] = @ \ Covered(r)]
  <1> DEFINE e == Account(S \ {r})
             u == [Account(S) EXCEPT ![r.group] = @ \ Covered(r)]
  <1>1. ASSUME NEW g \in Groups PROVE e[g] = u[g]
    <2>1. e[g] = IF r.group = g THEN Told(S, g) \ Covered(r) ELSE Told(S, g)
      BY ToldWithout DEF Account
    <2> QED
      BY <2>1 DEF Account
  <1>2. e = [g \in Groups |-> e[g]] /\ u = [g \in Groups |-> u[g]]
    BY DEF Account
  <1> HIDE DEF e, u
  <1>3. e = u
    BY <1>1, <1>2
  <1> QED
    BY <1>3 DEF e, u

\* What the sender waits for is in flight.
LEMMA InFlightCovered ==
  ASSUME FleetTypeOK, FleetInv, NEW r \in requests, r.waiting
  PROVE  /\ sending.busy /\ sending.group = r.group
         /\ N!InFlight(r.group) = Covered(r)
         /\ \A g : g # r.group => N!InFlight(g) = {}
  <1>1. /\ r.group = sending.group /\ r.nr + 1 = happened[r.group]
        /\ r.count = 1 + sending.suppressed
    BY DEF FleetInv, WaitsForLast
  <1>2. sending.busy
    BY DEF FleetTypeOK
  <1>3. r.nr \in Nat /\ r.count \in Nat /\ happened[r.group] \in Nat /\ sending.suppressed \in Nat
    BY Fields
  <1>4. /\ happened[r.group] - (1 + sending.suppressed) = r.nr + 1 - r.count
        /\ happened[r.group] - 1 = r.nr
    BY <1>1, <1>3
  <1>5. N!Last(r.group, 1 + sending.suppressed) = Covered(r)
    BY <1>4 DEF N!Last, Covered
  <1> QED
    BY <1>1, <1>2, <1>5 DEF N!InFlight

\* Which rows are over.
LEMMA OverAfter ==
  ASSUME FleetTypeOK, FleetInv, NEW r \in requests, requests' = requests \ {r}
  PROVE  /\ OurRows' = OurRows /\ r.phase # "stored" => Stored' = Stored
         /\ OurRows' = OurRows \cup {RowOf(r)} => Stored' = Stored \cup {RowOf(r)}
         /\ Abandoned' = IF r.waiting THEN Abandoned ELSE Abandoned \ {r}
  <1>1. \A row \in OurRows : IdOf(r) = IdOf(row) => row = RowOf(r) /\ r.phase = "stored"
    BY SameId DEF FleetInv, RowsOfRequests
  <1>2. \A row : row # RowOf(r) /\ row \in OurRows => (IsOver(row)' <=> IsOver(row))
    BY <1>1 DEF IsOver
  <1>3. IsOver(RowOf(r))'
    <2>1. IdOf(RowOf(r)) = IdOf(r)
      BY RowFacts
    <2>2. \A q \in requests' : IdOf(q) # IdOf(r)
      BY SameId DEF FleetInv, NumbersAreUnique
    <2> QED
      BY <2>1, <2>2 DEF IsOver
  <1>4. ASSUME OurRows' = OurRows, r.phase # "stored" PROVE Stored' = Stored
    <2>1. \A row \in OurRows : IsOver(row)' <=> IsOver(row)
      BY <1>1, <1>4 DEF IsOver
    <2> QED
      BY <1>4, <2>1 DEF Stored
  <1>5. ASSUME OurRows' = OurRows \cup {RowOf(r)} PROVE Stored' = Stored \cup {RowOf(r)}
    BY <1>2, <1>3, <1>5 DEF Stored
  <1>6. Abandoned' = IF r.waiting THEN Abandoned ELSE Abandoned \ {r}
    BY DEF Abandoned
  <1> QED
    BY <1>4, <1>5, <1>6

LEMMA DropsRefines ==
  ASSUME FleetTypeOK, FleetInv, NEW r \in requests, Drops(r)
  PROVE  N!Next
  <1>1. /\ requests' = requests \ {r} /\ OurRows' = OurRows /\ r.phase # "stored"
        /\ sending' = IF r.waiting THEN N!Nothing ELSE sending
        /\ UNCHANGED <<now, state, happened, sent, life>>
        /\ r.waiting => failures < MaxFailures
        /\ failures' = IF r.waiting THEN failures + 1 ELSE failures
        /\ lost' = [lost EXCEPT ![r.group] = @ \cup Covered(r)]
    BY OurRowsNext DEF Drops, Ends, Lose
  <1>2. /\ Stored' = Stored
        /\ Abandoned' = IF r.waiting THEN Abandoned ELSE Abandoned \ {r}
    BY <1>1, OverAfter
  <1>3. Received' = Received
    BY <1>2, ReceiverFacts
  <1>4. CASE r.waiting
    <2>1. Doubtful' = Doubtful
      BY <1>2, <1>4, ReceiverFacts
    <2> QED
      BY <1>1, <1>3, <1>4, <2>1, InFlightCovered DEF N!Next, N!SendFails
  <1>5. CASE ~r.waiting
    <2>1. r \in Abandoned /\ r.group \in Groups
      BY <1>5, Fields DEF Abandoned
    <2>2. \A q \in Abandoned : q.group = r.group /\ q # r => Covered(q) \cap Covered(r) = {}
      BY DEF FleetInv, CoveredOnce, Abandoned
    <2>3. Doubtful' = [Doubtful EXCEPT ![r.group] = @ \ Covered(r)]
      <3>1. Account(Abandoned \ {r}) = [Doubtful EXCEPT ![r.group] = @ \ Covered(r)]
        BY <2>1, <2>2, ReceiverFacts, UpdateWithout
      <3> QED
        BY <1>2, <1>5, <3>1, ReceiverFacts
    <2>4. Covered(r) \in SUBSET Doubtful[r.group] /\ Covered(r) # {}
      <3>1. Doubtful[r.group] = Told(Abandoned, r.group)
        BY <2>1, ReceiverFacts DEF Account
      <3>2. Covered(r) \subseteq Told(Abandoned, r.group)
        BY <2>1, ToldMember
      <3>3. Covered(r) # {}
        BY Fields, CoveredMember DEF FleetInv, NumbersAreUnique
      <3> QED
        BY <3>1, <3>2, <3>3
    <2>5. N!Settle(r.group)
      BY <1>1, <1>3, <1>5, <2>3, <2>4 DEF N!Settle
    <2> QED
      BY <2>1, <2>5, SameGroups DEF N!Next
  <1> QED
    BY <1>4, <1>5

LEMMA KeepsRefines ==
  ASSUME FleetTypeOK, FleetInv, NEW r \in requests, Keeps(r)
  PROVE  N!Next
  <1>1. /\ requests' = requests \ {r} /\ OurRows' = OurRows \cup {RowOf(r)}
        /\ sending' = IF r.waiting THEN N!Nothing ELSE sending
        /\ UNCHANGED <<now, state, happened, sent, life, failures, lost>>
    BY OurRowsNext DEF Keeps, Ends
  <1>2. /\ Stored' = Stored \cup {RowOf(r)}
        /\ Abandoned' = IF r.waiting THEN Abandoned ELSE Abandoned \ {r}
    BY <1>1, OverAfter
  <1>3. /\ r.group \in Groups
        /\ RowOf(r).group = r.group /\ Covered(RowOf(r)) = Covered(r)
    BY Fields, RowFacts
  <1>4. Received' = [Received EXCEPT ![r.group] = @ \cup Covered(r)]
    <2> DEFINE row == RowOf(r)
    <2> HIDE DEF row
    <2>1. row.group = r.group /\ Covered(row) = Covered(r) /\ Stored' = Stored \cup {row}
      BY <1>2, <1>3 DEF row
    <2>r. row.group \in Groups /\ Received = Account(Stored)
      BY <1>3, <2>1, ReceiverFacts
    <2>2. Account(Stored \cup {row})
            = [Account(Stored) EXCEPT ![row.group] = @ \cup Covered(row)]
      BY <2>r, UpdateWith
    <2> QED
      BY <2>1, <2>2, ReceiverFacts
  <1>5. CASE r.waiting
    <2>1. Doubtful' = Doubtful
      BY <1>2, <1>5, ReceiverFacts
    <2> QED
      BY <1>1, <1>4, <1>5, <2>1, InFlightCovered DEF N!Next, N!Send
  <1>6. CASE ~r.waiting
    <2>1. r \in Abandoned
      BY <1>6 DEF Abandoned
    <2>2. \A q \in Abandoned : q.group = r.group /\ q # r => Covered(q) \cap Covered(r) = {}
      BY DEF FleetInv, CoveredOnce, Abandoned
    <2>3. Doubtful' = [Doubtful EXCEPT ![r.group] = @ \ Covered(r)]
      <3>1. Account(Abandoned \ {r}) = [Doubtful EXCEPT ![r.group] = @ \ Covered(r)]
        BY <1>3, <2>1, <2>2, ReceiverFacts, UpdateWithout
      <3> QED
        BY <1>2, <1>6, <3>1, ReceiverFacts
    <2>4. Covered(r) \in SUBSET Doubtful[r.group] /\ Covered(r) # {}
      <3>1. Doubtful[r.group] = Told(Abandoned, r.group)
        BY <1>3, ReceiverFacts DEF Account
      <3>2. Covered(r) \subseteq Told(Abandoned, r.group)
        BY <2>1, ToldMember
      <3>3. Covered(r) # {}
        BY Fields, CoveredMember DEF FleetInv, NumbersAreUnique
      <3> QED
        BY <3>1, <3>2, <3>3
    <2>5. N!Settle(r.group)
      BY <1>1, <1>4, <1>6, <2>3, <2>4 DEF N!Settle
    <2> QED
      BY <1>3, <2>5, SameGroups DEF N!Next
  <1> QED
    BY <1>5, <1>6

\* Steps that leave the receiver as it is.
LEMMA SameReceiver ==
  ASSUME requests' = requests, OurRows' = OurRows
  PROVE  Received' = Received /\ Doubtful' = Doubtful
  <1>1. Stored' = Stored /\ Abandoned' = Abandoned
    BY DEF Stored, Abandoned, IsOver
  <1> QED
    BY <1>1, ReceiverFacts

LEMMA ObserveRefines ==
  ASSUME FleetTypeOK, FleetInv, NEW g \in Groups, Observe(g)
  PROVE  N!Next
  <1>1. /\ OurRows' = OurRows
        /\ requests' = requests \/ requests' = requests \cup {Posted(g)}
    BY ObserveFacts, OurRowsNext
  <1>2. Posted(g).group = g /\ Posted(g).nr = happened[g] /\ Posted(g).waiting = TRUE
    BY PostedFacts
  <1>3. \A row \in OurRows : IdOf(Posted(g)) # IdOf(row)
    BY <1>2, SameId, Fields DEF FleetInv, NumbersAreUnique, OurRows
  <1>4. \A row \in OurRows : IsOver(row)' <=> IsOver(row)
    BY <1>1, <1>3 DEF IsOver
  <1>5. Stored' = Stored /\ Abandoned' = Abandoned
    BY <1>1, <1>2, <1>4 DEF Stored, Abandoned
  <1>6. Received' = Received /\ Doubtful' = Doubtful
    BY <1>5, ReceiverFacts
  <1> QED
    BY <1>6, SameGroups DEF Observe, N!Observe, N!Next

\* What is given up is in doubt.
LEMMA GivenUpDoubt ==
  ASSUME FleetTypeOK, FleetInv, requests' = GivenUp, rows' = rows
  PROVE  /\ Received' = Received
         /\ Doubtful' = [g \in Groups |-> Doubtful[g] \cup N!InFlight(g)]
  <1>1. \A row : IsOver(row)' <=> IsOver(row)
    <2>1. /\ \A r \in requests : \E q \in requests' : IdOf(q) = IdOf(r)
          /\ \A q \in requests' : \E r \in requests : IdOf(q) = IdOf(r)
      BY GivenUpFacts, SameId
    <2> QED
      BY <2>1 DEF IsOver
  <1>2. OurRows' = OurRows
    BY OurRowsNext
  <1>3. Stored' = Stored
    BY <1>1, <1>2 DEF Stored
  <1>4. Abandoned' = GivenUp
    BY GivenUpFacts DEF Abandoned
  <1>5. \A g, x : x \in Told(GivenUp, g) <=> \E r \in requests : r.group = g /\ x \in Covered(r)
    BY GivenUpFacts, ToldMember
  <1>6. ASSUME NEW g \in Groups PROVE Told(GivenUp, g) = Doubtful[g] \cup N!InFlight(g)
    <2>1. Doubtful[g] = Told(Abandoned, g)
      BY ReceiverFacts DEF Account
    <2>2. \A x : x \in Doubtful[g] <=> \E r \in requests : ~r.waiting /\ r.group = g /\ x \in Covered(r)
      BY <2>1, ToldMember DEF Abandoned
    <2>3. \A x : x \in N!InFlight(g) <=> \E r \in requests : r.waiting /\ r.group = g /\ x \in Covered(r)
      <3>1. CASE \A r \in requests : ~r.waiting
        <4>1. ~sending.busy
          BY <3>1 DEF FleetTypeOK
        <4> QED
          BY <3>1, <4>1 DEF N!InFlight
      <3>2. ASSUME NEW w \in requests, w.waiting
            PROVE  \A x : x \in N!InFlight(g) <=>
                          \E r \in requests : r.waiting /\ r.group = g /\ x \in Covered(r)
        <4>1. \A r \in requests : r.waiting => r = w
          BY <3>2 DEF FleetTypeOK
        <4>2. N!InFlight(w.group) = Covered(w) /\ \A h : h # w.group => N!InFlight(h) = {}
          BY <3>2, InFlightCovered
        <4> QED
          BY <3>2, <4>1, <4>2
      <3> QED
        BY <3>1, <3>2
    <2>4. \A r \in requests : r.waiting \in BOOLEAN
      BY Fields
    <2>5. \A x : x \in Told(GivenUp, g) <=> x \in Doubtful[g] \/ x \in N!InFlight(g)
      BY <1>5, <2>2, <2>3, <2>4
    <2> QED
      BY <2>5
  <1>7. Doubtful' = Account(GivenUp)
    BY <1>4, ReceiverFacts
  <1> QED
    BY <1>3, <1>6, <1>7, ReceiverFacts DEF Account

LEMMA GivesUpRefines ==
  ASSUME FleetTypeOK, FleetInv, TimesOut \/ Restart
  PROVE  N!Next
  <1>1. /\ Received' = Received
        /\ Doubtful' = [g \in Groups |-> Doubtful[g] \cup N!InFlight(g)]
    BY GivenUpDoubt DEF TimesOut, Restart
  <1>2. CASE Restart
    BY <1>1, <1>2, SameGroups DEF Restart, N!Restart, N!Next
  <1>3. CASE TimesOut
    <2>1. sending.busy /\ sending.group \in Groups
      BY <1>3, Fields DEF TimesOut, N!GivesUp
    <2>2. \A g \in Groups : g # sending.group => N!InFlight(g) = {}
      BY DEF N!InFlight
    <2>3. Doubtful = [g \in Groups |-> Doubtful[g]]
      BY DEF Doubtful
    <2> DEFINE d == [Doubtful EXCEPT ![sending.group] = @ \cup N!InFlight(sending.group)]
    <2>4. d = [g \in Groups |-> d[g]]
      BY <2>3
    <2>5. \A g \in Groups : d[g] = Doubtful[g] \cup N!InFlight(g)
      BY <2>1, <2>2, <2>3
    <2> HIDE DEF d
    <2>6. Doubtful' = d
      BY <1>1, <2>4, <2>5
    <2> QED
      BY <1>1, <1>3, <2>6 DEF TimesOut, N!TimesOut, N!Next, d
  <1> QED
    BY <1>2, <1>3

\* An INSERT that is sent, or a row that is stored, is not over.
LEMMA AdvanceIsStutter ==
  ASSUME FleetTypeOK, FleetInv, NEW r \in requests,
         NEW q \in {[r EXCEPT !.phase = "inserting", !.at = now], [r EXCEPT !.phase = "stored"]},
         Replaces(r, q), rows' = rows \/ rows' = rows \cup {RowOf(r)}
  PROVE  Received' = Received /\ Doubtful' = Doubtful
  <1>1. /\ requests' = (requests \ {r}) \cup {q}
        /\ q.waiting = r.waiting /\ q.group = r.group /\ Covered(q) = Covered(r) /\ IdOf(q) = IdOf(r)
        /\ OurRows' = OurRows \/ OurRows' = OurRows \cup {RowOf(r)}
    BY AdvancedFacts, OurRowsNext DEF Replaces
  <1>2. \A row : IsOver(row)' <=> IsOver(row)
    BY <1>1 DEF IsOver
  <1>3. ~IsOver(RowOf(r))
    BY RowFacts DEF IsOver
  <1>4. Stored' = Stored
    BY <1>1, <1>2, <1>3 DEF Stored
  <1>5. \A g, x : x \in Told(Abandoned', g) <=> x \in Told(Abandoned, g)
    BY <1>1, ToldMember DEF Abandoned
  <1>6. \A g : Told(Abandoned', g) = Told(Abandoned, g)
    BY <1>5
  <1>7. Account(Abandoned') = Account(Abandoned)
    BY <1>6 DEF Account
  <1> QED
    BY <1>4, <1>7, ReceiverFacts

LEMMA RefinementNext == FleetTypeOK /\ FleetInv /\ [Next]_vars => [N!Next]_(N!vars)
  <1> SUFFICES ASSUME FleetTypeOK, FleetInv, [Next]_vars PROVE [N!Next]_(N!vars)
    OBVIOUS
  <1>1. CASE Tick
    <2>1. Received' = Received /\ Doubtful' = Doubtful
      BY <1>1, SameReceiver, OurRowsNext DEF Tick, hub
    <2> QED
      BY <1>1, <2>1 DEF Tick, N!Tick, N!Next
  <1>2. CASE UNCHANGED vars
    <2>1. Received' = Received /\ Doubtful' = Doubtful
      BY <1>2, SameReceiver, OurRowsNext DEF vars, hub
    <2> QED
      BY <1>2, <2>1 DEF vars, sender, N!vars
  <1>3. ASSUME NEW g \in Groups, OthersIngest(g) PROVE UNCHANGED N!vars
    <2>1. Received' = Received /\ Doubtful' = Doubtful
      BY <1>3, SameReceiver, OurRowsNext DEF OthersIngest
    <2> QED
      BY <1>3, <2>1 DEF OthersIngest, sender, N!vars
  <1>4. ASSUME NEW r \in requests, Insert(r) \/ Commit(r) PROVE UNCHANGED N!vars
    <2>1. Received' = Received /\ Doubtful' = Doubtful
      BY <1>4, AdvanceIsStutter DEF Insert, Commit, Replaces
    <2> QED
      BY <1>4, <2>1 DEF Insert, Commit, sender, N!vars
  <1>5. ASSUME NEW r \in requests, Refuse(r) \/ Reply(r) \/ Break(r) PROVE N!Next
    BY <1>5, RequestSteps, DropsRefines, KeepsRefines
  <1> QED
    BY <1>1, <1>2, <1>3, <1>4, <1>5, ObserveRefines, GivesUpRefines DEF Next

-----------------------------------------------------------------------------
(* Types.                                                                  *)

LEMMA RowTypes ==
  /\ \A r \in Request : RowOf(r) \in Row
  /\ IsFiniteSet(rows) /\ now \in Nat => \A g \in Groups : ForeignRow(g) \in Row
  <1>1. \A r \in Request : RowOf(r) \in Row
    BY DEF Request, Row, RowOf
  <1>2. ASSUME IsFiniteSet(rows), now \in Nat, NEW g \in Groups PROVE ForeignRow(g) \in Row
    <2>1. IsFiniteSet(Foreign)
      BY <1>2, FS_Subset DEF Foreign
    <2>2. Cardinality(Foreign) \in Nat
      BY <2>1, FS_CardinalityType
    <2> QED
      BY <1>2, <2>2 DEF ForeignRow, Row
  <1> QED
    BY <1>1, <1>2

LEMMA RowsStep ==
  ASSUME FleetTypeOK, FleetInv, IsFiniteSet(rows), [Next]_vars
  PROVE  rows' \subseteq Row /\ IsFiniteSet(rows')
  <1>1. \/ rows' = rows
        \/ \E r \in requests : rows' = rows \cup {RowOf(r)}
        \/ \E g \in Groups : rows' = rows \cup {ForeignRow(g)}
    <2>1. Tick \/ TimesOut \/ Restart \/ UNCHANGED vars => rows' = rows
      BY DEF Tick, TimesOut, Restart, vars, hub
    <2>2. \A g \in Groups : Observe(g) => rows' = rows
      BY DEF Observe
    <2>3. \A g \in Groups : OthersIngest(g) => rows' = rows \cup {ForeignRow(g)}
      BY DEF OthersIngest
    <2>4. \A r \in requests : Refuse(r) \/ Insert(r) \/ Commit(r) \/ Reply(r) \/ Break(r) =>
            rows' = rows \/ rows' = rows \cup {RowOf(r)}
      BY DEF Refuse, Insert, Commit, Reply, Break
    <2> QED
      BY <2>1, <2>2, <2>3, <2>4 DEF Next
  <1>2. now \in Nat /\ rows \subseteq Row /\ requests \subseteq Request
    BY DEF FleetTypeOK, N!TypeOK
  <1>3. rows' = rows \/ \E row \in Row : rows' = rows \cup {row}
    <2>1. ASSUME NEW r \in requests, rows' = rows \cup {RowOf(r)}
          PROVE  \E row \in Row : rows' = rows \cup {row}
      BY <1>2, <2>1, RowTypes
    <2>2. ASSUME NEW g \in Groups, rows' = rows \cup {ForeignRow(g)}
          PROVE  \E row \in Row : rows' = rows \cup {row}
      BY <1>2, <2>2, RowTypes
    <2> QED
      BY <1>1, <2>1, <2>2
  <1> QED
    BY <1>2, <1>3, FS_AddElement

\* Who waits after a step.
OneWaits ==
  /\ requests \subseteq Request
  /\ sending.busy <=> \E r \in requests : r.waiting
  /\ \A q, r \in requests : q.waiting /\ r.waiting => q = r

LEMMA WaitingNext == FleetTypeOK /\ FleetInv /\ [Next]_vars => OneWaits'
  <1> SUFFICES ASSUME FleetTypeOK, FleetInv, [Next]_vars PROVE OneWaits'
    OBVIOUS
  <1>0. OneWaits
    BY DEF FleetTypeOK, OneWaits
  <1>1. CASE UNCHANGED <<requests, sending>>
    BY <1>0, <1>1 DEF OneWaits
  <1>2. ASSUME NEW g \in Groups, Observe(g) PROVE OneWaits'
    <2>1. CASE requests' = requests /\ sending' = sending
      BY <1>1, <2>1
    <2>2. CASE /\ requests' = requests \cup {Posted(g)}
               /\ sending' = [busy |-> TRUE, group |-> g, suppressed |-> state[g].suppressed]
      <3>1. Posted(g) \in Request
        <4>1. happened[g] \in Nat /\ state[g].suppressed \in Nat /\ life \in Nat
          BY Fields DEF FleetTypeOK, N!TypeOK
        <4>2. 1 + state[g].suppressed \in Nat
          BY <4>1
        <4> QED
          BY <4>1, <4>2 DEF Posted, Request
      <3>2. Posted(g).waiting = TRUE
        BY PostedFacts
      <3>3. \A r \in requests : ~r.waiting
        BY <1>2, ObserveFacts, IdleSender
      <3>4. requests' \subseteq Request
        BY <1>0, <2>2, <3>1 DEF OneWaits
      <3>5. sending'.busy /\ \E r \in requests' : r.waiting
        BY <2>2, <3>2
      <3>6. \A q, r \in requests' : q.waiting /\ r.waiting => q = r
        BY <2>2, <3>3
      <3> QED
        BY <3>4, <3>5, <3>6 DEF OneWaits
    <2> QED
      BY <1>2, <2>1, <2>2, ObserveFacts
  <1>3. CASE requests' = GivenUp /\ ~sending'.busy
    <2>1. \A q \in requests' : q \in Request /\ ~q.waiting
      BY <1>3, GivenUpFacts
    <2> QED
      BY <1>3, <2>1 DEF OneWaits
  <1>4. ASSUME NEW r \in requests, Drops(r) \/ Keeps(r) PROVE OneWaits'
    <2>1. requests' = requests \ {r} /\ sending' = IF r.waiting THEN N!Nothing ELSE sending
      BY <1>4 DEF Drops, Keeps, Ends
    <2>2. ~N!Nothing.busy
      BY DEF N!Nothing
    <2> QED
      BY <1>0, <2>1, <2>2 DEF OneWaits
  <1>5. ASSUME NEW r \in requests,
               NEW q \in {[r EXCEPT !.phase = "inserting", !.at = now], [r EXCEPT !.phase = "stored"]},
               Replaces(r, q), sending' = sending
        PROVE  OneWaits'
    <2>1. requests' = (requests \ {r}) \cup {q} /\ q \in Request /\ q.waiting = r.waiting
      BY <1>5, AdvancedFacts DEF Replaces
    <2>2. \A a \in requests' : a = q \/ (a \in requests /\ a # r)
      BY <2>1
    <2>3. requests' \subseteq Request
      BY <1>0, <2>1 DEF OneWaits
    <2>4. (\E a \in requests' : a.waiting) <=> (\E a \in requests : a.waiting)
      BY <2>1
    <2>5. \A a, b \in requests' : a.waiting /\ b.waiting => a = b
      BY <1>0, <2>1, <2>2 DEF OneWaits
    <2> QED
      BY <1>0, <1>5, <2>3, <2>4, <2>5 DEF OneWaits
  <1> QED
    BY <1>1, <1>2, <1>3, <1>4, <1>5, StepKinds

-----------------------------------------------------------------------------
(* The theorems.                                                           *)

LEMMA RefinementInit == Init => N!Init
  <1> SUFFICES ASSUME Init PROVE N!Init
    OBVIOUS
  <1>1. requests = {} /\ rows = {}
    BY DEF Init
  <1>2. Stored = {} /\ Abandoned = {}
    BY <1>1 DEF Stored, Abandoned, OurRows
  <1>3. Received = [g \in Groups |-> {}] /\ Doubtful = [g \in Groups |-> {}]
    BY <1>2, ReceiverFacts DEF Account, Told
  <1> QED
    BY <1>3, SameGroups DEF Init, N!Init

LEMMA InvInit == Init => IInv
  <1> SUFFICES ASSUME Init PROVE IInv
    OBVIOUS
  <1>1. N!TypeOK /\ N!AccountedFor
    BY RefinementInit, SenderInit
  <1>2. requests = {} /\ rows = {} /\ ~sending.busy
    BY DEF Init, N!Nothing
  <1>3. FleetTypeOK
    BY <1>1, <1>2 DEF FleetTypeOK
  <1>4. FleetInv
    BY <1>2 DEF FleetInv, WaitsForLast, NumbersAreUnique, RowsOfRequests, CoveredOnce, ToldOnce, OurRows
  <1> QED
    BY <1>1, <1>2, <1>3, <1>4, FS_EmptySet DEF IInv, AccountedFor

LEMMA InvNext == IInv /\ [Next]_vars => IInv'
  <1> SUFFICES ASSUME IInv, [Next]_vars PROVE IInv'
    OBVIOUS
  <1>0. FleetTypeOK /\ IsFiniteSet(rows) /\ AccountedFor /\ FleetInv
    BY DEF IInv
  <1>1. [N!Next]_(N!vars)
    BY <1>0, RefinementNext
  <1>2. N!TypeOK /\ N!AccountedFor
    BY <1>0 DEF FleetTypeOK, AccountedFor
  <1>3. (N!TypeOK)' /\ (N!AccountedFor)'
    BY <1>1, <1>2, SenderTypeNext, SenderAccountsNext
  <1>4. FleetTypeOK'
    BY <1>0, <1>3, RowsStep, WaitingNext DEF FleetTypeOK, OneWaits
  <1>5. FleetInv'
    BY <1>0, WaitsNext, NumbersNext, RowsNext, CoveredNext DEF FleetInv
  <1> QED
    BY <1>0, <1>3, <1>4, <1>5, RowsStep DEF IInv, AccountedFor

THEOREM InvCorrect == Spec => []IInv
  BY InvInit, InvNext, PTL DEF Spec

\* The states of the operator and the hub are well typed, and the sender waits
\* for one request or for none.
THEOREM FleetTypeCorrect == Spec => []FleetTypeOK
  <1>1. IInv => FleetTypeOK
    BY DEF IInv
  <1> QED
    BY <1>1, InvCorrect, PTL

\* The hub is a receiver as Notifications describes it, whatever times out,
\* breaks, is refused or restarts.
THEOREM FleetImplementsNotifications == Spec => ImplementsNotifications
  <1>1. IInv /\ [Next]_vars => [N!Next]_(N!vars)
    BY RefinementNext DEF IInv
  <1> QED
    BY <1>1, RefinementInit, InvCorrect, PTL DEF Spec, ImplementsNotifications, N!Spec

\* Every diagnosis is stored, in a request, lost, suppressed or in flight.
THEOREM FleetAccountsForAll == Spec => []AccountedFor
  <1>1. IInv => AccountedFor
    BY DEF IInv
  <1> QED
    BY <1>1, InvCorrect, PTL

\* The sender posts one request of a group per window.
THEOREM FleetOnePerWindow == Spec => []OnePerWindow
  <1>1. N!OnePerWindow <=> OnePerWindow
    BY DEF OnePerWindow
  <1> QED
    BY <1>1, FleetImplementsNotifications, SenderOnePerWindow, PTL DEF ImplementsNotifications

\* The hub has no diagnosis in two rows.
THEOREM FleetToldOnce == Spec => []ToldOnce
  <1>1. IInv => ToldOnce
    BY DEF IInv, FleetInv, CoveredOnce
  <1> QED
    BY <1>1, InvCorrect, PTL

\* FleetInv holds in every state: the sender waits for the request of its last
\* diagnosis, and requests and rows are told apart by the number they bear.
THEOREM FleetInvCorrect == Spec => []FleetInv
  <1>1. IInv => FleetInv
    BY DEF IInv
  <1> QED
    BY <1>1, InvCorrect, PTL

-----------------------------------------------------------------------------
(* What was accepted is shown.                                             *)

\* The row of what was accepted is there.
AcceptedIsStored == \A id \in accepted : \E row \in OurRows : IdOf(row) = id

LEMMA AcceptedInit == Init => AcceptedIsStored
  BY DEF Init, AcceptedIsStored

LEMMA AcceptedNext == IInv /\ AcceptedIsStored /\ [Next]_vars => AcceptedIsStored'
  <1> SUFFICES ASSUME IInv, AcceptedIsStored, [Next]_vars PROVE AcceptedIsStored'
    OBVIOUS
  <1>0. FleetTypeOK /\ FleetInv
    BY DEF IInv
  <1>1. CASE accepted' = accepted /\ OurRows \subseteq OurRows'
    BY <1>1 DEF AcceptedIsStored
  <1>2. ASSUME NEW r \in requests, Keeps(r) PROVE AcceptedIsStored'
    <2>1. OurRows' = OurRows \cup {RowOf(r)} /\ IdOf(RowOf(r)) = IdOf(r)
      BY <1>2, OurRowsNext, RowFacts DEF Keeps
    <2>2. \A id \in accepted' : id \in accepted \/ id = IdOf(r)
      BY <1>2 DEF Keeps
    <2> QED
      BY <2>1, <2>2 DEF AcceptedIsStored
  <1>3. ASSUME NEW r \in requests, Drops(r) PROVE AcceptedIsStored'
    BY <1>1, <1>3, OurRowsNext DEF Drops
  <1>4. ASSUME NEW g \in Groups, Observe(g) PROVE AcceptedIsStored'
    BY <1>0, <1>1, <1>4, ObserveFacts, OurRowsNext
  <1> QED
    BY <1>0, <1>1, <1>2, <1>3, <1>4, StepKinds, OurRowsNext

LEMMA SmallerOfTwo ==
  ASSUME NEW m \in Nat, NEW n \in Nat
  PROVE  Smaller(m, n) = m \/ Smaller(m, n) = n
  <1>1. \E x \in {m, n} : \A y \in {m, n} : x <= y
    BY SMT
  <1> QED
    BY <1>1 DEF Smaller, Min

\* An answer leaves a row out only when it is full.
LEMMA LeftOutWhenFull ==
  ASSUME FleetTypeOK, IsFiniteSet(rows), NEW f \in Filter, NEW row \in rows, Selects(f, row),
         NEW T \in List(f), row \notin T
  PROVE  Full(T, f) /\ \A t \in T : t.at >= row.at
  <1> DEFINE found == {r \in rows : Selects(f, r)}
  <1>1. IsFiniteSet(found) /\ row \in found
    BY FS_Subset
  <1>2. /\ T \subseteq found
        /\ Cardinality(T) = Smaller(Limit(f), Cardinality(found))
        /\ \A t \in T, u \in found \ T : t.at >= u.at
    BY DEF List, Newest, kSubset
  <1> HIDE DEF found
  <1>3. Cardinality(T) # Cardinality(found)
    BY <1>1, <1>2, FS_Subset
  <1>4. Limit(f) = IF f.limit \in 1..MaxListLimit THEN f.limit ELSE DefaultListLimit
    <2>1. f.limit \in 0..(MaxListLimit + 1)
      BY DEF Filter
    <2> QED
      BY <2>1, FleetAssumption DEF Limit
  <1>5. Limit(f) \in Nat /\ Cardinality(found) \in Nat
    BY <1>1, <1>4, FS_CardinalityType, FleetAssumption
  <1>6. Cardinality(T) = Limit(f)
    BY <1>2, <1>3, <1>5, SmallerOfTwo
  <1> QED
    BY <1>1, <1>2, <1>4, <1>6 DEF Full

\* A notification that the hub accepted is shown unless the answer is full with
\* rows that are as recent.
THEOREM FleetShowsAccepted == Spec => []AcceptedIsShown
  <1>1. ASSUME IInv, AcceptedIsStored PROVE AcceptedIsShown
    <2>1. FleetTypeOK /\ IsFiniteSet(rows)
      BY <1>1 DEF IInv
    <2> QED
      BY <1>1, <2>1, LeftOutWhenFull DEF AcceptedIsShown, AcceptedIsStored, OurRows
  <1>2. IInv /\ AcceptedIsStored => AcceptedIsShown
    BY <1>1
  <1> QED
    BY <1>2, InvCorrect, AcceptedInit, AcceptedNext, PTL DEF Spec

=============================================================================
