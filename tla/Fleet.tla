---------------------------------- MODULE Fleet ----------------------------------
(***************************************************************************)
(* An operator whose notifications go to the hub of the fleet:             *)
(* internal/hub and cmd/hub with the sender of module Notifications.       *)
(*                                                                         *)
(* A notification is a request that the hub refuses or stores as one row.  *)
(* The sender waits for the answer, gives up on it, or dies; the hub, its  *)
(* database or the network may fail at any step of a request, also between *)
(* the row and the answer.  The hub keeps nothing in memory: that it       *)
(* restarts is that the requests it works on break.                        *)
(***************************************************************************)
EXTENDS Webhooks, Integers, FiniteSetsExt

CONSTANTS
  HubToken,          \* the hub's --token; NoToken disables authentication
  DefaultListLimit,  \* store.go: 200
  MaxListLimit,      \* store.go: 500
  MaxOthers          \* bound: rows of another cluster

NoToken == ""
Slack   == "slack"
Ours    == "ours"      \* the names of the clusters
Theirs  == "theirs"
Unset   == ""          \* a query parameter that is not set

ASSUME FleetAssumption == DefaultListLimit \in 1..MaxListLimit /\ MaxListLimit \in Nat

VARIABLES
  now, state, sending, happened, lost, sent, failures, life,   \* as in Notifications
  requests,   \* the requests to /ingest that are not over
  rows,       \* the table of diagnoses
  accepted    \* ghost: the notifications whose sender got status 202

sender == <<now, state, sending, happened, sent, failures, life>>
hub    == <<requests, rows, accepted>>
vars   == <<sender, lost, hub>>

\* The diagnoses that a request or a row stands for: number nr of its group and
\* those that were suppressed before it.
Covered(r) == (r.nr + 1 - r.count)..r.nr

\* The diagnoses of group g that a set of requests or rows stands for.
Told(records, g) == UNION {Covered(r) : r \in {q \in records : q.group = g}}

IdOf(r) == [group |-> r.group, nr |-> r.nr, life |-> r.life]

IsOver(row) == \A r \in requests : IdOf(r) # IdOf(row)

\* What Notifications says of a receiver: it has what is stored and over; what
\* nobody waits for any more is in doubt.
Received == [g \in Groups |-> Told({row \in rows : row.cluster = Ours /\ IsOver(row)}, g)]
Doubtful == [g \in Groups |-> Told({r \in requests : ~r.waiting}, g)]

N == INSTANCE Notifications WITH received <- Received, doubtful <- Doubtful

Init ==
  /\ now = 0
  /\ state = [g \in Groups |-> N!NoBucket]
  /\ sending = N!Nothing
  /\ happened = [g \in Groups |-> 0]
  /\ lost = [g \in Groups |-> {}]
  /\ sent = {}
  /\ failures = 0
  /\ life = 0
  /\ requests = {}
  /\ rows = {}
  /\ accepted = {}

-----------------------------------------------------------------------------
(****************************** The sender *********************************)

Tick ==
  /\ now < MaxTime
  /\ now' = now + 1
  /\ UNCHANGED <<state, sending, happened, lost, sent, failures, life, hub>>

\* Mutant of Posted: the count is that of the process, not of the window.
PostedTotal(g) ==
  [group |-> g, nr |-> happened[g], life |-> life, count |-> 1 + happened[g],
   phase |-> "posted", waiting |-> TRUE, at |-> 0]

\* The request that Send posts for group g.  `at` is the time of its INSERT.
Posted(g) ==
  [group |-> g, nr |-> happened[g], life |-> life, count |-> 1 + state[g].suppressed,
   phase |-> "posted", waiting |-> TRUE, at |-> 0]

Observe(g) ==
  /\ N!Observes(g)
  /\ requests' = IF N!WindowClosed(state[g]) THEN requests \cup {Posted(g)} ELSE requests
  /\ UNCHANGED <<lost, rows, accepted>>

\* Mutant of GivenUp: a timeout leaves the request as it is.
NeverGivenUp == requests

\* The sender of a request does not wait for it any more.
GivenUp == {[r EXCEPT !.waiting = FALSE] : r \in requests}

TimesOut ==
  /\ N!GivesUp
  /\ requests' = GivenUp
  /\ UNCHANGED <<rows, accepted>>

Restart ==
  /\ N!Restarts
  /\ requests' = GivenUp
  /\ UNCHANGED <<rows, accepted>>

\* The request of r is over; the sender that waits for it is free again.
Ends(r) ==
  /\ requests' = requests \ {r}
  /\ sending' = IF r.waiting THEN N!Nothing ELSE sending
  /\ UNCHANGED <<now, state, happened, sent, life>>

\* The notification of r is lost.  Only losses that the sender waits for are
\* bounded.
Lose(r) ==
  /\ r.waiting => failures < MaxFailures
  /\ failures' = IF r.waiting THEN failures + 1 ELSE failures
  /\ lost' = [lost EXCEPT ![r.group] = @ \cup Covered(r)]

-----------------------------------------------------------------------------
(******************************** The hub **********************************)

\* authenticated, with the token that the route gives the sender.
Authenticated(r) == HubToken = NoToken \/ Target(r.group[1]).token = HubToken

\* handleIngest: the body has a namespace and a pod, unless it is Slack's.
Valid(r) == Target(r.group[1]).format # Slack

\* 401 or 400.
Refuse(r) ==
  /\ r.phase = "posted"
  /\ ~(Authenticated(r) /\ Valid(r))
  /\ Ends(r)
  /\ Lose(r)
  /\ UNCHANGED <<rows, accepted>>

\* The INSERT is sent, once (assumed of ExecContext); the row will bear the time
\* of its statement.
Insert(r) ==
  /\ r.phase = "posted"
  /\ Authenticated(r) /\ Valid(r)
  /\ requests' = (requests \ {r}) \cup {[r EXCEPT !.phase = "inserting", !.at = now]}
  /\ UNCHANGED <<sender, lost, rows, accepted>>

\* Mutant of RowOf: the suppressed count is not stored.
RowOfOne(r) ==
  [cluster |-> Ours, group |-> r.group, nr |-> r.nr, life |-> r.life, count |-> 1, at |-> r.at]

RowOf(r) ==
  [cluster |-> Ours, group |-> r.group, nr |-> r.nr, life |-> r.life, count |-> r.count, at |-> r.at]

\* The database has the row.
Commit(r) ==
  /\ r.phase = "inserting"
  /\ rows' = rows \cup {RowOf(r)}
  /\ requests' = (requests \ {r}) \cup {[r EXCEPT !.phase = "stored"]}
  /\ UNCHANGED <<sender, lost, accepted>>

\* Mutant of Reply: 202 before the row is there.
ReplyEarly(r) ==
  /\ r.phase = "inserting"
  /\ Ends(r)
  /\ accepted' = IF r.waiting THEN accepted \cup {IdOf(r)} ELSE accepted
  /\ UNCHANGED <<failures, lost, rows>>

\* 202.
Reply(r) ==
  /\ r.phase = "stored"
  /\ Ends(r)
  /\ accepted' = IF r.waiting THEN accepted \cup {IdOf(r)} ELSE accepted
  /\ UNCHANGED <<failures, lost, rows>>

\* The connection breaks, the hub or its database stops, the statement fails or
\* is cancelled because the sender has gone: before, during or after the INSERT.
Break(r) ==
  /\ Ends(r)
  /\ \/ r.phase \in {"posted", "inserting"} /\ Lose(r) /\ rows' = rows
     \/ r.phase = "inserting" /\ rows' = rows \cup {RowOf(r)} /\ UNCHANGED <<failures, lost>>
     \/ r.phase = "stored" /\ UNCHANGED <<failures, lost, rows>>
  /\ UNCHANGED accepted

Foreign == {row \in rows : row.cluster = Theirs}

\* A notification of another cluster is stored.
ForeignRow(g) ==
  [cluster |-> Theirs, group |-> g, nr |-> Cardinality(Foreign), life |-> 0, count |-> 1, at |-> now]

OthersIngest(g) ==
  /\ Cardinality(Foreign) < MaxOthers
  /\ rows' = rows \cup {ForeignRow(g)}
  /\ UNCHANGED <<sender, lost, requests, accepted>>

Next ==
  \/ Tick
  \/ \E g \in Groups : Observe(g) \/ OthersIngest(g)
  \/ TimesOut
  \/ Restart
  \/ \E r \in requests : Refuse(r) \/ Insert(r) \/ Commit(r) \/ Reply(r) \/ Break(r)

Spec == Init /\ [][Next]_vars

-----------------------------------------------------------------------------
(**************************** GET /api/diagnoses ***************************)

\* filterFromQuery.  A limit that is not a number is 0; 0 also stands for the
\* negative ones.
Filter == [cluster : {Unset, Ours, Theirs}, namespace : {Unset} \cup Namespaces,
           rootCause : {Unset} \cup Causes, limit : 0..(MaxListLimit + 1)]

Smaller(m, n) == Min({m, n})

\* Mutants of Limit and Newest: no default; the oldest first.
LimitAsGiven(f) == f.limit
Oldest(found, n) ==
  {T \in kSubset(Smaller(n, Cardinality(found)), found) :
     \A t \in T, u \in found \ T : t.at <= u.at}

Limit(f) == IF f.limit = 0 \/ f.limit > MaxListLimit THEN DefaultListLimit ELSE f.limit

Selects(f, row) ==
  /\ f.cluster \in {Unset, row.cluster}
  /\ f.namespace \in {Unset, row.group[1]}
  /\ f.rootCause \in {Unset, row.group[2]}

\* ORDER BY received_at DESC LIMIT n: rows of the same time in any order.
Newest(found, n) ==
  {T \in kSubset(Smaller(n, Cardinality(found)), found) :
     \A t \in T, u \in found \ T : t.at >= u.at}

\* The possible answers of List.
List(f) == Newest({row \in rows : Selects(f, row)}, Limit(f))

-----------------------------------------------------------------------------
(****************************** Properties *********************************)

Request == [group : Groups, nr : Nat, life : Nat, count : Nat,
            phase : {"posted", "inserting", "stored"}, waiting : BOOLEAN, at : Nat]

Row == [cluster : {Ours, Theirs}, group : Groups, nr : Nat, life : Nat, count : Nat, at : Nat]

\* Types.  The sender waits for one request, or for none.
FleetTypeOK ==
  /\ N!TypeOK
  /\ requests \subseteq Request
  /\ rows \subseteq Row
  /\ sending.busy <=> \E r \in requests : r.waiting
  /\ \A q, r \in requests : q.waiting /\ r.waiting => q = r

\* The hub is a receiver as Notifications describes it: what its rows count has
\* happened and is counted once, whatever timed out, broke or was cancelled on
\* the way (server.go:82-118, store.go:97-109, notify.go:105-113).
ImplementsNotifications == N!Spec

AccountedFor == N!AccountedFor
OnePerWindow == N!OnePerWindow

\* The rows that our sender's notifications became.
OurRows == {row \in rows : row.cluster = Ours}

\* No diagnosis is in two rows, whatever became of the requests: a count that
\* was given up is not reported again (notify.go:105-113, alertgroup.go:47-52).
ToldOnce ==
  \A a, b \in OurRows : a.group = b.group /\ a # b => Covered(a) \cap Covered(b) = {}

\* What the sender knows to be stored is shown, in every answer whose filter
\* fits, unless the answer is full with rows that are as recent
\* (server.go:113-127, store.go:122-150).
Full(T, f) ==
  Cardinality(T) = IF f.limit \in 1..MaxListLimit THEN f.limit ELSE DefaultListLimit

AcceptedIsShown ==
  \A id \in accepted : \E row \in rows :
    /\ IdOf(row) = id /\ row.cluster = Ours
    /\ \A f \in Filter : Selects(f, row) =>
         \A T \in List(f) : row \in T \/ (Full(T, f) /\ \A t \in T : t.at >= row.at)

-----------------------------------------------------------------------------
(***************************************************************************)
(* The inductive invariant behind ImplementsNotifications and ToldOnce,    *)
(* together with FleetTypeOK and AccountedFor.                             *)
(***************************************************************************)

\* The request that the sender waits for is about its last diagnosis.
WaitsForLast ==
  \A r \in requests : r.waiting =>
    /\ r.group = sending.group
    /\ r.nr + 1 = happened[r.group]
    /\ r.count = 1 + sending.suppressed

\* Requests and rows are about diagnoses that happened, and the number of the
\* diagnosis tells those of a group apart.
NumbersAreUnique ==
  /\ \A r \in requests : r.count >= 1 /\ r.nr < happened[r.group]
  /\ \A row \in OurRows : row.nr < happened[row.group]
  /\ \A q, r \in requests : q.group = r.group /\ q.nr = r.nr => q = r
  /\ \A q, r \in OurRows : q.group = r.group /\ q.nr = r.nr => q = r

\* A request has its row as soon as it is stored, and not before.
RowsOfRequests ==
  /\ \A r \in requests : r.phase = "stored" => RowOf(r) \in rows
  /\ \A r \in requests, row \in OurRows :
       r.group = row.group /\ r.nr = row.nr => r.phase = "stored" /\ row = RowOf(r)

\* No diagnosis is in two requests, nor in a request and the row of another.
CoveredOnce ==
  /\ \A q, r \in requests : q.group = r.group /\ q # r => Covered(q) \cap Covered(r) = {}
  /\ \A r \in requests, row \in OurRows :
       r.group = row.group /\ r.nr # row.nr => Covered(r) \cap Covered(row) = {}
  /\ ToldOnce

FleetInv == WaitsForLast /\ NumbersAreUnique /\ RowsOfRequests /\ CoveredOnce

=============================================================================
