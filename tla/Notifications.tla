----------------------------- MODULE Notifications -----------------------------
(***************************************************************************)
(* The outbound notifications of the controller: internal/alertgroup,      *)
(* internal/notify and their use at the end of reconcileContainer.         *)
(*                                                                         *)
(* Diagnoses are grouped by namespace and root cause.  The first of a      *)
(* group is sent at once; those of the following window are counted, and   *)
(* the count goes with the next one that is sent.  The counts live in the  *)
(* memory of the process, and Send is tried once: a failure is logged.     *)
(* After webhookTimeout the sender gives up on a request that the receiver *)
(* may still take.  Module Fleet refines the receiver: the hub.            *)
(*                                                                         *)
(* The diagnoses of a group are numbered from 0.  The code knows counts    *)
(* only; the numbers, which are ghosts, say which diagnoses a count means. *)
(***************************************************************************)
EXTENDS Webhooks, Integers

VARIABLES
  now,        \* the clock
  state,      \* Grouper: group -> the bucket of its current window
  sending,    \* the notification that the worker is sending, or Nothing
  happened,   \* ghost: group -> how many diagnoses were observed
  received,   \* ghost: group -> the diagnoses that receivers were told of
  doubtful,   \* ghost: group -> the diagnoses in requests that were given up
  lost,       \* ghost: group -> the diagnoses that nobody will be told of
  sent,       \* ghost: the sends so far, with their times
  failures,   \* failed sends so far (bounded)
  life        \* restarts of the process so far (bounded)

vars == <<now, state, sending, happened, received, doubtful, lost, sent, failures, life>>

-----------------------------------------------------------------------------

\* A bucket that does not exist has not started.
Bucket   == [started : BOOLEAN, windowStart : Nat, suppressed : Nat]
NoBucket == [started |-> FALSE, windowStart |-> 0, suppressed |-> 0]

Nothing == [busy |-> FALSE, group |-> <<>>, suppressed |-> 0]

Init ==
  /\ now = 0
  /\ state = [g \in Groups |-> NoBucket]
  /\ sending = Nothing
  /\ happened = [g \in Groups |-> 0]
  /\ received = [g \in Groups |-> {}]
  /\ doubtful = [g \in Groups |-> {}]
  /\ lost = [g \in Groups |-> {}]
  /\ sent = {}
  /\ failures = 0
  /\ life = 0

-----------------------------------------------------------------------------

Tick ==
  /\ now < MaxTime
  /\ now' = now + 1
  /\ UNCHANGED <<state, sending, received, happened, doubtful, lost, sent, failures, life>>

\* The last n diagnoses of group g.
Last(g, n) == (happened[g] - n)..(happened[g] - 1)

\* The diagnoses of group g that the process alone knows of, and those in the
\* request that it waits for.  Nothing happens while it waits.
Suppressed(g) == Last(g, state[g].suppressed)
InFlight(g)   == IF sending.busy /\ sending.group = g THEN Last(g, 1 + sending.suppressed) ELSE {}

WindowClosed(b) == ~b.started \/ now >= b.windowStart + Window

\* Mutants of NewBucket: the window never moves on; the count is kept.
FirstBucket(b)   == [started |-> TRUE, windowStart |-> b.windowStart, suppressed |-> 0]
CountingBucket(b) == [started |-> TRUE, windowStart |-> now, suppressed |-> b.suppressed]

NewBucket(b) == [started |-> TRUE, windowStart |-> now, suppressed |-> 0]

\* A diagnosis of group g is stored and its namespace has a webhook: Observe
\* says whether to send it now.
Observes(g) ==
  /\ ~sending.busy
  /\ Route(g[1]) # NoURL
  /\ happened[g] < MaxDiagnoses[g[1]]
  /\ happened' = [happened EXCEPT ![g] = @ + 1]
  /\ \/ /\ WindowClosed(state[g])
        /\ state' = [state EXCEPT ![g] = NewBucket(@)]
        /\ sending' = [busy |-> TRUE, group |-> g, suppressed |-> state[g].suppressed]
        /\ sent' = sent \cup {[group |-> g, at |-> now, nr |-> happened[g], life |-> life]}
     \/ /\ ~WindowClosed(state[g])
        /\ state' = [state EXCEPT ![g].suppressed = @ + 1]
        /\ UNCHANGED <<sending, sent>>
  /\ UNCHANGED <<now, failures, life>>

Observe(g) == Observes(g) /\ UNCHANGED <<received, doubtful, lost>>

\* The receiver took the notification, and the sender is told so or sees an
\* error all the same, which is logged.
Send ==
  /\ sending.busy
  /\ received' = [received EXCEPT ![sending.group] = @ \cup InFlight(sending.group)]
  /\ sending' = Nothing
  /\ UNCHANGED <<now, state, happened, doubtful, lost, sent, failures, life>>

\* The receiver did not get it, or refused it.
SendFails ==
  /\ sending.busy
  /\ failures < MaxFailures
  /\ failures' = failures + 1
  /\ lost' = [lost EXCEPT ![sending.group] = @ \cup InFlight(sending.group)]
  /\ sending' = Nothing
  /\ UNCHANGED <<now, state, received, happened, doubtful, sent, life>>

\* The sender gives up after webhookTimeout, with the request under way.
GivesUp ==
  /\ sending.busy
  /\ failures < MaxFailures
  /\ failures' = failures + 1
  /\ sending' = Nothing
  /\ UNCHANGED <<now, state, happened, lost, sent, life>>

TimesOut ==
  /\ GivesUp
  /\ doubtful' = [doubtful EXCEPT ![sending.group] = @ \cup InFlight(sending.group)]
  /\ UNCHANGED received

\* A request for the diagnoses K that was given up is received late, or never.
Settle(g) ==
  \E K \in SUBSET doubtful[g] :
    /\ K # {}
    /\ doubtful' = [doubtful EXCEPT ![g] = @ \ K]
    /\ \/ received' = [received EXCEPT ![g] = @ \cup K] /\ lost' = lost
       \/ lost' = [lost EXCEPT ![g] = @ \cup K] /\ received' = received
    /\ UNCHANGED <<now, state, sending, happened, sent, failures, life>>

\* The process restarts, or another replica becomes the leader.
Restarts ==
  /\ life < MaxRestarts
  /\ life' = life + 1
  /\ lost' = [g \in Groups |-> lost[g] \cup Suppressed(g)]
  /\ state' = [g \in Groups |-> NoBucket]
  /\ sending' = Nothing
  /\ UNCHANGED <<now, happened, sent, failures>>

Restart ==
  /\ Restarts
  /\ doubtful' = [g \in Groups |-> doubtful[g] \cup InFlight(g)]
  /\ UNCHANGED received

Next ==
  \/ Tick
  \/ \E g \in Groups : Observe(g) \/ Settle(g)
  \/ Send
  \/ SendFails
  \/ TimesOut
  \/ Restart

Spec == Init /\ [][Next]_vars

-----------------------------------------------------------------------------
(****************************** Properties *********************************)

\* Types.
TypeOK ==
  /\ now \in Nat
  /\ state \in [Groups -> Bucket]
  /\ sending \in [busy : BOOLEAN, group : Groups \cup {<<>>}, suppressed : Nat]
  /\ sending.busy => sending.group \in Groups
  /\ happened \in [Groups -> Nat]
  /\ received \in [Groups -> SUBSET Int]
  /\ doubtful \in [Groups -> SUBSET Int]
  /\ lost \in [Groups -> SUBSET Int]
  /\ sent \subseteq [group : Groups, at : Nat, nr : Nat, life : Nat]
  /\ failures \in Nat
  /\ life \in Nat

\* What became of the diagnoses of group g.
Fates(g) == <<received[g], doubtful[g], lost[g], Suppressed(g), InFlight(g)>>

\* Every diagnosis that was observed has one fate: it is told, in doubt, lost
\* with the notification or the process that held it, suppressed or in flight.
\* A suppressed count is neither reported twice nor dropped when a window
\* closes (alertgroup.go:40-57).
AccountedFor ==
  \A g \in Groups :
    LET fates == Fates(g) IN
    /\ UNION {fates[i] : i \in DOMAIN fates} = 0..(happened[g] - 1)
    /\ \A i, j \in DOMAIN fates : i # j => fates[i] \cap fates[j] = {}

\* A process sends at most one notification of a group per window, although
\* time passes while it sends (alertgroup.go:30-31).
OnePerWindow ==
  \A a, b \in sent :
    a.group = b.group /\ a.life = b.life /\ a.nr < b.nr => b.at >= a.at + Window

=============================================================================
