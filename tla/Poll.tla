---------------------------------- MODULE Poll ----------------------------------
(***************************************************************************)
(* The web client's hook useDiagnoses against the API that serves the      *)
(* list: the dashboard of a cluster or the hub of the fleet.               *)
(*                                                                         *)
(* An effect fetches at once and then on every tick of an interval.  Each  *)
(* fetch aborts the one before; the abort is silent.  React may run the    *)
(* effect, clean it up and run it again on the same state (StrictMode,     *)
(* main.tsx).  The list is abstracted to the version of the stored data.   *)
(***************************************************************************)
EXTENDS Naturals

CONSTANTS
  Requests,    \* identities of fetches that are not over yet
  MaxVersion,  \* bound: changes of the data
  MaxMounts    \* bound: runs of the effect

None == "none"   \* no request

ASSUME PollAssumption == None \notin Requests /\ MaxVersion \in Nat /\ MaxMounts \in Nat

VARIABLES
  version,   \* the server's data; 0 is the empty list
  mounted,   \* the effect is in place: not cleaned up
  effect,    \* runs of the effect so far
  request,   \* the fetches
  abortRef,  \* the request that the next fetch or the cleanup aborts
  view       \* the state of the hook

vars == <<version, mounted, effect, request, abortRef, view>>

-----------------------------------------------------------------------------

\* "asked": the server has not read its data; "answered": it has, and the
\* answer is under way; "settled": the promise has its value or its error, and
\* the function that awaits it is about to go on.
Request == [phase : {"free", "asked", "answered", "settled"}, effect : Nat,
            version : Nat, failed : BOOLEAN]

Free == [phase |-> "free", effect |-> 0, version |-> 0, failed |-> FALSE]

Asked(e) == [Free EXCEPT !.phase = "asked", !.effect = e]

\* fetched: lastFetchedAt is set.
View == [version : Nat, loading : BOOLEAN, error : BOOLEAN, fetched : BOOLEAN]

Init ==
  /\ version = 0
  /\ mounted = FALSE
  /\ effect = 0
  /\ request = [r \in Requests |-> Free]
  /\ abortRef = None
  /\ view = [version |-> 0, loading |-> TRUE, error |-> FALSE, fetched |-> FALSE]

Pending(r) == request[r].phase \in {"asked", "answered"}
Settled(r) == request[r].phase = "settled"

\* `cancelled` of the effect that made the request.
NeverCancelled(r) == FALSE    \* mutant of Cancelled
Cancelled(r) == ~mounted \/ request[r].effect # effect

-----------------------------------------------------------------------------

\* A diagnosis is stored.
Publish ==
  /\ version < MaxVersion
  /\ version' = version + 1
  /\ UNCHANGED <<mounted, effect, request, abortRef, view>>

\* What is left of the requests by an abort: a pending one rejects with an
\* AbortError, which is ignored; one that is settled goes on.
AbortNothing == request       \* mutant of Aborted
Aborted == [r \in Requests |-> IF r = abortRef /\ Pending(r) THEN Free ELSE request[r]]

\* fetchOnce, for run e of the effect.
FetchOnce(e) ==
  \E r \in Requests :
    /\ request[r] = Free
    /\ request' = [Aborted EXCEPT ![r] = Asked(e)]
    /\ abortRef' = r

\* The effect runs.
Mount ==
  /\ ~mounted
  /\ effect < MaxMounts
  /\ effect' = effect + 1
  /\ mounted' = TRUE
  /\ FetchOnce(effect + 1)
  /\ UNCHANGED <<version, view>>

\* A mutant of Poll: no timer while the last answer was an error.
PollUnlessError ==
  /\ mounted
  /\ ~view.error
  /\ \A r \in Requests : ~Settled(r)
  /\ FetchOnce(effect)
  /\ UNCHANGED <<version, mounted, effect, view>>

\* The interval's timer.  Functions whose promise is settled go on first.
Poll ==
  /\ mounted
  /\ \A r \in Requests : ~Settled(r)
  /\ FetchOnce(effect)
  /\ UNCHANGED <<version, mounted, effect, view>>

\* The cleanup of the effect.
Unmount ==
  /\ mounted
  /\ mounted' = FALSE
  /\ request' = Aborted
  /\ UNCHANGED <<version, effect, abortRef, view>>

\* The server reads its data.
Answer(r) ==
  /\ request[r].phase = "asked"
  /\ request' = [request EXCEPT ![r].phase = "answered", ![r].version = version]
  /\ UNCHANGED <<version, mounted, effect, abortRef, view>>

\* Status and body have arrived.
Arrive(r) ==
  /\ request[r].phase = "answered"
  /\ request' = [request EXCEPT ![r].phase = "settled"]
  /\ UNCHANGED <<version, mounted, effect, abortRef, view>>

\* A network error, an error status, or a body that is not JSON.
Break(r) ==
  /\ Pending(r)
  /\ request' = [request EXCEPT ![r].phase = "settled", ![r].failed = TRUE]
  /\ UNCHANGED <<version, mounted, effect, abortRef, view>>

\* Mutants of Shown: loading is not reset; an error is not recorded.
ShownLoading(r) ==
  IF request[r].failed THEN [view EXCEPT !.error = TRUE]
  ELSE [view EXCEPT !.version = request[r].version, !.error = FALSE, !.fetched = TRUE]

ShownAlways(r) ==
  IF request[r].failed THEN [view EXCEPT !.loading = FALSE]
  ELSE [version |-> request[r].version, loading |-> FALSE, error |-> FALSE, fetched |-> TRUE]

\* setState: an answer replaces the view, an error keeps the list.
Shown(r) ==
  IF request[r].failed THEN [view EXCEPT !.loading = FALSE, !.error = TRUE]
  ELSE [version |-> request[r].version, loading |-> FALSE, error |-> FALSE, fetched |-> TRUE]

\* fetchOnce goes on after its awaits.
Continue(r) ==
  /\ Settled(r)
  /\ view' = IF Cancelled(r) THEN view ELSE Shown(r)
  /\ request' = [request EXCEPT ![r] = Free]
  /\ UNCHANGED <<version, mounted, effect, abortRef>>

Next ==
  \/ Publish
  \/ Mount
  \/ Poll
  \/ Unmount
  \/ \E r \in Requests : Answer(r) \/ Arrive(r) \/ Break(r) \/ Continue(r)

Spec == Init /\ [][Next]_vars

(***************************************************************************)
(* Fairness.  The timer ticks and settled functions go on: weak fairness.  *)
(* An answer can be aborted at any of its steps; that some request gets    *)
(* through, again and again, is an assumption on the server: its answers   *)
(* do not take longer than the interval for ever (strong fairness).        *)
(***************************************************************************)
Fairness ==
  /\ WF_vars(Poll)
  /\ WF_vars(\E r \in Requests : Continue(r))
  /\ SF_vars(\E r \in Requests : Answer(r))
  /\ SF_vars(\E r \in Requests : Arrive(r))

FairSpec == Spec /\ Fairness

-----------------------------------------------------------------------------
(****************************** Properties *********************************)

\* Types.  The page does not load any more once it has an answer.
TypeOK ==
  /\ version \in Nat
  /\ mounted \in BOOLEAN
  /\ effect \in Nat
  /\ request \in [Requests -> Request]
  /\ abortRef \in Requests \cup {None}
  /\ view \in View
  /\ view.loading => ~view.fetched

\* The list on the screen never goes back to older data, although answers are
\* computed when the server gets to them and arrive when the network lets them
\* (useDiagnoses.ts:28-37).
ViewMovesForward == [][view'.version >= view.version]_vars

\* What changes the screen, be it an answer or an error, is the fetch that was
\* started last, by the effect that is in place: no fetch that a newer one, a
\* cleanup or a second run of the effect has overtaken, although an abort finds
\* only a pending request and leaves one that is settled to go on
\* (useDiagnoses.ts:28-50).
OnlyTheLatest ==
  [][view' # view =>
       \E r \in Requests :
         /\ Settled(r) /\ request'[r] = Free
         /\ r = abortRef
         /\ mounted /\ request[r].effect = effect]_vars

\* "No crash loops" (App.tsx:140) is on the screen only if a server said so,
\* not because nothing was fetched yet or the fetch failed.
AllClear == ~view.loading /\ ~view.error /\ view.version = 0

AllClearIsAnAnswer == AllClear => view.fetched

Current == view.version = version /\ view.fetched /\ ~view.error

\* While the page stays open, it shows the current data again and again,
\* whatever fails in between (useDiagnoses.ts:44-45).
KeepsUp == <>[]mounted => []<>Current

-----------------------------------------------------------------------------
(* The inductive invariant behind ViewMovesForward and OnlyTheLatest: one  *)
(* request at a time is alive, the one started last, and it was answered   *)
(* after what is on the screen.                                            *)

OneAlive ==
  \A r \in Requests :
    /\ Pending(r) => r = abortRef /\ mounted /\ request[r].effect = effect
    /\ Settled(r) /\ ~Cancelled(r) => r = abortRef
    /\ request[r].effect <= effect

AnsweredLater ==
  /\ view.version <= version
  /\ \A r \in Requests :
       (request[r].phase = "answered" \/ (Settled(r) /\ ~request[r].failed)) /\ ~Cancelled(r) =>
         view.version <= request[r].version /\ request[r].version <= version

PollInv == OneAlive /\ AnsweredLater

=============================================================================
