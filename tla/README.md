# TLA+ models of PodDoctor

PodDoctor watches pods. When a container is stuck in `CrashLoopBackOff`,
`ImagePullBackOff`, `ErrImagePull` or `InvalidImageName`, it gathers evidence,
derives a root cause, stores it in a `PodDiagnosis` object that the pod owns,
and tells a metric, a Kubernetes Event and, grouped, a webhook. This directory
holds models of that behaviour, their model checking and proofs about them.

| module | what it is |
|---|---|
| `Reconciler` | the control loop with the API server, the informers and the work queue |
| `MCReconciler` | clusters for model checking it |
| `ReconcilerProofs` | theorems about it |
| `Ledger` | what the control loop promises, without caches, queue and calls |
| `ReconcilerLedger` | the refinement mapping from `Reconciler` to `Ledger` |
| `LedgerProofs` | the theorem that `Reconciler` implements `Ledger` |
| `Handover` | two replicas of the control loop and the lease, on top of `Reconciler` |
| `MCHandover` | a cluster for model checking it |
| `HandoverProofs` | theorems about it |
| `Diagnosis` | gathering the evidence of one failure, and the rules |
| `DiagnosisProofs` | theorems about it |
| `Webhooks` | the routes, and the parameters of the next two |
| `Notifications` | alert grouping and sending, with an abstract receiver |
| `NotificationsProofs` | theorems about it |
| `Fleet` | the same sender with the hub as its receiver |
| `MCFleet` | routes for model checking it |
| `FleetProofs` | theorems about it, among them that it implements `Notifications` |
| `Poll` | the web client's polling hook and the API it polls |
| `PollProofs` | theorems about it |

`Fleet`, `ReconcilerLedger` and `Handover` compose: `Fleet` instantiates
`Notifications` with what the hub stores and implements it; `ReconcilerLedger`
instantiates `Ledger`; `Handover` extends `Reconciler` with the take-over and
instantiates it a second time for a call that a former leader has left over.

Line numbers below refer to the repository; `controller.go` stands for
`internal/controller/poddiagnosis_controller.go`.

## Inventory

| component | state | operations | what is hard | what makes it correct |
|---|---|---|---|---|
| reconcile loop (`controller.go` 109-261, 482-556) | none of its own between calls: pods and `PodDiagnosis` objects in the API server, lagging caches, work queue | `Reconcile`, `reconcileContainer`, watch handlers, timers | lagging reads, two writes that are not atomic, conflicts, ambiguous errors, restarts, name reuse, name clashes | no failing pod forgotten; every episode diagnosed; diagnoses only move forward; none announced twice |
| evidence (`controller.go` 263-480) | none (a rate limiter) | four lookups | each may fail or be cut; they are read later than the pod snapshot | a failure looks like no evidence and never makes a diagnosis surer |
| rules (`internal/diagnosis/rules.go`) | none | `Diagnose` | four overrides in sequence, each of which may undo the one before | the container status decides; confidence is backed by evidence |
| alert groups (`internal/alertgroup`) | a bucket per namespace and root cause | `Observe` | window boundary, counts held in memory only | one notification per window; every diagnosis counted once |
| sending and routing (`internal/notify`) | none | `Route`, `Send` | timeouts, failures, no retry | a delivered count is right, a timed-out one is not counted twice |
| operator process (`cmd/main.go`) | leadership | start, stop, hand-over | two replicas, the order of shutdown | the same as for the loop, across a hand-over |
| hub (`internal/hub`, `cmd/hub`) | rows in Postgres | ingest, list, readiness, shutdown | requests that time out and are stored all the same, cancelled statements, a shutdown that cuts requests, limits | a receiver without duplicates; what was accepted is listed, newest first |
| dashboard API (`internal/dashboard`) | none | list | - | shows what the API server holds |
| web client (`web/src`) | last answer, abort controller | poll, run and clean up the effect | overlapping polls, an effect that runs twice, late answers | the list never goes back; the all-clear is an answer; with a server that keeps up, the page keeps up |
| severity, trace links, embedded UI, metrics | a counter | pure functions | - | - |
| API types, chart, manifests, end-to-end script | - | - | - | - |

The reconcile loop calls evidence and rules synchronously and ends with the
notification; the informers and timers only put pod keys into its queue. A
webhook may be the hub of the fleet, whose rows the web client shows; the
dashboard serves the same client from the objects of one cluster.

`PROJECT.json` lists the components with their modules, and under `hazards` the
places where this code could go wrong in a way a test would hardly reach.

## Reconciler

| variable | code |
|---|---|
| `pods`, `diags` | what the API server stores |
| `podCache`, `diagCache` | what `r.Get` returns |
| `queue`, `delayed` | the controller's work queue, and the keys a timer will add to it |
| `worker` | the variables of the call in progress: the pod snapshot, the position in the loop over failing containers, `diagObj` |
| `announced` | ghost: the diagnoses that reached the code after `Status().Update` |
| `faults` | bounds failed writes and restarts |

Each API call ends an action, so anything can happen between two of them:

| action | lines of `controller.go` |
|---|---|
| `Reconcile` | 111-127: read the pod, early returns, first failing container |
| `GetDiagnosis` | 145-177: read the object, deduplicate, claim it |
| `CreateOrUpdate` | 179-191 |
| `UpdateStatus` | 193-227, with evidence and rules |
| `WriteRejected` | 181, 187, 223: somebody else wrote |
| `WriteFails` | 184, 190, 226: any other error, the write applied or not |
| `Announce` | 229-256, then the next container |
| `SyncPod`, `SyncDiag`, `TimerFires` | 551-555, 42: watch events, `RequeueAfter`, back-off |
| `Restart` | the process dies and a new one starts (another replica: `Handover`) |

The pods are driven by the kubelet, users and controllers (`KubeletReports...`,
`DeletePod`, `RemovePod`, `CreatePod`) and objects by the garbage collector.

Abstractions. A diagnosis is the pair of incarnation and restart count it is
about, an *episode*. Pods have one namespace. A cache jumps to the current
state; what it skips, it could have shown at an earlier sync. Resource versions
are compared for equality only, so a new version is any that no remaining copy
bears: at most three copies exist and four versions suffice. An Update writes
the whole object, although status is a subresource that it leaves alone: an
update is accepted only if the stored object is the one that was read
(`WorkerHolds`), so its status is the stored one either way. After a restart the
caches may be as stale as before, which is wider than the code: the fresh list of
a new informer is a restart followed by watch events. `Requeue`, `RequeueAfter`
and an error differ only in the delay. There is one worker, the default of the
controller. Errors of cache reads (lines 117, 153) requeue like a failed write
and are left out, as are users who edit or delete `PodDiagnosis` objects.

Bounds. `MaxUid` (incarnations of a name), `MaxRestarts` (per container),
`MaxFaults` (failed writes and restarts), `Deletable` (names whose pods may be
deleted: all in most runs, `api` alone in `names`, none in `collision` and
`handover`). Two incarnations and one restart are the least
with which an object can be adopted, stale, or of equal restart count under
another incarnation; one fault is the least with which two writes can come
apart. The theorems hold without these bounds being small.

Fairness (`Fairness`): the watches deliver, timers fire, the worker goroutine
and the garbage collector run (weak fairness); the work queue is first-in
first-out, so that a queued key is taken (strong fairness of `Reconcile`, which
is disabled while the worker is busy). Nothing is assumed of pods, faults and
restarts.

### Runs

The system may stop when nothing fails, so deadlock is not an error.

| run | shows |
|---|---|
| `recreate` | one name, two incarnations, one fault: the safety properties (but `OwnerAdvances`, see `names`), the inductive invariants, that the loop implements `Ledger`, and that it never gives a failing container up before its object carries the container's restart count (`EpisodesSettle`) |
| `containers` | init and application container that fail independently, the second also restarts: the loop confuses neither diagnoses nor announcements |
| `names` | two pods with one object name, one of them deleted and created again: the object never passes to the other pod, nor back to an earlier incarnation |
| `live` | without faults no container stays for ever in an episode that is not diagnosed, and every stored diagnosis is announced |

`EpisodesSettle` is what remains of "each episode is diagnosed" when writes are
lost: the loop compares restart counts and goes on until they agree. That they
may agree without a diagnosis is what `lost_first` and `predecessor` show.

`recreate`, `live` and all violations check liveness and use `FairSpec`, the
others `Spec`.

Runs that refute what the repository says (the quotations are under `findings`):

| run | what happens |
|---|---|
| `lost_first` | `Create` succeeds, `Status().Update` fails: the object's zero restart count passes for a diagnosis of a container that never restarted |
| `collision` | `api` + `server-proxy` and `api-server` + `proxy` have one object name, which `api` gets first; the container of `api-server` has restarted, so the counts differ, its call is refused the owner reference and returns an error, and so is every retry |
| `predecessor` | the object of a deleted pod passes to its successor and the status write is lost: the status is still the predecessor's, and when the successor reaches the same restart count, the episode passes for diagnosed, since `PodUID` is not compared |

Without restarts the second container of `collision` fares differently: both
counts are 0, and the object of the first passes for a diagnosis of the second.

Differences that the models show but no run checks: a status that is stored but
not acknowledged is never counted, recorded or sent (`EveryDeterminationAnnounced`
fails with a fault; `internal/metrics/metrics.go:10`); an episode may be
announced again when pod and object are gone and the cache still shows the pod,
which is why `AnnouncedOnce` speaks of pods that exist; the spec is rewritten at every diagnosis (`api/v1alpha1/poddiagnosis_types.go:37`), and
`FirstObserved` keeps the time of the object's first episode (`:102`).

### Ledger

`Ledger` is the promise of the loop: one entry per object name, which belongs to
one pod, is only replaced by a newer episode that its container has reached, is
told at most once and before the next one is made, and is forgotten only when
the incarnation that it is about is gone. `ReconcilerLedger` maps the stored
statuses to entries, what the worker has stored and not yet announced to `due`,
and `announced` to `told`; everything else is a stutter. `recreate` checks
`ImplementsLedger` and `LedgerProofs` proves it.

### Proofs

`ReconcilerProofs` proves, for any pods, containers and bounds: type
correctness, `NeverForgotten`, `NeverAhead`, `DiagnosesAdvance`,
`OwnerAdvances`, `AnnouncedOnce`, `EpisodeInv` and `AnnouncementInv`.
`NeverForgotten` is inductive together
with the types. The others rest on `EpisodeInv`:

* `CopiesAreEarlier`: the cached pod is an earlier state of the stored one, and
  the worker's snapshot an earlier state of the cached one;
* `DiagnosesAreBehind`: no stored diagnosis is ahead of the *cached* pod, nor,
  for its own pod, of the worker's snapshot. This is stronger than `NeverAhead`
  and makes it inductive: the worker writes what its snapshot says, never more
  than what the cache has shown;
* `VersionsAreFaithful`: a copy that bears the version of the stored object is
  that object;
* `WorkerHolds`: if the server accepts the worker's write, the stored object is
  the one that the worker decided on: of the same pod, with another restart
  count than the snapshot's.

Together they give that an accepted status is *newer* than the stored one: it
is not behind it (`DiagnosesAreBehind`) and not equal to it (`WorkerHolds`),
which is why comparing restart counts with `=` is enough. `AnnouncementInv`
adds that what was announced of a pod that exists is the stored diagnosis or
older; a new announcement is of a status just written, hence newer.

`WriterInv` is the part of `EpisodeInv` that does not compare ages: versions,
`WorkerHolds`, and a snapshot of some incarnation. What a write replaces
(`WrittenFacts`), that no version is given twice (`VersionsNext`, `HoldsNext`)
and that only reached episodes are written (`ReachedStep`) need no more, so these
lemmas also hold of a call whose leader has been replaced. `ForwardStep`, that a
step of the loop moves a diagnosis only forward, needs of the age of things that
the worker's own view of the pod has reached what is stored; it serves
`DiagnosesAdvance` here and the leader of `Handover`.

`LedgerProofs` maps each action of the loop to a step of `Ledger`: a status that
is accepted is a `Record` (newer than the old one, by the argument above, and
reached, since the snapshot is behind the stored pod), `Announce` is `Tell`, a
lost reply or a restart is `Record` with nothing due or `Drop`, the garbage
collector is `Forget`, and the pods are `Advance`.

Assumptions: the types of the constants, and `NamesOfOnePod`, that within one
pod object names differ (they do, since container names do).

## Handover

Two replicas and the lease. The informers of a controller start with it, when
its replica is elected (`controller.go` 551-555; `cmd/main.go` 108-120 asks for
nothing else): a standby holds no copies, and what PRODUCTION.md:82 calls
hot-waiting is the process, whose caches start cold. A leader that is stopped in
good order waits for its calls before it releases the lease. One that could not
renew the lease, or that outlives the time given to its shutdown, may still be
in the middle of a call, or have its last write on the way, when the next one
starts.

The variables of `Reconciler` are those of the leader. `former`, with
`formerDiags` and `formerTimers`, is the call that a former leader has left over,
an instance of `Reconciler` over the same API server.

| action | what it is |
|---|---|
| `Lead` | a step of the leader, as in `Reconciler` |
| `TakeOver` | the other replica gets the lease, lists what is stored, and starts; its queue is what it lists (`Handed`) |
| `FormerGoesOn`, `FormerExits` | the old call makes another step, or its process exits |
| `FormerSyncs` | a watch event still reaches the former leader |
| `World` | kubelet, users, garbage collector |

A new version is any that no copy bears in `Reconciler`; with another call
holding copies, `Held` moves a stale copy to another version, so that a version
never becomes valid again.

Bounds: one pod that is not deleted, one restart, two faults, where a take-over
counts as a fault, and one former call at a time. That suffices for two replicas
that write the same object with snapshots of different age, for a second
take-over, and for a take-over together with a lost write or a restart.
Re-creation of the pod is beyond TLC here: `recreate` and `predecessor` have it
for one replica, and the theorems hold for every bound.

Fairness: that of `Reconciler` for the leader, none for the former call nor for
the take-over.

Run `handover`: no failing pod is forgotten by the new leader
(`NeverForgotten`), or given up (`EpisodesSettle`); neither replica writes over
what the other stored (`NoLostUpdate`); only what has happened to a container is
stored and announced, from however old a snapshot (`OnlyReached`); the leader
moves diagnoses only forward, whatever a former one stores meanwhile
(`LeaderAdvances`); and the inductive invariant of the proofs holds
(`HandoverInv`).

`DiagnosesAdvance` and `NeverAhead`, proved for one replica, are not stated for
two. A left-over call whose informer still delivers may read what the new leader
stored, find another restart count than that of its own older snapshot, and store
its older episode: counts are compared with `=`. The leader then sees a count
that differs and writes the newer one again. `LeaderAdvances` therefore speaks of
every step but those of the left-over call, and `OnlyReached` is what remains of
`NeverAhead`.

`HandoverProofs` proves all safety properties of `handover`, for any pods,
restarts, faults and number of take-overs. The former call is an instance of
`Reconciler`, so the lemmas of `ReconcilerProofs` apply to it as the instance
`FP`; `FormerStep`, `FormerReached` and `FormerReachedStep` carry them over. The
invariant `HandoverInv` consists of

* `CopiesAreEarlier` for the leader, and `FormerIsEarlier`, that the snapshot of
  the former call is not later than the leader's view of the pod;
* `NoLostUpdate`, which is `VersionsAreFaithful` and `WorkerHolds` for both;
* `LeaderHasSeen`: the leader's view of each pod has reached all that is stored.

`LeaderHasSeen` replaces `DiagnosesAreBehind`, which a left-over call breaks: an
object may bear an episode with the incarnation of one write and the owner of
another. It holds after a take-over since the lists are made then, and the former
call keeps it since it writes what its snapshot has reached, and that is not
later than the leader's. A step of one replica keeps its own part as before; what
it does to the copies of the other is one lemma, `HeldWriter`: a write gives the
object another version, so a copy of the old one is stale and the call that
decided on it is refused. `LeaderAdvances` follows from `ForwardStep`.

## Diagnosis

One call of `gatherEvidence` and `Diagnose`. The initial states are the
container statuses that trigger a diagnosis; then the event search, the log
fetch, the rollout and the node lookup each add what they find, or nothing.
`DiagnoseOf` composes the rules in the order of the code: `diagnosePrimary`,
`WithRollout`, `WithProbe`, `Downgraded`, `WithNode`. Events are failed probes
or others, a log is a sequence of units that mention an out-of-memory condition
or do not; `ReadUnits` and `KeepUnits` stand for 8192 and 4000 bytes.
Summary and recommendation are the sets of facts and advice they mention.

Run `rules` covers every status with every outcome of the lookups, with two
events and one unit of log kept: a list longer than what is kept, an empty one
and a probe event that is cut off all occur. The machine stops when it is done.
It shows that lookups only explain what the status leaves open
(`StatusDecides`), that losing one of events, log or node never makes a
diagnosis surer (`LosingALookup`; losing the *rollout* can), that confidence is
backed (`ConfidenceIsBacked`), and when `Unknown` and start errors are reported.
Refuted: `log_tail` (the excerpt is not the tail of a log whose last lines
exceed 8192 bytes). Other differences to the README that the rules show: a
rollout becomes the cause although a failed probe matches (README.md:145 says
"when nothing else matches"), the probe override drops the rollout that was
added before (README.md:145), it needs no kill (README.md:140), the two causes
with Medium confidence can be Low (README.md:139, 142), and the advice under
MemoryPressure comes in addition to that of raising limits (README.md:147).

`DiagnosisProofs` proves all six properties of `rules` for any sizes. The
invariant is `Kept`, that the result is that of the rules on the gathered
evidence; the rest is two lemmas, `CauseOf` and `ConfidenceOf`, the effect of the
four overrides on the cause and confidence of the primary rule. `LosingALookup`
follows from `ConfidenceOf`, since without a lookup there is neither more
corroboration nor a probe nor a pressure, and from `PrimaryWithoutLog`. `TypeOK`
says that the evidence stays within its sizes, from lemmas on `SubSeq`.

## Notifications and Fleet

`Notifications`: `state` is the Grouper's map, `sending` the notification in the
hands of the worker, which is busy until it is delivered, fails or times out
(`webhookTimeout`). `Observe` is `Grouper.Observe` with `Route` in front of it.
The other variables are ghosts. The code only counts; here the diagnoses of a
group are numbered from 0, so that the same count told twice can be seen:
`happened` is how many there were, `received`, `doubtful` and `lost` are sets of
numbers, `sent` the sends. Those of a request that the sender has given up are in
doubt until they are received or lost (`Settle`). Every diagnosis is told, in
doubt, pending or lost exactly once (`AccountedFor`), and one process sends at
most one notification of a group per window (`OnePerWindow`). What is lost is lost for good: `Observe`
resets the count before `Send` is tried, and a restart forgets counts and
windows, though PRODUCTION.md:324 calls the operator stateless.

`Fleet` puts the hub in the place of the receiver. `requests` are the posts to
`/ingest`, from the sender's to the end of the handler, `rows` the table,
`accepted` (ghost) what the sender got 202 for.

| action | code |
|---|---|
| `Observe`, `TimesOut`, `Restart` | the sender of `Notifications`, and what it does to its request |
| `Refuse` | `server.go` 53-66, 90-98: wrong token, Slack's body |
| `Insert`, `Commit` | `server.go` 100-113, `store.go` 98-109: the statement is sent; the row is there |
| `Reply` | `server.go` 117 |
| `Break` | connection, hub or database fail, the statement fails or is cancelled with its request (`r.Context()`), or the hub shuts down (`cmd/hub/main.go` 67-77): before, during or after the row |
| `OthersIngest` | a row of another cluster |

Assumptions. `ExecContext` runs the INSERT at most once: `database/sql` tries a
statement again when a pooled connection turns out to be bad, which a driver
should report only if the server has not seen it. Rows carry no id of their
notification (the model's `nr` and `life` are ghosts), so a doubled INSERT would
show as a second diagnosis. The rule that a limit above the maximum becomes the
default (`store.go` 125) is taken as intended.

`List(f)` is the set of possible answers to a query: `Filter` ranges over every
combination of parameters with limits 0 (also for negative and unreadable ones)
to one above the maximum.

Run `fleet`: a namespace routed to the hub with three diagnoses, one routed there
in the format of Slack, one without a URL; a window of two ticks, one loss that
the sender waits for, one restart, one foreign row; limits of one and two stand
for 200 and 500, so that lists are cut by the default and by the query. These
are the least with which a suppressed count is sent, a request outlives its
sender, and a list is full. `ImplementsNotifications` is the refinement: every
step of sender, hub and network is a step of `Notifications`, where what is
stored and over is received (`Received`) and what nobody waits for is in doubt
(`Doubtful`); so every row stands for the diagnoses of its notification, whatever
failed in between. `ToldOnce`: no diagnosis is in two rows. `FleetInv` is the
inductive invariant of the proofs.
`AcceptedIsShown`: what was acknowledged with 202 is in every answer that fits,
unless the answer is full with rows as recent. The bounds end every behaviour,
so deadlock is not an error.

`NotificationsProofs` proves the types, `AccountedFor` (inductive with the types)
and `OnePerWindow` for `Notifications`, the latter by `SentInv`: what this process
sent of a group is not later than the start of the group's window. `fleet` checks
the same formulas through the refinement mapping.

`FleetProofs` proves every property of `fleet`, for any groups, bounds, limits
and number of foreign rows, from `WebhooksAssumption` and `FleetAssumption`: the
types, the refinement, `AccountedFor`, `OnePerWindow` (by the refinement and the
theorem on `Notifications`), `ToldOnce` and `AcceptedIsShown`. The inductive invariant
`IInv` consists of the types, `AccountedFor`, finite tables and `FleetInv`:

* `WaitsForLast`: the request that the sender waits for is about its last
  diagnosis, so that giving it up puts just what is `InFlight` in doubt;
* `NumbersAreUnique`: the number of a diagnosis tells requests and rows of a
  group apart, so that a request that ends touches only its own row;
* `RowsOfRequests`: a request has its row if and only if it is stored, so that
  when it ends its row tells whether it is received or lost;
* `CoveredOnce`: requests and rows of different notifications have no diagnosis
  in common, so that settling one takes nothing from another. For a new request
  this needs `AccountedFor`: what it covers was pending until now.

Of the many ways a request ends (`Refuse`, `Reply`, `Break` at each phase) the
proofs keep two, `Drops` and `Keeps`: without a row, with it. Each is a `Send`, a
`SendFails` or a `Settle` of `Notifications`. `AcceptedIsShown` follows from
`AcceptedIsStored`, since rows are never deleted, and from `LeftOutWhenFull`: an
answer that leaves out a row that fits has as many rows as its limit allows,
none of them older.

Differences to the documentation that are not checked by a run: diagnoses that
are grouped away reach the hub as a count only, although `notify.go` 22-27 calls
the fleet-wide view not missing detail of the single-cluster one; with `--token`
set, the embedded page of the hub gets 401 for its list, since its `fetch` sends
no header.

## Poll

`Poll` is the hook `useDiagnoses` with React's runs of the effect, and the API as
`Answer`: it reads the data of the moment (`dashboard.go` 53-98, or `List` of the
hub). The list is abstracted to the version of the data. A fetch is `asked`,
`answered`, then `settled` until the function that awaits it goes on
(`Continue`); timers run after it, as microtasks do. An abort frees a fetch that
is not settled; one that is settled goes on and is discarded if its effect was
cleaned up (`cancelled`).

Run `poll`: three overlapping fetches, two changes of the data, two runs of the
effect (React's StrictMode in `main.tsx`). The list never goes back to older data
(`ViewMovesForward`), although answers take any time; what changes the screen is
the fetch that was started last, by the effect that is in place, and never one
that a newer fetch, a cleanup or a second run of the effect has overtaken
(`OnlyTheLatest`), although an abort leaves a settled fetch to go on; the page shows the all-clear only if a server said
so (`AllClearIsAnAnswer`); and while it stays open it shows the current data
again and again (`KeepsUp`).

Fairness: timer and settled functions go on (weak). Every poll aborts the one
before, so with answers that always take longer than the interval of 5 s no
answer is ever shown, and no error either. `KeepsUp` therefore assumes of the
server that again and again some answer gets through in time (strong fairness of
`Answer` and `Arrive`); without it the property is false.

`PollProofs` proves the safety properties for any set of fetches. The invariant
is `PollInv`: at most one fetch is pending, or settled and not cancelled, and it
was answered after what is on the screen. `OnlyTheLatest` follows from the first
part: whatever is settled and not cancelled is the fetch that was started last.

## Only model-checked

Liveness under fairness (`EveryEpisodeDiagnosed`, `EpisodesSettle`,
`EveryDeterminationAnnounced`, `KeepsUp`) is outside what the proof system can
do. Every other property of a passing run is a theorem.

## Not modelled, and plan

1. `EvidenceLimiter` (`controller.go` 281-285, 544-550): the token bucket with its
   burst of `int(qps*2)`.
2. Several workers and the dashboard served by the leader alone (`cmd/main.go` 182).

Not planned: flags and probes of both processes and the readiness of the hub
(no state), `LoadConfig` and the payload texts (parsing and formatting), sorting
and formatting of the dashboard, rendering of the page, severity and trace links
(stateless formatting), the chart and manifests (configuration), generated deep
copies, and the server side of Kubernetes and Postgres beyond what the code
relies on.
