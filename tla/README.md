# Scale Sentry in TLA+

A verification project for Scale Sentry, a Kubernetes operator that measures how
a workload scales. A `ScaleValidation` object describes a target, a load profile
and an SLA. The controller starts a Job that generates the load, a sidecar
observes the cluster meanwhile, and the verdict ends up in the object's status.

Four specifications cover it: the controller's run lifecycle (`Lifecycle`, which
is also shown to implement an abstract contract), the way from an annotated
Deployment and a load profile to the phases that run (`Shadow`), the load
generator (`LoadGenerator`) and the observer sidecar (`Observer`).

## The system

| part | source | state | operations | what is hard |
|---|---|---|---|---|
| reconciler | `internal/controller/scalevalidation_controller.go`, `schedule.go`, `disruption.go`, `conditions.go` | the object's status and finalizer, the Job, in-memory timers | reconcile, spawn, collect, reschedule, disrupt, finalize | caches lag behind writes, writes conflict, calls fail, the process restarts, users edit and delete at any moment |
| API types | `api/v1beta1` | phase, conditions, observedGeneration, run times, verdicts, history | written by the reconciler | several fields must tell one story |
| target resolution | `internal/controller/target.go` | none | read the workload, its selector and its pods | errors split into permanent and transient |
| Job construction | `internal/controller/job.go` | none | build Job, URL and flags | deterministic name, shared by all runs of an object |
| chaos plan | `internal/chaos` | none | choose a victim or skip | healthy-replica gate at its boundary |
| load profile | `internal/controller/loadprofile.go`, `internal/loadgen/phase.go` | none | turn a profile into phases | spikes that touch or overlap, ramps longer than the window, overflow |
| shadow controller | `internal/controller/shadow_controller.go` | none | create a validation for an annotated Deployment | create races with delete and with a user's own object |
| load generator | `internal/loadgen` | arrival channel, worker pool, collector | emit arrivals, send, record, finalize | workers race the end of a phase, bounded channel and samples |
| observer | `internal/observer` | session, endpoint tracker, HPA samples | watch, poll, finalize, report | any source may be missing, watch gaps, sidecar restarts |
| analyzers | `internal/analyzer` | HPA watcher samples, otherwise none | correlate, compare, report | window boundaries, unordered input, counter resets |
| metrics, report, commands | `internal/metrics`, `internal/report`, `cmd` | counters | count, render, wire | counters and status writes are separate |

The reconciler creates the Job. The Job's pod runs the load generator and, as a
sidecar, the observer, which prints one report line when the load ends. The
reconciler reads that line from the pod's log. The next scheduled run reuses the
Job's name, so the old Job has to be deleted first. Deletion of the object goes
through a finalizer that deletes the Job.

What should be true of each part:

- reconciler: one run, one verdict, one history entry. No run that nobody asked
  for. No Job that the deletion path cannot stop. Every run, edit and deletion
  reaches its end.
- load profile: the phases cover the measurement window and offer at each moment
  the rate that the profile describes.
- shadow controller: an enabled Deployment gets its validation, and what a user
  edits in it stays.
- load generator: every arrival is accounted for, only measured phases are
  recorded, counters and samples agree, and the run returns.
- observer: its events explain readiness, its verdicts follow from what was seen,
  and it reports whatever fails.
- analyzers: each error is counted once if some window contains it.

## Modules

| module | contents | source |
|---|---|---|
| `Lifecycle` | the reconciler with the API server, caches, queue, clock, cluster and user around it, and its properties | `internal/controller` |
| `RunContract` | abstract: what the status promises to whoever watches it | what clients read in `api/v1beta1` |
| `Phases` | a phase of load: validity, peak rate, the instants of its arrivals | `internal/loadgen/phase.go`, `schedule.go` |
| `LoadRequest` | from `spec.load` to the configuration of a generator | `loadprofile.go`, `job.go`, `cmd/loadgen`, `internal/loadgen/config.go` |
| `Shadow` | the shadow controller, the users around it, and the load that its object asks for | `shadow_controller.go` |
| `Pool` | the derived worker pool against the arrivals that it has to serve | `internal/loadgen/config.go`, `schedule.go` |
| `Client` | what a request comes to: status, gRPC status, class of an error | `internal/loadgen/*client.go`, `generator.go` |
| `LoadGenerator` | `Run`, emitters, channels, workers, collector | `internal/loadgen/generator.go`, `schedule.go`, `result.go` |
| `Endpoints` | the endpoint tracker and the correlation of its events with errors | `internal/observer/endpoints.go`, `analyzer/leakage`, `analyzer/drain` |
| `Analyzers` | the HPA watcher, throttling, probe lag, DNS, budgets, traffic | `internal/analyzer` |
| `Observer` | the session, its watch, its container and the cluster around it | `internal/observer`, `cmd/observer` |
| `MCLifecycle`, `MCShadow`, `MCLoadGenerator`, `MCObserver` | the sets that the configurations use | |
| `LifecycleProofs`, `ContractProofs`, `GeneratorProofs`, `ShadowProofs`, `ReportProofs`, `ObserverProofs` | the inductive invariants and the theorems | |
| `EndpointsProofs`, `Inductions` | what the correlation counts, and the induction that this and `ShadowProofs` rest on | |

## The reconciler: `Lifecycle`

### State

| variable | in the code or the cluster |
|---|---|
| `cr` | the `ScaleValidation` at the API server: spec, generation, finalizer, deletionTimestamp, status |
| `crView`, `crSynced` | the informer's copy, and whether it is up to date |
| `job`, `jobView`, `jobSynced` | the same for the loadgen Job |
| `pods` | the loadgen pods, with those of Jobs already deleted |
| `queued`, `wakeAt` | the work queue's entry for the object and its delayed entry |
| `pc`, `loc`, `current`, `staged`, `then` | the reconcile in progress: its next API write, its copy of the object, whether that copy still has the server's resourceVersion, the status to write, and what follows the write |
| `now`, `upsets` | the clock, and how many user acts and faults there were |
| `kills` | ghost: target pods that chaos deleted in this run |

A status is a record of the fields the reconciler decides by. `report` stands for
the verdicts and counters; `source` and a Job's `built` are ghosts that remember
which generation a Job was built from. Diagnostics, events, metrics and messages
are left out.

### Actions

A reconcile is cut at its API writes. Between two writes it only reads caches,
each of which only moves forward, so those reads are one step.

| action | code |
|---|---|
| `Reconcile`, `AddFinalizer` | `Reconcile` up to the dispatch on the phase |
| `FirstReconcile`, `WaitForTarget`, `FailSpawn`, `spawnJob`, `CreateJob`, `CreateJobExists` | phase "" and Pending: schedule check, readiness gate, `spawnJob` |
| `JobVanished`, `JobFailed`, `FinishWithoutPod`, `finishRun` | phase Running or a Job that ended |
| `NothingToDisrupt`, `WaitToDisrupt`, `DecideDisruption`, `KillPod` | `maybeInjectDisruption` |
| `AdoptGeneration`, `parkSuspended`, `restartForSpecChange`, `StayFinished`, `PublishNextRun`, `StartScheduledRun` | `reconcileTerminal` |
| `FinalizeJob`, `DeleteJob`, `FinalizeDone`, `RemoveFinalizer` | `finalize`; `DeleteJob` is also `startNextRun`'s |
| `WriteStatus`, `Conflict` | every `Status().Update` and `Update`, accepted or rejected |
| `DeliverCR`, `DeliverJob`, `TimerFires`, `Tick` | informers, delaying queue, clock (external) |
| `StartPod` ... `CollectJob` | Job controller, kubelet, garbage collector (external) |
| `EditSpec`, `DeleteCR` | users |
| `ApiError`, `Crash`, `OutsideJobDelete`, `LosePod` | a failed call, a restart or failover, faults from outside |

### Abstractions

- A resourceVersion is only ever compared with the server's, so a flag
  (`crSynced`, `current`) takes its place.
- A delivery brings the current object; skipping versions is what informers may do.
- Requeues of a few seconds and error backoff are a timer that is due at once.
- A write whose reply is lost is a write, followed by the retry that any later
  reconcile makes.
- `findJobPod` chooses any pod with the label, as the order of a cached list is
  not specified.
- Readiness of the target, the outcome of `chaos.Plan` and the reasons for which
  `spawnJob` gives up are free choices.
- A Job being deleted stays visible until `RemoveJob`, which may be at once.
- An edit may leave the modelled part of the spec as it was: other fields changed.
- Left out: a pod cache that lags, an object recreated under the same name, and a
  new leader whose caches start behind the server.

### The contract

`RunContract` has three variables, the phase, the report and the history, and six
steps: a run is accepted, starts its load, concludes with a verdict, is given up,
is terminated, or the object vanishes. `Lifecycle` instantiates it with the status
at the API server, or `"Gone"`. `KeepsTheContract` says that each step of the
reconciler and of everything around it is one of these or none of them.

## The load: `Phases`, `LoadRequest`, `Shadow`

`buildPhases`, `measurePhases`, `decomposeSpike` (its loop is `Sliced`, one turn of it
`Slice`), `loadgenArgs`, `Validate` and `withDefaults` are operators with the code's names; `Start` is their
composition, from a spec to the phases and the pool that run, or to the place that
refuses it. An optional field is a set of at most one value. `Specs` is what the CRD's
schema admits: it has no bound on rates and durations, negative ones included. They are
unbounded integers here; a spike whose `at + duration` overflows 64 bits is outside the
model.

`Reasonable` says which of these specs make sense, without following the code. It lets
a base rate that is zero or negative pass if spikes fill the window and there is no
warmup, since that rate is never offered; the code runs such a spec. `Realise` compares
phases with a profile instant by instant: `RateAt` is the rate that the profile asks for
at an instant, for a ramp on its slope and after it and for a step on each plateau, and
`PhaseRate` the rate at which the emitter of `Phases` goes then. Rates are fractions, so
that a slope needs no rounding. The phases together last as long as the profile asks, and
a warmup takes its time from the beginning of the SLA window.

`Shadow` is a state machine around them. `Reconcile` is cut at its calls
(`ReadDeployment`, `GetShadow`, `Create`, or `CallFails`), each of which reads a
cache that may be stale or asks the server. `SyncDeployment` applies the event
filter of `SetupWithManager`, `Replay` is the resync. Users annotate, delete and
remake the Deployment and edit or delete the validation. Every spec that an edit
gives it is put through `Start`, so this one run asks both whether edits survive
and whether the load that runs is the load that was asked for.

## The load generator: `Client`, `LoadGenerator`

| state | code |
|---|---|
| `pc`, `phase`, `elapsed` | where `Run` is, and the time in its phase |
| `cancelled`, `expired` | the run's context and those of the phases |
| `emitter`, `ch` | the goroutine and channel of each phase; an emitter may outlive it |
| `worker` | a worker between select, hold, send and record |
| `collector`, `samples`, `summaries` | the collector |
| `recorded`, `unrecorded`, `dropped` | ghosts: where arrivals went |

Each branch of a `select` is an action, enabled whenever Go may choose it: a worker
may take an arrival (`Take`) or leave (`Exit`) when its context is done. An arrival that
is taken early is held. While it is, its instant may come (`Send`) or the context may end
(`Drop`), and if both have happened either may be chosen. A late one is sent at once. A call of
the collector is one step, as it holds the mutex. Latencies are counted and have no
value. `Do` and `classify` are in `Client`. The code tests the strings of an error
in a fixed order, and an error is the set of the traits it shows.

Arrivals follow `Phases` in integer ticks. The code computes in floating point and
truncates to nanoseconds. The gaps of a Poisson phase are a free choice from `Gaps`,
which has no gap of zero although the code may truncate one to zero.

## The observer: `Endpoints`, `Analyzers`, `Observer`

| action | code |
|---|---|
| `StartSession`, `ResolveFails`, `resolveTarget`, `ScrapeBefore`, `pollHPA`, `StopPolling`, `Finalize` | `Session.Run`, in order |
| `WatchOpens`, `WatchCloses`, `WatchDies`, `consumeWatch` | the goroutine of `watchEndpoints` |
| `ScalingMoves`, `SliceChanges`, `RequestFails`, `LoadStarts`, `LoadExits` | the cluster and the load container (external) |
| `Crash` | the observer is killed, or `run` of `cmd/observer` returns an error and prints no report |
| `Sigterm`, `Tick` | the kubelet, the clock (external) |

Failed requests come in as bursts, in the order in which they get the collector's lock,
which need not be that of their instants. The result counts all of them and holds the
instants of the first `maxErrorSamples` (`Sampled`).

A call that decodes a text (the cAdvisor scrape, the DNS option) returns one of a
set of values or fails. What `Finalize` finds is a `Postures` record, and the
analyzers turn it into a set of alerts, of which the type, the severity and the budget
concerned are kept. `Sorted` is what the sorts before a correlation achieve, `Match` one
turn of the loops in `leakage.Correlate` and `drain.Correlate`; `CountsMatchWindows`
compares what they count with a quantified definition. The events of one notification
come from a range over a map. They concern different addresses at one instant, so
`Listed` fixes an order of them that nothing can tell from another.

## Runs

| run | properties | shows |
|---|---|---|
| `one_shot` | `TypeOK`, `ReconcilerIsCoherent`, `OneEntryPerRun`, `VerdictIsFinal`, `JobIsGuarded` | a one-shot validation, new or finished by release 0.4, with any two user acts or faults, so that a full history gets a further entry: each run enters it once, verdicts stand, and no Job is created without the finalizer |
| `upgrade` | `FinishedExplainsPhase`, `HistoryShowsVerdict`, `ReconcilerIsCoherent`, `VerdictIsFinal`, `KeepsTheContract` | both verdicts, pre-spawn failure, chaos, and an object finished by release 0.4: condition, phase, report and history agree, and every change is one the contract allows |
| `schedule` | `ReconcilerIsCoherent`, `RunsAreAskedFor` | a schedule that is set, suspended or broken: no run nobody asked for, and what the status says agrees. Only a schedule that does not parse leaves the verdicts of an older run beside an Error |
| `schedule_live` | `RunsFinish`, `ScheduleRecurs` | with a failed call, a restart or a deletion at any point, runs end and the next one starts when due |
| `one_shot_live` | `ObservedMeansFinished`, `RunsFinish`, `DeletionCompletes`, `EditsAreObserved` | with any two of edit, deletion, failed call and restart, so that a fault may meet the deletion or the edit: runs end, deletions complete and edits are answered by a finished run |
| `generator` | `TypeOK`, `ArrivalsAreConserved`, `ResultIsTheRecord`, `OnlyMeasuredPhasesCount`, `ResultIsFinal`, `RunReturns` | a warmup and a climbing phase with SIGTERM at any instant: no arrival is lost or counted twice, warmup requests are not measured, and `Run` returns |
| `shadow` | `TypeOK`, `ReasonableLoadsRun`, `PhasesRealiseProfile`, `PoolCoversThePeak`, `EditsSurvive`, `ShadowAppears` | controller and generator between them run exactly the reasonable loads, at the rates asked for; the shadow appears and is left to its user |
| `observer` | `TypeOK`, `EventsExplainReadiness`, `OnlyDeletionsAreMissed`, `CountsMatchWindows`, `ScalingVerdictIsEarned`, `TrafficVerdictIsOfTheLoad`, `BlockingBudgetsAreNamed`, `BlameIsExact`, `ReportIsPrinted` | one run with any two disturbances of the cluster, the API or the sidecar: what the report says is right about what was seen |

Four runs show where the code departs from what the repository says of it:

| run | property | what happens |
|---|---|---|
| `edit_mid_run` | `VerdictDescribesSpec` | `markFinished` stamps the verdict with the generation current at the end of the run. After an edit mid-run the old spec's verdict counts as the new spec's, and the edit is never run |
| `double_disruption` | `DisruptsOnce` | the guard against a second disruption is read from the cache and written after the pod is deleted. A reconcile that reads the object before that write arrives disrupts again |
| `false_vanish` | `VanishedJobIsGone` | a reconcile that sees Running but not yet the new Job ends the run as vanished, while the Job runs |
| `stale_next_run` | `NextRunWillHappen` | an edit to an invalid schedule keeps the old `nextRunTime` |

Smaller disagreements met on the way, which no run is spent on. The models follow
the code:

- `observer.go:137` says that an unreachable source degrades to an Unknown verdict.
  If every poll of the autoscaler after the first read fails, the SLA verdict is
  Pass (`ScalingVerdictIsEarned` states what holds), and a failed first scrape
  leaves a baseline of zero, so that any throttling in the life of the container is put
  down to the run (`BlameIsExact` states both cases).
- `target.go:199` says that budgets are audited against the replica count the run
  settled on. If the scale cannot be read, it is the count from the start, and
  `BlockingBudgetsAreNamed` without its condition `scaleRead` is violated.
- `types.go:176` calls `rampDuration` required for a Ramp. It is optional, and a
  ramp may be longer than the SLA window.
- `docs/load-profiles.md:35` and `docs/configuration.md:119` say that the warmup runs
  before the SLA window opens. `buildPhases` (`loadprofile.go:48-57`) takes it out of the
  window: a run lasts as long as the SLA, and what is measured is shorter by the warmup.
  `PhasesRealiseProfile` states what the code does.
- `docs/load-profiles.md:67` says that the CRD rejects a spike below the base rate.
  The controller does.

### Bounds

Lifecycle: the clock takes `MaxTime = 1` ticks, with `Period = 1` and
`ReadyTimeout = 0`. That is enough for a run to be due, overdue or not yet due, and
for the target to time out or not. A scheduled validation therefore gets a second
run, and no third. Two runs leave a dimension to the others to stay small: in `one_shot`,
time stands still, and in `schedule` the target does not time out (`ReadyTimeout = 1`).
All properties of these two are also theorems. `MaxUpsets` (1 or 2) bounds how many user
acts and faults happen in one behaviour, `MaxGeneration` how many of them are edits, and
`FaultKinds` says which faults: the liveness runs have failed calls and restarts. In
`one_shot` two edits of a validation give up to three runs for `HistoryLimit = 2`, so
that an entry is added, moved back and dropped; in `upgrade` the limit is 1.
`MaxOrphans = 1` lets a pod of an old Job meet one of the new Job. A leftover pod of a run
of the same generation is not told apart from the new run's. The worker, the informers
and the cluster are not bounded otherwise.

Generator: two workers race for a channel of one, so that the emitter blocks and
outlives its phase. The cap of one sample is exceeded. `Slack = 1` lets a phase end
a tick after its deadline. A served and an unserved health check and an error with
two traits are the answers.

Shadow: `MaxUid = 2` gives a Deployment and its namesake. A second has twelve ticks,
which the rates 1 to 4 divide. The specs contain every pattern, with each field
missing, zero and positive, and spikes that overlap, touch, reach the window's end
or pass it. Each object is edited once.

Observer: `MaxChanges = 2` disturbances (moves of the autoscaler or of a slice,
bursts of failed requests, failed calls, closed watches, crashes) per behaviour, two
slices that may list the same address, at most two containers, and time for a poll at
the SLA and one after it. A burst is one failure, or two that come in against the order
of their instants. Two bursts exceed the cap of two samples, and two samples in a window
make it critical. A result counts a hundred requests, so that one failure is at the
threshold and two are above it.

None of the theorems depends on any of these values.

Deadlock is not checked: a finished validation, a generator that returned, a
Deployment left alone and an ended pod have nothing left to do.

### Fairness

Lifecycle: weak fairness of the worker, of both informers, of timers, of the clock
and of the cluster. controller-runtime keeps a worker running for a queued key.
Informers and the delaying queue deliver eventually. The Job has a single attempt
and a pod of finite load, its observer has a grace period of 45 seconds, and the
garbage collector runs. A sidecar that hangs for ever is thereby assumed away:
`finishRun` has no deadline of its own. Users and faults owe nothing: no run is made to
end by an edit.

The liveness properties say that something is true again and again. As faults, edits
and time are bounded and a state that settles is repeated for ever, `[]<>P` says here
that no behaviour stays where P is false: no run in flight, deletion under way, edit
unanswered or run overdue for good.

Generator: goroutines that can run do run, timers fire, and a request ends because
`cfg.Timeout` bounds it. SIGTERM need not come.

Shadow: the queue, the caches, the resync and the garbage collector go on. Strong
fairness of the two calls says that they do not fail for ever.

Observer: a started session takes its steps, the load run ends, and the kubelet ends
the sidecar after it. No container is promised a restart, and the watch is promised
nothing.

## Proofs

Every invariant and action property that a passing run checks is also a theorem, with
one exception (see the end of this section). The theorems hold for every value of the
constants that satisfies the assumptions of the modules:

- `LifecycleAssumptions`: any set of specs, reports and spawn failures, any limits;
- `LoadGeneratorAssumptions`: any list of valid phases, any finite pool, any channel,
  cap of samples and set of replies;
- `ShadowAssumptions`: any annotations, and any specs that the schema admits;
- `ObserverAssumptions`: finitely many slices and addresses (a cluster has no more),
  and any autoscaler, budgets, counters, windows and bounds.

| module | theorem | statement |
|---|---|---|
| `LifecycleProofs` | `TypeCorrect` | `[]TypeOK` |
| | `CoherentReconciler` | `[]ReconcilerIsCoherent` |
| | `FinishedTellsPhase` | `[]FinishedExplainsPhase` |
| | `HistoryLeadsWithVerdict` | `[]HistoryShowsVerdict` |
| | `OneEntry` | `OneEntryPerRun` |
| | `AskedFor` | `RunsAreAskedFor` |
| | `FinalVerdict` | `VerdictIsFinal` |
| | `GuardedJob` | `JobIsGuarded` |
| `ContractProofs` | `Refinement` | `KeepsTheContract` |
| | `ObservedFinished` | `[]ObservedMeansFinished` |
| `GeneratorProofs` | `Conservation` | `[]ArrivalsAreConserved` |
| | `MeasuredOnly` | `[]OnlyMeasuredPhasesCount` |
| | `FinalResult` | `ResultIsFinal` |
| | `ResultRecord` | `[]ResultIsTheRecord` |
| | `TypeCorrect` | `[]TypeOK` |
| `ShadowProofs` | `ShadowTypes` | `[]TypeOK` |
| | `EditsKept` | `EditsSurvive` |
| | `ReasonableRun` | `[]ReasonableLoadsRun` |
| | `ProfileRealised` | `[]PhasesRealiseProfile` |
| | `PoolSized` | a generator that starts has the configured workers, or between 1 and 256 |
| | `PoolMeetsPeak` | a derived pool below its cap has a worker for each arrival of a second at the highest rate of any ramp, step or spike |
| `EndpointsProofs` | `CorrelationCounts` | `Correlate` counts the errors that lie in the window of some event, for inputs of any length and order |
| `ReportProofs` | `TrafficVerdict` | `[]TrafficVerdictIsOfTheLoad` |
| | `ScalingVerdict` | `[]ScalingVerdictIsEarned` |
| | `ExactBlame` | `[]BlameIsExact` |
| | `BudgetsNamed` | `[]BlockingBudgetsAreNamed` |
| `ObserverProofs` | `CaughtUp` | `[]OnlyDeletionsAreMissed` |
| | `ReadinessExplained` | `[]EventsExplainReadiness` |
| | `WindowsCounted` | `[]CountsMatchWindows` |
| | `SessionTypes` | `[]TypeOK` |

### The reconciler

None of the properties about the object is inductive alone. The object changes
only by what a reconcile staged some steps ago from a copy it read even earlier.
`ReconcilerIsCoherent` says what has to hold of those copies:

- `CopiesAreOlder`: a copy flagged current is the server's object. The finalizer
  of an object that was seen alive is still there, unless the object is gone
  because it was deleted.
- `Established`: at each point of a reconcile, what its earlier tests found out
  about its copy; and the staged status is a legal successor of the copy's.
- Every status in the system, the cached, local and staged ones included, is
  coherent.

Together with `TypeOK` this is inductive. The action properties follow. A status
write succeeds only if the reconcile's copy is the server's object, so the legal
successor of the copy is a legal successor of the object. `JobIsGuarded` is the
one property about an unfenced write: a Job create carries no resourceVersion.
It holds because the finalizer is removed only by a reconcile that saw the
object deleted, and reads never go back in time.

The refinement adds one invariant to these, `StagedFollows`: the staged status is one
step of the contract away from the status of the copy, or equal to it. There is a
lemma for each place that stages a status. As a write replaces exactly that copy,
each step of `Lifecycle` maps to a step of the contract or to a stutter.

`ObservedMeansFinished` goes the same way. `Honest` says that a status does not claim the
generation of an object before the run is over, unless a schedule started it, and never
that of an object being deleted. `AllHonest` has it of the server's object, the cached
and the local copy and the staged status, each about its own generation.

### The load generator

The generator's invariant has four parts. `Typed` gives the types. `Scoped` says that
workers live only while `Run` waits for them, that what they hold is of the current
phase, and that they are about to record only in a phase that records. `Conserved`
says that channel, hands and ghosts partition the arrivals numbered 1 to `count` of
each phase. `Unborn` says that emitters of later phases have emitted nothing. `Scoped`
is what makes a late worker harmless. `Conserved` needs it because a worker takes from
the channel of the current phase.

`Tallied` says of each counter of the collector that it is the size of a set of recorded
requests: all, the failed, those of an error category, those of a status. `Record` adds
one request to some of these sets. That it was in none of them before, so that each set
grows by one exactly where its counter does, is `Conserved`: what a worker has in hand is
not recorded yet.

### The shadow controller and the load

`CInv` types the state and adds two facts: what `Create` is about to write was parsed,
and only an object that exists has been edited. The rest is about `Start`, for every
spec that the schema admits. `Sliced` is followed spike by spike. As long as the loop has
not refused, the spikes so far are in order and above the base rate, the cursor is at the
end of the last one, and the phases so far end at the cursor and offer the profile up to
there. The converse, that the loop refuses nothing else, makes `ReasonableLoadsRun` an
equivalence. The induction is over the number of spikes. `Inductions` gets it from the
least element of a set of naturals, since the library's induction theorems take an
operator and cannot be used, and from it derives that a function defined by recursion on
an interval has its defining equations (`Recursion`).

### The observer

`CorrelationCounts` is proved by the same induction, over the errors. After i errors
the cursor is past windows that closed before the i-th error only, and the hits are the
errors among them that lie in a window. As the errors are sorted, a window that is closed
for one of them is closed for those after it. `Sorted` is shown to be a permutation that
ascends, so the count is about the errors as they were recorded.

Reports rest on four invariants. `Watched` says that the samples of the HPA watcher
ascend in time and that its two instants are those of the first samples that reacted and
converged. `Printed` says that a report is the last thing a session does, so that what it
speaks of no longer changes (`Frozen`). `Kept` types the session and says that its baseline
is zero unless the first scrape succeeded. `Reported` follows the result file: there
is none before the load container exits, a session finalizes only after that, and
while a session is up nothing has been printed. That `blocksAll` agrees with its
reference `Evictable` is a lemma on percentages that are rounded up.

The tracker has two. `Explained`: replaying the events gives the ready set, an address at
a time. `Followed` strengthens `OnlyDeletionsAreMissed` to
watches that still have something to deliver: of every slice, either the last queued
notice says what the slice is now, or no notice is queued and the tracker has it
right or missed its deletion. While the watch is being opened again, a slice that is
gone and still in the tracker counts as missed; that is what opening, which only
tells of slices that exist, cannot repair.

### Only model-checked

- Liveness (`RunsFinish`, `ScheduleRecurs`, `DeletionCompletes`, `EditsAreObserved`,
  `RunReturns`, `ShadowAppears`, `ReportIsPrinted`), which needs fairness and `ENABLED`.
- `PoolCoversThePeak`. It does not hold for every value of the constants: where a rate
  does not divide a second, the interval between arrivals is truncated, and some second
  has one arrival more than the rate says. It is a statement about rates that divide a
  second. Its arrivals are also a recursive operator, in a module of its own (`Pool`), as
  the provers cannot be used beside one. `PoolMeetsPeak` proves what it is about, that the
  peak rate is the right one, for all rates.
- The four violated properties.

## Not modelled

- Target resolution (`target.go` of the controller) and the chaos plan are free
  choices of `Lifecycle`: both are pure tests of objects just read, without state.
  Their effects, a wait, an error or a killed pod, are modelled.
- Probe discovery, URLs, volumes and security contexts of the Job: construction of an
  object from fields, of which nothing depends on order or on history.
- Connections, TLS and connection counters of the clients; the parsers of `cpu.stat`,
  of the cAdvisor text and of the result file, apart from their failing.
- Latency values and percentiles: the histogram is a library's.
- Metrics: counters that nothing in the program reads back.
- Report layout, manager wiring and generated code.
- The composition of the four specifications. They meet at narrow interfaces, each of
  which both sides describe: the flags (`Start`), the result file (`file`), and the
  log line, which is one report or none in `Observer` and in `Lifecycle`.
