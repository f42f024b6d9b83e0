------------------------------ MODULE Lifecycle ------------------------------
(***************************************************************************)
(* The ScaleValidation reconciler (internal/controller) and what it acts   *)
(* on: one ScaleValidation object at the API server, the loadgen Job and   *)
(* its pods, the informer caches the reconciler reads, the work queue that *)
(* wakes it, and the clock.                                                *)
(*                                                                         *)
(* A reconcile is split at its API writes.  Everything between two writes  *)
(* only reads caches, each of which moves forward on its own, so those     *)
(* reads are one step.  Between any two steps of the worker the user, the  *)
(* cluster and the informers may act, an API call may fail, and the        *)
(* process may crash.                                                      *)
(***************************************************************************)
EXTENDS Integers, Sequences, FiniteSets

CONSTANTS
    Reports,        \* what an observer report may say: [sla, traffic] records
    Specs,          \* the specs a user writes: [schedule, suspend] records
    Legacies,       \* the specs of validations that an older release finished
    SpawnFailures,  \* the reasons for which spawnJob gives up before a Job exists
    Disrupts,       \* TRUE iff spec.disruption.injectPodDeletion is set
    HistoryLimit,   \* RunHistoryLimit
    Period,         \* from one scheduled start to the next
    ReadyTimeout,   \* targetReadyWaitTimeout, counted from creation
    TriggerDelay,   \* spec.disruption.triggerDelay
    MaxTime,        \* bound: ticks of the clock
    MaxOrphans,     \* bound: pods of deleted Jobs at a time
    MaxGeneration,  \* bound: generations of the object, one for each act of the user
    FaultKinds,     \* bound: the kinds of fault that happen
    MaxUpsets       \* bound: acts of the user, and faults

Verdicts == {"Pass", "Fail", "Unknown"}

ASSUME LifecycleAssumptions ==
    /\ Reports \subseteq [sla : Verdicts, traffic : Verdicts]
    /\ Reports # {}
    /\ Specs \subseteq [schedule : {"None", "Valid", "Invalid"}, suspend : BOOLEAN]
    /\ Legacies \subseteq Specs
    /\ SpawnFailures \subseteq {"TargetUnsupported", "TargetURLUnresolved",
                               "TLSCABundleMissing", "JobBuildFailed"}
    /\ Disrupts \in BOOLEAN
    /\ HistoryLimit \in Nat \ {0}
    /\ Period \in Nat \ {0}
    /\ ReadyTimeout \in Nat
    /\ TriggerDelay \in Nat
    /\ MaxTime \in Nat
    /\ MaxOrphans \in Nat
    /\ MaxGeneration \in Nat \ {0}
    /\ FaultKinds \subseteq {"ApiError", "Crash", "OutsideJobDelete", "LosePod"}
    /\ MaxUpsets \in Nat

VARIABLES
    cr,         \* the ScaleValidation object at the API server
    crView,     \* the copy of it in the informer cache
    crSynced,   \* TRUE iff crView has cr's resourceVersion
    job,        \* the loadgen Job at the API server
    jobView,    \* the copy of it in the informer cache
    jobSynced,  \* TRUE iff jobView has job's resourceVersion
    pods,       \* the loadgen pods, those of deleted Jobs included
    queued,     \* the CR's key is in the work queue
    wakeAt,     \* when a RequeueAfter timer adds it, or NoTime
    pc,         \* the API write the reconcile in progress makes next
    loc,        \* the reconcile's own copy of the object
    current,    \* TRUE iff loc has cr's resourceVersion
    staged,     \* the status the next Status().Update writes
    then,       \* what the reconcile does once that write succeeded
    now,        \* the clock
    upsets,     \* edits, deletions, crashes and failures so far
    kills       \* target pods chaos told the server to delete in this run, up to 2

apiVars    == <<cr, job, pods>>
cacheVars  == <<crView, crSynced, jobView, jobSynced>>
queueVars  == <<queued, wakeAt>>
workerVars == <<pc, loc, current, staged, then>>
boundVars  == <<now, upsets>>
vars == <<apiVars, cacheVars, queueVars, workerVars, boundVars, kills>>

-----------------------------------------------------------------------------
(* The status of a ScaleValidation and the functions that rewrite it.      *)

Terminal == {"Succeeded", "Failed", "Error"}
Phases == {"", "Pending", "Running", "Terminating"} \cup Terminal

VerdictReasons == {"Succeeded", "VerdictFailed"}
ErrorReasons == {"TargetNotReady", "TargetUnsupported", "TLSCABundleMissing",
                 "LoadgenJobFailed", "LoadgenJobVanished",
                 "ObserverReportUnreadable", "TargetURLUnresolved",
                 "JobBuildFailed", "ScheduleInvalid"}
FinishedTrue == VerdictReasons \cup ErrorReasons

NoTime == -1
Times == 0 .. MaxTime
NoReport == [sla |-> "", traffic |-> ""]

\* The Finished condition is one value: "Absent", "Rescheduled" (False), or
\* the reason it is True with.  report stands for the verdicts and counters that
\* applyReport sets; diagnostics, of which each failure adds its own, are left
\* out.  source is not in the code: the generation whose Job measured the report.
Entry == [phase : {"Succeeded", "Failed"}, report : Reports]
Status == [phase : Phases,
           finished : {"Absent", "Rescheduled"} \cup FinishedTrue,
           observedGeneration : Nat,
           lastRun : Times \cup {NoTime},
           nextRun : Nat \cup {NoTime},
           report : Reports \cup {NoReport},
           source : Nat,
           disrupted : BOOLEAN,
           history : Seq(Entry)]

NoStatus == [phase |-> "", finished |-> "Absent", observedGeneration |-> 0,
             lastRun |-> NoTime, nextRun |-> NoTime, report |-> NoReport,
             source |-> 0, disrupted |-> FALSE, history |-> <<>>]

markFinished(s, generation, reason) ==
    [s EXCEPT !.observedGeneration = generation, !.finished = reason]

setTerminalPhase(s, generation, phase, reason) ==
    [markFinished(s, generation, reason) EXCEPT !.phase = phase]

FailRun(s, generation, reason) ==
    setTerminalPhase(s, generation, "Error", reason)

applyReport(s, r, generation) ==
    [s EXCEPT !.report = r, !.source = generation]

finishedVerdict(r) ==
    IF "Fail" \in {r.sla, r.traffic}
    THEN [phase |-> "Failed", reason |-> "VerdictFailed"]
    ELSE [phase |-> "Succeeded", reason |-> "Succeeded"]

\* Mutant: the run is put at the end.
appendRunHistoryLast(s) ==
    LET h == s.history \o <<[phase |-> s.phase, report |-> s.report]>>
    IN  [s EXCEPT !.history =
            SubSeq(h, 1, IF Len(h) > HistoryLimit THEN HistoryLimit ELSE Len(h))]

appendRunHistory(s) ==
    LET h == <<[phase |-> s.phase, report |-> s.report]>> \o s.history
    IN  [s EXCEPT !.history =
            SubSeq(h, 1, IF Len(h) > HistoryLimit THEN HistoryLimit ELSE Len(h))]

\* Mutant: the run enters the history before it has its verdict.
FinishedStatusHistoryFirst(s, generation, r, built) ==
    LET v == finishedVerdict(r)
    IN  setTerminalPhase(appendRunHistory(applyReport(s, r, built)),
                         generation, v.phase, v.reason)

\* The status finishRun writes for a report r of a Job built from generation
\* built, on an object that is now at generation generation.
FinishedStatus(s, generation, r, built) ==
    LET v == finishedVerdict(r)
    IN  appendRunHistory(setTerminalPhase(applyReport(s, r, built),
                                          generation, v.phase, v.reason))

\* Mutants: the Finished condition survives; the history does not.
resetLeavesFinished(s) ==
    [s EXCEPT !.report = NoReport, !.source = 0, !.nextRun = NoTime,
              !.disrupted = FALSE]

resetClearsHistory(s) ==
    [s EXCEPT !.report = NoReport, !.source = 0, !.nextRun = NoTime,
              !.disrupted = FALSE, !.finished = "Rescheduled", !.history = <<>>]

resetForNextRun(s) ==
    [s EXCEPT !.report = NoReport, !.source = 0, !.nextRun = NoTime,
              !.disrupted = FALSE, !.finished = "Rescheduled"]

lastRunAnchor(s) == IF s.lastRun = NoTime THEN 0 ELSE s.lastRun

-----------------------------------------------------------------------------
(* Objects and initial states.                                             *)

NoSpec == [schedule |-> "None", suspend |-> FALSE]

NoObject == [exists |-> FALSE, spec |-> NoSpec, generation |-> 0,
             finalizer |-> FALSE, deleting |-> FALSE, status |-> NoStatus]

\* A Job is "New" until it has a pod, then "Active", then has the condition
\* Complete or Failed.  built is not in the code: the generation it is made of.
NoJob == [exists |-> FALSE, deleting |-> FALSE, cond |-> "New", built |-> 0]

\* A pod generates load ("Load"), then only its observer sidecar runs
\* ("Observing"), then that has exited too ("Done").
PodOf(generation) == [built |-> generation, state |-> "Load", orphan |-> FALSE]

NewObject(spec) ==
    [NoObject EXCEPT !.exists = TRUE, !.spec = spec, !.generation = 1]

\* A validation that finished under release 0.4, which knew neither the
\* Finished condition nor observedGeneration.
LegacyObject(spec, r) ==
    LET phase == finishedVerdict(r).phase
    IN  [NewObject(spec) EXCEPT !.finalizer = TRUE,
           !.status = [NoStatus EXCEPT !.phase = phase, !.lastRun = 0,
                          !.report = r, !.source = 1,
                          !.history = <<[phase |-> phase, report |-> r]>>]]

Init ==
    /\ cr \in {NewObject(s) : s \in Specs}
                \cup {LegacyObject(s, r) : s \in Legacies, r \in Reports}
    /\ crView = NoObject /\ crSynced = FALSE
    /\ job = NoJob /\ jobView = NoJob /\ jobSynced = TRUE
    /\ pods = {}
    /\ queued = FALSE /\ wakeAt = NoTime
    /\ pc = "idle" /\ loc = NoObject /\ current = FALSE
    /\ staged = NoStatus /\ then = "done"
    /\ now = 0 /\ upsets = 0 /\ kills = 0

-----------------------------------------------------------------------------
(* How a step of a reconcile ends.                                         *)

Earliest(s, t) == IF s = NoTime \/ t < s THEN t ELSE s

Idle ==
    /\ pc' = "idle" /\ loc' = NoObject /\ current' = FALSE
    /\ staged' = NoStatus /\ then' = "done"

\* return ctrl.Result{}, nil
Done == Idle /\ UNCHANGED queueVars

\* return ctrl.Result{RequeueAfter: t - now}, nil
RequeueAt(t) == Idle /\ wakeAt' = Earliest(wakeAt, t) /\ UNCHANGED queued

\* return an error, or a RequeueAfter of a few seconds: shorter than a tick.
Retry == RequeueAt(now)

\* Go on to Status().Update with status s.
StageThen(s, next) ==
    /\ pc' = "writeStatus" /\ staged' = s /\ then' = next
    /\ UNCHANGED <<loc, current, queueVars>>

Stage(s) == StageThen(s, "done")

GoTo(step) ==
    /\ pc' = step
    /\ UNCHANGED <<loc, current, staged, then, queueVars>>

\* A step that reads caches and the clock, and writes nothing.
ReadOnly == UNCHANGED <<apiVars, cacheVars, boundVars, kills>>

-----------------------------------------------------------------------------
(* Reconcile: the object is read from the cache.                           *)

Reconcile ==
    /\ pc = "idle" /\ queued
    /\ queued' = FALSE
    /\ IF crView.exists /\ (crView.deleting => crView.finalizer)
       THEN /\ loc' = crView /\ current' = crSynced
            /\ pc' = IF crView.deleting THEN "finalize"
                     ELSE IF crView.finalizer THEN "dispatch"
                     ELSE "addFinalizer"
       ELSE UNCHANGED <<loc, current, pc>>
    /\ UNCHANGED <<staged, then, wakeAt>>
    /\ ReadOnly

\* r.Update of an object whose resourceVersion is the server's.
UpdateObject(object) ==
    /\ cr' = object
    /\ crSynced' = FALSE
    /\ UNCHANGED <<crView, job, jobView, jobSynced, pods, boundVars>>

\* An Update that the server rejects: the object has moved on.
Conflict(step) ==
    /\ pc = step
    /\ ~current
    /\ Retry
    /\ ReadOnly

\* Mutant: the finalizer is left for a later write.
AddFinalizerLocally ==
    /\ pc = "addFinalizer"
    /\ loc' = [loc EXCEPT !.finalizer = TRUE]
    /\ pc' = "dispatch"
    /\ ReadOnly
    /\ UNCHANGED <<current, staged, then, queueVars>>

AddFinalizer ==
    /\ pc = "addFinalizer" /\ current
    /\ UpdateObject([cr EXCEPT !.finalizer = TRUE])
    /\ loc' = [loc EXCEPT !.finalizer = TRUE]
    /\ pc' = "dispatch"
    /\ UNCHANGED <<current, staged, then, queueVars, kills>>

\* Mutant: the write does not carry the resourceVersion it was read at.
WriteStatusAnyVersion ==
    /\ pc = "writeStatus" /\ cr.exists
    /\ UpdateObject([cr EXCEPT !.status = staged])
    /\ UNCHANGED kills
    /\ Done

WriteStatus ==
    /\ pc = "writeStatus" /\ current
    /\ UpdateObject([cr EXCEPT !.status = staged])
    /\ UNCHANGED kills
    /\ CASE then = "done" -> Done
         [] then = "requeue" -> Retry
         [] then = "park" -> RequeueAt(staged.nextRun)
         [] then = "deleteJob" ->
              /\ pc' = "deleteJob" /\ loc' = [loc EXCEPT !.status = staged]
              /\ staged' = NoStatus /\ then' = "done"
              /\ UNCHANGED <<current, queueVars>>

-----------------------------------------------------------------------------
(* reconcileTerminal: the last run is over.                                *)

AtTerminal == pc = "dispatch" /\ loc.status.phase \in Terminal

observed == loc.status.observedGeneration
drifted == loc.generation # observed
nextDue == lastRunAnchor(loc.status) + Period

AdoptGeneration ==
    /\ AtTerminal /\ observed = 0
    /\ Stage([loc.status EXCEPT !.observedGeneration = loc.generation])
    /\ ReadOnly

parkSuspended ==
    /\ AtTerminal /\ observed # 0 /\ loc.spec.suspend
    /\ LET parked == [loc.status EXCEPT !.nextRun = NoTime,
                                        !.observedGeneration = loc.generation]
       IN  IF parked = loc.status THEN Done ELSE Stage(parked)
    /\ ReadOnly

\* The Job of the last run has to be gone before the next run can start.
startNextRun ==
    IF jobView.exists
    THEN IF jobView.deleting THEN Retry ELSE GoTo("deleteJob")
    ELSE Stage([resetForNextRun(loc.status) EXCEPT !.phase = "Pending"])

\* Mutants: a spec edit outranks suspend; only scheduled runs are restarted; the
\* restart already records the generation it is for.
restartThoughSuspended ==
    /\ AtTerminal /\ observed # 0 /\ drifted
    /\ startNextRun
    /\ ReadOnly

restartIfScheduled ==
    /\ AtTerminal /\ observed # 0 /\ ~loc.spec.suspend /\ drifted
    /\ IF loc.spec.schedule = "Valid" THEN startNextRun ELSE Done
    /\ ReadOnly

restartObserving ==
    /\ AtTerminal /\ observed # 0 /\ ~loc.spec.suspend /\ drifted
    /\ IF jobView.exists THEN startNextRun
       ELSE Stage([resetForNextRun(loc.status) EXCEPT
                      !.phase = "Pending", !.observedGeneration = loc.generation])
    /\ ReadOnly

restartForSpecChange ==
    /\ AtTerminal /\ observed # 0 /\ ~loc.spec.suspend /\ drifted
    /\ IF loc.spec.schedule = "Invalid"
       THEN Stage(FailRun(loc.status, loc.generation, "ScheduleInvalid"))
       ELSE startNextRun
    /\ ReadOnly

Settled == AtTerminal /\ observed # 0 /\ ~loc.spec.suspend /\ ~drifted

StayFinished ==
    /\ Settled /\ loc.spec.schedule # "Valid"
    /\ Done
    /\ ReadOnly

\* Mutant: the next run is published, and nothing wakes the reconciler for it.
PublishWithoutTimer ==
    /\ Settled /\ loc.spec.schedule = "Valid" /\ nextDue > now
    /\ IF loc.status.nextRun = nextDue
       THEN Done
       ELSE Stage([loc.status EXCEPT !.nextRun = nextDue])
    /\ ReadOnly

PublishNextRun ==
    /\ Settled /\ loc.spec.schedule = "Valid" /\ nextDue > now
    /\ IF loc.status.nextRun = nextDue
       THEN RequeueAt(nextDue)
       ELSE StageThen([loc.status EXCEPT !.nextRun = nextDue], "park")
    /\ ReadOnly

StartScheduledRun ==
    /\ Settled /\ loc.spec.schedule = "Valid" /\ nextDue <= now
    /\ startNextRun
    /\ ReadOnly

-----------------------------------------------------------------------------
(* A run that has not finished.                                            *)

FirstReconcile ==
    /\ pc = "dispatch" /\ loc.status.phase = ""
    /\ Stage(IF loc.spec.schedule = "Invalid"
             THEN FailRun(loc.status, loc.generation, "ScheduleInvalid")
             ELSE [loc.status EXCEPT !.phase = "Pending"])
    /\ ReadOnly

InFlight == pc = "dispatch" /\ loc.status.phase \notin Terminal \cup {""}
Unspawned == InFlight /\ ~jobView.exists /\ loc.status.phase # "Running"

JobVanished ==
    /\ InFlight /\ ~jobView.exists /\ loc.status.phase = "Running"
    /\ Stage(FailRun(loc.status, loc.generation, "LoadgenJobVanished"))
    /\ ReadOnly

\* Mutant: the readiness gate never gives up.
WaitForever ==
    /\ Unspawned
    /\ Retry
    /\ ReadOnly

\* The target has no ready pod, now or by the end of the window.
WaitForTarget ==
    /\ Unspawned
    /\ IF now > ReadyTimeout
       THEN Stage(FailRun(loc.status, loc.generation, "TargetNotReady"))
       ELSE Retry
    /\ ReadOnly

\* The target cannot be resolved, its URL or CA bundle is missing, or the Job
\* cannot be built.
FailSpawn ==
    /\ Unspawned
    /\ \E reason \in SpawnFailures :
          Stage(FailRun(loc.status, loc.generation, reason))
    /\ ReadOnly

spawnJob ==
    /\ Unspawned
    /\ GoTo("createJob")
    /\ ReadOnly

CreateJob ==
    /\ pc = "createJob" /\ ~job.exists
    /\ job' = [NoJob EXCEPT !.exists = TRUE, !.built = loc.generation]
    /\ jobSynced' = FALSE
    /\ kills' = 0
    /\ Stage([loc.status EXCEPT !.lastRun = now, !.phase = "Running"])
    /\ UNCHANGED <<cr, crView, crSynced, jobView, pods, boundVars>>

CreateJobExists ==
    /\ pc = "createJob" /\ job.exists
    /\ Retry
    /\ ReadOnly

JobFailed ==
    /\ InFlight /\ jobView.exists /\ jobView.cond = "Failed"
    /\ Stage(FailRun(loc.status, loc.generation, "LoadgenJobFailed"))
    /\ ReadOnly

Collecting == InFlight /\ jobView.exists /\ jobView.cond = "Complete"
Unreadable == FailRun(loc.status, loc.generation, "ObserverReportUnreadable")

FinishWithoutPod ==
    /\ Collecting /\ pods = {}
    /\ Stage(Unreadable)
    /\ ReadOnly

\* findJobPod takes the first pod with the CR's label, whatever Job it is of.
finishRun ==
    /\ Collecting
    /\ \E p \in pods :
          IF p.state # "Done" THEN Retry
          ELSE \/ Stage(Unreadable)
               \/ \E r \in Reports :
                     Stage(FinishedStatus(loc.status, loc.generation, r, p.built))
    /\ ReadOnly

-----------------------------------------------------------------------------
(* maybeInjectDisruption: the Job is in flight.                            *)

JobInFlight == InFlight /\ jobView.exists /\ jobView.cond \in {"New", "Active"}
DisruptionDue == Disrupts /\ loc.status.phase = "Running" /\ ~loc.status.disrupted
triggerPoint == lastRunAnchor(loc.status) + TriggerDelay
Disrupted == [loc.status EXCEPT !.disrupted = TRUE]

NothingToDisrupt ==
    /\ JobInFlight /\ ~DisruptionDue
    /\ Done
    /\ ReadOnly

WaitToDisrupt ==
    /\ JobInFlight /\ DisruptionDue /\ now < triggerPoint
    /\ RequeueAt(triggerPoint)
    /\ ReadOnly

\* chaos.Plan picks a victim, or its safety gate refuses.
DecideDisruption ==
    /\ JobInFlight /\ DisruptionDue /\ now >= triggerPoint
    /\ \/ GoTo("killPod")
       \/ Stage(Disrupted)
    /\ ReadOnly

KillPod ==
    /\ pc = "killPod"
    /\ kills' = IF kills < 2 THEN kills + 1 ELSE kills
    /\ Stage(Disrupted)
    /\ UNCHANGED <<apiVars, cacheVars, boundVars>>

-----------------------------------------------------------------------------
(* finalize, and the deletion of the Job it shares with startNextRun.      *)

\* Mutant: the test of the Job's deletionTimestamp is inverted.
FinalizeJobInverted ==
    /\ pc = "finalize" /\ jobView.exists
    /\ StageThen([loc.status EXCEPT !.phase = "Terminating"],
                 IF jobView.deleting THEN "deleteJob" ELSE "requeue")
    /\ ReadOnly

FinalizeJob ==
    /\ pc = "finalize" /\ jobView.exists
    /\ IF loc.status.phase # "Terminating"
       THEN StageThen([loc.status EXCEPT !.phase = "Terminating"],
                      IF jobView.deleting THEN "requeue" ELSE "deleteJob")
       ELSE IF jobView.deleting THEN Retry ELSE GoTo("deleteJob")
    /\ ReadOnly

DeleteJob ==
    /\ pc = "deleteJob"
    /\ job' = [job EXCEPT !.deleting = job.exists]
    /\ jobSynced' = (jobSynced /\ job' = job)
    /\ Retry
    /\ UNCHANGED <<cr, crView, crSynced, jobView, pods, boundVars, kills>>

FinalizeDone ==
    /\ pc = "finalize" /\ ~jobView.exists
    /\ GoTo("removeFinalizer")
    /\ ReadOnly

\* The last finalizer of an object being deleted: the server removes it.
RemoveFinalizer ==
    /\ pc = "removeFinalizer" /\ current
    /\ UpdateObject(NoObject)
    /\ Done
    /\ UNCHANGED kills

-----------------------------------------------------------------------------
(* Failures of the process, of an API call, and from outside.              *)

Upset == upsets < MaxUpsets /\ upsets' = upsets + 1 /\ UNCHANGED now
Fault(kind) == kind \in FaultKinds /\ Upset

\* Any API call of the reconcile, read or write, returns an error.
ApiError ==
    /\ Fault("ApiError")
    /\ pc # "idle"
    /\ Retry
    /\ UNCHANGED <<apiVars, cacheVars, kills>>

\* The manager restarts, or another replica takes over: the caches are listed
\* anew and every listed object is queued.  Timers are lost.
Crash ==
    /\ Fault("Crash")
    /\ Idle
    /\ crView' = cr /\ crSynced' = TRUE
    /\ jobView' = job /\ jobSynced' = TRUE
    /\ queued' = (cr.exists \/ job.exists) /\ wakeAt' = NoTime
    /\ UNCHANGED <<apiVars, kills>>

OutsideJobDelete ==
    /\ Fault("OutsideJobDelete")
    /\ job.exists /\ ~job.deleting
    /\ job' = [job EXCEPT !.deleting = TRUE]
    /\ jobSynced' = FALSE
    /\ UNCHANGED <<cr, pods, crView, crSynced, jobView, queueVars, workerVars, kills>>

LosePod ==
    /\ Fault("LosePod")
    /\ \E p \in pods : pods' = pods \ {p}
    /\ UNCHANGED <<cr, job, cacheVars, queueVars, workerVars, kills>>

-----------------------------------------------------------------------------
(* The user.                                                               *)

\* A write to the object that is not the reconciler's.
ForeignUpdate(object) ==
    /\ Upset
    /\ cr.exists /\ ~cr.deleting /\ cr.generation < MaxGeneration
    /\ cr' = object
    /\ crSynced' = FALSE /\ current' = FALSE
    /\ UNCHANGED <<job, pods, crView, jobView, jobSynced, queueVars,
                   pc, loc, staged, then, kills>>

EditSpec ==
    \E s \in Specs :
       ForeignUpdate([cr EXCEPT !.spec = s, !.generation = cr.generation + 1])

DeleteCR ==
    ForeignUpdate(IF cr.finalizer
                  THEN [cr EXCEPT !.deleting = TRUE,
                                  !.generation = cr.generation + 1]
                  ELSE NoObject)

-----------------------------------------------------------------------------
(* The informers, the delaying queue and the clock.                        *)

DeliverCR ==
    /\ ~crSynced
    /\ crView' = cr /\ crSynced' = TRUE
    /\ queued' = TRUE
    /\ UNCHANGED <<apiVars, jobView, jobSynced, wakeAt, workerVars, boundVars, kills>>

\* Owns(Job): an event of the Job queues its owner.
DeliverJob ==
    /\ ~jobSynced
    /\ jobView' = job /\ jobSynced' = TRUE
    /\ queued' = TRUE
    /\ UNCHANGED <<apiVars, crView, crSynced, wakeAt, workerVars, boundVars, kills>>

TimerFires ==
    /\ wakeAt # NoTime /\ now >= wakeAt
    /\ wakeAt' = NoTime /\ queued' = TRUE
    /\ UNCHANGED <<apiVars, cacheVars, workerVars, boundVars, kills>>

Tick ==
    /\ now < MaxTime
    /\ now' = now + 1
    /\ UNCHANGED <<apiVars, cacheVars, queueVars, workerVars, upsets, kills>>

-----------------------------------------------------------------------------
(* The Job controller, the kubelet and the garbage collector.              *)

OwnPods == {p \in pods : ~p.orphan}

\* The cluster changes the Job to j and the pods to ps.
ClusterStep(j, ps) ==
    /\ job' = j /\ pods' = ps
    /\ jobSynced' = (jobSynced /\ j = job)
    /\ UNCHANGED <<cr, crView, crSynced, jobView, queueVars, workerVars,
                   boundVars, kills>>

StartPod ==
    /\ job.exists /\ ~job.deleting /\ job.cond = "New"
    /\ ClusterStep([job EXCEPT !.cond = "Active"], pods \cup {PodOf(job.built)})

\* The loadgen container exits; the observer sidecar writes its report.
FinishLoad ==
    \E p \in pods :
       /\ p.state = "Load"
       /\ ClusterStep(job, (pods \ {p}) \cup {[p EXCEPT !.state = "Observing"]})

ObserverExit ==
    \E p \in pods :
       /\ p.state = "Observing"
       /\ ClusterStep(job, (pods \ {p}) \cup {[p EXCEPT !.state = "Done"]})

\* The Job's only pod has exited, with success or not, or was lost.
EndJob ==
    /\ job.exists /\ ~job.deleting /\ job.cond = "Active"
    /\ \A p \in OwnPods : p.state # "Load"
    /\ \E c \in {"Failed"} \cup (IF OwnPods = {} THEN {} ELSE {"Complete"}) :
          ClusterStep([job EXCEPT !.cond = c], pods)

\* Background propagation: the Job goes first, its pods follow.
RemoveJob ==
    /\ job.exists /\ job.deleting
    /\ Cardinality(pods) <= MaxOrphans
    /\ ClusterStep(NoJob, {[p EXCEPT !.orphan = TRUE] : p \in pods})

ReapPod ==
    \E p \in pods : p.orphan /\ ClusterStep(job, pods \ {p})

CollectJob ==
    /\ ~cr.exists /\ job.exists /\ ~job.deleting
    /\ ClusterStep([job EXCEPT !.deleting = TRUE], pods)

-----------------------------------------------------------------------------
reconcileTerminal ==
    \/ AdoptGeneration \/ parkSuspended \/ restartForSpecChange
    \/ StayFinished \/ PublishNextRun \/ StartScheduledRun

ReconcileRun ==
    \/ FirstReconcile \/ JobVanished \/ WaitForTarget \/ FailSpawn \/ spawnJob
    \/ CreateJob \/ CreateJobExists
    \/ JobFailed \/ FinishWithoutPod \/ finishRun

maybeInjectDisruption ==
    NothingToDisrupt \/ WaitToDisrupt \/ DecideDisruption \/ KillPod

finalize ==
    \/ FinalizeJob \/ DeleteJob \/ FinalizeDone
    \/ RemoveFinalizer \/ Conflict("removeFinalizer")

Worker ==
    \/ Reconcile
    \/ AddFinalizer \/ Conflict("addFinalizer")
    \/ WriteStatus \/ Conflict("writeStatus")
    \/ reconcileTerminal \/ ReconcileRun \/ maybeInjectDisruption \/ finalize

Cluster ==
    \/ StartPod \/ FinishLoad \/ ObserverExit \/ EndJob
    \/ RemoveJob \/ ReapPod \/ CollectJob

Faults == ApiError \/ Crash \/ OutsideJobDelete \/ LosePod
User == EditSpec \/ DeleteCR
Informers == DeliverCR \/ DeliverJob

Next == Worker \/ Informers \/ TimerFires \/ Tick \/ Cluster \/ Faults \/ User

Spec == Init /\ [][Next]_vars

\* The worker, the informers, the timers and the cluster never stop for good;
\* users and faults owe nothing.
Fairness ==
    /\ WF_vars(Worker)
    /\ WF_vars(DeliverCR) /\ WF_vars(DeliverJob)
    /\ WF_vars(TimerFires) /\ WF_vars(Tick)
    /\ WF_vars(Cluster)

FairSpec == Spec /\ Fairness

-----------------------------------------------------------------------------
(* Types.                                                                  *)

Objects == [exists : BOOLEAN, spec : Specs \cup {NoSpec}, generation : Nat,
            finalizer : BOOLEAN, deleting : BOOLEAN, status : Status]
Jobs == [exists : BOOLEAN, deleting : BOOLEAN,
         cond : {"New", "Active", "Complete", "Failed"}, built : Nat]
Pods == [built : Nat, state : {"Load", "Observing", "Done"}, orphan : BOOLEAN]

\* Every variable keeps its type: the status only ever holds phases, reasons
\* and times the API defines.
TypeOK ==
    /\ cr \in Objects /\ crView \in Objects /\ loc \in Objects
    /\ job \in Jobs /\ jobView \in Jobs
    /\ pods \subseteq Pods
    /\ {crSynced, jobSynced, queued, current} \subseteq BOOLEAN
    /\ wakeAt \in Nat \cup {NoTime}
    /\ pc \in {"idle", "dispatch", "finalize", "addFinalizer", "writeStatus",
               "createJob", "killPod", "deleteJob", "removeFinalizer"}
    /\ staged \in Status
    /\ then \in {"done", "requeue", "park", "deleteJob"}
    /\ now \in Times /\ upsets \in 0 .. MaxUpsets
    /\ kills \in 0 .. 2

-----------------------------------------------------------------------------
(* Safety.                                                                 *)

ExplainsPhase(s) ==
    LET failed == "Fail" \in {s.report.sla, s.report.traffic}
    IN  /\ s.phase = "Error" =>
             /\ s.finished \in ErrorReasons
             /\ s.report = NoReport \/ s.finished = "ScheduleInvalid"
        /\ s.phase = "Succeeded" =>
             ~failed /\ s.report # NoReport /\ s.finished \in {"Succeeded", "Absent"}
        /\ s.phase = "Failed" =>
             failed /\ s.finished \in {"VerdictFailed", "Absent"}
        /\ s.phase \in {"", "Pending", "Running"} =>
             s.report = NoReport /\ s.finished \in {"Absent", "Rescheduled"}

\* The Finished condition is True exactly on a finished run, with a reason
\* that agrees with the phase, and the phase of a run with a verdict is the
\* one its report implies.  A watcher of the condition never returns while a
\* run is in flight, and a stale, retried or crashed reconcile never mixes the
\* fields of two runs: one that ends in Error shows no verdicts, except that a
\* schedule that does not parse leaves those of the run before it.  (A result
\* adopted from release 0.4 has no condition.)
FinishedExplainsPhase == ExplainsPhase(cr.status)

ShowsVerdict(s) ==
    /\ Len(s.history) <= HistoryLimit
    /\ s.phase \in {"Succeeded", "Failed"} =>
         /\ s.history # <<>>
         /\ s.history[1] = [phase |-> s.phase, report |-> s.report]

\* status.history is bounded, and begins with the verdict that is on display.
HistoryShowsVerdict == ShowsVerdict(cr.status)

AddsOneEntry(s, t) ==
    LET concluded == s.phase \in {"Pending", "Running"} /\ t.phase \in {"Succeeded", "Failed"}
    IN  IF concluded
        THEN /\ Len(t.history) = IF Len(s.history) < HistoryLimit
                                 THEN Len(s.history) + 1 ELSE HistoryLimit
             /\ t.history[1] = [phase |-> t.phase, report |-> t.report]
             /\ \A i \in 2 .. Len(t.history) : t.history[i] = s.history[i - 1]
        ELSE t.history = s.history

\* A run enters the history when it gets its verdict, once and with that verdict;
\* the earlier entries stay as they were, one place further back, and only the
\* oldest of a full history goes.  Nothing else touches the history: retries,
\* conflicts and crashes around the write that finishes a run neither repeat nor
\* drop an entry (appendRunHistory, finishRun).
OneEntryPerRun == [][cr'.exists => AddsOneEntry(cr.status, cr'.status)]_vars

StartsIfAsked(o, t) ==
    (o.status.phase \in Terminal /\ t.phase = "Pending") =>
      /\ ~o.spec.suspend
      /\ o.status.observedGeneration # 0
      /\ o.spec.schedule # "Invalid"
      /\ \/ o.generation # o.status.observedGeneration
         \/ /\ o.spec.schedule = "Valid"
            /\ now >= lastRunAnchor(o.status) + Period

\* A finished validation starts another run only if it is not suspended, and
\* only because its spec changed since the result, or its schedule is due: by
\* the server's object, however stale the cache the reconciler decided from.
RunsAreAskedFor == [][StartsIfAsked(cr, cr'.status)]_vars

KeepsVerdict(s, t) ==
    (s.phase \in Terminal /\ t.phase \notin {"Pending", "Terminating"}) =>
      /\ t.report = s.report
      /\ t.phase = s.phase \/ t.finished = "ScheduleInvalid"

\* A verdict stays as it was written until a new run resets it; only a
\* schedule that does not parse replaces the phase of a finished run.
VerdictIsFinal == [][cr'.exists => KeepsVerdict(cr.status, cr'.status)]_vars

\* A Job is only ever created for an object that still exists and carries the
\* finalizer, however stale the copy spawnJob works from: its deletion has yet to
\* pass through finalize, which stops the load of a Job that the cache shows.
JobIsGuarded ==
    [][ job'.exists /\ ~job.exists => cr.exists /\ cr.finalizer ]_vars

-----------------------------------------------------------------------------
(* What makes those properties inductive.                                  *)

\* The cache and the reconcile's copy are older versions of the object, the
\* cache the newer of the two; a copy that the server would accept is the
\* server's.  The reconciler alone removes the finalizer, and only from an
\* object it saw deleted, so no older copy can make it look alive again.
CopiesAreOlder ==
    /\ crSynced => crView = cr
    /\ current => loc = cr
    /\ \A o \in {cr, crView, loc} :
         /\ ~o.exists => o = NoObject
         /\ o.deleting => cr.deleting \/ ~cr.exists
         /\ o.finalizer /\ ~o.deleting => cr.finalizer
         /\ o.status.phase = "Terminating" => o.deleting
    /\ loc.deleting => crView.deleting \/ ~crView.exists

\* What the reconcile in progress has established about its copy.
Established ==
    /\ pc # "idle" => loc.exists
    /\ pc \in {"dispatch", "createJob", "killPod"} => loc.finalizer /\ ~loc.deleting
    /\ pc = "addFinalizer" => ~loc.deleting
    /\ pc \in {"finalize", "removeFinalizer"} => loc.deleting
    /\ pc = "createJob" => loc.status.phase = "Pending"
    /\ pc = "writeStatus" =>
         /\ staged.phase = "Terminating" => loc.deleting
         /\ AddsOneEntry(loc.status, staged)
         /\ StartsIfAsked(loc, staged)
         /\ KeepsVerdict(loc.status, staged)

\* The reconciler works from copies that are as coherent as the object itself,
\* and the status it is about to write is a legal successor of its copy's.
ReconcilerIsCoherent ==
    /\ CopiesAreOlder
    /\ Established
    /\ \A s \in {cr.status, crView.status, loc.status, staged} :
         ExplainsPhase(s) /\ ShowsVerdict(s)

\* Who waits for a one-shot validation may go by observedGeneration: the status
\* has caught up with the spec only when the run is over, not when an edit has just
\* started one (markFinished, startNextRun).
ObservedMeansFinished ==
    (/\ cr.exists /\ cr.spec.schedule = "None"
     /\ cr.status.observedGeneration = cr.generation)
        => cr.status.phase \in Terminal \cup {"Terminating"}

-----------------------------------------------------------------------------
(* The abstract specification of a validation, and what stands for its     *)
(* variables: the status at the API server, as long as there is one.       *)

Contract ==
    INSTANCE RunContract
        WITH Results <- Entry, NoReport <- NoReport, Limit <- HistoryLimit,
             phase <- IF cr.exists THEN cr.status.phase ELSE "Gone",
             report <- cr.status.report, history <- cr.status.history

\* Whatever the caches show and whenever it crashes, the reconciler only ever takes
\* the object's status through the steps of the contract.
KeepsTheContract == Contract!Spec

-----------------------------------------------------------------------------
(* Liveness, under Fairness.                                               *)

Gone == ~cr.exists \/ cr.deleting

\* Every run ends: a validation does not hang in flight, whatever its caches miss
\* and whenever the manager restarts or a call fails (Reconcile).
RunsFinish == []<>(cr.exists => cr.status.phase \in Terminal)

\* A deleted validation goes away, and so do its Job and all its pods, also when
\* the manager restarts or a call of finalize fails on the way.
DeletionCompletes == []<>(Gone => ~cr.exists /\ ~job.exists /\ pods = {})

\* An edit is answered, before or after a restart of the manager: the status
\* catches up with the generation (restartForSpecChange, markFinished).
EditsAreObserved == []<>(Gone \/ cr.status.observedGeneration = cr.generation)

Due ==
    /\ cr.exists /\ cr.status.phase \in Terminal
    /\ cr.spec.schedule = "Valid" /\ ~cr.spec.suspend
    /\ now >= lastRunAnchor(cr.status) + Period

\* A finished validation on a schedule runs again when it is due: it does not stay
\* due, also if a restart has lost the timer that would have woken the reconciler
\* (PublishNextRun, StartScheduledRun).
ScheduleRecurs == []<>~Due

-----------------------------------------------------------------------------
(* What comments and docs of the repository say, and the code does not do. *)

\* ObservedGeneration "is the metadata.generation the last terminal result was
\* produced from": the verdict of a run is recorded against the generation
\* whose spec its Job measured.
VerdictDescribesSpec ==
    [][ (/\ cr.status.phase \in {"Pending", "Running"}
         /\ cr'.status.phase \in {"Succeeded", "Failed"}) =>
          cr'.status.source = cr'.status.observedGeneration ]_vars

\* "a run never disrupts twice, even across reconciles"
DisruptsOnce == kills <= 1

\* The Job of a run that ends as LoadgenJobVanished "disappeared".
VanishedJobIsGone ==
    [][ (/\ cr'.status.finished = "LoadgenJobVanished"
         /\ cr.status.finished # "LoadgenJobVanished") =>
          ~job.exists \/ job.deleting ]_vars

\* status.nextRunTime "never advertises a run that will not happen": on a
\* finished validation whose spec has been observed, a next run is advertised
\* only by a schedule that can start it.
NextRunWillHappen ==
    (/\ cr.exists /\ cr.status.phase \in Terminal
     /\ cr.status.observedGeneration = cr.generation
     /\ cr.status.nextRun # NoTime)
        => cr.spec.schedule = "Valid" /\ ~cr.spec.suspend

=============================================================================
