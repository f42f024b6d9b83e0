------------------------------ MODULE Observer ------------------------------
(***************************************************************************)
(* The observer sidecar of a run (internal/observer, cmd/observer): one    *)
(* session per container instance, its endpoint watch in a goroutine of    *)
(* its own, the load generator it waits for, and the log line it leaves    *)
(* for the controller.  The API server, the kubelet and the load generator *)
(* are the environment; what the cluster does during a run is bounded by   *)
(* one shared budget, MaxChanges.                                          *)
(***************************************************************************)
EXTENDS Analyzers, Endpoints, FiniteSets

CONSTANTS
    SLA, PollInterval,
    HPAStates,      \* what the autoscaler's status may say
    FirstSlices,    \* the slices when the pod starts
    ReadySets,      \* the ready addresses a slice may come to have, or Absent
    Stats,          \* what a scrape of the throttling counters may return
    Postures,       \* pods, dns and budgets as found at finalization
    Sents,          \* how many requests a load run may have sent
    Bursts,         \* how long ago requests ended whose failures come in together
    maxErrorSamples,
    criticalCount,  \* criticalLeakedCount and criticalDroppedCount
    MaxTime, MaxChanges, MaxInstances

\* What the API server and the metrics admit: counts are not negative, and a
\* budget's field is unset, a count or a percentage.
Stat == [periods : Nat, throttled : Nat]
Quantity == [percent : BOOLEAN, value : Nat]
Budget == [minAvailable : Quantity \cup {Absent}, maxUnavailable : Quantity \cup {Absent}]
ColdStart == [created : Nat, containersReady : Nat \cup {Absent},
              ready : Nat \cup {Absent}, period : Nat]

ASSUME ObserverAssumptions ==
    /\ {SLA, MaxTime, MaxChanges, maxErrorSamples, criticalCount} \subseteq Nat
    /\ Bursts \subseteq Seq(Nat)
    /\ PollInterval \in Nat \ {0} /\ MaxInstances \in Nat \ {0}
    /\ IsFiniteSet(Slices) /\ IsFiniteSet(IPs)
    /\ ReadySets \subseteq (SUBSET IPs) \cup {Absent}
    /\ FirstSlices \subseteq [Slices -> ReadySets]
    /\ Absent \notin Nat /\ Absent \notin Postures
    /\ \A h \in HPAStates : h.current \in Nat /\ h.desired \in Nat
    /\ Stats \subseteq Stat
    /\ \A p \in Postures :
          /\ p.after \in Stat \cup {Absent} /\ p.pods \in Seq(ColdStart)
          /\ p.budgets # Absent => p.budgets \in Seq(Budget)

VARIABLES
    now, changes,
    hpa,        \* the autoscaler's status
    slices,     \* the ready addresses of each EndpointSlice, or Absent
    load,       \* the load container: pending, running or exited
    errors,     \* when its requests failed, as they came in
    file,       \* the result file: Absent, Malformed (torn) or a Result
    sigterm,    \* the kubelet has ended the observer
    instances,  \* how many containers it has started
    pc, session,
    stream,     \* the endpoint watch: off, opening, open or dead, and its queue
    tracker, events,
    log,        \* the report lines in the log of the latest container
    missed,     \* ghost: slices deleted while no watch was open
    found       \* ghost: what the finalization found

cluster == <<changes, hpa, slices>>
generator == <<load, errors, file>>
watch == <<stream, tracker, events>>
vars == <<now, cluster, generator, sigterm, instances, pc, session, watch,
          log, missed, found>>

\* scraped is a ghost: the counters before the run could be read.
NoSession == [start |-> 0, watcher |-> NoWatcher, before |-> ZeroStat,
              scraped |-> FALSE, pollAt |-> 0]
NoStream == [state |-> "off", queue |-> <<>>]

Running == pc \in {"resolve", "before", "poll", "finalize"}

Init ==
    /\ now = 0 /\ changes = 0
    /\ hpa \in {h \in HPAStates : h.current = h.desired}
    /\ slices \in FirstSlices
    /\ load = "pending" /\ errors = <<>> /\ file = Absent
    /\ sigterm = FALSE /\ instances = 0
    /\ pc = "down" /\ session = NoSession
    /\ stream = NoStream /\ tracker = newEndpointTracker /\ events = <<>>
    /\ log = <<>> /\ missed = {} /\ found = Absent

-----------------------------------------------------------------------------
(* The session.                                                             *)

snapshotHPA(at) ==
    [at |-> at, current |-> hpa.current, desired |-> hpa.desired,
     conditions |-> hpa.conditions]

\* Mutant: a file that does not decode counts as an empty result.
loadResultOrEmpty ==
    IF file \in {Absent, Malformed} THEN [sent |-> 0, failed |-> 0, errors |-> <<>>]
    ELSE file

loadResult == IF file = Malformed THEN Absent ELSE file

CorrelationDiagnostics(result) ==
    LET fired == CountAlert("ColdStartLeakage",
                            LeakedRequests(events, result.errors), criticalCount)
                 \cup CountAlert("UngracefulDrain",
                                 DroppedRequests(events, result.errors), criticalCount)
    IN  fired \cup When(fired # {}, Alert("MetricsLikelySkewed", "Info"))

\* The report from a watcher, the alerts of the other analyzers and the result.
report(w, observed) ==
    LET result == loadResult
    IN  [slaStatus |-> slaVerdict(w, SLA),
         scaleUpDuration |-> IF w.settleAt = Absent THEN Absent
                             ELSE w.settleAt - Head(w.samples).at,
         trafficIntegrity |-> IF result = Absent THEN "Unknown"
                              ELSE trafficVerdict(result),
         diagnostics |-> When(w.samples # <<>>, HPADiagnostics(w, SLA))
                         \cup observed
                         \cup When(result # Absent, CorrelationDiagnostics(result))]

\* What goes wrong counts against the budget, except the calls that fail because
\* the kubelet has ended the container and with it their context.
Upset ==
    IF sigterm THEN UNCHANGED changes
    ELSE changes < MaxChanges /\ changes' = changes + 1

\* The container starts, at first or after it exited or crashed.
StartSession ==
    /\ pc \in {"down", "exited"} /\ ~sigterm /\ instances < MaxInstances
    /\ instances' = instances + 1
    /\ pc' = "resolve"
    /\ session' = [NoSession EXCEPT !.start = now]
    /\ stream' = NoStream /\ tracker' = newEndpointTracker /\ events' = <<>>
    /\ log' = <<>> /\ missed' = {} /\ found' = Absent
    /\ UNCHANGED <<now, cluster, generator, sigterm>>

\* Run gives up on a target it cannot resolve, or that has no pods, with a
\* report of what little it has.
ResolveFails ==
    /\ pc = "resolve"
    /\ Upset
    /\ log' = <<report(NoWatcher, {})>>
    /\ pc' = "exited"
    /\ UNCHANGED <<now, hpa, slices, generator, sigterm, instances, session, watch,
                   missed, found>>

\* The target is found; its autoscaler may not exist or not be listed.
resolveTarget ==
    /\ pc = "resolve" /\ ~sigterm
    /\ \/ /\ session' = [session EXCEPT !.watcher = New(snapshotHPA(session.start))]
          /\ UNCHANGED changes
       \/ UNCHANGED session /\ Upset
    /\ pc' = "before"
    /\ UNCHANGED <<now, hpa, slices, generator, sigterm, instances, watch, log, missed,
                   found>>

\* The counters before the run.  An error is only logged and leaves them zero.
\* The watch and the poll start.
ScrapeBefore ==
    /\ pc = "before"
    /\ \/ /\ ~sigterm /\ UNCHANGED changes
          /\ \E stat \in Stats :
                session' = [session EXCEPT !.before = stat, !.scraped = TRUE,
                                           !.pollAt = now + PollInterval]
       \/ /\ Upset
          /\ session' = [session EXCEPT !.pollAt = now + PollInterval]
    /\ stream' = [stream EXCEPT !.state = "opening"]
    /\ pc' = "poll"
    /\ UNCHANGED <<now, hpa, slices, generator, sigterm, instances, tracker, events,
                   log, missed, found>>

\* A tick of the poll.  The read fails with the API, or because the container is
\* being ended.
pollHPA ==
    /\ pc = "poll" /\ session.watcher.samples # <<>> /\ now >= session.pollAt
    /\ LET next == now + PollInterval
       IN  \/ /\ ~sigterm /\ UNCHANGED changes
              /\ session' = [session EXCEPT !.pollAt = next,
                                !.watcher = Record(@, snapshotHPA(now))]
           \/ Upset /\ session' = [session EXCEPT !.pollAt = next]
    /\ UNCHANGED <<now, hpa, slices, generator, sigterm, instances, pc, watch, log,
                   missed, found>>

\* Mutant: only a session that polls an autoscaler notices the end.
StopPollingWatcher ==
    /\ pc = "poll" /\ sigterm /\ session.watcher.samples # <<>>
    /\ pc' = "finalize"
    /\ UNCHANGED <<now, cluster, generator, sigterm, instances, session, watch,
                   log, missed, found>>

StopPolling ==
    /\ pc = "poll" /\ sigterm
    /\ pc' = "finalize"
    /\ UNCHANGED <<now, cluster, generator, sigterm, instances, session, watch,
                   log, missed, found>>

\* The replica count for the audit of budgets: from the scale, else what the
\* autoscaler's status was when the target was resolved, else the pods.
currentReplicas(scaleRead, pods) ==
    IF scaleRead THEN hpa.current
    ELSE IF session.watcher.samples # <<>> /\ Head(session.watcher.samples).current > 0
    THEN Head(session.watcher.samples).current
    ELSE pods

\* The scrape and the list of budgets may fail (Absent), the list of pods may be
\* empty or fail, the option may not parse.
Observed(posture) ==
    LET cold == pickColdStartPod(posture.pods, session.start)
    IN  When(posture.after # Absent,
             ThrottleDiagnostics(Compare(session.before, posture.after)))
        \cup (UNION {ProbeDiagnostics(pod) : pod \in cold})
        \cup DNSDiagnostics(posture.ndots)
        \cup When(posture.budgets # Absent,
                  PDBDiagnostics(posture.budgets,
                     currentReplicas(posture.scaleRead, Len(posture.pods))))

\* The report is printed and the process exits, the watch with it.
Finalize ==
    /\ pc = "finalize"
    /\ \E posture \in Postures :
          /\ found' = posture
          /\ log' = <<report(session.watcher, Observed(posture))>>
    /\ pc' = "exited"
    /\ stream' = NoStream /\ missed' = {}
    /\ UNCHANGED <<now, cluster, generator, sigterm, instances, session, tracker,
                   events>>

-----------------------------------------------------------------------------
(* The goroutine that watches EndpointSlices.                               *)

WatchChanges == UNCHANGED <<now, hpa, slices, generator, sigterm, instances, pc,
                            session, log, found>>

Watching == pc \in {"poll", "finalize"}

Notify(slice) ==
    [slice |-> slice,
     ready |-> IF slices[slice] = Absent THEN {} ELSE slices[slice]]

\* Mutant: a new watch sends only what changes from now on.
WatchOpensAtNow ==
    /\ Watching /\ stream.state = "opening" /\ ~sigterm
    /\ stream' = [state |-> "open", queue |-> <<>>]
    /\ UNCHANGED <<changes, tracker, events, missed>> /\ WatchChanges

\* A new watch first sends the slices that exist, in some order.
WatchOpens ==
    /\ Watching /\ stream.state = "opening" /\ ~sigterm
    /\ LET exist == {s \in Slices : slices[s] # Absent}
       IN  /\ stream' = [state |-> "open",
                         queue |-> [i \in DOMAIN Listed(exist) |->
                                      Notify(Listed(exist)[i])]]
           /\ missed' = missed \ exist
    /\ UNCHANGED <<changes, tracker, events>> /\ WatchChanges

\* A watch that cannot be opened, or the end of the context, ends the goroutine.
WatchDies ==
    /\ Watching /\ stream.state \in {"opening", "open"}
    /\ stream.state = "open" => sigterm
    /\ Upset
    /\ stream' = [state |-> "dead", queue |-> <<>>]
    /\ UNCHANGED <<tracker, events, missed>> /\ WatchChanges

\* The server closes the watch; it is opened again with the same tracker.  What
\* was not received is lost.
WatchCloses ==
    /\ Watching /\ stream.state = "open" /\ ~sigterm
    /\ Upset
    /\ stream' = [state |-> "opening", queue |-> <<>>]
    /\ missed' = missed \cup {s \in Slices : slices[s] = Absent /\ tracker.slices[s] # {}}
    /\ UNCHANGED <<tracker, events>> /\ WatchChanges

consumeWatch ==
    /\ Watching /\ stream.state = "open" /\ stream.queue # <<>>
    /\ LET ev == Head(stream.queue)
       IN  /\ tracker' = apply(tracker, ev.slice, ev.ready)
           /\ events' = events \o applyEvents(tracker, tracker', now)
    /\ stream' = [stream EXCEPT !.queue = Tail(@)]
    /\ UNCHANGED <<changes, missed>> /\ WatchChanges

-----------------------------------------------------------------------------
(* The environment.  Nothing that happens after the pod's end is of interest. *)

Ended == sigterm /\ pc \in {"down", "exited"}

Change ==
    /\ ~Ended /\ changes < MaxChanges
    /\ changes' = changes + 1
    /\ UNCHANGED <<now, sigterm, instances, pc, session, tracker, events, log, found>>

ScalingMoves ==
    /\ \E h \in HPAStates : h # hpa /\ hpa' = h
    /\ Change /\ UNCHANGED <<slices, generator, stream, missed>>

\* A slice is created, updated or deleted; an open watch will hear of it.
SliceChanges ==
    /\ \E s \in Slices, ready \in ReadySets :
          /\ ready # slices[s]
          /\ slices' = [slices EXCEPT ![s] = ready]
          /\ stream' = IF stream.state # "open" THEN stream
                       ELSE [stream EXCEPT !.queue = Append(@, Notify(s)')]
          /\ missed' = IF stream.state # "open" /\ tracker.slices[s] # {} /\ ready = Absent
                       THEN missed \cup {s} ELSE missed \ {s}
    /\ Change /\ UNCHANGED <<hpa, generator>>

\* Requests fail.  Each takes the time before it takes the collector's lock, so
\* that one which ended earlier may come in later.
RequestFails ==
    /\ load = "running"
    /\ \E burst \in Bursts :
          /\ \A i \in DOMAIN burst : burst[i] <= now
          /\ errors' = errors \o [i \in DOMAIN burst |-> now - burst[i]]
    /\ Change /\ UNCHANGED <<hpa, slices, load, file, stream, missed>>

\* The observer is killed, or exits by itself without a report: it has no in-cluster
\* configuration or client, or cannot print.  What it knew is gone.
Crash ==
    /\ Running
    /\ pc' = "down"
    /\ changes < MaxChanges /\ changes' = changes + 1
    /\ session' = NoSession
    /\ stream' = NoStream /\ tracker' = newEndpointTracker /\ events' = <<>>
    /\ missed' = {}
    /\ UNCHANGED <<now, hpa, slices, generator, sigterm, instances, log, found>>

LoadSteps == UNCHANGED <<now, hpa, slices, instances, pc, session, watch, log, missed,
                         found>>

\* The sidecar starts before the load container.
LoadStarts ==
    /\ load = "pending" /\ instances > 0
    /\ load' = "running"
    /\ UNCHANGED <<changes, errors, file, sigterm>> /\ LoadSteps

\* The failures whose instants are kept: the first so many that came in.
Sampled(all) ==
    IF Len(all) <= maxErrorSamples THEN all ELSE SubSeq(all, 1, maxErrorSamples)

\* It ends with its result written, or without, or killed while writing it.
LoadExits ==
    /\ load = "running"
    /\ load' = "exited"
    /\ \/ /\ \E sent \in {n \in Sents : n >= Len(errors)} :
                file' = [sent |-> sent, failed |-> Len(errors),
                         errors |-> Sampled(errors)]
          /\ UNCHANGED changes
       \/ file' \in {Absent, Malformed} /\ Upset
    /\ UNCHANGED <<errors, sigterm>> /\ LoadSteps

\* The kubelet ends a sidecar once the load container has exited.
Sigterm ==
    /\ load = "exited" /\ ~sigterm
    /\ sigterm' = TRUE
    /\ UNCHANGED <<changes, generator>> /\ LoadSteps

\* Time is counted while the load runs, in units next to which a call of the session
\* takes none; the endpoint watch may lag by any time.
Tick ==
    /\ load = "running" /\ now < MaxTime
    /\ pc \notin {"resolve", "before"}
    /\ (pc = "poll" /\ session.watcher.samples # <<>>) => now < session.pollAt
    /\ now' = now + 1
    /\ UNCHANGED <<cluster, generator, sigterm, instances, pc, session, watch, log,
                   missed, found>>

Session ==
    \/ StartSession \/ ResolveFails \/ resolveTarget \/ ScrapeBefore \/ pollHPA
    \/ StopPolling \/ Finalize
Watch == WatchOpens \/ WatchDies \/ WatchCloses \/ consumeWatch
Environment ==
    \/ ScalingMoves \/ SliceChanges \/ RequestFails \/ Crash \/ LoadStarts
    \/ LoadExits \/ Sigterm \/ Tick

Next == Session \/ Watch \/ Environment

Spec == Init /\ [][Next]_vars

\* A started session keeps taking its steps, its API calls answer or fail, a load
\* run ends and the kubelet ends the sidecar after it.  No container is promised a
\* restart.
Fairness ==
    /\ WF_vars(ResolveFails \/ resolveTarget) /\ WF_vars(ScrapeBefore)
    /\ WF_vars(StopPolling) /\ WF_vars(Finalize)
    /\ WF_vars(LoadStarts) /\ WF_vars(LoadExits) /\ WF_vars(Sigterm)

FairSpec == Spec /\ Fairness
-----------------------------------------------------------------------------
(* Properties.                                                              *)

Verdicts == {"Pass", "Fail", "Unknown"}

\* The values of the session's state; its log holds at most one report, made of
\* known verdicts and severities.
TypeOK ==
    /\ now \in 0..MaxTime /\ changes \in 0..MaxChanges
    /\ instances \in 0..MaxInstances
    /\ pc \in {"down", "resolve", "before", "poll", "finalize", "exited"}
    /\ load \in {"pending", "running", "exited"} /\ sigterm \in BOOLEAN
    /\ stream.state \in {"off", "opening", "open", "dead"}
    /\ tracker \in [slices : [Slices -> SUBSET IPs], ready : SUBSET IPs]
    /\ Len(log) <= 1
    /\ \A i \in DOMAIN log :
          /\ {log[i].slaStatus, log[i].trafficIntegrity} \subseteq Verdicts
          /\ \A a \in log[i].diagnostics :
                a.severity \in {"Info", "Warning", "Critical"}

\* The latest of the first n events of an address is a Ready one.
ReadyAfter(n, ip) ==
    \E i \in 1..n :
       /\ events[i].ip = ip /\ events[i].kind = "Ready"
       /\ \A j \in (i + 1)..n : events[j].ip # ip

\* The events that the tracker emitted for an address alternate, Ready first, and
\* the last one says whether it is ready now, in some slice: an address that moves
\* between slices, or is listed in two, makes no event (endpointTracker.apply).
EventsExplainReadiness ==
    /\ tracker.ready = UNION {tracker.slices[s] : s \in Slices}
    /\ \A i \in DOMAIN events :
          events[i].kind = IF ReadyAfter(i - 1, events[i].ip) THEN "Removed" ELSE "Ready"
    /\ \A ip \in IPs : ip \in tracker.ready <=> ReadyAfter(Len(events), ip)

\* A watch that has delivered all it has leaves the tracker with the slices of the
\* cluster, whatever was lost when it was closed and opened again, except slices
\* that were deleted in between: no event ever tells the tracker of those
\* (watchEndpoints keeps the tracker and does not list).
OnlyDeletionsAreMissed ==
    (stream.state = "open" /\ stream.queue = <<>>) =>
       \A s \in Slices : \/ tracker.slices[s] = Notify(s).ready
                         \/ s \in missed /\ slices[s] = Absent

Alerts(type) == {a \in log[1].diagnostics : a.type = type}

CountShown(type, count) ==
    /\ Alerts(type) # {} <=> count > 0
    /\ \A a \in Alerts(type) : a.severity = "Critical" <=> count >= criticalCount

\* The single forward scan counts every failed request the result holds a sample of
\* that lies in the window of some endpoint event, and each only once, in whatever
\* order they came in and however the windows overlap (leakage.Correlate,
\* drain.Correlate).
CountsMatchWindows ==
    (log # <<>> /\ log[1].trafficIntegrity # "Unknown") =>
       LET In(kind, before, after) ==
             {i \in DOMAIN file.errors : \E j \in DOMAIN events :
                /\ events[j].kind = kind
                /\ file.errors[i] \in (events[j].at - before)..(events[j].at + after - 1)}
       IN  /\ CountShown("ColdStartLeakage", Cardinality(In("Ready", 0, leakageWindow)))
           /\ CountShown("UngracefulDrain",
                         Cardinality(In("Removed", DefaultLookback, drainWindow)))

\* The samples at which the autoscaler had scaled up and had what it wanted.
Converged(samples) ==
    {i \in 2..Len(samples) :
       /\ \E j \in 2..i : samples[j].current > samples[1].current
       /\ samples[i].desired > samples[1].current
       /\ samples[i].current >= samples[i].desired}

\* The scaling verdict is Fail exactly if samples reach to the SLA and none shows
\* convergence within it; a run whose samples stop short of it passes, and only one
\* that saw no autoscaler is Unknown (hpa.Watcher.Record and Report).  The duration
\* in the report is that of the first converged sample.
ScalingVerdictIsEarned ==
    log # <<>> =>
       LET samples == session.watcher.samples
           after(i) == samples[i].at - samples[1].at
       IN  /\ log[1].slaStatus = "Unknown" <=> samples = <<>>
           /\ log[1].slaStatus = "Fail" <=>
                 /\ samples # <<>> /\ SLA > 0 /\ after(Len(samples)) >= SLA
                 /\ \A i \in Converged(samples) : after(i) > SLA
           /\ log[1].scaleUpDuration = IF Converged(samples) = {} THEN Absent
                                       ELSE after(Min(Converged(samples)))

\* A traffic verdict is about the load run that finished, and right about it; there
\* is none when its result is missing or torn, or when the session gave up on its
\* target before there was one (loadResult, trafficVerdict).
TrafficVerdictIsOfTheLoad ==
    log # <<>> =>
       IF log[1].trafficIntegrity = "Unknown"
       THEN file \in {Absent, Malformed} \/ found = Absent
       ELSE /\ load = "exited" /\ file \notin {Absent, Malformed}
            /\ log[1].trafficIntegrity = "Fail" <=> 100 * Len(errors) > file.sent

\* Some pods can be evicted from so many without breaking the budget.
Evictable(p, total) ==
    \E n \in 1..total :
       /\ p.minAvailable # Absent =>
             IF p.minAvailable.percent
             THEN 100 * (total - n) >= p.minAvailable.value * total
             ELSE total - n >= p.minAvailable.value
       /\ p.maxUnavailable # Absent =>
             IF p.maxUnavailable.percent
             THEN 100 * n <= p.maxUnavailable.value * total
             ELSE n <= p.maxUnavailable.value

\* When the scale could be read, the report names every budget from which no pod can
\* be evicted at the replica count the run ended with, and no other (pdb.blocksAll
\* rounds percentages in opposite directions for its two fields).
BlockingBudgetsAreNamed ==
    (log # <<>> /\ found # Absent /\ found.budgets # Absent /\ found.scaleRead) =>
       {a.about : a \in Alerts("PDBBlocksEviction")} =
          {i \in DOMAIN found.budgets :
             hpa.current > 0 /\ ~Evictable(found.budgets[i], hpa.current)}

\* A report speaks of a slow cold start exactly if the newest pod, the first listed
\* of several, was created after the session began and was ready at least two probe
\* periods after its containers, and of throttling exactly if both counters are
\* higher than at the session's first scrape: not if the container restarted and they
\* began anew below it (pickColdStartPod, probelag, cgroup.Compare).  If that scrape
\* failed, any throttling in the life of the container is put down to the run.
BlameIsExact ==
    (log # <<>> /\ found # Absent) =>
       /\ Alerts("ReadinessSamplingSparse") # {} <=>
             \E i \in DOMAIN found.pods :
                LET pod == found.pods[i]
                IN  /\ pod.created > session.start
                    /\ \A j \in DOMAIN found.pods :
                          /\ found.pods[j].created <= pod.created
                          /\ j < i => found.pods[j].created < pod.created
                    /\ pod.period > 0 /\ Absent \notin {pod.containersReady, pod.ready}
                    /\ pod.ready - pod.containersReady >= 2 * pod.period
       /\ Alerts("CPUThrottling") # {} <=>
             /\ found.after # Absent
             /\ LET since == IF session.scraped THEN session.before ELSE ZeroStat
                IN  /\ found.after.throttled > since.throttled
                    /\ found.after.periods > since.periods

\* A session that is up ends with its report in the log, unless it is killed: no
\* failed call, missing autoscaler, broken watch or result keeps it from one
\* (Session.Run "never returns an error").
ReportIsPrinted == []<>(log # <<>> \/ pc = "down")
=============================================================================
