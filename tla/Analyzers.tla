------------------------------ MODULE Analyzers ------------------------------
(***************************************************************************)
(* The observer's analyzers that look at one thing at a time: the          *)
(* autoscaler's samples (internal/analyzer/hpa), the throttling counters   *)
(* (cgroup), a cold start's conditions (probelag) and the workload's       *)
(* declared posture (dns, pdb), with the verdicts made from them.  Each    *)
(* yields a set of alerts; of an alert count its type, its severity and,   *)
(* for a budget, which one of the list its message names.                  *)
(***************************************************************************)
EXTENDS Integers, Sequences

CONSTANTS
    Absent,     \* a value that is not set
    Malformed   \* a value that does not parse

AlertAbout(type, severity, about) ==
    {[type |-> type, severity |-> severity, about |-> about]}

Alert(type, severity) == AlertAbout(type, severity, 0)

When(condition, alerts) == IF condition THEN alerts ELSE {}

-----------------------------------------------------------------------------
(* hpa.Watcher.  A snapshot has the time, current and desired replicas and  *)
(* the conditions that raise an alert.  A watcher without samples is nil.   *)

NoWatcher == [samples |-> <<>>, reactAt |-> Absent, settleAt |-> Absent]

New(initial) == [NoWatcher EXCEPT !.samples = <<initial>>]

\* Mutant: reaching the desired count settles even if nothing was asked for.
RecordAnySettle(w, s) ==
    [w EXCEPT !.samples = Append(@, s),
              !.reactAt = IF @ = Absent THEN s.at ELSE @,
              !.settleAt = IF @ = Absent /\ s.current >= s.desired
                           THEN s.at ELSE @]

Record(w, s) ==
    LET initial == Head(w.samples).current
        reactAt == IF w.reactAt = Absent /\ s.current > initial
                   THEN s.at ELSE w.reactAt
        settles == /\ reactAt # Absent /\ w.settleAt = Absent
                   /\ s.desired > initial
                   /\ s.current >= s.desired
    IN  [samples |-> Append(w.samples, s),
         reactAt |-> reactAt,
         settleAt |-> IF settles THEN s.at ELSE w.settleAt]

SLABreached(w, sla) ==
    LET started == Head(w.samples).at
        last == w.samples[Len(w.samples)]
    IN  /\ sla > 0
        /\ IF w.settleAt = Absent THEN last.at - started >= sla
                                  ELSE w.settleAt - started > sla

HPADiagnostics(w, sla) ==
    LET last == w.samples[Len(w.samples)]
    IN  When(SLABreached(w, sla), Alert("HPAScaleLatency", "Critical"))
        \cup When(w.reactAt = Absent /\ last.desired > Head(w.samples).current,
                  Alert("HPANoReaction", "Warning"))
        \cup When("ScalingLimited" \in last.conditions,
                  Alert("HPAScalingLimited", "Warning"))
        \cup When("UnableToScale" \in last.conditions,
                  Alert("HPAUnableToScale", "Critical"))

slaVerdict(w, sla) ==
    IF w.samples = <<>> THEN "Unknown"
    ELSE IF SLABreached(w, sla) THEN "Fail" ELSE "Pass"

-----------------------------------------------------------------------------
(* cgroup.  A Stat has the counters of scheduling periods and of throttled  *)
(* ones.  A scrape without a series of the container reads as ZeroStat.     *)

ZeroStat == [periods |-> 0, throttled |-> 0]

saturatingSub(a, b) == IF a < b THEN 0 ELSE a - b

Compare(before, after) ==
    [periods |-> saturatingSub(after.periods, before.periods),
     throttled |-> saturatingSub(after.throttled, before.throttled)]

ThrottleDiagnostics(r) ==
    When(r.throttled > 0 /\ r.periods > 0,
         Alert("CPUThrottling",
               IF 100 * r.throttled >= 25 * r.periods THEN "Critical"
               ELSE IF 100 * r.throttled >= 5 * r.periods THEN "Warning"
               ELSE "Info"))

-----------------------------------------------------------------------------
(* probelag.  A pod has its creation time, its true conditions' times       *)
(* (Absent when not true) and the period of its readiness probe (0: none).  *)

\* Mutant: the newest pod, whenever it was created.
pickNewestPod(pods, start) ==
    LET newest == {i \in DOMAIN pods :
                     \A j \in DOMAIN pods : pods[j].created <= pods[i].created}
    IN  {pods[i] : i \in {i \in newest : \A j \in newest : i <= j}}

\* The newest pod created after the run began, the first listed of several: a set
\* that is empty if there is none.
pickColdStartPod(pods, start) ==
    LET newest == {i \in DOMAIN pods :
                     /\ pods[i].created > start
                     /\ \A j \in DOMAIN pods : pods[j].created <= pods[i].created}
    IN  {pods[i] : i \in {i \in newest : \A j \in newest : i <= j}}

ReadinessLag(pod) ==
    IF Absent \in {pod.containersReady, pod.ready} THEN 0
    ELSE saturatingSub(pod.ready, pod.containersReady)

ProbeDiagnostics(pod) ==
    When(/\ pod.period > 0
         /\ Absent \notin {pod.containersReady, pod.ready}
         /\ ReadinessLag(pod) >= 2 * pod.period,
         Alert("ReadinessSamplingSparse",
               IF ReadinessLag(pod) >= 5 * pod.period THEN "Critical"
               ELSE "Warning"))

-----------------------------------------------------------------------------
(* dns.  The pod's ndots option: Absent, Malformed or a number.  An option  *)
(* that does not parse fails the audit, which then says nothing.            *)

KubernetesDefaultNDots == 5

DNSDiagnostics(ndots) ==
    When(ndots = Absent \/ (ndots \in Int /\ ndots >= KubernetesDefaultNDots),
         Alert("DNSNdotsHigh", "Warning"))

-----------------------------------------------------------------------------
(* pdb.  A budget that selects the workload has minAvailable or             *)
(* maxUnavailable, each Absent, a count or a percentage.                    *)

\* GetScaledValueFromIntOrPercent
Scaled(v, total, roundUp) ==
    IF ~v.percent THEN v.value
    ELSE (v.value * total + IF roundUp THEN 99 ELSE 0) \div 100

\* Mutant: a percentage of minAvailable is rounded down.
blocksAllDown(p, total) ==
    /\ total > 0
    /\ \/ p.minAvailable # Absent /\ Scaled(p.minAvailable, total, FALSE) >= total
       \/ p.maxUnavailable # Absent /\ Scaled(p.maxUnavailable, total, FALSE) <= 0

blocksAll(p, total) ==
    /\ total > 0
    /\ \/ p.minAvailable # Absent /\ Scaled(p.minAvailable, total, TRUE) >= total
       \/ p.maxUnavailable # Absent /\ Scaled(p.maxUnavailable, total, FALSE) <= 0

PDBDiagnostics(budgets, replicas) ==
    When(budgets = <<>>, Alert("MissingPDB", "Warning"))
    \cup UNION {When(blocksAll(budgets[i], replicas),
                     AlertAbout("PDBBlocksEviction", "Warning", i))
                   : i \in DOMAIN budgets}

-----------------------------------------------------------------------------
(* Traffic.                                                                 *)

\* A rate above trafficFailThreshold, one in a hundred, fails; the rate of no
\* requests is zero.
trafficVerdict(result) ==
    IF 100 * result.failed > result.sent THEN "Fail" ELSE "Pass"
=============================================================================
