---------------------------- MODULE ReportProofs ----------------------------
(***************************************************************************)
(* What the observer's report says, for any cluster, any length of a run   *)
(* and any constants: its scaling verdict against the samples (Watched),   *)
(* its audits against what the finalization found (Printed), and whose     *)
(* traffic it speaks of (Reported).                                        *)
(***************************************************************************)
EXTENDS Observer, TLAPS

-----------------------------------------------------------------------------
(* The watcher.                                                             *)

Snapshots == [at : Nat, current : Nat, desired : Nat,
              conditions : {h.conditions : h \in HPAStates}]

Watchers == [samples : Seq(Snapshots), reactAt : Nat \cup {Absent},
             settleAt : Nat \cup {Absent}]

ScaledUp(samples) == \E j \in 2..Len(samples) : samples[j].current > samples[1].current

\* The samples are in the order of time, and the two instants are those of the
\* samples that they stand for.
Watched(w, t) ==
    /\ w \in Watchers
    /\ \A i \in DOMAIN w.samples : w.samples[i].at <= t
    /\ \A i, j \in DOMAIN w.samples : i <= j => w.samples[i].at <= w.samples[j].at
    /\ w.reactAt = Absent <=> ~ScaledUp(w.samples)
    /\ Converged(w.samples) = {} => w.settleAt = Absent
    /\ Converged(w.samples) # {} =>
          \E k \in Converged(w.samples) :
             /\ \A i \in Converged(w.samples) : k <= i
             /\ w.settleAt = w.samples[k].at

\* A sample has an instant and counts.
LEMMA SampleTyped ==
    ASSUME NEW q \in Seq(Snapshots), NEW i \in DOMAIN q
    PROVE  q[i].at \in Nat /\ q[i].current \in Nat /\ q[i].desired \in Nat
<1>1. q[i] \in Snapshots
  OBVIOUS
<1> QED
  BY <1>1 DEF Snapshots

\* A watcher that has no sample yet.
LEMMA NoWatcherWatched == ASSUME NEW t PROVE Watched(NoWatcher, t)
<1>1. NoWatcher \in Watchers
  BY DEF NoWatcher, Watchers
<1>2. NoWatcher.samples = <<>> /\ NoWatcher.reactAt = Absent /\ NoWatcher.settleAt = Absent
  BY DEF NoWatcher
<1>3. Converged(<<>>) = {} /\ ~ScaledUp(<<>>)
  BY DEF Converged, ScaledUp
<1>4. \A i \in DOMAIN NoWatcher.samples : FALSE
  BY <1>2
<1> QED
  BY <1>1, <1>2, <1>3, <1>4, Zenon DEF Watched

\* A watcher with its first sample.
LEMMA NewWatched ==
    ASSUME NEW s \in Snapshots, NEW t \in Nat, s.at <= t
    PROVE  Watched(New(s), t)
<1> DEFINE w == New(s)
<1>1. w = [samples |-> <<s>>, reactAt |-> Absent, settleAt |-> Absent]
  BY DEF New, NoWatcher
<1>2. <<s>> \in Seq(Snapshots) /\ Len(<<s>>) = 1 /\ <<s>>[1] = s
  OBVIOUS
<1>3. w \in Watchers /\ w.samples = <<s>> /\ w.reactAt = Absent /\ w.settleAt = Absent
  BY <1>1, <1>2 DEF Watchers
<1> HIDE DEF w
<1>4. Converged(<<s>>) = {} /\ ~ScaledUp(<<s>>)
  BY <1>2 DEF Converged, ScaledUp
<1>5. \A i \in DOMAIN w.samples : w.samples[i] = s
  BY <1>2, <1>3
<1>6. s.at \in Nat /\ s.at <= s.at
  BY DEF Snapshots
<1>7. Watched(w, t)
  BY <1>3, <1>4, <1>5, <1>6, Zenon DEF Watched
<1> QED
  BY <1>7 DEF w

\* Time passes.
LEMMA LaterWatched ==
    ASSUME NEW w, NEW t \in Nat, NEW u \in Nat, t <= u, Watched(w, t)
    PROVE  Watched(w, u)
<1>1. w.samples \in Seq(Snapshots)
  BY DEF Watched, Watchers
<1>2. \A i \in DOMAIN w.samples : w.samples[i].at \in Nat
  BY <1>1, SampleTyped
<1> QED
  BY <1>2 DEF Watched

\* Watcher.Record keeps the order of the samples, and moves each instant only with
\* the first sample it stands for.
LEMMA RecordWatched ==
    ASSUME NEW w, NEW t \in Nat, Watched(w, t), w.samples # <<>>,
           NEW s \in Snapshots, s.at = t
    PROVE  Watched(Record(w, s), t)
<1> DEFINE old == w.samples
           all == Append(old, s)
           n == Len(old)
           r == Record(w, s)
<1>1. w \in Watchers /\ old \in Seq(Snapshots) /\ n \in Nat \ {0} /\ DOMAIN old = 1..n
  BY DEF Watched, Watchers
<1>2. /\ all \in Seq(Snapshots) /\ Len(all) = n + 1 /\ all[n + 1] = s
      /\ \A i \in 1..n : all[i] = old[i]
      /\ DOMAIN all = 1..(n + 1)
  BY <1>1
<1>3. Head(old) = old[1]
  BY <1>1
<1> DEFINE reactAt == IF w.reactAt = Absent /\ s.current > old[1].current
                      THEN s.at ELSE w.reactAt
           settles == /\ reactAt # Absent /\ w.settleAt = Absent
                      /\ s.desired > old[1].current
                      /\ s.current >= s.desired
<1>4. /\ r.samples = all /\ r.reactAt = reactAt
      /\ r.settleAt = IF settles THEN s.at ELSE w.settleAt
      /\ r = [samples |-> r.samples, reactAt |-> r.reactAt, settleAt |-> r.settleAt]
  BY <1>3 DEF Record
<1>5. s.at \in Nat /\ Absent \notin Nat /\ \A i \in 1..n : old[i].at \in Nat
  BY <1>1, SampleTyped, ObserverAssumptions, Zenon DEF Snapshots
<1>6. w.reactAt \in Nat \cup {Absent} /\ w.settleAt \in Nat \cup {Absent}
  BY <1>1 DEF Watchers
<1>7. reactAt \in Nat \cup {Absent} /\ r.settleAt \in Nat \cup {Absent}
  BY <1>4, <1>5, <1>6
<1>8. /\ \A i \in 1..n : old[i].at <= t
      /\ \A i, j \in 1..n : i <= j => old[i].at <= old[j].at
      /\ w.reactAt = Absent <=> ~ScaledUp(old)
      /\ Converged(old) = {} => w.settleAt = Absent
      /\ Converged(old) # {} =>
            \E k \in Converged(old) :
               (\A i \in Converged(old) : k <= i) /\ w.settleAt = old[k].at
  BY <1>1 DEF Watched
<1> HIDE DEF r
<1>9. r \in Watchers
  <2> DEFINE a == r.samples
             b == r.reactAt
             c == r.settleAt
  <2>1. a \in Seq(Snapshots) /\ b \in Nat \cup {Absent} /\ c \in Nat \cup {Absent}
    BY <1>2, <1>4, <1>7
  <2>2. r = [samples |-> a, reactAt |-> b, settleAt |-> c]
    BY <1>4
  <2> HIDE DEF a, b, c
  <2> QED
    BY <2>1, <2>2 DEF Watchers
<1> HIDE DEF all, n
<1>10. \A i \in 1..(n + 1) : all[i].at <= t
  <2>1. \A i \in 1..(n + 1) : i \in 1..n \/ i = n + 1
    BY <1>1
  <2>2. t <= t
    OBVIOUS
  <2> QED
    BY <1>2, <1>8, <2>1, <2>2
<1>11. \A i, j \in 1..(n + 1) : i <= j => all[i].at <= all[j].at
  <2> SUFFICES ASSUME NEW i \in 1..(n + 1), NEW j \in 1..(n + 1), i <= j
               PROVE  all[i].at <= all[j].at
    OBVIOUS
  <2>1. CASE j = n + 1
    BY <1>2, <1>10, <2>1
  <2>2. CASE j # n + 1
    <3>1. i \in 1..n /\ j \in 1..n
      BY <1>1, <2>2
    <3> QED
      BY <1>2, <1>8, <3>1
  <2> QED
    BY <2>1, <2>2
<1>12. all[1] = old[1]
  BY <1>1, <1>2
<1>13. ScaledUp(all) <=> ScaledUp(old) \/ s.current > old[1].current
  <2>1. ScaledUp(old) => ScaledUp(all)
    BY <1>1, <1>2, <1>12 DEF ScaledUp, n
  <2>2. s.current > old[1].current => ScaledUp(all)
    <3>1. n + 1 \in 2..Len(all)
      BY <1>1, <1>2
    <3> QED
      BY <1>2, <1>12, <3>1 DEF ScaledUp
  <2>3. ScaledUp(all) => ScaledUp(old) \/ s.current > old[1].current
    BY <1>1, <1>2, <1>12 DEF ScaledUp, n
  <2> QED
    BY <2>1, <2>2, <2>3
<1>14. reactAt = Absent <=> ~ScaledUp(all)
  BY <1>5, <1>8, <1>13
<1> DEFINE now_ == s.desired > old[1].current /\ s.current >= s.desired /\ ScaledUp(all)
<1>15. \A i \in 1..n : i \in Converged(all) <=> i \in Converged(old)
  <2> SUFFICES ASSUME NEW i \in 1..n
               PROVE  i \in Converged(all) <=> i \in Converged(old)
    OBVIOUS
  <2>1. i \in 2..Len(all) <=> i \in 2..Len(old)
    BY <1>1, <1>2 DEF n
  <2>2. \A j \in 2..i : all[j] = old[j]
    BY <1>1, <1>2
  <2>3. all[i] = old[i]
    BY <1>2
  <2> QED
    BY <1>12, <2>1, <2>2, <2>3 DEF Converged
<1>16. n + 1 \in Converged(all) <=> now_
  <2>1. n + 1 \in 2..Len(all)
    BY <1>1, <1>2
  <2> QED
    BY <1>2, <1>12, <2>1 DEF Converged, ScaledUp
<1>17. Converged(all) \subseteq 1..(n + 1) /\ Converged(old) \subseteq 1..n
  BY <1>1, <1>2 DEF Converged, n
<1>18. settles <=> now_ /\ w.settleAt = Absent
  BY <1>14
<1> HIDE DEF reactAt, settles, now_, old
<1> SUFFICES Watched(r, t)
  BY DEF r
<1>19. CASE Converged(old) # {}
  <2>1. PICK k \in Converged(old) :
           (\A i \in Converged(old) : k <= i) /\ w.settleAt = old[k].at
    BY <1>8, <1>19
  <2>2. k \in 1..n /\ k \in Converged(all) /\ all[k] = old[k]
    BY <1>2, <1>15, <1>17, <2>1
  <2>3. w.settleAt # Absent
    BY <1>5, <2>1, <2>2
  <2>4. r.settleAt = all[k].at
    BY <1>4, <1>18, <2>1, <2>2, <2>3
  <2>5. \A i \in Converged(all) : k <= i
    BY <1>1, <1>15, <1>17, <2>1, <2>2
  <2> QED
    BY <1>1, <1>2, <1>4, <1>9, <1>10, <1>11, <1>14, <2>2, <2>4, <2>5 DEF Watched
<1>20. CASE Converged(old) = {}
  <2>1. w.settleAt = Absent /\ (settles <=> now_)
    BY <1>8, <1>18, <1>20
  <2>2. CASE now_
    <3>1. n + 1 \in Converged(all) /\ \A i \in Converged(all) : n + 1 <= i
      BY <1>1, <1>15, <1>16, <1>17, <1>20, <2>2
    <3>2. r.settleAt = all[n + 1].at
      BY <1>2, <1>4, <2>1, <2>2
    <3> QED
      BY <1>1, <1>2, <1>4, <1>9, <1>10, <1>11, <1>14, <3>1, <3>2 DEF Watched
  <2>3. CASE ~now_
    <3>1. Converged(all) = {}
      BY <1>1, <1>15, <1>16, <1>17, <1>20, <2>3
    <3>2. r.settleAt = Absent
      BY <1>4, <2>1, <2>3
    <3> QED
      BY <1>1, <1>2, <1>4, <1>9, <1>10, <1>11, <1>14, <3>1, <3>2 DEF Watched
  <2> QED
    BY <2>2, <2>3
<1> QED
  BY <1>19, <1>20

\* slaVerdict and the reported duration say what the samples show.
LEMMA VerdictEarned ==
    ASSUME NEW w, NEW t, Watched(w, t), NEW observed
    PROVE  LET r == report(w, observed)
               after(i) == w.samples[i].at - w.samples[1].at
           IN  /\ r.slaStatus = "Unknown" <=> w.samples = <<>>
               /\ r.slaStatus = "Fail" <=>
                     /\ w.samples # <<>> /\ SLA > 0 /\ after(Len(w.samples)) >= SLA
                     /\ \A i \in Converged(w.samples) : after(i) > SLA
               /\ r.scaleUpDuration = IF Converged(w.samples) = {} THEN Absent
                                      ELSE after(Min(Converged(w.samples)))
<1> DEFINE r == report(w, observed)
           q == w.samples
           after(i) == q[i].at - q[1].at
<1>1. /\ r.slaStatus = slaVerdict(w, SLA)
      /\ r.scaleUpDuration = IF w.settleAt = Absent THEN Absent
                             ELSE w.settleAt - Head(q).at
  BY DEF report
<1> HIDE DEF r
<1>2. q \in Seq(Snapshots) /\ Len(q) \in Nat /\ DOMAIN q = 1..Len(q)
  BY DEF Watched, Watchers
<1>3. Converged(q) \subseteq 2..Len(q)
  BY DEF Converged
<1>4. \A i \in 1..Len(q) : q[i].at \in Nat
  BY <1>2, SampleTyped
<1>5. SLA \in Nat /\ Absent \notin Nat
  BY ObserverAssumptions
<1>6. \A i, j \in 1..Len(q) : i <= j => q[i].at <= q[j].at
  BY <1>2 DEF Watched
<1>7. CASE q = <<>>
  <2>1. r.slaStatus = "Unknown" /\ Converged(q) = {} /\ w.settleAt = Absent
    BY <1>1, <1>3, <1>7 DEF slaVerdict, Watched
  <2> QED
    BY <1>1, <1>7, <2>1 DEF r
<1>8. CASE q # <<>>
  <2>1. Len(q) \in 1..Len(q) /\ 1 \in 1..Len(q) /\ Head(q) = q[1]
    BY <1>2, <1>8
  <2>2. r.slaStatus = IF SLABreached(w, SLA) THEN "Fail" ELSE "Pass"
    BY <1>1, <1>8 DEF slaVerdict
  <2>3. SLABreached(w, SLA) <=>
           /\ SLA > 0
           /\ IF w.settleAt = Absent THEN q[Len(q)].at - q[1].at >= SLA
                                     ELSE w.settleAt - q[1].at > SLA
    BY <2>1 DEF SLABreached
  <2>4. CASE Converged(q) = {}
    <3>1. w.settleAt = Absent
      BY <2>4 DEF Watched
    <3> QED
      BY <1>1, <1>8, <2>2, <2>3, <2>4, <3>1 DEF r
  <2>5. CASE Converged(q) # {}
    <3>1. PICK k \in Converged(q) :
             (\A i \in Converged(q) : k <= i) /\ w.settleAt = q[k].at
      BY <2>5 DEF Watched
    <3>2. k \in 1..Len(q) /\ k <= Len(q) /\ \A i \in Converged(q) : i \in 1..Len(q)
      BY <1>2, <1>3, <3>1
    <3>3. Min(Converged(q)) = k
      BY <1>2, <1>3, <3>1 DEF Min
    <3>4. w.settleAt # Absent
      BY <1>4, <1>5, <3>1, <3>2
    <3>5. r.scaleUpDuration = after(k)
      BY <1>1, <2>1, <3>1, <3>4
    <3>6. (\A i \in Converged(q) : after(i) > SLA) <=> after(k) > SLA
      <4>1. after(k) > SLA => \A i \in Converged(q) : after(i) > SLA
        <5> SUFFICES ASSUME after(k) > SLA, NEW i \in Converged(q) PROVE after(i) > SLA
          OBVIOUS
        <5>1. q[k].at <= q[i].at
          BY <1>6, <3>1, <3>2
        <5>2. q[k].at \in Nat /\ q[i].at \in Nat /\ q[1].at \in Nat
          BY <1>4, <2>1, <3>2
        <5> QED
          BY <1>5, <5>1, <5>2
      <4> QED
        BY <4>1
    <3>7. after(k) > SLA => after(Len(q)) >= SLA
      <4>1. q[k].at <= q[Len(q)].at
        BY <1>6, <2>1, <3>2
      <4>2. q[k].at \in Nat /\ q[Len(q)].at \in Nat /\ q[1].at \in Nat
        BY <1>4, <2>1, <3>2
      <4> QED
        BY <1>5, <4>1, <4>2
    <3>8. SLABreached(w, SLA) <=> SLA > 0 /\ after(k) > SLA
      BY <2>3, <3>1, <3>4
    <3> QED
      BY <1>8, <2>2, <2>5, <3>3, <3>5, <3>6, <3>7, <3>8 DEF r
  <2> QED
    BY <2>4, <2>5
<1> QED
  BY <1>7, <1>8 DEF r

-----------------------------------------------------------------------------
(* The alerts.                                                              *)

Severities == {"Info", "Warning", "Critical"}

HPATypes == {"HPAScaleLatency", "HPANoReaction", "HPAScalingLimited", "HPAUnableToScale"}
PDBTypes == {"MissingPDB", "PDBBlocksEviction"}
CorrelationTypes == {"ColdStartLeakage", "UngracefulDrain", "MetricsLikelySkewed"}

\* What the autoscaler's analyzer raises.
LEMMA HPAAlerts ==
    ASSUME NEW w, NEW sla, NEW a \in HPADiagnostics(w, sla)
    PROVE  a.severity \in Severities /\ a.type \in HPATypes
BY DEF HPADiagnostics, When, Alert, AlertAbout, Severities, HPATypes

\* What the throttling analyzer raises.
LEMMA ThrottleAlerts ==
    ASSUME NEW r, NEW a \in ThrottleDiagnostics(r)
    PROVE  a.severity \in Severities /\ a.type = "CPUThrottling"
BY DEF ThrottleDiagnostics, When, Alert, AlertAbout, Severities

\* It raises an alert exactly if both differences are positive.
LEMMA ThrottleFires ==
    ASSUME NEW r
    PROVE  ThrottleDiagnostics(r) # {} <=> r.throttled > 0 /\ r.periods > 0
BY Zenon DEF ThrottleDiagnostics, When, Alert, AlertAbout

\* What the probe analyzer raises.
LEMMA ProbeAlerts ==
    ASSUME NEW pod, NEW a \in ProbeDiagnostics(pod)
    PROVE  a.severity \in Severities /\ a.type = "ReadinessSamplingSparse"
BY DEF ProbeDiagnostics, When, Alert, AlertAbout, Severities

\* Its containers were ready two probe periods before the pod was.
Sparse(pod) ==
    /\ pod.period > 0 /\ Absent \notin {pod.containersReady, pod.ready}
    /\ pod.ready - pod.containersReady >= 2 * pod.period

\* It raises an alert exactly of such a pod, although its difference saturates.
LEMMA ProbeFires ==
    ASSUME NEW pod \in ColdStart
    PROVE  ProbeDiagnostics(pod) # {} <=> Sparse(pod)
<1> DEFINE timed == pod.period > 0 /\ Absent \notin {pod.containersReady, pod.ready}
<1>1. ProbeDiagnostics(pod) # {} <=> timed /\ ReadinessLag(pod) >= 2 * pod.period
  BY Zenon DEF ProbeDiagnostics, When, Alert, AlertAbout
<1>2. ASSUME timed
      PROVE  ReadinessLag(pod) >= 2 * pod.period <=>
                pod.ready - pod.containersReady >= 2 * pod.period
  <2>1. pod.period \in Nat /\ pod.ready \in Nat /\ pod.containersReady \in Nat
        /\ pod.period > 0
    BY <1>2 DEF ColdStart
  <2>2. ReadinessLag(pod) = saturatingSub(pod.ready, pod.containersReady)
    BY <1>2 DEF ReadinessLag
  <2> QED
    BY <2>1, <2>2 DEF saturatingSub
<1> QED
  BY <1>1, <1>2 DEF Sparse

\* What the audit of name resolution raises.
LEMMA DNSAlerts ==
    ASSUME NEW ndots, NEW a \in DNSDiagnostics(ndots)
    PROVE  a.severity \in Severities /\ a.type = "DNSNdotsHigh"
BY DEF DNSDiagnostics, When, Alert, AlertAbout, Severities

\* The audit of budgets names those that block, and only those.
LEMMA PDBAlerts ==
    ASSUME NEW budgets, NEW replicas
    PROVE  LET D == PDBDiagnostics(budgets, replicas)
           IN  /\ \A a \in D : a.severity \in Severities /\ a.type \in PDBTypes
               /\ {a.about : a \in {a \in D : a.type = "PDBBlocksEviction"}} =
                     {i \in DOMAIN budgets : blocksAll(budgets[i], replicas)}
<1> DEFINE D == PDBDiagnostics(budgets, replicas)
           N(i) == [type |-> "PDBBlocksEviction", severity |-> "Warning", about |-> i]
           M == [type |-> "MissingPDB", severity |-> "Warning", about |-> 0]
<1>1. ASSUME NEW a \in D
      PROVE  a = M \/ \E i \in DOMAIN budgets : blocksAll(budgets[i], replicas) /\ a = N(i)
  BY DEF PDBDiagnostics, When, Alert, AlertAbout
<1>2. \A i \in DOMAIN budgets : blocksAll(budgets[i], replicas) => N(i) \in D
  BY DEF PDBDiagnostics, When, AlertAbout
<1>3. /\ M.type = "MissingPDB" /\ M.severity = "Warning"
      /\ \A i : /\ N(i).type = "PDBBlocksEviction" /\ N(i).severity = "Warning"
                /\ N(i).about = i
  OBVIOUS
<1> HIDE DEF D, N, M
<1>4. \A a \in D : a.severity \in Severities /\ a.type \in PDBTypes
  BY <1>1, <1>3 DEF Severities, PDBTypes
<1>5. \A a \in D : a.type = "PDBBlocksEviction" =>
         \E i \in DOMAIN budgets : blocksAll(budgets[i], replicas) /\ a = N(i)
  BY <1>1, <1>3
<1>6. {a.about : a \in {a \in D : a.type = "PDBBlocksEviction"}} =
         {i \in DOMAIN budgets : blocksAll(budgets[i], replicas)}
  BY <1>2, <1>3, <1>5
<1> QED
  BY <1>4, <1>6 DEF D

\* What the two correlations raise.
LEMMA CorrelationAlerts ==
    ASSUME NEW result, NEW a \in CorrelationDiagnostics(result)
    PROVE  a.severity \in Severities /\ a.type \in CorrelationTypes
BY DEF CorrelationDiagnostics, CountAlert, When, Alert, AlertAbout, Severities,
       CorrelationTypes

\* The pod at i was created after the session began, and is the newest of the list
\* and the first of the newest.
Cold(pods, start, i) ==
    /\ pods[i].created > start
    /\ \A j \in DOMAIN pods : /\ pods[j].created <= pods[i].created
                              /\ j < i => pods[j].created < pods[i].created

\* pickColdStartPod returns this pod.
LEMMA ColdPod ==
    ASSUME NEW pods \in Seq(ColdStart), NEW start, NEW pod
    PROVE  pod \in pickColdStartPod(pods, start) <=>
              \E i \in DOMAIN pods : pod = pods[i] /\ Cold(pods, start, i)
<1> DEFINE newest == {i \in DOMAIN pods :
                        /\ pods[i].created > start
                        /\ \A j \in DOMAIN pods : pods[j].created <= pods[i].created}
<1>1. pod \in pickColdStartPod(pods, start) <=>
         \E i \in newest : (\A j \in newest : i <= j) /\ pod = pods[i]
  BY Zenon DEF pickColdStartPod
<1>2. \A i \in DOMAIN pods : i \in Nat /\ pods[i].created \in Nat
  <2>1. \A i \in DOMAIN pods : i \in Nat /\ pods[i] \in ColdStart
    OBVIOUS
  <2> QED
    BY <2>1, Zenon DEF ColdStart
<1>3. ASSUME NEW i \in newest, \A j \in newest : i <= j
      PROVE  Cold(pods, start, i)
  <2> SUFFICES ASSUME NEW j \in DOMAIN pods, j < i, ~(pods[j].created < pods[i].created)
               PROVE  FALSE
    BY DEF Cold
  <2>1. pods[j].created = pods[i].created
    BY <1>2
  <2>2. j \in newest
    BY <2>1
  <2> QED
    BY <1>2, <1>3, <2>2
<1>4. ASSUME NEW i \in DOMAIN pods, Cold(pods, start, i)
      PROVE  i \in newest /\ \A j \in newest : i <= j
  <2>1. i \in newest
    BY <1>4 DEF Cold
  <2>2. ASSUME NEW j \in newest, j < i PROVE FALSE
    <3>1. pods[i].created <= pods[j].created /\ pods[j].created < pods[i].created
      BY <1>4, <2>2 DEF Cold
    <3> QED
      BY <1>2, <3>1
  <2> QED
    BY <1>2, <2>1, <2>2
<1> QED
  BY <1>1, <1>3, <1>4, Zenon

\* Both differences of counters are positive exactly if both have moved.
LEMMA Moved ==
    ASSUME NEW before \in Stat, NEW after \in Stat
    PROVE  /\ Compare(before, after).throttled > 0 <=> after.throttled > before.throttled
           /\ Compare(before, after).periods > 0 <=> after.periods > before.periods
BY DEF Compare, saturatingSub, Stat

\* At a percentage both roundings block an eviction exactly if not even one pod can
\* be taken (blocksAll, GetScaledValueFromIntOrPercent).
LEMMA Rounding ==
    ASSUME NEW m \in Nat, NEW total \in Nat \ {0}
    PROVE  /\ (m + 99) \div 100 >= total <=> 100 * (total - 1) < m
           /\ m \div 100 <= 0 <=> m < 100
<1>1. m \div 100 \in Nat /\ 100 * (m \div 100) <= m /\ m < 100 * (m \div 100) + 100
  OBVIOUS
<1>2. (m + 99) \div 100 \in Nat /\ 100 * ((m + 99) \div 100) <= m + 99
      /\ m + 99 < 100 * ((m + 99) \div 100) + 100
  OBVIOUS
<1> DEFINE d == m \div 100
           u == (m + 99) \div 100
<1> HIDE DEF d, u
<1>3. d \in Nat /\ 100 * d <= m /\ m < 100 * d + 100
  BY <1>1 DEF d
<1>4. u \in Nat /\ 100 * u <= m + 99 /\ m + 99 < 100 * u + 100
  BY <1>2 DEF u
<1>5. d <= 0 <=> m < 100
  BY <1>3
<1>6. u >= total <=> 100 * (total - 1) < m
  BY <1>4
<1> QED
  BY <1>5, <1>6 DEF d, u

\* blocksAll holds of a budget exactly if there are replicas and it lets none go.
LEMMA BlocksAll ==
    ASSUME NEW p \in Budget, NEW total \in Nat
    PROVE  blocksAll(p, total) <=> total > 0 /\ ~Evictable(p, total)
<1> DEFINE lo == p.minAvailable
           hi == p.maxUnavailable
           Lo(n) == lo # Absent => IF lo.percent THEN 100 * (total - n) >= lo.value * total
                                   ELSE total - n >= lo.value
           Hi(n) == hi # Absent => IF hi.percent THEN 100 * n <= hi.value * total
                                   ELSE n <= hi.value
<1>1. Evictable(p, total) <=> \E n \in 1..total : Lo(n) /\ Hi(n)
  BY DEF Evictable
<1>2. lo \in Quantity \cup {Absent} /\ hi \in Quantity \cup {Absent}
  BY DEF Budget
<1>3. lo # Absent => lo.percent \in BOOLEAN /\ lo.value \in Nat /\ lo.value * total \in Nat
  BY <1>2 DEF Quantity
<1>4. hi # Absent => hi.percent \in BOOLEAN /\ hi.value \in Nat /\ hi.value * total \in Nat
  BY <1>2 DEF Quantity
<1> HIDE DEF lo, hi
<1>5. CASE total = 0
  BY <1>5 DEF blocksAll
<1>6. CASE total > 0
  <2>1. 1 \in 1..total
    BY <1>6
  <2>2. \A n \in 1..total : Lo(n) => Lo(1)
    BY <1>3
  <2>3. \A n \in 1..total : Hi(n) => Hi(1)
    BY <1>4
  <2>4. Evictable(p, total) <=> Lo(1) /\ Hi(1)
    BY <1>1, <2>1, <2>2, <2>3
  <2>5. (lo # Absent /\ Scaled(lo, total, TRUE) >= total) <=> ~Lo(1)
    <3>1. CASE lo = Absent
      BY <3>1
    <3>2. CASE lo # Absent /\ lo.percent
      <4> DEFINE m == lo.value * total
      <4>1. m \in Nat
        BY <1>3, <3>2
      <4>2. Scaled(lo, total, TRUE) = (m + 99) \div 100
        BY <3>2 DEF Scaled
      <4>3. Lo(1) <=> 100 * (total - 1) >= m
        BY <3>2
      <4> HIDE DEF m
      <4>4. (m + 99) \div 100 >= total <=> 100 * (total - 1) < m
        BY <1>6, <4>1, Rounding
      <4>5. 100 * (total - 1) < m <=> ~(100 * (total - 1) >= m)
        BY <4>1
      <4> QED
        BY <3>2, <4>2, <4>3, <4>4, <4>5, Zenon
    <3>3. CASE lo # Absent /\ ~lo.percent
      BY <1>3, <1>6, <3>3 DEF Scaled
    <3> QED
      BY <3>1, <3>2, <3>3, Zenon
  <2>6. (hi # Absent /\ Scaled(hi, total, FALSE) <= 0) <=> ~Hi(1)
    <3>1. CASE hi = Absent
      BY <3>1
    <3>2. CASE hi # Absent /\ hi.percent
      <4> DEFINE m == hi.value * total
      <4>1. m \in Nat
        BY <1>4, <3>2
      <4>2. Scaled(hi, total, FALSE) = m \div 100
        BY <3>2, <4>1 DEF Scaled
      <4>3. Hi(1) <=> 100 <= m
        BY <3>2
      <4> HIDE DEF m
      <4>4. m \div 100 <= 0 <=> m < 100
        BY <1>6, <4>1, Rounding
      <4>5. m < 100 <=> ~(100 <= m)
        BY <4>1
      <4> QED
        BY <3>2, <4>2, <4>3, <4>4, <4>5, Zenon
    <3>3. CASE hi # Absent /\ ~hi.percent
      BY <1>4, <1>6, <3>3 DEF Scaled
    <3> QED
      BY <3>1, <3>2, <3>3, Zenon
  <2> HIDE DEF Lo, Hi
  <2> QED
    BY <1>6, <2>4, <2>5, <2>6, Zenon DEF blocksAll, lo, hi
<1> QED
  BY <1>5, <1>6

\* The alerts of a report are those of the autoscaler's analyzer, of the
\* correlations, and the others it was given.
LEMMA ReportAlerts ==
    ASSUME NEW w, NEW observed
    PROVE  LET D == report(w, observed).diagnostics
           IN  /\ observed \subseteq D
               /\ \A a \in D : \/ a \in observed
                               \/ /\ a.type \in HPATypes \cup CorrelationTypes
                                  /\ a.severity \in Severities
<1> DEFINE H == When(w.samples # <<>>, HPADiagnostics(w, SLA))
           C == When(loadResult # Absent, CorrelationDiagnostics(loadResult))
<1>1. report(w, observed).diagnostics = H \cup observed \cup C
  BY DEF report
<1>2. \A a \in H : a.type \in HPATypes /\ a.severity \in Severities
  BY HPAAlerts DEF When
<1>3. \A a \in C : a.type \in CorrelationTypes /\ a.severity \in Severities
  BY CorrelationAlerts DEF When
<1> HIDE DEF H, C
<1> QED
  BY <1>1, <1>2, <1>3

\* Where the other alerts come from: each type from one analyzer.
LEMMA ObservedAlerts ==
    ASSUME NEW posture, posture.pods \in Seq(ColdStart), NEW a \in Observed(posture)
    PROVE  /\ a.severity \in Severities
           /\ \/ /\ a.type = "CPUThrottling" /\ posture.after # Absent
                 /\ a \in ThrottleDiagnostics(Compare(session.before, posture.after))
              \/ /\ a.type = "ReadinessSamplingSparse"
                 /\ \E pod \in pickColdStartPod(posture.pods, session.start) :
                       a \in ProbeDiagnostics(pod)
              \/ a.type = "DNSNdotsHigh"
              \/ /\ a.type \in PDBTypes /\ posture.budgets # Absent
                 /\ a \in PDBDiagnostics(posture.budgets,
                             currentReplicas(posture.scaleRead, Len(posture.pods)))
<1> DEFINE replicas == currentReplicas(posture.scaleRead, Len(posture.pods))
           cold == pickColdStartPod(posture.pods, session.start)
           T == ThrottleDiagnostics(Compare(session.before, posture.after))
           P == PDBDiagnostics(posture.budgets, replicas)
<1>1. \/ posture.after # Absent /\ a \in T
      \/ \E pod \in cold : a \in ProbeDiagnostics(pod)
      \/ a \in DNSDiagnostics(posture.ndots)
      \/ posture.budgets # Absent /\ a \in P
  <2> DEFINE N == DNSDiagnostics(posture.ndots)
  <2>1. Observed(posture) =
           When(posture.after # Absent, T) \cup (UNION {ProbeDiagnostics(pod) : pod \in cold})
           \cup N \cup When(posture.budgets # Absent, P)
    BY DEF Observed
  <2> HIDE DEF T, P, cold, N
  <2>2. /\ a \in When(posture.after # Absent, T) => posture.after # Absent /\ a \in T
        /\ a \in When(posture.budgets # Absent, P) => posture.budgets # Absent /\ a \in P
    BY DEF When
  <2>3. a \in UNION {ProbeDiagnostics(pod) : pod \in cold} =>
           \E pod \in cold : a \in ProbeDiagnostics(pod)
    OBVIOUS
  <2> QED
    BY <2>1, <2>2, <2>3 DEF N
<1> HIDE DEF replicas, cold, T, P
<1>2. CASE posture.after # Absent /\ a \in T
  BY <1>2, ThrottleAlerts DEF T
<1>3. CASE \E pod \in cold : a \in ProbeDiagnostics(pod)
  <2>1. PICK pod \in cold : a \in ProbeDiagnostics(pod)
    BY <1>3
  <2>2. a.severity \in Severities /\ a.type = "ReadinessSamplingSparse"
    BY <2>1, ProbeAlerts
  <2> QED
    BY <2>1, <2>2 DEF cold
<1>4. CASE a \in DNSDiagnostics(posture.ndots)
  BY <1>4, DNSAlerts
<1>5. CASE posture.budgets # Absent /\ a \in P
  <2>1. a.severity \in Severities /\ a.type \in PDBTypes
    BY <1>5, PDBAlerts DEF P
  <2> QED
    BY <1>5, <2>1 DEF P, replicas
<1> QED
  BY <1>1, <1>2, <1>3, <1>4, <1>5, Zenon

-----------------------------------------------------------------------------
(* The report.  A session that is up has printed nothing, and only one that *)
(* the kubelet ended finalizes, after the load container exited.            *)

Reported ==
    /\ sigterm => load = "exited"
    /\ (pc = "finalize" \/ found # Absent) => sigterm
    /\ load # "exited" => file = Absent
    /\ file \notin {Absent, Malformed} => file.failed = Len(errors)
    /\ Running => log = <<>> /\ found = Absent
    /\ TrafficVerdictIsOfTheLoad

\* The traffic verdict of a report is made from the result file alone.
LEMMA TrafficOfReport ==
    ASSUME NEW w, NEW observed
    PROVE  report(w, observed).trafficIntegrity =
              IF loadResult = Absent THEN "Unknown" ELSE trafficVerdict(loadResult)
BY DEF report

\* A step of neither the load nor the report keeps the invariant.
LEMMA RQuiet ==
    ASSUME Reported, UNCHANGED <<generator, sigterm, log, found>>,
           pc' = "finalize" => sigterm, Running' => Running
    PROVE  Reported'
BY DEF Reported, generator, TrafficVerdictIsOfTheLoad

\* A report that is printed is about the load run that finished.
LEMMA RPrint ==
    ASSUME Reported, NEW w, NEW observed, log' = <<report(w, observed)>>,
           UNCHANGED <<generator, sigterm>>, pc' = "exited", found' # Absent => sigterm
    PROVE  Reported'
<1> DEFINE verdict == report(w, observed).trafficIntegrity
<1>1. verdict = IF loadResult = Absent THEN "Unknown" ELSE trafficVerdict(loadResult)
  BY TrafficOfReport
<1>2. log' # <<>> /\ log'[1].trafficIntegrity = verdict
  OBVIOUS
<1> HIDE DEF verdict
<1>3. file \in {Absent, Malformed} => verdict = "Unknown"
  BY <1>1 DEF loadResult
<1>4. file \notin {Absent, Malformed} =>
         /\ verdict # "Unknown"
         /\ verdict = "Fail" <=> 100 * Len(errors) > file.sent
  BY <1>1 DEF loadResult, trafficVerdict, Reported
<1>5. TrafficVerdictIsOfTheLoad'
  BY <1>2, <1>3, <1>4 DEF TrafficVerdictIsOfTheLoad, Reported, generator
<1> QED
  BY <1>5 DEF Reported, generator, Running

\* Every step keeps the invariant of the report.
LEMMA RNext == Reported /\ [Next]_vars => Reported'
<1> SUFFICES ASSUME Reported, [Next]_vars PROVE Reported'
  OBVIOUS
<1>1. CASE StartSession
  BY <1>1 DEF StartSession, Reported, generator, Running, TrafficVerdictIsOfTheLoad
<1>2. CASE ResolveFails
  <2>1. found' = Absent
    BY <1>2 DEF ResolveFails, Reported, Running
  <2> QED
    BY <1>2, <2>1, RPrint DEF ResolveFails
<1>3. CASE Finalize
  <2>1. sigterm
    BY <1>3 DEF Finalize, Reported
  <2> QED
    BY <1>3, <2>1, RPrint DEF Finalize
<1>4. CASE resolveTarget \/ ScrapeBefore \/ pollHPA \/ StopPolling
  BY <1>4, RQuiet, Zenon DEF resolveTarget, ScrapeBefore, pollHPA, StopPolling, Running, Reported
<1>5. CASE WatchOpens \/ WatchDies \/ WatchCloses \/ consumeWatch
  <2>1. WatchChanges
    BY <1>5 DEF WatchOpens, WatchDies, WatchCloses, consumeWatch
  <2> QED
    BY <2>1, RQuiet DEF WatchChanges, Running, Reported
<1>6. CASE ScalingMoves \/ SliceChanges \/ Tick
  BY <1>6, RQuiet DEF ScalingMoves, SliceChanges, Change, Tick, Running, Reported
<1>7. CASE RequestFails
  <2>1. /\ load # "exited" /\ file = Absent /\ found = Absent
        /\ UNCHANGED <<load, file, sigterm, log, found, pc>>
    BY <1>7 DEF RequestFails, Change, Reported
  <2> QED
    BY <2>1 DEF Reported, Running, TrafficVerdictIsOfTheLoad
<1>8. CASE Crash
  BY <1>8, RQuiet DEF Crash, Running
<1>9. CASE LoadStarts
  <2>1. /\ load = "pending" /\ load' = "running"
        /\ UNCHANGED <<file, errors, sigterm, log, found, pc>>
    BY <1>9 DEF LoadStarts, LoadSteps
  <2> QED
    BY <2>1 DEF Reported, Running, TrafficVerdictIsOfTheLoad
<1>10. CASE LoadExits
  <2>1. /\ load = "running" /\ load' = "exited" /\ found = Absent
        /\ UNCHANGED <<errors, sigterm, log, found, pc>>
    BY <1>10 DEF LoadExits, LoadSteps, Reported
  <2>2. file' \notin {Absent, Malformed} => file'.failed = Len(errors)
    BY <1>10 DEF LoadExits
  <2>3. log # <<>> => log[1].trafficIntegrity = "Unknown"
    BY <2>1 DEF Reported, TrafficVerdictIsOfTheLoad
  <2> QED
    BY <2>1, <2>2, <2>3 DEF Reported, Running, TrafficVerdictIsOfTheLoad
<1>11. CASE Sigterm
  <2>1. load = "exited" /\ sigterm' = TRUE /\ UNCHANGED <<generator, log, found, pc>>
    BY <1>11 DEF Sigterm, LoadSteps
  <2> QED
    BY <2>1 DEF Reported, Running, TrafficVerdictIsOfTheLoad, generator
<1>12. CASE UNCHANGED vars
  BY <1>12, RQuiet DEF vars, Running, Reported
<1> QED
  BY <1>1, <1>2, <1>3, <1>4, <1>5, <1>6, <1>7, <1>8, <1>9, <1>10, <1>11, <1>12
     DEF Next, Session, Watch, Environment

\* A traffic verdict is about the load run that finished, and right about it
\* (loadResult, trafficVerdict).
THEOREM TrafficVerdict == Spec => []TrafficVerdictIsOfTheLoad
<1>1. Init => Reported
  BY DEF Init, Reported, Running, TrafficVerdictIsOfTheLoad
<1>2. Reported => TrafficVerdictIsOfTheLoad
  BY DEF Reported
<1> QED
  BY <1>1, <1>2, RNext, PTL DEF Spec

-----------------------------------------------------------------------------
(* The session.                                                             *)

Sessions == [start : Nat, watcher : Watchers, before : Stat, scraped : BOOLEAN,
             pollAt : Nat]

Kept ==
    /\ hpa \in HPAStates /\ now \in Nat
    /\ session \in Sessions
    /\ session.start <= now
    /\ ~session.scraped => session.before = ZeroStat
    /\ Watched(session.watcher, now)
    /\ pc = "resolve" => session.watcher = NoWatcher

\* A snapshot of the autoscaler is one.
LEMMA SnapshotTyped ==
    ASSUME hpa \in HPAStates, NEW t \in Nat
    PROVE  snapshotHPA(t) \in Snapshots /\ snapshotHPA(t).at = t
<1>1. hpa.current \in Nat /\ hpa.desired \in Nat
  BY ObserverAssumptions
<1> QED
  BY <1>1 DEF snapshotHPA, Snapshots

\* Before there is a session.
LEMMA NoSessionKept ==
    /\ NoSession \in Sessions /\ NoSession.start = 0
    /\ NoSession.watcher = NoWatcher /\ NoSession.before = ZeroStat
<1>1. NoWatcher \in Watchers
  BY DEF NoWatcher, Watchers
<1>2. ZeroStat \in Stat
  BY DEF ZeroStat, Stat
<1> QED
  BY <1>1, <1>2 DEF NoSession, Sessions

\* A new session.
LEMMA NewSessionKept ==
    ASSUME NEW t \in Nat
    PROVE  LET s == [NoSession EXCEPT !.start = t]
           IN  /\ s \in Sessions /\ s.start = t
               /\ s.watcher = NoWatcher /\ s.before = ZeroStat
BY NoSessionKept, Zenon DEF Sessions

\* A step that leaves the session alone, while time may pass.
LEMMA KeptQuiet ==
    ASSUME Kept, session' = session, hpa' \in HPAStates, now' \in Nat, now <= now',
           pc' = "resolve" => pc = "resolve"
    PROVE  Kept'
<1>1. session.start \in Nat
  BY DEF Kept, Sessions
<1>2. Watched(session.watcher, now')
  BY LaterWatched DEF Kept
<1> QED
  BY <1>1, <1>2 DEF Kept

\* A step that only scrapes the counters.
LEMMA KeptScrape ==
    ASSUME Kept, NEW b \in Stat, NEW p \in Nat,
           session' = [session EXCEPT !.before = b, !.scraped = TRUE, !.pollAt = p],
           UNCHANGED <<hpa, now>>, pc' # "resolve"
    PROVE  Kept'
<1>1. /\ session' \in Sessions /\ session'.scraped
      /\ session'.start = session.start /\ session'.watcher = session.watcher
  BY Zenon DEF Kept, Sessions
<1> QED
  BY <1>1 DEF Kept

\* A step that only sets the next poll.
LEMMA KeptPoll ==
    ASSUME Kept, NEW p \in Nat, session' = [session EXCEPT !.pollAt = p],
           UNCHANGED <<hpa, now>>, pc' # "resolve"
    PROVE  Kept'
<1>1. /\ session' \in Sessions /\ session'.scraped = session.scraped
      /\ session'.before = session.before
      /\ session'.start = session.start /\ session'.watcher = session.watcher
  BY Zenon DEF Kept, Sessions
<1> QED
  BY <1>1 DEF Kept

\* A step that gives the session a watcher of samples up to now.
LEMMA KeptWatcher ==
    ASSUME Kept, NEW w, Watched(w, now), NEW p \in Nat,
           session' = [session EXCEPT !.watcher = w, !.pollAt = p],
           UNCHANGED <<hpa, now>>, pc' # "resolve"
    PROVE  Kept'
<1>1. w \in Watchers
  BY DEF Watched
<1>2. /\ session' \in Sessions
      /\ session'.start = session.start /\ session'.watcher = w
      /\ session'.scraped = session.scraped /\ session'.before = session.before
  BY <1>1, Zenon DEF Kept, Sessions
<1> QED
  BY <1>2 DEF Kept

\* Every step keeps the session's state and the order of its samples.
LEMMA KeptNext == Kept /\ [Next]_vars => Kept'
<1> SUFFICES ASSUME Kept, [Next]_vars PROVE Kept'
  OBVIOUS
<1>0. now \in Nat /\ hpa \in HPAStates /\ PollInterval \in Nat /\ now + PollInterval \in Nat
      /\ now <= now
  <2>1. now \in Nat /\ hpa \in HPAStates
    BY Zenon DEF Kept
  <2>2. PollInterval \in Nat
    BY ObserverAssumptions
  <2> QED
    BY <2>1, <2>2
<1>1. CASE StartSession
  <2>1. session' = [NoSession EXCEPT !.start = now] /\ UNCHANGED <<now, hpa>>
    BY <1>1 DEF StartSession, cluster
  <2>2. Watched(NoWatcher, now)
    BY NoWatcherWatched
  <2> QED
    BY <1>0, <2>1, <2>2, NewSessionKept DEF Kept
<1>2. CASE Crash
  <2>1. session' = NoSession /\ UNCHANGED <<now, hpa>> /\ pc' = "down"
    BY <1>2 DEF Crash
  <2>2. Watched(NoWatcher, now)
    BY NoWatcherWatched
  <2> QED
    BY <1>0, <2>1, <2>2, NoSessionKept DEF Kept
<1>3. CASE resolveTarget
  <2>1. UNCHANGED <<now, hpa>> /\ pc' = "before"
    BY <1>3 DEF resolveTarget
  <2>2. CASE UNCHANGED session
    BY <1>0, <2>1, <2>2, KeptQuiet
  <2>3. CASE session' = [session EXCEPT !.watcher = New(snapshotHPA(session.start))]
    <3> DEFINE s == snapshotHPA(session.start)
    <3>1. session.start \in Nat /\ session.start <= now /\ session.pollAt \in Nat
      BY DEF Kept, Sessions
    <3>2. s \in Snapshots /\ s.at = session.start
      BY <1>0, <3>1, SnapshotTyped
    <3> HIDE DEF s
    <3>3. Watched(New(s), now)
      BY <1>0, <3>1, <3>2, NewWatched
    <3> DEFINE w == New(s)
    <3> HIDE DEF w
    <3>4. session' = [session EXCEPT !.watcher = w, !.pollAt = session.pollAt]
      BY <2>3, Zenon DEF Kept, w, s
    <3> QED
      BY <2>1, <3>1, <3>3, <3>4, KeptWatcher, Zenon DEF w
  <2> QED
    BY <1>3, <2>2, <2>3 DEF resolveTarget
<1>4. CASE ScrapeBefore
  <2>1. UNCHANGED <<now, hpa>> /\ pc' = "poll"
    BY <1>4, Zenon DEF ScrapeBefore
  <2>2. CASE \E stat \in Stats : session' = [session EXCEPT !.before = stat,
                                                !.scraped = TRUE, !.pollAt = now + PollInterval]
    <3>1. PICK stat \in Stats : session' = [session EXCEPT !.before = stat,
                                                !.scraped = TRUE, !.pollAt = now + PollInterval]
      BY <2>2, Zenon
    <3>2. stat \in Stat
      BY ObserverAssumptions
    <3> QED
      BY <1>0, <2>1, <3>1, <3>2, KeptScrape, Zenon
  <2>3. CASE session' = [session EXCEPT !.pollAt = now + PollInterval]
    BY <1>0, <2>1, <2>3, KeptPoll, Zenon
  <2> QED
    BY <1>4, <2>2, <2>3, Zenon DEF ScrapeBefore
<1>5. CASE pollHPA
  <2>1. UNCHANGED <<now, hpa, pc>> /\ pc = "poll" /\ session.watcher.samples # <<>>
    BY <1>5 DEF pollHPA
  <2>2. CASE session' = [session EXCEPT !.pollAt = now + PollInterval,
                            !.watcher = Record(@, snapshotHPA(now))]
    <3> DEFINE s == snapshotHPA(now)
               w == Record(session.watcher, s)
    <3>1. s \in Snapshots /\ s.at = now
      BY <1>0, SnapshotTyped
    <3>2. session' = [session EXCEPT !.watcher = w, !.pollAt = now + PollInterval]
      BY <2>2, Zenon DEF Kept
    <3> HIDE DEF s
    <3>3. Watched(w, now)
      BY <1>0, <2>1, <3>1, RecordWatched DEF Kept
    <3> HIDE DEF w
    <3> QED
      BY <1>0, <2>1, <3>2, <3>3, KeptWatcher, Zenon
  <2>3. CASE session' = [session EXCEPT !.pollAt = now + PollInterval]
    BY <1>0, <2>1, <2>3, KeptPoll, Zenon
  <2> QED
    BY <1>5, <2>2, <2>3 DEF pollHPA
<1>6. CASE ResolveFails \/ StopPolling \/ Finalize
  BY <1>0, <1>6, KeptQuiet DEF ResolveFails, StopPolling, Finalize, cluster
<1>7. CASE WatchOpens \/ WatchDies \/ WatchCloses \/ consumeWatch
  <2>1. WatchChanges
    BY <1>7 DEF WatchOpens, WatchDies, WatchCloses, consumeWatch
  <2> QED
    BY <1>0, <2>1, KeptQuiet DEF WatchChanges
<1>8. CASE ScalingMoves \/ SliceChanges \/ RequestFails
  <2>1. hpa' \in HPAStates /\ UNCHANGED <<now, session, pc>>
    BY <1>0, <1>8 DEF ScalingMoves, SliceChanges, RequestFails, Change
  <2> QED
    BY <1>0, <2>1, KeptQuiet
<1>9. CASE LoadStarts \/ LoadExits \/ Sigterm
  <2>1. LoadSteps
    BY <1>9 DEF LoadStarts, LoadExits, Sigterm
  <2> QED
    BY <1>0, <2>1, KeptQuiet DEF LoadSteps
<1>10. CASE Tick
  <2>1. now' = now + 1 /\ UNCHANGED <<hpa, session, pc>>
    BY <1>10 DEF Tick, cluster
  <2> QED
    BY <1>0, <2>1, KeptQuiet
<1>11. CASE UNCHANGED vars
  BY <1>0, <1>11, KeptQuiet DEF vars, cluster
<1> QED
  BY <1>1, <1>2, <1>3, <1>4, <1>5, <1>6, <1>7, <1>8, <1>9, <1>10, <1>11
     DEF Next, Session, Watch, Environment

-----------------------------------------------------------------------------
(* The printed report.  It is the last thing of its container: what it was   *)
(* made from does not change until the next one starts.                      *)

Printed == log # <<>> => pc = "exited" /\ \E r : log = <<r>>

\* A step from a printed report drops it or leaves it and what it speaks of alone.
LEMMA Frozen ==
    ASSUME Reported, Printed, log # <<>>, [Next]_vars
    PROVE  \/ log' = <<>>
           \/ /\ UNCHANGED <<log, session, found, events, pc>>
              /\ found # Absent => hpa' = hpa
              /\ load = "exited" => file' = file
<1>0. pc = "exited" /\ (found # Absent => sigterm)
  BY DEF Printed, Reported
<1>1. CASE StartSession
  BY <1>1 DEF StartSession
<1>2. CASE ResolveFails \/ resolveTarget \/ ScrapeBefore \/ pollHPA \/ StopPolling \/ Finalize
  BY <1>0, <1>2 DEF ResolveFails, resolveTarget, ScrapeBefore, pollHPA, StopPolling,
                    Finalize
<1>3. CASE Watch \/ Crash
  BY <1>0, <1>3 DEF Watch, WatchOpens, WatchDies, WatchCloses, consumeWatch, Watching,
                    Crash, Running
<1>4. CASE ScalingMoves \/ SliceChanges \/ RequestFails
  <2>1. ~sigterm /\ UNCHANGED <<log, session, found, events, pc>>
    BY <1>0, <1>4 DEF ScalingMoves, SliceChanges, RequestFails, Change, Ended
  <2>2. file' = file
    BY <1>4 DEF ScalingMoves, SliceChanges, RequestFails, generator
  <2> QED
    BY <1>0, <2>1, <2>2
<1>5. CASE LoadStarts \/ LoadExits \/ Sigterm
  <2>1. LoadSteps
    BY <1>5 DEF LoadStarts, LoadExits, Sigterm
  <2>2. load = "exited" => file' = file
    BY <1>5 DEF LoadStarts, LoadExits, Sigterm, generator
  <2> QED
    BY <2>1, <2>2 DEF LoadSteps, watch
<1>6. CASE Tick
  BY <1>6 DEF Tick, cluster, generator, watch
<1>7. CASE UNCHANGED vars
  BY <1>7 DEF vars, cluster, generator, watch
<1> QED
  BY <1>1, <1>2, <1>3, <1>4, <1>5, <1>6, <1>7, Zenon DEF Next, Session, Environment

\* A report is printed by a session that gives up on its target, or that ends.
LEMMA Prints ==
    ASSUME Reported, Kept, [Next]_vars, log = <<>>, log' # <<>>
    PROVE  \/ /\ log' = <<report(NoWatcher, {})>> /\ pc = "resolve"
              /\ session.watcher = NoWatcher /\ found' = Absent
              /\ UNCHANGED <<session, events, file, hpa>> /\ pc' = "exited"
           \/ \E posture \in Postures :
                 /\ found' = posture
                 /\ log' = <<report(session.watcher, Observed(posture))>>
                 /\ UNCHANGED <<session, events, file, hpa>> /\ pc' = "exited"
<1>1. ResolveFails \/ Finalize
  <2>1. CASE StartSession \/ resolveTarget \/ ScrapeBefore \/ pollHPA \/ StopPolling
    BY <2>1, Zenon DEF StartSession, resolveTarget, ScrapeBefore, pollHPA, StopPolling
  <2>2. CASE Watch
    BY <2>2 DEF Watch, WatchOpens, WatchDies, WatchCloses, consumeWatch, WatchChanges
  <2>3. CASE Environment
    BY <2>3, Zenon DEF Environment, ScalingMoves, SliceChanges, RequestFails, Change, Crash,
                LoadStarts, LoadExits, Sigterm, LoadSteps, Tick
  <2>4. CASE UNCHANGED vars
    BY <2>4 DEF vars
  <2> QED
    BY <2>1, <2>2, <2>3, <2>4 DEF Next, Session
<1>2. CASE ResolveFails
  <2>1. found = Absent /\ session.watcher = NoWatcher
    BY <1>2 DEF ResolveFails, Reported, Running, Kept
  <2> QED
    BY <1>2, <2>1 DEF ResolveFails, watch, generator
<1>3. CASE Finalize
  <2>1. PICK posture \in Postures :
           found' = posture /\ log' = <<report(session.watcher, Observed(posture))>>
    BY <1>3 DEF Finalize
  <2>2. UNCHANGED <<session, events, file, hpa>> /\ pc' = "exited"
    BY <1>3 DEF Finalize, cluster, generator
  <2> QED
    BY <2>1, <2>2
<1> QED
  BY <1>1, <1>2, <1>3

\* The session is kept, and a log is that of a container that exited.
LInv == Reported /\ Kept /\ Printed

\* Init establishes these: nothing has been started or printed.
LEMMA LInit == Init => LInv
<1> SUFFICES ASSUME Init PROVE LInv
  OBVIOUS
<1>1. Reported
  BY DEF Init, Reported, Running, TrafficVerdictIsOfTheLoad
<1>2. Printed
  BY DEF Init, Printed
<1>3. session = NoSession /\ now = 0 /\ hpa \in HPAStates /\ pc = "down"
  BY DEF Init
<1>4. Watched(NoWatcher, 0)
  BY NoWatcherWatched
<1>5. Kept
  BY <1>3, <1>4, NoSessionKept DEF Kept
<1> QED
  BY <1>1, <1>2, <1>5 DEF LInv

\* Every step keeps these.
LEMMA LNext == LInv /\ [Next]_vars => LInv'
<1> SUFFICES ASSUME LInv, [Next]_vars PROVE LInv'
  OBVIOUS
<1>1. Reported' /\ Kept'
  BY RNext, KeptNext DEF LInv
<1>2. CASE log # <<>>
  <2>1. log' = <<>> \/ UNCHANGED <<log, pc>>
    BY <1>2, Frozen DEF LInv
  <2> QED
    BY <1>1, <2>1 DEF LInv, Printed
<1>3. CASE log = <<>> /\ log' # <<>>
  <2>1. pc' = "exited" /\ \E r : log' = <<r>>
    BY <1>3, Prints DEF LInv
  <2> QED
    BY <1>1, <2>1 DEF LInv, Printed
<1>4. CASE log' = <<>>
  BY <1>1, <1>4 DEF LInv, Printed
<1> QED
  BY <1>2, <1>3, <1>4

\* The scaling verdict and the duration of a report say what the samples of its
\* session show (hpa.Watcher.Record, Watcher.Report, slaVerdict).
THEOREM ScalingVerdict == Spec => []ScalingVerdictIsEarned
<1>1. Init => ScalingVerdictIsEarned
  BY DEF Init, ScalingVerdictIsEarned
<1>2. ASSUME LInv, ScalingVerdictIsEarned, [Next]_vars
      PROVE  ScalingVerdictIsEarned'
  <2>1. CASE log' = <<>>
    BY <2>1 DEF ScalingVerdictIsEarned
  <2>2. CASE log # <<>> /\ log' # <<>>
    <3>1. UNCHANGED <<log, session>>
      BY <1>2, <2>2, Frozen DEF LInv
    <3> QED
      BY <1>2, <3>1, Zenon DEF ScalingVerdictIsEarned
  <2>3. CASE log = <<>> /\ log' # <<>>
    <3>1. \E observed : log' = <<report(session.watcher, observed)>> /\ session' = session
      BY <1>2, <2>3, Prints DEF LInv
    <3>2. PICK observed :
             log' = <<report(session.watcher, observed)>> /\ session' = session
      BY <3>1
    <3> DEFINE w == session.watcher
               r == report(w, observed)
    <3>3. Watched(w, now)
      BY <1>2 DEF LInv, Kept
    <3>4. log'[1] = r /\ session'.watcher = w
      BY <3>2
    <3>5. LET after(i) == w.samples[i].at - w.samples[1].at
          IN  /\ r.slaStatus = "Unknown" <=> w.samples = <<>>
              /\ r.slaStatus = "Fail" <=>
                    /\ w.samples # <<>> /\ SLA > 0 /\ after(Len(w.samples)) >= SLA
                    /\ \A i \in Converged(w.samples) : after(i) > SLA
              /\ r.scaleUpDuration = IF Converged(w.samples) = {} THEN Absent
                                     ELSE after(Min(Converged(w.samples)))
      BY <3>3, VerdictEarned, Zenon
    <3> HIDE DEF w, r
    <3> QED
      BY <3>4, <3>5 DEF ScalingVerdictIsEarned
  <2> QED
    BY <2>1, <2>2, <2>3
<1> QED
  BY <1>1, <1>2, LInit, LNext, PTL DEF Spec

\* What a finalization says of cold starts and of throttling is so.
LEMMA Blames ==
    ASSUME LInv, NEW posture \in Postures,
           found' = posture, session' = session,
           log' = <<report(session.watcher, Observed(posture))>>
    PROVE  BlameIsExact'
<1> DEFINE D == report(session.watcher, Observed(posture)).diagnostics
           T == ThrottleDiagnostics(Compare(session.before, posture.after))
           cold == pickColdStartPod(posture.pods, session.start)
           since == IF session.scraped THEN session.before ELSE ZeroStat
<1>1. log'[1].diagnostics = D
  OBVIOUS
<1>2. posture.pods \in Seq(ColdStart) /\ posture.after \in Stat \cup {Absent}
  BY ObserverAssumptions, Zenon
<1>3. session.before \in Stat /\ since = session.before
  BY DEF LInv, Kept, Sessions
<1>4. \A a \in D : a \in Observed(posture) \/ a.type \in HPATypes \cup CorrelationTypes
  BY ReportAlerts
<1>5. Observed(posture) \subseteq D
  BY ReportAlerts, Zenon
<1>6. /\ posture.after # Absent => T \subseteq Observed(posture)
      /\ \A pod \in cold : ProbeDiagnostics(pod) \subseteq Observed(posture)
  BY Zenon DEF Observed, When
<1> HIDE DEF D, T, cold, since
<1>7. (\E a \in D : a.type = "ReadinessSamplingSparse") <=>
         \E i \in DOMAIN posture.pods :
            Cold(posture.pods, session.start, i) /\ Sparse(posture.pods[i])
  <2>1. ASSUME NEW a \in D, a.type = "ReadinessSamplingSparse"
        PROVE  \E pod \in cold : ProbeDiagnostics(pod) # {}
    <3>1. a \in Observed(posture)
      BY <1>4, <2>1 DEF HPATypes, CorrelationTypes
    <3> QED
      BY <1>2, <2>1, <3>1, ObservedAlerts, Zenon DEF PDBTypes, cold
  <2>2. ASSUME NEW pod \in cold, ProbeDiagnostics(pod) # {}
        PROVE  \E a \in D : a.type = "ReadinessSamplingSparse"
    BY <1>5, <1>6, <2>2, ProbeAlerts
  <2>3. \A pod : pod \in cold <=>
           \E i \in DOMAIN posture.pods :
              pod = posture.pods[i] /\ Cold(posture.pods, session.start, i)
    BY <1>2, ColdPod, Zenon DEF cold
  <2>4. \A i \in DOMAIN posture.pods :
           ProbeDiagnostics(posture.pods[i]) # {} <=> Sparse(posture.pods[i])
    BY <1>2, ProbeFires
  <2> QED
    BY <2>1, <2>2, <2>3, <2>4, Zenon
<1>8. (\E a \in D : a.type = "CPUThrottling") <=> posture.after # Absent /\ T # {}
  <2>1. ASSUME NEW a \in D, a.type = "CPUThrottling"
        PROVE  posture.after # Absent /\ T # {}
    <3>1. a \in Observed(posture)
      BY <1>4, <2>1 DEF HPATypes, CorrelationTypes
    <3> QED
      BY <1>2, <2>1, <3>1, ObservedAlerts, Zenon DEF PDBTypes, T
  <2>2. ASSUME posture.after # Absent, NEW a \in T
        PROVE  a \in D /\ a.type = "CPUThrottling"
    BY <1>5, <1>6, <2>2, ThrottleAlerts DEF T
  <2> QED
    BY <2>1, <2>2, Zenon
<1>9. posture.after # Absent =>
         (T # {} <=> /\ posture.after.throttled > since.throttled
                     /\ posture.after.periods > since.periods)
  <2> SUFFICES ASSUME posture.after \in Stat
               PROVE  T # {} <=> /\ posture.after.throttled > since.throttled
                                 /\ posture.after.periods > since.periods
    BY <1>2
  <2>1. T # {} <=> /\ Compare(session.before, posture.after).throttled > 0
                   /\ Compare(session.before, posture.after).periods > 0
    BY ThrottleFires, Zenon DEF T
  <2> QED
    BY <1>3, <2>1, Moved, Zenon
<1>10. \A type : Alerts(type)' # {} <=> \E a \in D : a.type = type
  BY <1>1 DEF Alerts
<1> QED
  BY <1>7, <1>8, <1>9, <1>10, Zenon DEF BlameIsExact, Cold, Sparse, since

\* When the scale could be read, a finalization names the budgets that block.
LEMMA Names ==
    ASSUME LInv, NEW posture \in Postures,
           found' = posture, session' = session, hpa' = hpa,
           log' = <<report(session.watcher, Observed(posture))>>
    PROVE  BlockingBudgetsAreNamed'
<1> SUFFICES ASSUME posture.budgets # Absent, posture.scaleRead
             PROVE  {a.about : a \in Alerts("PDBBlocksEviction")'} =
                       {i \in DOMAIN posture.budgets :
                          hpa.current > 0 /\ ~Evictable(posture.budgets[i], hpa.current)}
  BY DEF BlockingBudgetsAreNamed
<1> DEFINE D == report(session.watcher, Observed(posture)).diagnostics
           P == PDBDiagnostics(posture.budgets, hpa.current)
           named(S) == {a \in S : a.type = "PDBBlocksEviction"}
<1>1. Alerts("PDBBlocksEviction")' = named(D)
  BY DEF Alerts
<1>2. posture.pods \in Seq(ColdStart) /\ posture.budgets \in Seq(Budget)
  BY ObserverAssumptions
<1>3. hpa.current \in Nat
  BY ObserverAssumptions DEF LInv, Kept
<1>4. currentReplicas(posture.scaleRead, Len(posture.pods)) = hpa.current
  BY DEF currentReplicas
<1>5. P \subseteq Observed(posture)
  BY <1>4, Zenon DEF Observed, When
<1>6. Observed(posture) \subseteq D
  BY ReportAlerts, Zenon
<1>7. \A a \in D : a \in Observed(posture) \/ a.type \in HPATypes \cup CorrelationTypes
  BY ReportAlerts
<1>8. \A a \in Observed(posture) : a.type = "PDBBlocksEviction" => a \in P
  BY <1>2, <1>4, ObservedAlerts, Zenon
<1>9. {a.about : a \in named(P)} =
         {i \in DOMAIN posture.budgets : blocksAll(posture.budgets[i], hpa.current)}
  BY PDBAlerts, Zenon
<1> HIDE DEF D, P
<1>10. named(D) = named(P)
  BY <1>5, <1>6, <1>7, <1>8 DEF HPATypes, CorrelationTypes
<1>11. \A i \in DOMAIN posture.budgets :
          blocksAll(posture.budgets[i], hpa.current) <=>
             hpa.current > 0 /\ ~Evictable(posture.budgets[i], hpa.current)
  BY <1>2, <1>3, BlocksAll
<1> QED
  BY <1>1, <1>9, <1>10, <1>11, Zenon

\* A report speaks of a slow cold start exactly if the newest pod was created after
\* its session began and waited for two probe periods, and of throttling exactly if
\* both counters are above the baseline of the session: its first scrape, or zero if
\* that failed (pickColdStartPod, probelag, cgroup.Compare).
THEOREM ExactBlame == Spec => []BlameIsExact
<1>1. Init => BlameIsExact
  BY DEF Init, BlameIsExact
<1>2. ASSUME LInv, BlameIsExact, [Next]_vars
      PROVE  BlameIsExact'
  <2>1. CASE log' = <<>>
    BY <2>1 DEF BlameIsExact
  <2>2. CASE log # <<>> /\ log' # <<>>
    <3>1. UNCHANGED <<log, session, found>>
      BY <1>2, <2>2, Frozen DEF LInv
    <3> QED
      BY <1>2, <3>1 DEF BlameIsExact, Alerts
  <2>3. CASE log = <<>> /\ log' # <<>>
    <3>1. CASE found' = Absent
      BY <3>1 DEF BlameIsExact
    <3>2. CASE found' # Absent
      <4>1. PICK posture \in Postures :
               /\ found' = posture /\ session' = session
               /\ log' = <<report(session.watcher, Observed(posture))>>
        BY <1>2, <2>3, <3>2, Prints DEF LInv
      <4> QED
        BY <1>2, <4>1, Blames
    <3> QED
      BY <3>1, <3>2
  <2> QED
    BY <2>1, <2>2, <2>3
<1> QED
  BY <1>1, <1>2, LInit, LNext, PTL DEF Spec

\* When the scale could be read, the report names every budget from which no pod can
\* be evicted, and no other, whatever the rounding (pdb.blocksAll).
THEOREM BudgetsNamed == Spec => []BlockingBudgetsAreNamed
<1>1. Init => BlockingBudgetsAreNamed
  BY DEF Init, BlockingBudgetsAreNamed
<1>2. ASSUME LInv, BlockingBudgetsAreNamed, [Next]_vars
      PROVE  BlockingBudgetsAreNamed'
  <2>1. CASE log' = <<>> \/ found' = Absent
    BY <2>1 DEF BlockingBudgetsAreNamed
  <2>2. CASE log # <<>> /\ log' # <<>> /\ found' # Absent
    <3>1. UNCHANGED <<log, found, hpa>>
      BY <1>2, <2>2, Frozen DEF LInv
    <3> QED
      BY <1>2, <3>1 DEF BlockingBudgetsAreNamed, Alerts
  <2>3. CASE log = <<>> /\ log' # <<>> /\ found' # Absent
    <3>1. PICK posture \in Postures :
             /\ found' = posture /\ session' = session /\ hpa' = hpa
             /\ log' = <<report(session.watcher, Observed(posture))>>
      BY <1>2, <2>3, Prints DEF LInv
    <3> QED
      BY <1>2, <3>1, Names
  <2> QED
    BY <2>1, <2>2, <2>3
<1> QED
  BY <1>1, <1>2, LInit, LNext, PTL DEF Spec
=============================================================================
