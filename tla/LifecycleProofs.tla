--------------------------- MODULE LifecycleProofs ---------------------------
(***************************************************************************)
(* Proofs about Lifecycle, for every value of its constants.               *)
(*                                                                         *)
(* The invariant is Inv, which is TypeOK /\ ReconcilerIsCoherent, arranged for *)
(* the provers as the part about the object and its copies (Core) and the  *)
(* part about everything around them (Surroundings).  The lemmas go from the *)
(* functions that rewrite a status, to the ways a step of a reconcile ends, *)
(* to the actions, to the invariance theorem.  The action properties follow: *)
(* a status reaches the server only from a copy that is the server's object, *)
(* and Inv says the staged status is a legal successor of that copy.       *)
(***************************************************************************)
EXTENDS Lifecycle, SequenceTheorems, TLAPS

-----------------------------------------------------------------------------
(* The functions that rewrite a status.                                    *)

GoodStatus(s) == s \in Status /\ ExplainsPhase(s) /\ ShowsVerdict(s)

\* The status of a new object is a good one.
LEMMA NoStatusGood == GoodStatus(NoStatus)
BY LifecycleAssumptions
   DEF GoodStatus, Status, NoStatus, ExplainsPhase, ShowsVerdict, Phases, Times,
       NoTime

\* Ending a run in Error keeps a status good, and its history as it was: no
\* verdict is shown with it, or it is the schedule that is to blame.
LEMMA FailRunGood ==
    ASSUME NEW s, GoodStatus(s), NEW g \in Nat, NEW reason \in ErrorReasons,
           s.report = NoReport \/ reason = "ScheduleInvalid"
    PROVE  /\ GoodStatus(FailRun(s, g, reason))
           /\ FailRun(s, g, reason).phase = "Error"
           /\ FailRun(s, g, reason).finished = reason
           /\ FailRun(s, g, reason).report = s.report
           /\ FailRun(s, g, reason).history = s.history
<1> DEFINE f == FailRun(s, g, reason)
<1>1. s \in Status /\ ShowsVerdict(s)
  BY DEF GoodStatus
<1>2. /\ f.phase = "Error" /\ f.finished = reason
      /\ f.report = s.report /\ f.history = s.history
  BY <1>1 DEF FailRun, setTerminalPhase, markFinished, Status
<1>3. f \in Status
  BY <1>1, Zenon DEF FailRun, setTerminalPhase, markFinished, Status, Phases, Terminal,
              FinishedTrue
<1> HIDE DEF f
<1>4. ExplainsPhase(f)
  BY <1>2 DEF ExplainsPhase
<1>5. ShowsVerdict(f)
  BY <1>1, <1>2 DEF ShowsVerdict
<1>6. GoodStatus(f)
  BY <1>3, <1>4, <1>5 DEF GoodStatus
<1> QED
  BY <1>2, <1>6 DEF f

\* The status of a run that starts over is a good one.
LEMMA ResetGood ==
    ASSUME NEW s, GoodStatus(s)
    PROVE  /\ GoodStatus([resetForNextRun(s) EXCEPT !.phase = "Pending"])
           /\ resetForNextRun(s).history = s.history
BY Zenon DEF GoodStatus, Status, ExplainsPhase, ShowsVerdict, resetForNextRun, Phases

\* A report is not the absent one, and its verdict is a terminal phase.
LEMMA ReportFacts ==
    ASSUME NEW r \in Reports
    PROVE  /\ r # NoReport
           /\ finishedVerdict(r).phase \in {"Succeeded", "Failed"}
           /\ finishedVerdict(r).reason \in VerdictReasons
           /\ [phase |-> finishedVerdict(r).phase, report |-> r] \in Entry
<1>1. r \in [sla : Verdicts, traffic : Verdicts]
  BY LifecycleAssumptions
<1>2. r.sla # "" /\ NoReport.sla = ""
  BY <1>1, Zenon DEF Verdicts, NoReport
<1> QED
  BY <1>2, Zenon DEF finishedVerdict, VerdictReasons, Entry

\* appendRunHistory puts the entry first, keeps the order of the others and
\* the bound.
LEMMA AppendFacts ==
    ASSUME NEW h \in Seq(Entry), NEW e \in Entry, Len(h) <= HistoryLimit,
           NEW n, n = IF Len(<<e>> \o h) > HistoryLimit
                      THEN HistoryLimit ELSE Len(<<e>> \o h)
    PROVE  LET t == SubSeq(<<e>> \o h, 1, n)
           IN  /\ t \in Seq(Entry) /\ t # <<>> /\ Len(t) <= HistoryLimit
               /\ Len(t) = IF Len(h) < HistoryLimit THEN Len(h) + 1 ELSE HistoryLimit
               /\ t[1] = e
               /\ \A i \in 2 .. Len(t) : t[i] = h[i - 1]
<1> DEFINE c == <<e>> \o h
           t == SubSeq(c, 1, n)
<1>1. /\ c \in Seq(Entry)
      /\ Len(c) = Len(h) + 1
      /\ c[1] = e
      /\ \A i \in 2 .. Len(c) : c[i] = h[i - 1]
  OBVIOUS
<1>2. n \in 1 .. Len(c) /\ n <= HistoryLimit
  BY <1>1, LifecycleAssumptions
<1>3. /\ t \in Seq(Entry)
      /\ Len(t) = n
      /\ \A i \in 1 .. n : t[i] = c[i]
  BY <1>1, <1>2
<1>4. t[1] = e /\ t # <<>> /\ Len(t) <= HistoryLimit
  <2> HIDE DEF c, t
  <2> QED
    BY <1>1, <1>2, <1>3
<1>5. \A i \in 2 .. Len(t) : t[i] = h[i - 1]
  <2> HIDE DEF c, t
  <2> QED
    BY <1>1, <1>2, <1>3
<1>6. Len(t) = IF Len(h) < HistoryLimit THEN Len(h) + 1 ELSE HistoryLimit
  <2>1. Len(h) \in Nat
    OBVIOUS
  <2> HIDE DEF t
  <2> QED
    BY <1>1, <1>3, <2>1, LifecycleAssumptions
<1> QED
  BY <1>3, <1>4, <1>5, <1>6, Zenon


\* finishRun's status is a good one and adds one entry to the history.
LEMMA FinishedStatusGood ==
    ASSUME NEW s, GoodStatus(s), NEW g \in Nat, NEW b \in Nat, NEW r \in Reports
    PROVE  LET f == FinishedStatus(s, g, r, b)
           IN  /\ GoodStatus(f)
               /\ f.phase \in {"Succeeded", "Failed"}
               /\ Len(f.history) = IF Len(s.history) < HistoryLimit
                                   THEN Len(s.history) + 1 ELSE HistoryLimit
               /\ \A i \in 2 .. Len(f.history) : f.history[i] = s.history[i - 1]
<1> DEFINE v == finishedVerdict(r)
           e == [phase |-> v.phase, report |-> r]
           h == <<e>> \o s.history
           n == IF Len(h) > HistoryLimit THEN HistoryLimit ELSE Len(h)
           t == SubSeq(h, 1, n)
           f == FinishedStatus(s, g, r, b)
           u == [s EXCEPT !.report = r, !.source = b, !.observedGeneration = g,
                          !.finished = v.reason, !.phase = v.phase, !.history = t]
<1>1. s \in Status /\ s.history \in Seq(Entry) /\ Len(s.history) <= HistoryLimit
  BY DEF GoodStatus, Status, ShowsVerdict
<1>2. e \in Entry /\ r # NoReport /\ v.phase \in {"Succeeded", "Failed"}
        /\ v.reason \in VerdictReasons
  BY ReportFacts
<1>3. /\ t \in Seq(Entry) /\ t # <<>> /\ Len(t) <= HistoryLimit
      /\ Len(t) = IF Len(s.history) < HistoryLimit
                  THEN Len(s.history) + 1 ELSE HistoryLimit
      /\ t[1] = e
      /\ \A i \in 2 .. Len(t) : t[i] = s.history[i - 1]
  BY <1>1, <1>2, AppendFacts
<1>4. f = u
  BY <1>1 DEF FinishedStatus, appendRunHistory, setTerminalPhase, markFinished,
              applyReport, Status
<1>5. /\ u \in Status /\ u.phase = v.phase /\ u.report = r /\ u.history = t
      /\ u.finished = v.reason
  <2> HIDE DEF t, v
  <2> QED
    BY <1>1, <1>2, <1>3, Zenon DEF Status, Phases, Terminal, FinishedTrue
<1>6. ExplainsPhase(u)
  <2>1. u.phase # "Error" /\ u.phase \notin {"", "Pending", "Running"}
    BY <1>2, <1>5, Zenon
  <2>2. /\ u.phase = "Succeeded" => ~("Fail" \in {r.sla, r.traffic})
                                      /\ v.reason = "Succeeded"
        /\ u.phase = "Failed" => "Fail" \in {r.sla, r.traffic}
                                      /\ v.reason = "VerdictFailed"
    BY <1>5 DEF finishedVerdict
  <2> HIDE DEF u, v
  <2> QED
    BY <1>2, <1>5, <2>1, <2>2, Zenon DEF ExplainsPhase
<1>7. ShowsVerdict(u)
  <2> HIDE DEF u, t
  <2> QED
    BY <1>3, <1>5 DEF ShowsVerdict
<1> HIDE DEF u, v, t
<1> QED
  BY <1>2, <1>3, <1>4, <1>5, <1>6, <1>7 DEF GoodStatus


-----------------------------------------------------------------------------
(* The inductive invariant, in two halves: the object and its copies, and  *)
(* everything else, of which only the types matter.                        *)

Steps == {"idle", "dispatch", "finalize", "addFinalizer", "writeStatus",
          "createJob", "killPod", "deleteJob", "removeFinalizer"}

Core ==
    /\ cr \in Objects /\ crView \in Objects /\ loc \in Objects
    /\ staged \in Status /\ pc \in Steps
    /\ crSynced \in BOOLEAN /\ current \in BOOLEAN
    /\ ReconcilerIsCoherent

Surroundings ==
    /\ job \in Jobs /\ jobView \in Jobs /\ pods \subseteq Pods
    /\ jobSynced \in BOOLEAN /\ queued \in BOOLEAN
    /\ wakeAt \in Nat \cup {NoTime}
    /\ then \in {"done", "requeue", "park", "deleteJob"}
    /\ now \in Times /\ upsets \in 0 .. MaxUpsets /\ kills \in 0 .. 2

Inv == Core /\ Surroundings

\* The two halves are the type invariant and the coherence invariant.
LEMMA InvSplits == Inv <=> TypeOK /\ ReconcilerIsCoherent
BY DEF Inv, Core, Surroundings, Steps, TypeOK

\* What the coherence invariant says of the statuses.
LEMMA CoreStatuses ==
    ASSUME Core
    PROVE  /\ GoodStatus(cr.status) /\ GoodStatus(crView.status)
           /\ GoodStatus(loc.status) /\ GoodStatus(staged)
BY DEF Core, ReconcilerIsCoherent, GoodStatus, Objects

\* The absent object is an object, with a good status.
LEMMA NoObjectFacts ==
    /\ NoObject \in Objects
    /\ GoodStatus(NoObject.status)
    /\ ~NoObject.exists /\ ~NoObject.deleting /\ ~NoObject.finalizer
    /\ NoObject.status.phase = ""
BY NoStatusGood, Zenon DEF NoObject, Objects, NoStatus, GoodStatus, NoSpec

\* A reconcile that returns leaves the core in order.
LEMMA IdleCore ==
    ASSUME Core, Idle, UNCHANGED <<cr, crView, crSynced>>
    PROVE  Core'
<1>1. /\ ExplainsPhase(NoStatus) /\ ShowsVerdict(NoStatus) /\ NoStatus \in Status
      /\ NoObject.status = NoStatus
  BY NoStatusGood DEF GoodStatus, NoObject
<1>2. CopiesAreOlder'
  BY NoObjectFacts, Zenon DEF Core, ReconcilerIsCoherent, CopiesAreOlder, Idle
<1>3. Established'
  BY DEF Established, Idle
<1>4. (\A s \in {cr.status, crView.status, loc.status, staged} :
           ExplainsPhase(s) /\ ShowsVerdict(s))'
  BY <1>1 DEF Core, ReconcilerIsCoherent, Idle
<1> QED
  BY <1>1, <1>2, <1>3, <1>4, NoObjectFacts, Zenon DEF Core, ReconcilerIsCoherent, Idle, Steps


\* What a status must be for the reconciler to stage it.
Legal(s) ==
    /\ GoodStatus(s)
    /\ s.phase = "Terminating" => loc.deleting
    /\ AddsOneEntry(loc.status, s)
    /\ StartsIfAsked(loc, s)
    /\ KeepsVerdict(loc.status, s)

\* Staging a legal status leaves the core in order.
LEMMA StageCore ==
    ASSUME Core, pc # "idle", NEW s, NEW next, StageThen(s, next), Legal(s),
           UNCHANGED <<cr, crView, crSynced, now>>
    PROVE  Core'
<1>1. CopiesAreOlder'
  BY DEF Core, ReconcilerIsCoherent, CopiesAreOlder, StageThen
<1>2. Established'
  BY DEF Core, ReconcilerIsCoherent, Established, StageThen, Legal, AddsOneEntry,
         StartsIfAsked, KeepsVerdict
<1>3. (\A t \in {cr.status, crView.status, loc.status, staged} :
           ExplainsPhase(t) /\ ShowsVerdict(t))'
  BY DEF Core, ReconcilerIsCoherent, StageThen, Legal, GoodStatus
<1> QED
  BY <1>1, <1>2, <1>3
     DEF Core, ReconcilerIsCoherent, StageThen, Legal, GoodStatus, Steps

\* Going on to another call needs what that call relies on.
LEMMA GoToCore ==
    ASSUME Core, pc # "idle", NEW step \in Steps, GoTo(step),
           UNCHANGED <<cr, crView, crSynced>>,
           step \in {"createJob", "killPod"} => loc.finalizer /\ ~loc.deleting,
           step = "createJob" => loc.status.phase = "Pending",
           step = "removeFinalizer" => loc.deleting,
           step \notin {"dispatch", "addFinalizer", "finalize", "writeStatus"}
    PROVE  Core'
<1>1. CopiesAreOlder'
  BY DEF Core, ReconcilerIsCoherent, CopiesAreOlder, GoTo
<1>2. Established'
  BY DEF Core, ReconcilerIsCoherent, Established, GoTo
<1>3. (\A t \in {cr.status, crView.status, loc.status, staged} :
           ExplainsPhase(t) /\ ShowsVerdict(t))'
  BY DEF Core, ReconcilerIsCoherent, GoTo
<1> QED
  BY <1>1, <1>2, <1>3 DEF Core, ReconcilerIsCoherent, GoTo

\* The status that ends a run in Error may be staged, unless it would replace
\* a result for any reason but its schedule.
LEMMA FailLegal ==
    ASSUME Core, pc = "dispatch", NEW reason \in ErrorReasons,
           loc.status.phase \in Terminal => reason = "ScheduleInvalid"
    PROVE  Legal(FailRun(loc.status, loc.generation, reason))
<1> DEFINE f == FailRun(loc.status, loc.generation, reason)
<1>1. GoodStatus(loc.status) /\ loc.generation \in Nat
  BY CoreStatuses DEF Core, Objects
<1>2. loc.status.report = NoReport \/ reason = "ScheduleInvalid"
  <2>1. loc.status.phase # "Terminating"
    BY Zenon DEF Core, ReconcilerIsCoherent, Established, CopiesAreOlder
  <2>2. loc.status.phase \in {"", "Pending", "Running"} \cup Terminal
    BY <1>1, <2>1, Zenon DEF GoodStatus, Status, Phases
  <2> QED
    BY <1>1, <2>2, Zenon DEF GoodStatus, ExplainsPhase
<1>3. /\ GoodStatus(f) /\ f.phase = "Error" /\ f.finished = reason
      /\ f.report = loc.status.report /\ f.history = loc.status.history
  BY <1>1, <1>2, FailRunGood
<1>4. Legal(f)
  <2> HIDE DEF f
  <2> QED
    BY <1>3 DEF Legal, AddsOneEntry, StartsIfAsked, KeepsVerdict
<1> QED
  BY <1>4

\* So may the status of a run that starts over, if it was asked for.
LEMMA ResetLegal ==
    ASSUME Core,
           NEW s, s = [resetForNextRun(loc.status) EXCEPT !.phase = "Pending"],
           StartsIfAsked(loc, s)
    PROVE  Legal(s)
<1>1. GoodStatus(loc.status)
  BY CoreStatuses
<1>2. GoodStatus(s) /\ s.phase = "Pending" /\ s.history = loc.status.history
  BY <1>1, ResetGood, Zenon DEF resetForNextRun, GoodStatus, Status
<1> QED
  BY <1>2 DEF Legal, AddsOneEntry, KeepsVerdict


\* Steps of others leave the core in order, and so does the clock.
LEMMA FrameCore ==
    ASSUME Core, now \in Nat, now' \in Nat, now <= now',
           UNCHANGED <<cr, crView, crSynced, pc, loc, current, staged>>
    PROVE  Core'
<1>1. CopiesAreOlder'
  BY DEF Core, ReconcilerIsCoherent, CopiesAreOlder
<1>2. ASSUME StartsIfAsked(loc, staged)
      PROVE  StartsIfAsked(loc, staged)'
  <2>1. lastRunAnchor(loc.status) \in Nat
    BY LifecycleAssumptions DEF lastRunAnchor, Core, Objects, Status, Times, NoTime
  <2> QED
    BY <1>2, <2>1, LifecycleAssumptions DEF StartsIfAsked
<1>3. Established'
  BY <1>2 DEF Core, ReconcilerIsCoherent, Established, AddsOneEntry, KeepsVerdict
<1> QED
  BY <1>1, <1>3 DEF Core, ReconcilerIsCoherent

\* Reconcile reads the object from the cache.
LEMMA ReconcileCore ==
    ASSUME Core, Reconcile
    PROVE  Core'
<1>1. CASE crView.exists /\ (crView.deleting => crView.finalizer)
  <2>1. /\ loc' = crView /\ current' = crSynced
        /\ pc' = IF crView.deleting THEN "finalize"
                 ELSE IF crView.finalizer THEN "dispatch" ELSE "addFinalizer"
        /\ UNCHANGED <<cr, crView, crSynced, staged>>
    BY <1>1 DEF Reconcile, ReadOnly, apiVars, cacheVars
  <2>2. CopiesAreOlder'
    BY <2>1 DEF Core, ReconcilerIsCoherent, CopiesAreOlder
  <2>3. Established'
    BY <1>1, <2>1 DEF Core, Objects, Established
  <2>4. (\A t \in {cr.status, crView.status, loc.status, staged} :
             ExplainsPhase(t) /\ ShowsVerdict(t))'
    BY <2>1 DEF Core, ReconcilerIsCoherent
  <2> QED
    BY <2>1, <2>2, <2>3, <2>4 DEF Core, ReconcilerIsCoherent, Steps
<1>2. CASE ~(crView.exists /\ (crView.deleting => crView.finalizer))
  <2>1. UNCHANGED <<cr, crView, crSynced, pc, loc, current, staged, now>>
    BY <1>2 DEF Reconcile, ReadOnly, apiVars, cacheVars, boundVars
  <2>2. pc # "writeStatus"
    BY DEF Reconcile
  <2>3. CopiesAreOlder'
    BY <2>1 DEF Core, ReconcilerIsCoherent, CopiesAreOlder
  <2>4. Established'
    BY <2>1, <2>2 DEF Core, ReconcilerIsCoherent, Established
  <2> QED
    BY <2>1, <2>3, <2>4 DEF Core, ReconcilerIsCoherent
<1> QED
  BY <1>1, <1>2

\* The finalizer is added to the server's object and to the reconcile's copy.
LEMMA AddFinalizerCore ==
    ASSUME Core, AddFinalizer
    PROVE  Core'
<1>1. /\ loc = cr /\ loc.exists /\ ~loc.deleting /\ cr \in Objects
      /\ cr' = [cr EXCEPT !.finalizer = TRUE]
      /\ loc' = [loc EXCEPT !.finalizer = TRUE]
      /\ crSynced' = FALSE /\ pc' = "dispatch"
      /\ UNCHANGED <<crView, current, staged>>
  BY DEF Core, ReconcilerIsCoherent, CopiesAreOlder, Established, AddFinalizer,
         UpdateObject
<1>2. /\ cr' \in Objects /\ loc' = cr' /\ cr'.status = cr.status
      /\ cr'.exists /\ cr'.finalizer /\ ~cr'.deleting
  BY <1>1, Zenon DEF Objects
<1>3. CopiesAreOlder'
  BY <1>1, <1>2 DEF Core, ReconcilerIsCoherent, CopiesAreOlder
<1>4. Established'
  BY <1>1, <1>2 DEF Established
<1>5. (\A t \in {cr.status, crView.status, loc.status, staged} :
           ExplainsPhase(t) /\ ShowsVerdict(t))'
  BY <1>1, <1>2 DEF Core, ReconcilerIsCoherent
<1> QED
  BY <1>1, <1>2, <1>3, <1>4, <1>5, Zenon DEF Core, ReconcilerIsCoherent, Steps


\* The staged status reaches the server only on top of the version it was
\* computed from.
LEMMA WriteStatusCore ==
    ASSUME Core, WriteStatus, then \in {"done", "requeue", "park", "deleteJob"}
    PROVE  Core'
<1>1. /\ loc = cr /\ loc.exists /\ cr \in Objects /\ staged \in Status
      /\ staged.phase = "Terminating" => loc.deleting
      /\ cr' = [cr EXCEPT !.status = staged]
      /\ crSynced' = FALSE /\ crView' = crView
  BY DEF Core, ReconcilerIsCoherent, CopiesAreOlder, Established, WriteStatus,
         UpdateObject
<1>2. /\ cr' \in Objects /\ cr'.status = staged
      /\ cr'.exists /\ cr'.finalizer = cr.finalizer /\ cr'.deleting = cr.deleting
  BY <1>1 DEF Objects
<1>3. \/ Idle
      \/ /\ pc' = "deleteJob" /\ loc' = cr' /\ staged' = NoStatus
         /\ current' = current
  BY <1>1, Zenon DEF WriteStatus, Done, Retry, RequeueAt
<1>4. /\ \/ loc' = NoObject /\ current' = FALSE /\ pc' = "idle"
         \/ loc' = cr' /\ current' = current /\ pc' = "deleteJob"
      /\ staged' = NoStatus
  BY <1>3 DEF Idle
<1>5. CopiesAreOlder'
  <2>1. /\ crSynced' => crView' = cr'
        /\ current' => loc' = cr'
        /\ loc'.deleting => crView'.deleting \/ ~crView'.exists
    BY <1>1, <1>2, <1>4, NoObjectFacts, Zenon DEF Core, ReconcilerIsCoherent, CopiesAreOlder
  <2>2. \A o \in {cr', crView'} :
           /\ ~o.exists => o = NoObject
           /\ o.deleting => cr'.deleting \/ ~cr'.exists
           /\ o.finalizer /\ ~o.deleting => cr'.finalizer
           /\ o.status.phase = "Terminating" => o.deleting
    BY <1>1, <1>2, Zenon DEF Core, ReconcilerIsCoherent, CopiesAreOlder
  <2>3. loc' = NoObject \/ loc' = cr'
    BY <1>4
  <2> QED
    BY <2>1, <2>2, <2>3, NoObjectFacts, Zenon DEF CopiesAreOlder
<1>6. Established'
  BY <1>1, <1>2, <1>4, Zenon DEF Established
<1>7. (\A t \in {cr.status, crView.status, loc.status, staged} :
           ExplainsPhase(t) /\ ShowsVerdict(t))'
  <2>1. \A t \in {crView.status, staged, NoStatus, NoObject.status} :
           ExplainsPhase(t) /\ ShowsVerdict(t)
    BY NoStatusGood, NoObjectFacts, Zenon DEF Core, ReconcilerIsCoherent, GoodStatus
  <2>2. /\ cr'.status = staged /\ crView' = crView /\ staged' = NoStatus
        /\ loc'.status \in {NoObject.status, staged}
    BY <1>1, <1>2, <1>4, Zenon
  <2> QED
    BY <2>1, <2>2
<1> QED
  BY <1>1, <1>2, <1>4, <1>5, <1>6, <1>7, NoStatusGood, NoObjectFacts, Zenon
     DEF Core, ReconcilerIsCoherent, GoodStatus, Steps

\* Removing the finalizer removes the object; every copy already shows it
\* deleted.
LEMMA RemoveFinalizerCore ==
    ASSUME Core, RemoveFinalizer
    PROVE  Core'
<1>1. /\ loc = cr /\ loc.deleting /\ cr' = NoObject
      /\ crSynced' = FALSE /\ crView' = crView /\ Idle
  BY DEF Core, ReconcilerIsCoherent, CopiesAreOlder, Established, RemoveFinalizer,
         UpdateObject, Done
<1>2. crView.deleting \/ crView = NoObject
  BY <1>1 DEF Core, ReconcilerIsCoherent, CopiesAreOlder
<1>3. CopiesAreOlder'
  BY <1>1, <1>2, NoObjectFacts, Zenon
     DEF Core, ReconcilerIsCoherent, CopiesAreOlder, Idle
<1>4. Established'
  BY <1>1 DEF Established, Idle
<1>5. (\A t \in {cr.status, crView.status, loc.status, staged} :
           ExplainsPhase(t) /\ ShowsVerdict(t))'
  BY <1>1, NoStatusGood, NoObjectFacts, Zenon DEF Core, ReconcilerIsCoherent, GoodStatus, Idle
<1> QED
  BY <1>1, <1>3, <1>4, <1>5, NoStatusGood, NoObjectFacts, Zenon
     DEF Core, ReconcilerIsCoherent, GoodStatus, Steps, Idle


\* What the reconcile has established about its copy is its own.
LEMMA EstablishedStays ==
    ASSUME Established, UNCHANGED <<pc, loc, staged, now>>
    PROVE  Established'
BY DEF Established, AddsOneEntry, StartsIfAsked, KeepsVerdict

\* A write by someone else, to an object that exists and is not deleted.
LEMMA ForeignUpdateCore ==
    ASSUME Core, NEW o \in Objects, ForeignUpdate(o),
           GoodStatus(o.status),
           o.status.phase = "Terminating" => o.deleting,
           ~o.exists => o = NoObject /\ ~cr.finalizer,
           o.exists => o.finalizer = cr.finalizer
    PROVE  Core'
<1>1. /\ cr' = o /\ crSynced' = FALSE /\ current' = FALSE
      /\ cr.exists /\ ~cr.deleting
      /\ UNCHANGED <<crView, pc, loc, staged, now>>
  BY DEF ForeignUpdate, Upset
<1>2. CopiesAreOlder'
  BY <1>1, NoObjectFacts, Zenon DEF Core, ReconcilerIsCoherent, CopiesAreOlder
<1>3. Established'
  BY <1>1, EstablishedStays DEF Core, ReconcilerIsCoherent
<1>4. (\A t \in {cr.status, crView.status, loc.status, staged} :
           ExplainsPhase(t) /\ ShowsVerdict(t))'
  BY <1>1 DEF Core, ReconcilerIsCoherent, GoodStatus
<1> QED
  BY <1>1, <1>2, <1>3, <1>4, Zenon DEF Core, ReconcilerIsCoherent

\* A spec edit.
LEMMA EditSpecCore ==
    ASSUME Core, EditSpec
    PROVE  Core'
<1>1. PICK s \in Specs :
        ForeignUpdate([cr EXCEPT !.spec = s, !.generation = cr.generation + 1])
  BY Zenon DEF EditSpec
<1> DEFINE o == [cr EXCEPT !.spec = s, !.generation = cr.generation + 1]
<1>2. /\ o \in Objects /\ o.status = cr.status /\ o.exists = cr.exists
      /\ o.finalizer = cr.finalizer /\ o.deleting = cr.deleting
  <2>1. cr \in Objects /\ cr.generation + 1 \in Nat
    BY DEF Core, Objects
  <2> QED
    BY <2>1, Zenon DEF Objects
<1>3. cr.exists
  BY <1>1 DEF ForeignUpdate
<1>4. cr.status.phase = "Terminating" => cr.deleting
  BY DEF Core, ReconcilerIsCoherent, CopiesAreOlder
<1> HIDE DEF o
<1>5. ForeignUpdate(o)
  BY <1>1 DEF o
<1> QED
  BY <1>2, <1>3, <1>4, <1>5, ForeignUpdateCore, CoreStatuses, Zenon

\* A deletion.
LEMMA DeleteCRCore ==
    ASSUME Core, DeleteCR
    PROVE  Core'
<1>1. CASE cr.finalizer
  <2> DEFINE o == [cr EXCEPT !.deleting = TRUE, !.generation = cr.generation + 1]
  <2>1. ForeignUpdate(o)
    BY <1>1 DEF DeleteCR
  <2>2. /\ o \in Objects /\ o.status = cr.status /\ o.exists = cr.exists
        /\ o.finalizer = cr.finalizer /\ o.deleting
    <3>1. cr \in Objects /\ cr.generation + 1 \in Nat
      BY DEF Core, Objects
    <3> QED
      BY <3>1, Zenon DEF Objects
  <2>3. cr.exists
    BY <2>1 DEF ForeignUpdate
  <2> HIDE DEF o
  <2> QED
    BY <2>1, <2>2, <2>3, ForeignUpdateCore, CoreStatuses, Zenon
<1>2. CASE ~cr.finalizer
  <2>1. ForeignUpdate(NoObject)
    BY <1>2 DEF DeleteCR
  <2> QED
    BY <1>2, <2>1, NoObjectFacts, ForeignUpdateCore, Zenon
<1> QED
  BY <1>1, <1>2

\* The informer brings the cache up to date.
LEMMA DeliverCRCore ==
    ASSUME Core, DeliverCR
    PROVE  Core'
<1>1. /\ crView' = cr /\ crSynced' = TRUE
      /\ UNCHANGED <<cr, pc, loc, current, staged, now>>
  BY DEF DeliverCR, apiVars, workerVars, boundVars
<1>2. CopiesAreOlder'
  BY <1>1 DEF Core, ReconcilerIsCoherent, CopiesAreOlder
<1>3. Established'
  BY <1>1, EstablishedStays DEF Core, ReconcilerIsCoherent
<1> QED
  BY <1>1, <1>2, <1>3 DEF Core, ReconcilerIsCoherent

\* A restart drops the reconcile and lists the object anew.
LEMMA CrashCore ==
    ASSUME Core, Crash
    PROVE  Core'
<1>1. crView' = cr /\ crSynced' = TRUE /\ cr' = cr /\ Idle
  BY DEF Crash, apiVars
<1>2. CopiesAreOlder'
  BY <1>1, NoObjectFacts, Zenon DEF Core, ReconcilerIsCoherent, CopiesAreOlder, Idle
<1>3. Established'
  BY <1>1 DEF Established, Idle
<1>4. (\A t \in {cr.status, crView.status, loc.status, staged} :
           ExplainsPhase(t) /\ ShowsVerdict(t))'
  BY <1>1, NoStatusGood, NoObjectFacts, Zenon DEF Core, ReconcilerIsCoherent, GoodStatus, Idle
<1> QED
  BY <1>1, <1>2, <1>3, <1>4, NoStatusGood, NoObjectFacts, Zenon
     DEF Core, ReconcilerIsCoherent, GoodStatus, Steps, Idle


\* A status that differs from the copy's in bookkeeping only may be staged.
LEMMA BookkeepingLegal ==
    ASSUME Core, NEW s \in Status,
           s.phase = loc.status.phase, s.finished = loc.status.finished,
           s.report = loc.status.report, s.history = loc.status.history
    PROVE  Legal(s)
<1>1. GoodStatus(loc.status)
  BY CoreStatuses
<1>2. GoodStatus(s)
  BY <1>1, Zenon DEF GoodStatus, ExplainsPhase, ShowsVerdict
<1>3. s.phase = "Terminating" => loc.deleting
  BY Zenon DEF Core, ReconcilerIsCoherent, CopiesAreOlder
<1> QED
  BY <1>2, <1>3 DEF Legal, AddsOneEntry, StartsIfAsked, KeepsVerdict, Terminal

\* The copy's status and generation have their types.
LEMMA LocFacts ==
    ASSUME Core
    PROVE  /\ loc.status \in Status /\ loc.generation \in Nat
           /\ loc.status.phase \in Phases /\ loc.status.observedGeneration \in Nat
           /\ lastRunAnchor(loc.status) \in Nat
<1>1. loc \in Objects
  BY DEF Core
<1>2. loc.status \in Status /\ loc.generation \in Nat
  BY <1>1 DEF Objects
<1>3. /\ loc.status.phase \in Phases /\ loc.status.observedGeneration \in Nat
      /\ loc.status.lastRun \in Times \cup {NoTime}
  BY <1>2 DEF Status
<1>4. lastRunAnchor(loc.status) \in Nat
  BY <1>3, LifecycleAssumptions DEF lastRunAnchor, Times
<1> QED
  BY <1>2, <1>3, <1>4

\* A read-only step changes neither the object nor the clock.
LEMMA ReadOnlyFrame ==
    ASSUME ReadOnly
    PROVE  UNCHANGED <<cr, crView, crSynced, now>>
BY DEF ReadOnly, apiVars, cacheVars, boundVars

\* startNextRun, from where reconcileTerminal decides to call it.
LEMMA StartNextRunCore ==
    ASSUME Core, pc = "dispatch", ReadOnly, startNextRun,
           ~loc.spec.suspend, loc.status.observedGeneration # 0,
           loc.spec.schedule # "Invalid",
           \/ loc.generation # loc.status.observedGeneration
           \/ loc.spec.schedule = "Valid" /\ now >= lastRunAnchor(loc.status) + Period
    PROVE  Core'
<1>1. CASE jobView.exists /\ jobView.deleting
  BY <1>1, IdleCore, ReadOnlyFrame DEF startNextRun, Retry, RequeueAt
<1>2. CASE jobView.exists /\ ~jobView.deleting
  BY <1>2, GoToCore, ReadOnlyFrame DEF startNextRun, Steps
<1>3. CASE ~jobView.exists
  <2> DEFINE s == [resetForNextRun(loc.status) EXCEPT !.phase = "Pending"]
  <2>1. StartsIfAsked(loc, s)
    BY DEF StartsIfAsked
  <2>2. Legal(s)
    BY <2>1, ResetLegal
  <2>3. StageThen(s, "done")
    BY <1>3 DEF startNextRun, Stage
  <2> HIDE DEF s
  <2> QED
    BY <2>2, <2>3, StageCore, ReadOnlyFrame
<1> QED
  BY <1>1, <1>2, <1>3

\* reconcileTerminal.
LEMMA TerminalCore ==
    ASSUME Core, now \in Nat, reconcileTerminal
    PROVE  Core'
<1> USE DEF AtTerminal, Settled, observed, drifted, nextDue
<1>1. CASE AdoptGeneration
  <2> DEFINE s == [loc.status EXCEPT !.observedGeneration = loc.generation]
  <2>1. /\ s \in Status /\ s.phase = loc.status.phase
        /\ s.finished = loc.status.finished /\ s.report = loc.status.report
        /\ s.history = loc.status.history
    BY LocFacts DEF Status
  <2>2. StageThen(s, "done") /\ pc = "dispatch" /\ ReadOnly
    BY <1>1 DEF AdoptGeneration, Stage
  <2> HIDE DEF s
  <2> QED
    BY <2>1, <2>2, BookkeepingLegal, StageCore, ReadOnlyFrame
<1>2. CASE parkSuspended
  <2> DEFINE s == [loc.status EXCEPT !.nextRun = NoTime,
                                     !.observedGeneration = loc.generation]
  <2>1. /\ s \in Status /\ s.phase = loc.status.phase
        /\ s.finished = loc.status.finished /\ s.report = loc.status.report
        /\ s.history = loc.status.history
    BY LocFacts, Zenon DEF Status, NoTime
  <2>2. Done \/ StageThen(s, "done")
    BY <1>2 DEF parkSuspended, Stage
  <2>3. pc = "dispatch" /\ ReadOnly
    BY <1>2 DEF parkSuspended
  <2> HIDE DEF s
  <2> QED
    BY <2>1, <2>2, <2>3, BookkeepingLegal, StageCore, IdleCore, ReadOnlyFrame DEF Done
<1>3. CASE restartForSpecChange
  <2>1. CASE loc.spec.schedule = "Invalid"
    <3>1. Legal(FailRun(loc.status, loc.generation, "ScheduleInvalid"))
      BY <1>3, FailLegal, Zenon DEF restartForSpecChange, AtTerminal, ErrorReasons
    <3> QED
      BY <1>3, <2>1, <3>1, StageCore, ReadOnlyFrame DEF restartForSpecChange, Stage
  <2>2. CASE loc.spec.schedule # "Invalid"
    BY <1>3, <2>2, StartNextRunCore DEF restartForSpecChange
  <2> QED
    BY <2>1, <2>2
<1>4. CASE StayFinished
  BY <1>4, IdleCore, ReadOnlyFrame DEF StayFinished, Done
<1>5. CASE PublishNextRun
  <2> DEFINE s == [loc.status EXCEPT !.nextRun = nextDue]
  <2>1. /\ s \in Status /\ s.phase = loc.status.phase
        /\ s.finished = loc.status.finished /\ s.report = loc.status.report
        /\ s.history = loc.status.history
    <3>1. nextDue \in Nat
      BY LocFacts, LifecycleAssumptions
    <3> QED
      BY <3>1, LocFacts DEF Status
  <2>2. RequeueAt(nextDue) \/ StageThen(s, "park")
    BY <1>5 DEF PublishNextRun
  <2>3. pc = "dispatch" /\ ReadOnly
    BY <1>5 DEF PublishNextRun
  <2> HIDE DEF s
  <2> QED
    BY <2>1, <2>2, <2>3, BookkeepingLegal, StageCore, IdleCore, ReadOnlyFrame
       DEF RequeueAt
<1>6. CASE StartScheduledRun
  <2>1. lastRunAnchor(loc.status) + Period <= now =>
          now >= lastRunAnchor(loc.status) + Period
    BY LocFacts, LifecycleAssumptions
  <2> QED
    BY <1>6, <2>1, StartNextRunCore DEF StartScheduledRun
<1> QED
  BY <1>1, <1>2, <1>3, <1>4, <1>5, <1>6 DEF reconcileTerminal


\* An unfinished run ends in Error.
LEMMA FailInFlightCore ==
    ASSUME Core, InFlight, ReadOnly, NEW reason \in ErrorReasons,
           Stage(FailRun(loc.status, loc.generation, reason))
    PROVE  Core'
<1>1. loc.status.phase \notin Terminal /\ pc = "dispatch"
  BY Zenon DEF InFlight
<1>2. Legal(FailRun(loc.status, loc.generation, reason))
  BY <1>1, FailLegal
<1> QED
  BY <1>1, <1>2, StageCore, ReadOnlyFrame DEF Stage

\* The reconcile of a run that has not finished.
LEMMA RunCore ==
    ASSUME Core, now \in Times, jobView \in Jobs, pods \subseteq Pods, ReconcileRun
    PROVE  Core'
<1>1. CASE FirstReconcile
  <2>1. pc = "dispatch" /\ loc.status.phase = "" /\ ReadOnly
    BY <1>1, Zenon DEF FirstReconcile
  <2>2. CASE loc.spec.schedule = "Invalid"
    <3>1. Legal(FailRun(loc.status, loc.generation, "ScheduleInvalid"))
      BY <2>1, FailLegal, Zenon DEF ErrorReasons
    <3> QED
      BY <1>1, <2>1, <2>2, <3>1, StageCore, ReadOnlyFrame, Zenon DEF FirstReconcile, Stage
  <2>3. CASE loc.spec.schedule # "Invalid"
    <3> DEFINE s == [loc.status EXCEPT !.phase = "Pending"]
    <3>1. /\ s \in Status /\ s.phase = "Pending" /\ s.report = loc.status.report
          /\ s.finished = loc.status.finished /\ s.history = loc.status.history
      BY LocFacts, Zenon DEF Status, Phases
    <3>2. StageThen(s, "done")
      BY <1>1, <2>3, Zenon DEF FirstReconcile, Stage
    <3>3. GoodStatus(loc.status)
      BY CoreStatuses
    <3> HIDE DEF s
    <3>4. GoodStatus(s)
      BY <2>1, <3>1, <3>3, Zenon DEF GoodStatus, ExplainsPhase, ShowsVerdict
    <3>5. Legal(s)
      BY <2>1, <3>1, <3>4, Zenon
         DEF Legal, AddsOneEntry, StartsIfAsked, KeepsVerdict, Terminal
    <3> QED
      BY <2>1, <3>2, <3>5, StageCore, ReadOnlyFrame, Zenon
  <2> QED
    BY <2>2, <2>3
<1>2. CASE JobVanished
  BY <1>2, FailInFlightCore DEF JobVanished, ErrorReasons
<1>3. CASE WaitForTarget
  <2>1. CASE now > ReadyTimeout
    BY <1>3, <2>1, FailInFlightCore DEF WaitForTarget, Unspawned, ErrorReasons
  <2>2. CASE ~(now > ReadyTimeout)
    BY <1>3, <2>2, IdleCore, ReadOnlyFrame DEF WaitForTarget, Retry, RequeueAt
  <2> QED
    BY <2>1, <2>2
<1>4. CASE FailSpawn
  <2>1. PICK reason \in SpawnFailures :
          Stage(FailRun(loc.status, loc.generation, reason))
    BY <1>4 DEF FailSpawn
  <2>2. reason \in ErrorReasons
    BY LifecycleAssumptions DEF ErrorReasons
  <2> QED
    BY <1>4, <2>1, <2>2, FailInFlightCore DEF FailSpawn, Unspawned
<1>5. CASE spawnJob
  <2>1. /\ pc = "dispatch" /\ ReadOnly /\ GoTo("createJob")
        /\ loc.status.phase \notin Terminal \cup {"", "Running"}
    BY <1>5, Zenon DEF spawnJob, Unspawned, InFlight
  <2>2. loc.finalizer /\ ~loc.deleting
    BY <2>1, Zenon DEF Core, ReconcilerIsCoherent, Established
  <2>3. loc.status.phase # "Terminating"
    BY <2>2 DEF Core, ReconcilerIsCoherent, CopiesAreOlder
  <2>4. loc.status.phase = "Pending"
    BY <2>1, <2>3, LocFacts, Zenon DEF Phases
  <2> QED
    BY <2>1, <2>2, <2>4, GoToCore, ReadOnlyFrame DEF Steps
<1>6. CASE CreateJob
  <2> DEFINE s == [loc.status EXCEPT !.lastRun = now, !.phase = "Running"]
  <2>1. /\ pc = "createJob" /\ loc.status.phase = "Pending"
        /\ StageThen(s, "done") /\ UNCHANGED <<cr, crView, crSynced, now>>
    BY <1>6 DEF CreateJob, Stage, boundVars, Core, ReconcilerIsCoherent, Established
  <2>2. /\ s \in Status /\ s.phase = "Running" /\ s.report = loc.status.report
        /\ s.finished = loc.status.finished /\ s.history = loc.status.history
    BY LocFacts, Zenon DEF Status, Phases
  <2>3. GoodStatus(loc.status)
    BY CoreStatuses
  <2> HIDE DEF s
  <2>4. GoodStatus(s)
    BY <2>1, <2>2, <2>3 DEF GoodStatus, ExplainsPhase, ShowsVerdict
  <2>5. Legal(s)
    BY <2>1, <2>2, <2>4, Zenon DEF Legal, AddsOneEntry, StartsIfAsked, KeepsVerdict, Terminal
  <2> QED
    BY <2>1, <2>5, StageCore
<1>7. CASE CreateJobExists
  BY <1>7, IdleCore, ReadOnlyFrame DEF CreateJobExists, Retry, RequeueAt
<1>8. CASE JobFailed
  BY <1>8, FailInFlightCore DEF JobFailed, ErrorReasons
<1>9. CASE FinishWithoutPod
  BY <1>9, FailInFlightCore DEF FinishWithoutPod, Collecting, Unreadable, ErrorReasons
<1>10. CASE finishRun
  <2>1. InFlight /\ ReadOnly
    BY <1>10 DEF finishRun, Collecting
  <2>2. PICK p \in pods :
          \/ Retry
          \/ Stage(Unreadable)
          \/ \E r \in Reports :
                Stage(FinishedStatus(loc.status, loc.generation, r, p.built))
    BY <1>10 DEF finishRun
  <2>3. CASE Retry
    BY <2>1, <2>3, IdleCore, ReadOnlyFrame DEF Retry, RequeueAt
  <2>4. CASE Stage(Unreadable)
    BY <2>1, <2>4, FailInFlightCore DEF Unreadable, ErrorReasons
  <2>5. CASE \E r \in Reports :
                Stage(FinishedStatus(loc.status, loc.generation, r, p.built))
    <3>1. PICK r \in Reports :
            Stage(FinishedStatus(loc.status, loc.generation, r, p.built))
      BY <2>5
    <3> DEFINE s == FinishedStatus(loc.status, loc.generation, r, p.built)
    <3>2. p.built \in Nat /\ loc.generation \in Nat /\ GoodStatus(loc.status)
      BY LocFacts, CoreStatuses DEF Pods
    <3>3. /\ GoodStatus(s) /\ s.phase \in {"Succeeded", "Failed"}
          /\ Len(s.history) = IF Len(loc.status.history) < HistoryLimit
                              THEN Len(loc.status.history) + 1 ELSE HistoryLimit
          /\ \A i \in 2 .. Len(s.history) : s.history[i] = loc.status.history[i - 1]
      BY <3>2, FinishedStatusGood, Zenon
    <3>4. StageThen(s, "done")
      BY <3>1 DEF Stage
    <3>5. loc.status.phase \in {"Pending", "Running"}
      <4>1. pc = "dispatch" /\ loc.status.phase \notin Terminal \cup {""}
        BY <2>1, Zenon DEF InFlight
      <4>2. loc.status.phase # "Terminating"
        BY <4>1, Zenon DEF Core, ReconcilerIsCoherent, Established, CopiesAreOlder
      <4> QED
        BY <4>1, <4>2, LocFacts, Zenon DEF Phases
    <3> HIDE DEF s
    <3>6. s.history[1] = [phase |-> s.phase, report |-> s.report]
      BY <3>3 DEF GoodStatus, ShowsVerdict
    <3>7. AddsOneEntry(loc.status, s)
      BY <3>3, <3>5, <3>6, Zenon DEF AddsOneEntry
    <3>8. Legal(s)
      BY <3>3, <3>5, <3>7, Zenon DEF Legal, StartsIfAsked, KeepsVerdict, Terminal
    <3> QED
      BY <2>1, <3>4, <3>8, StageCore, ReadOnlyFrame, Zenon DEF InFlight
  <2> QED
    BY <2>2, <2>3, <2>4, <2>5
<1> QED
  BY <1>1, <1>2, <1>3, <1>4, <1>5, <1>6, <1>7, <1>8, <1>9, <1>10 DEF ReconcileRun


\* maybeInjectDisruption.
LEMMA DisruptionCore ==
    ASSUME Core, maybeInjectDisruption
    PROVE  Core'
<1>1. Disrupted \in Status /\ Disrupted.phase = loc.status.phase
        /\ Disrupted.finished = loc.status.finished
        /\ Disrupted.report = loc.status.report
        /\ Disrupted.history = loc.status.history
  BY LocFacts, Zenon DEF Disrupted, Status
<1>2. Legal(Disrupted)
  BY <1>1, BookkeepingLegal
<1>3. CASE NothingToDisrupt
  BY <1>3, IdleCore, ReadOnlyFrame DEF NothingToDisrupt, Done
<1>4. CASE WaitToDisrupt
  BY <1>4, IdleCore, ReadOnlyFrame DEF WaitToDisrupt, RequeueAt
<1>5. CASE DecideDisruption
  <2>1. pc = "dispatch" /\ ReadOnly /\ (GoTo("killPod") \/ StageThen(Disrupted, "done"))
    BY <1>5, Zenon DEF DecideDisruption, JobInFlight, InFlight, Stage
  <2>2. loc.finalizer /\ ~loc.deleting
    BY <2>1, Zenon DEF Core, ReconcilerIsCoherent, Established
  <2>3. CASE GoTo("killPod")
    BY <2>1, <2>2, <2>3, GoToCore, ReadOnlyFrame DEF Steps
  <2>4. CASE StageThen(Disrupted, "done")
    BY <1>2, <2>1, <2>4, StageCore, ReadOnlyFrame
  <2> QED
    BY <2>1, <2>3, <2>4
<1>6. CASE KillPod
  <2>1. pc = "killPod" /\ StageThen(Disrupted, "done")
          /\ UNCHANGED <<cr, crView, crSynced, now>>
    BY <1>6 DEF KillPod, Stage, apiVars, cacheVars, boundVars
  <2> QED
    BY <1>2, <2>1, StageCore
<1> QED
  BY <1>3, <1>4, <1>5, <1>6 DEF maybeInjectDisruption

\* A rejected update only ends the reconcile.
LEMMA ConflictCore ==
    ASSUME Core, NEW step, Conflict(step)
    PROVE  Core'
BY IdleCore, ReadOnlyFrame DEF Conflict, Retry, RequeueAt

\* finalize.
LEMMA FinalizeCore ==
    ASSUME Core, finalize
    PROVE  Core'
<1>1. CASE FinalizeJob
  <2> DEFINE s == [loc.status EXCEPT !.phase = "Terminating"]
  <2>1. pc = "finalize" /\ ReadOnly
    BY <1>1 DEF FinalizeJob
  <2>2. \/ \E next \in {"requeue", "deleteJob"} : StageThen(s, next)
        \/ Retry
        \/ GoTo("deleteJob")
    BY <1>1 DEF FinalizeJob
  <2>3. loc.deleting
    BY <2>1 DEF Core, ReconcilerIsCoherent, Established
  <2>4. /\ s \in Status /\ s.phase = "Terminating" /\ s.history = loc.status.history
    BY LocFacts, Zenon DEF Status, Phases
  <2>5. GoodStatus(loc.status)
    BY CoreStatuses
  <2> HIDE DEF s
  <2>6. GoodStatus(s)
    BY <2>4, <2>5, Zenon DEF GoodStatus, ExplainsPhase, ShowsVerdict
  <2>7. Legal(s)
    BY <2>3, <2>4, <2>6, Zenon DEF Legal, AddsOneEntry, StartsIfAsked, KeepsVerdict
  <2>8. CASE \E next \in {"requeue", "deleteJob"} : StageThen(s, next)
    BY <2>1, <2>7, <2>8, StageCore, ReadOnlyFrame
  <2>9. CASE Retry
    BY <2>1, <2>9, IdleCore, ReadOnlyFrame DEF Retry, RequeueAt
  <2>10. CASE GoTo("deleteJob")
    BY <2>1, <2>10, GoToCore, ReadOnlyFrame DEF Steps
  <2> QED
    BY <2>2, <2>8, <2>9, <2>10
<1>2. CASE DeleteJob
  BY <1>2, IdleCore DEF DeleteJob, Retry, RequeueAt
<1>3. CASE FinalizeDone
  <2>1. pc = "finalize" /\ ReadOnly /\ GoTo("removeFinalizer")
    BY <1>3 DEF FinalizeDone
  <2>2. loc.deleting
    BY <2>1 DEF Core, ReconcilerIsCoherent, Established
  <2> QED
    BY <2>1, <2>2, GoToCore, ReadOnlyFrame DEF Steps
<1> QED
  BY <1>1, <1>2, <1>3, RemoveFinalizerCore, ConflictCore DEF finalize

\* Every step of the specification leaves the core in order.
LEMMA CoreStep ==
    ASSUME Inv, Next
    PROVE  Core'
<1> USE DEF Inv
<1>1. now \in Nat /\ now \in Times /\ jobView \in Jobs /\ pods \subseteq Pods
        /\ then \in {"done", "requeue", "park", "deleteJob"}
  BY LifecycleAssumptions DEF Surroundings, Times
<1>2. CASE Worker
  BY <1>1, <1>2, ReconcileCore, AddFinalizerCore, WriteStatusCore, ConflictCore,
     TerminalCore, RunCore, DisruptionCore, FinalizeCore DEF Worker
<1>3. CASE Informers
  <2>1. CASE DeliverJob
    BY <1>1, <2>1, FrameCore DEF DeliverJob, apiVars, workerVars, boundVars
  <2> QED
    BY <1>3, <2>1, DeliverCRCore DEF Informers
<1>4. CASE TimerFires
  BY <1>1, <1>4, FrameCore DEF TimerFires, apiVars, cacheVars, workerVars, boundVars
<1>5. CASE Tick
  <2>1. now' \in Nat /\ now <= now'
    BY <1>1, <1>5 DEF Tick
  <2> QED
    BY <1>1, <1>5, <2>1, FrameCore DEF Tick, apiVars, cacheVars, workerVars
<1>6. CASE Cluster
  <2>1. ASSUME NEW j, NEW ps, ClusterStep(j, ps) PROVE Core'
    BY <1>1, <2>1, FrameCore DEF ClusterStep, workerVars, boundVars
  <2> QED
    BY <1>6, <2>1, Zenon DEF Cluster, StartPod, FinishLoad, ObserverExit, EndJob, RemoveJob,
                      ReapPod, CollectJob
<1>7. CASE Faults
  <2>1. CASE ApiError
    BY <2>1, IdleCore DEF ApiError, Retry, RequeueAt, apiVars, cacheVars
  <2>2. CASE OutsideJobDelete
    BY <1>1, <2>2, FrameCore DEF OutsideJobDelete, Fault, Upset, workerVars
  <2>3. CASE LosePod
    BY <1>1, <2>3, FrameCore DEF LosePod, Fault, Upset, workerVars, cacheVars
  <2> QED
    BY <1>7, <2>1, <2>2, <2>3, CrashCore DEF Faults
<1>8. CASE User
  BY <1>8, EditSpecCore, DeleteCRCore DEF User
<1> QED
  BY <1>2, <1>3, <1>4, <1>5, <1>6, <1>7, <1>8 DEF Next


-----------------------------------------------------------------------------
(* The other half: the types of what surrounds the object.                 *)

QueueOK ==
    /\ queued \in BOOLEAN /\ wakeAt \in Nat \cup {NoTime}
    /\ then \in {"done", "requeue", "park", "deleteJob"}

\* However a step of the reconcile ends, the queue keeps its type.
LEMMA StepEnds ==
    ASSUME QueueOK
    PROVE  /\ Done => QueueOK'
           /\ \A t \in Nat \cup {NoTime} : RequeueAt(t) => QueueOK'
           /\ now \in Nat /\ Retry => QueueOK'
           /\ \A s : Stage(s) => QueueOK'
           /\ \A s : \A next \in {"done", "requeue", "park", "deleteJob"} :
                StageThen(s, next) => QueueOK'
           /\ \A step : GoTo(step) => QueueOK'
BY DEF QueueOK, Done, RequeueAt, Retry, Stage, StageThen, GoTo, Idle, queueVars,
       Earliest, NoTime

\* A step of the worker leaves the queue and the counters in order.
LEMMA WorkerSurroundings ==
    ASSUME Inv, Worker
    PROVE  Surroundings'
<1>1. QueueOK /\ now \in Nat
  BY LifecycleAssumptions DEF Inv, Surroundings, QueueOK, Times
<1>2. ASSUME ReadOnly, QueueOK' PROVE Surroundings'
  BY <1>2 DEF Inv, Surroundings, ReadOnly, QueueOK, apiVars, cacheVars, boundVars
<1>3. nextDue \in Nat /\ triggerPoint \in Nat
  BY LocFacts, LifecycleAssumptions DEF Inv, nextDue, triggerPoint
<1>4. CASE Reconcile
  BY <1>1, <1>2, <1>4, Zenon DEF Reconcile, QueueOK
<1>5. CASE AddFinalizer
  BY <1>5 DEF AddFinalizer, UpdateObject, Inv, Surroundings, queueVars, boundVars
<1>6. ASSUME NEW step, Conflict(step) PROVE Surroundings'
  BY <1>1, <1>2, <1>6, StepEnds DEF Conflict
<1>7. CASE WriteStatus
  <2>1. staged.nextRun \in Nat \cup {NoTime}
    BY DEF Inv, Core, Status
  <2>2. \/ Done \/ Retry \/ RequeueAt(staged.nextRun)
        \/ then' = "done" /\ UNCHANGED queueVars
    BY <1>1, <1>7, Zenon DEF WriteStatus, QueueOK
  <2>3. QueueOK'
    BY <1>1, <2>1, <2>2, StepEnds, Zenon DEF QueueOK, queueVars
  <2> QED
    BY <1>7, <2>3 DEF WriteStatus, UpdateObject, Inv, Surroundings, boundVars, QueueOK
<1>8. CASE reconcileTerminal
  <2>1. startNextRun => QueueOK'
    BY <1>1, StepEnds DEF startNextRun
  <2>2. ReadOnly
    BY <1>8 DEF reconcileTerminal, AdoptGeneration, parkSuspended,
                restartForSpecChange, StayFinished, PublishNextRun, StartScheduledRun
  <2>3. QueueOK'
    BY <1>1, <1>3, <1>8, <2>1, StepEnds
       DEF reconcileTerminal, AdoptGeneration, parkSuspended,
           restartForSpecChange, StayFinished, PublishNextRun, StartScheduledRun
  <2> QED
    BY <1>2, <2>2, <2>3
<1>9. CASE ReconcileRun
  <2>1. CASE CreateJob
    <3>1. QueueOK'
      BY <1>1, <2>1, StepEnds DEF CreateJob
    <3>2. job' \in Jobs
      <4>1. loc.generation \in Nat
        BY LocFacts DEF Inv
      <4> QED
        BY <2>1, <4>1, Zenon DEF CreateJob, NoJob, Jobs
    <3>3. /\ jobSynced' = FALSE /\ kills' = 0
          /\ jobView' = jobView /\ pods' = pods /\ now' = now /\ upsets' = upsets
      BY <2>1, Zenon DEF CreateJob, boundVars
    <3>4. jobSynced' \in BOOLEAN
      BY <3>3, Zenon
    <3>5. kills' \in 0 .. 2
      BY <3>3
    <3> QED
      BY <3>1, <3>2, <3>3, <3>4, <3>5 DEF Inv, Surroundings, QueueOK, boundVars
  <2>2. CASE ~CreateJob
    <3>1. ReadOnly
      BY <1>9, <2>2, Zenon DEF ReconcileRun, FirstReconcile, JobVanished, WaitForTarget,
           FailSpawn, spawnJob, CreateJobExists, JobFailed, FinishWithoutPod, finishRun
    <3>2. QueueOK'
      BY <1>1, <1>9, <2>2, StepEnds, Zenon DEF ReconcileRun, FirstReconcile, JobVanished,
           WaitForTarget, FailSpawn, spawnJob, CreateJobExists, JobFailed,
           FinishWithoutPod, finishRun
    <3> QED
      BY <1>2, <3>1, <3>2
  <2> QED
    BY <2>1, <2>2
<1>10. CASE maybeInjectDisruption
  <2>1. QueueOK'
    BY <1>1, <1>3, <1>10, StepEnds DEF maybeInjectDisruption, NothingToDisrupt,
         WaitToDisrupt, DecideDisruption, KillPod
  <2>2. CASE KillPod
    <3>1. kills' \in 0 .. 2
      BY <2>2 DEF KillPod, Inv, Surroundings
    <3> QED
      BY <2>1, <2>2, <3>1
         DEF KillPod, Inv, Surroundings, QueueOK, apiVars, cacheVars, boundVars
  <2> QED
    BY <1>2, <1>10, <2>1, <2>2
       DEF maybeInjectDisruption, NothingToDisrupt, WaitToDisrupt, DecideDisruption
<1>11. CASE finalize
  <2>1. CASE FinalizeJob
    BY <1>1, <1>2, <2>1, StepEnds DEF FinalizeJob
  <2>2. CASE DeleteJob
    <3>1. job' \in Jobs /\ jobSynced' \in BOOLEAN
      BY <2>2 DEF DeleteJob, Inv, Surroundings, Jobs
    <3>2. QueueOK'
      BY <1>1, <2>2, StepEnds DEF DeleteJob
    <3> QED
      BY <2>2, <3>1, <3>2 DEF DeleteJob, Inv, Surroundings, QueueOK, boundVars
  <2>3. CASE FinalizeDone
    BY <1>1, <1>2, <2>3, StepEnds DEF FinalizeDone
  <2>4. CASE RemoveFinalizer
    <3>1. QueueOK'
      BY <1>1, <2>4, StepEnds DEF RemoveFinalizer
    <3> QED
      BY <2>4, <3>1
         DEF RemoveFinalizer, UpdateObject, Inv, Surroundings, QueueOK, boundVars
  <2> QED
    BY <1>6, <1>11, <2>1, <2>2, <2>3, <2>4 DEF finalize
<1> QED
  BY <1>4, <1>5, <1>6, <1>7, <1>8, <1>9, <1>10, <1>11 DEF Worker


\* Every step of the specification keeps the types of what surrounds the object.
LEMMA SurroundingsStep ==
    ASSUME Inv, Next
    PROVE  Surroundings'
<1>1. Surroundings /\ QueueOK /\ now \in Nat
  BY LifecycleAssumptions DEF Inv, Surroundings, QueueOK, Times
<1>2. CASE Informers
  BY <1>1, <1>2, Zenon DEF Informers, DeliverCR, DeliverJob, Surroundings, apiVars,
                    workerVars, boundVars
<1>3. CASE TimerFires
  BY <1>1, <1>3 DEF TimerFires, Surroundings, apiVars, cacheVars, workerVars, boundVars
<1>4. CASE Tick
  <2>1. now' \in Times
    BY <1>1, <1>4, LifecycleAssumptions DEF Tick, Times
  <2> QED
    BY <1>1, <1>4, <2>1
       DEF Tick, Surroundings, apiVars, cacheVars, queueVars, workerVars
<1>5. CASE Cluster
  <2>1. ASSUME NEW j \in Jobs, NEW ps \in SUBSET Pods, ClusterStep(j, ps)
        PROVE  Surroundings'
    BY <1>1, <2>1 DEF ClusterStep, Surroundings, queueVars, workerVars, boundVars
  <2>2. job \in Jobs /\ pods \in SUBSET Pods
    BY <1>1 DEF Surroundings
  <2>3. CASE StartPod
    <3>1. [job EXCEPT !.cond = "Active"] \in Jobs /\ PodOf(job.built) \in Pods
      BY <2>2 DEF Jobs, PodOf, Pods
    <3> QED
      BY <2>1, <2>2, <2>3, <3>1 DEF StartPod
  <2>4. CASE FinishLoad
    <3>1. PICK p \in pods :
            ClusterStep(job, (pods \ {p}) \cup {[p EXCEPT !.state = "Observing"]})
      BY <2>4 DEF FinishLoad
    <3>2. [p EXCEPT !.state = "Observing"] \in Pods
      BY <2>2 DEF Pods
    <3> QED
      BY <2>1, <2>2, <3>1, <3>2
  <2>5. CASE ObserverExit
    <3>1. PICK p \in pods :
            ClusterStep(job, (pods \ {p}) \cup {[p EXCEPT !.state = "Done"]})
      BY <2>5 DEF ObserverExit
    <3>2. [p EXCEPT !.state = "Done"] \in Pods
      BY <2>2 DEF Pods
    <3> QED
      BY <2>1, <2>2, <3>1, <3>2
  <2>6. CASE EndJob
    <3>1. PICK c \in {"Failed", "Complete"} : ClusterStep([job EXCEPT !.cond = c], pods)
      BY <2>6 DEF EndJob
    <3>2. [job EXCEPT !.cond = c] \in Jobs
      BY <2>2 DEF Jobs
    <3> QED
      BY <2>1, <2>2, <3>1, <3>2
  <2>7. CASE RemoveJob
    <3>1. NoJob \in Jobs
      BY DEF NoJob, Jobs
    <3>2. \A p \in pods : [p EXCEPT !.orphan = TRUE] \in Pods
      BY <2>2, Zenon DEF Pods
    <3>3. {[p EXCEPT !.orphan = TRUE] : p \in pods} \subseteq Pods
      BY <3>2, Zenon
    <3> QED
      BY <2>1, <2>7, <3>1, <3>3 DEF RemoveJob
  <2>8. CASE ReapPod
    <3>1. PICK p \in pods : ClusterStep(job, pods \ {p})
      BY <2>8 DEF ReapPod
    <3> QED
      BY <2>1, <2>2, <3>1
  <2>9. CASE CollectJob
    <3>1. [job EXCEPT !.deleting = TRUE] \in Jobs
      BY <2>2, Zenon DEF Jobs
    <3> QED
      BY <2>1, <2>2, <2>9, <3>1 DEF CollectJob
  <2> QED
    BY <1>5, <2>3, <2>4, <2>5, <2>6, <2>7, <2>8, <2>9 DEF Cluster
<1>6. ASSUME Upset PROVE upsets' \in 0 .. MaxUpsets /\ now' = now
  BY <1>1, <1>6, LifecycleAssumptions DEF Upset, Surroundings
<1>7. CASE Faults
  <2>1. CASE ApiError
    <3>1. QueueOK'
      BY <1>1, <2>1, StepEnds DEF ApiError
    <3> QED
      BY <1>1, <1>6, <2>1, <3>1 DEF Fault, ApiError, Surroundings, QueueOK, apiVars, cacheVars
  <2>2. CASE Crash
    <3>1. cr \in Objects
      BY DEF Inv, Core
    <3>2. (cr.exists \/ job.exists) \in BOOLEAN
      OBVIOUS
    <3> QED
      BY <1>1, <1>6, <2>2, <3>2 DEF Fault, Crash, Idle, Surroundings, apiVars
  <2>3. CASE OutsideJobDelete
    <3>1. [job EXCEPT !.deleting = TRUE] \in Jobs
      BY <1>1, Zenon DEF Surroundings, Jobs
    <3> QED
      BY <1>1, <1>6, <2>3, <3>1, Zenon DEF Fault, OutsideJobDelete, Surroundings, queueVars, workerVars
  <2>4. CASE LosePod
    BY <1>1, <1>6, <2>4 DEF Fault, LosePod, Surroundings, cacheVars, queueVars, workerVars
  <2> QED
    BY <1>7, <2>1, <2>2, <2>3, <2>4 DEF Faults
<1>8. CASE User
  <2>1. ASSUME NEW o, ForeignUpdate(o) PROVE Surroundings'
    BY <1>1, <1>6, <2>1 DEF ForeignUpdate, Surroundings, queueVars
  <2> QED
    BY <1>8, <2>1, Zenon DEF User, EditSpec, DeleteCR
<1> QED
  BY <1>2, <1>3, <1>4, <1>5, <1>7, <1>8, WorkerSurroundings DEF Next


-----------------------------------------------------------------------------
(* The invariant is inductive.                                             *)

\* A new validation is an object, with a good status.
LEMMA NewObjectFacts ==
    ASSUME NEW spec \in Specs
    PROVE  /\ NewObject(spec) \in Objects
           /\ NewObject(spec).exists /\ ~NewObject(spec).deleting
           /\ NewObject(spec).status = NoStatus
<1>1. NoObject \in Objects /\ NoObject.status = NoStatus /\ ~NoObject.deleting
  BY NoObjectFacts, Zenon DEF NoObject
<1>2. NewObject(spec) \in Objects
  BY <1>1, Zenon DEF NewObject, Objects
<1>3. /\ NewObject(spec).exists /\ ~NewObject(spec).deleting
      /\ NewObject(spec).status = NoStatus
  BY <1>1 DEF NewObject, Objects
<1> QED
  BY <1>2, <1>3

\* A validation that an older release finished has a good status.
LEMMA LegacyGood ==
    ASSUME NEW spec \in Specs, NEW r \in Reports
    PROVE  /\ LegacyObject(spec, r) \in Objects
           /\ GoodStatus(LegacyObject(spec, r).status)
           /\ LegacyObject(spec, r).exists /\ ~LegacyObject(spec, r).deleting
           /\ LegacyObject(spec, r).status.phase # "Terminating"
<1> DEFINE phase == finishedVerdict(r).phase
           h == <<[phase |-> phase, report |-> r]>>
           s == [NoStatus EXCEPT !.phase = phase, !.lastRun = 0, !.report = r,
                                 !.source = 1, !.history = h]
<1>1. phase \in {"Succeeded", "Failed"} /\ r # NoReport /\ h \in Seq(Entry)
      /\ Len(h) = 1 /\ h[1] = [phase |-> phase, report |-> r] /\ h # <<>>
  BY ReportFacts
<1>2. phase = "Failed" <=> "Fail" \in {r.sla, r.traffic}
  BY DEF finishedVerdict
<1>3. 0 \in Times /\ HistoryLimit >= 1
  BY LifecycleAssumptions DEF Times
<1>4. NoStatus \in Status /\ NoStatus.finished = "Absent"
  BY NoStatusGood, Zenon DEF GoodStatus, NoStatus
<1>5. LegacyObject(spec, r) =
        [NewObject(spec) EXCEPT !.finalizer = TRUE, !.status = s]
  BY DEF LegacyObject
<1> HIDE DEF phase, h
<1>6. /\ s \in Status /\ s.phase = phase /\ s.report = r /\ s.history = h
      /\ s.finished = "Absent"
  BY <1>1, <1>3, <1>4, Zenon DEF Status, Phases, Terminal
<1>7. GoodStatus(s) /\ s.phase # "Terminating"
  <2>1. ExplainsPhase(s)
    BY <1>1, <1>2, <1>6, Zenon DEF ExplainsPhase
  <2>2. ShowsVerdict(s)
    BY <1>1, <1>3, <1>6, LifecycleAssumptions, Zenon DEF ShowsVerdict
  <2> QED
    BY <1>1, <1>6, <2>1, <2>2 DEF GoodStatus
<1> HIDE DEF s
<1> QED
  BY <1>5, <1>6, <1>7, NewObjectFacts, Zenon DEF Objects

\* The invariant holds of every initial state.
LEMMA InitInv == Init => Inv
<1> SUFFICES ASSUME Init PROVE Inv
  OBVIOUS
<1>1. /\ cr \in Objects /\ GoodStatus(cr.status) /\ cr.exists /\ ~cr.deleting
      /\ cr.status.phase # "Terminating"
  <2>1. CASE \E spec \in Specs : cr = NewObject(spec)
    <3>1. NoStatus.phase # "Terminating"
      BY DEF NoStatus
    <3> QED
      BY <2>1, <3>1, NoStatusGood, NewObjectFacts
  <2>2. CASE \E spec \in Legacies, r \in Reports : cr = LegacyObject(spec, r)
    <3>1. PICK spec \in Legacies, r \in Reports : cr = LegacyObject(spec, r)
      BY <2>2
    <3>2. spec \in Specs
      BY LifecycleAssumptions
    <3> QED
      BY <3>1, <3>2, LegacyGood, Zenon
  <2> QED
    BY <2>1, <2>2 DEF Init
<1>2. /\ crView = NoObject /\ loc = NoObject /\ staged = NoStatus /\ pc = "idle"
      /\ ~crSynced /\ ~current /\ crSynced \in BOOLEAN /\ current \in BOOLEAN
  BY Zenon DEF Init
<1>3. GoodStatus(NoStatus) /\ NoObject.status = NoStatus
  BY NoStatusGood DEF NoObject
<1>4. CopiesAreOlder
  BY <1>1, <1>2, NoObjectFacts, Zenon DEF CopiesAreOlder
<1>5. Established
  BY <1>2 DEF Established
<1>6. Core
  <2>1. \A s \in {cr.status, crView.status, loc.status, staged} :
           ExplainsPhase(s) /\ ShowsVerdict(s)
    BY <1>1, <1>2, <1>3 DEF GoodStatus
  <2>2. cr \in Objects /\ crView \in Objects /\ loc \in Objects /\ staged \in Status
    BY <1>1, <1>2, <1>3, NoObjectFacts, Zenon DEF GoodStatus
  <2>3. pc \in Steps
    BY <1>2 DEF Steps
  <2> QED
    BY <1>2, <1>4, <1>5, <2>1, <2>2, <2>3 DEF Core, ReconcilerIsCoherent
<1>7. Surroundings
  <2>1. NoJob \in Jobs
    BY DEF NoJob, Jobs
  <2>2. now \in Times /\ upsets \in 0 .. MaxUpsets /\ kills \in 0 .. 2
    BY LifecycleAssumptions DEF Init, Times
  <2>3. jobSynced \in BOOLEAN /\ queued \in BOOLEAN
    BY Zenon DEF Init
  <2> QED
    BY <2>1, <2>2, <2>3 DEF Init, Surroundings
<1> QED
  BY <1>6, <1>7 DEF Inv

\* Every step, and every stuttering step, keeps it.
LEMMA InvStep == Inv /\ [Next]_vars => Inv'
<1>1. ASSUME Inv, Next PROVE Inv'
  BY <1>1, CoreStep, SurroundingsStep DEF Inv
<1>2. ASSUME Inv, UNCHANGED vars PROVE Inv'
  <2> USE <1>2 DEF vars, apiVars, cacheVars, queueVars, workerVars, boundVars
  <2>1. CopiesAreOlder'
    BY Zenon DEF Inv, Core, ReconcilerIsCoherent, CopiesAreOlder
  <2>2. Established'
    BY Zenon DEF Inv, Core, ReconcilerIsCoherent, Established, StartsIfAsked
  <2>3. Core'
    BY <2>1, <2>2 DEF Inv, Core, ReconcilerIsCoherent
  <2>4. Surroundings'
    BY DEF Inv, Surroundings
  <2> QED
    BY <2>3, <2>4 DEF Inv
<1> QED
  BY <1>1, <1>2

\* The invariant always holds.
THEOREM Invariance == Spec => []Inv
BY InitInv, InvStep, PTL DEF Spec


-----------------------------------------------------------------------------
(* What holds in every state.                                              *)

\* Every variable keeps its type: no status, cached, staged or written, holds
\* a phase, reason or time the API does not define.
THEOREM TypeCorrect == Spec => []TypeOK
<1>1. Inv => TypeOK
  BY InvSplits
<1> QED
  BY <1>1, Invariance, PTL

\* The copies the reconciler works from are as coherent as the object, and
\* what it is about to write is a legal successor of the copy it read.
THEOREM CoherentReconciler == Spec => []ReconcilerIsCoherent
<1>1. Inv => ReconcilerIsCoherent
  BY InvSplits
<1> QED
  BY <1>1, Invariance, PTL

\* The Finished condition agrees with the phase, and the phase with the report.
THEOREM FinishedTellsPhase == Spec => []FinishedExplainsPhase
<1>1. Inv => FinishedExplainsPhase
  BY CoreStatuses DEF Inv, FinishedExplainsPhase, GoodStatus
<1> QED
  BY <1>1, Invariance, PTL

\* The history is bounded and begins with the verdict on display.
THEOREM HistoryLeadsWithVerdict == Spec => []HistoryShowsVerdict
<1>1. Inv => HistoryShowsVerdict
  BY CoreStatuses DEF Inv, HistoryShowsVerdict, GoodStatus
<1> QED
  BY <1>1, Invariance, PTL

-----------------------------------------------------------------------------
(* What no step does.                                                      *)

\* A step leaves the status alone, removes the object, or is the status write
\* of a reconcile whose copy is the server's object.
LEMMA ObjectChanges ==
    ASSUME Inv, [Next]_vars
    PROVE  \/ cr'.status = cr.status /\ cr'.exists = cr.exists
           \/ cr' = NoObject
           \/ /\ pc = "writeStatus" /\ loc = cr
              /\ cr'.status = staged /\ cr'.exists = cr.exists
<1>1. cr \in Objects /\ (current => loc = cr)
  BY Zenon DEF Inv, Core, ReconcilerIsCoherent, CopiesAreOlder
<1>2. CASE AddFinalizer
  BY <1>1, <1>2 DEF AddFinalizer, UpdateObject, Objects
<1>3. CASE WriteStatus
  <2>1. cr' = [cr EXCEPT !.status = staged] /\ pc = "writeStatus" /\ current
    BY <1>3 DEF WriteStatus, UpdateObject
  <2> QED
    BY <1>1, <2>1 DEF Objects
<1>4. CASE RemoveFinalizer
  BY <1>4 DEF RemoveFinalizer, UpdateObject
<1>5. CASE User
  BY <1>1, <1>5, Zenon DEF User, EditSpec, DeleteCR, ForeignUpdate, Objects
<1>6. CASE UNCHANGED cr
  BY <1>6
<1>7. CASE Worker /\ ~AddFinalizer /\ ~WriteStatus /\ ~RemoveFinalizer
  <2>1. \/ ReadOnly \/ CreateJob \/ KillPod \/ DeleteJob
    BY <1>7, Zenon
       DEF Worker, Reconcile, Conflict, reconcileTerminal, AdoptGeneration,
           parkSuspended, restartForSpecChange, StayFinished, PublishNextRun,
           StartScheduledRun, ReconcileRun, FirstReconcile, JobVanished,
           WaitForTarget, FailSpawn, spawnJob, CreateJobExists, JobFailed,
           FinishWithoutPod, finishRun, maybeInjectDisruption, NothingToDisrupt,
           WaitToDisrupt, DecideDisruption, finalize, FinalizeJob, FinalizeDone
  <2> QED
    BY <1>6, <2>1, ReadOnlyFrame DEF CreateJob, KillPod, DeleteJob, apiVars
<1>8. CASE Informers \/ TimerFires \/ Tick \/ Cluster \/ Faults
  <2>1. ASSUME NEW j, NEW ps, ClusterStep(j, ps) PROVE UNCHANGED cr
    BY <2>1 DEF ClusterStep
  <2>2. Cluster => UNCHANGED cr
    BY <2>1, Zenon DEF Cluster, StartPod, FinishLoad, ObserverExit, EndJob, RemoveJob,
                ReapPod, CollectJob
  <2>3. Faults => UNCHANGED cr
    BY DEF Faults, ApiError, Crash, OutsideJobDelete, LosePod, apiVars
  <2>4. Informers \/ TimerFires \/ Tick => UNCHANGED cr
    BY DEF Informers, DeliverCR, DeliverJob, TimerFires, Tick, apiVars
  <2> QED
    BY <1>6, <1>8, <2>2, <2>3, <2>4
<1> QED
  BY <1>2, <1>3, <1>4, <1>5, <1>6, <1>7, <1>8 DEF Next, vars, apiVars

\* What the reconciler knows of the status it writes, it knows of the object.
LEMMA WritesAreLegal ==
    ASSUME Inv, [Next]_vars
    PROVE  /\ cr'.exists => AddsOneEntry(cr.status, cr'.status)
           /\ cr'.exists => KeepsVerdict(cr.status, cr'.status)
           /\ StartsIfAsked(cr, cr'.status)
<1>1. CASE cr'.status = cr.status
  BY <1>1 DEF AddsOneEntry, KeepsVerdict, StartsIfAsked, Terminal
<1>2. CASE cr' = NoObject
  BY <1>2, NoObjectFacts, Zenon DEF StartsIfAsked
<1>3. CASE pc = "writeStatus" /\ loc = cr /\ cr'.status = staged
  BY <1>3, Zenon DEF Inv, Core, ReconcilerIsCoherent, Established
<1> QED
  BY <1>1, <1>2, <1>3, ObjectChanges, Zenon

\* A run enters the history once, with its verdict; no entry is rewritten.
THEOREM OneEntry == Spec => OneEntryPerRun
<1>1. Inv /\ [Next]_vars => [cr'.exists => AddsOneEntry(cr.status, cr'.status)]_vars
  BY WritesAreLegal
<1> QED
  BY <1>1, Invariance, PTL DEF Spec, OneEntryPerRun

\* A finished validation runs again only when its spec or schedule asks for it.
THEOREM AskedFor == Spec => RunsAreAskedFor
<1>1. Inv /\ [Next]_vars => [StartsIfAsked(cr, cr'.status)]_vars
  BY WritesAreLegal
<1> QED
  BY <1>1, Invariance, PTL DEF Spec, RunsAreAskedFor

\* A verdict stands until a new run resets it.
THEOREM FinalVerdict == Spec => VerdictIsFinal
<1>1. Inv /\ [Next]_vars => [cr'.exists => KeepsVerdict(cr.status, cr'.status)]_vars
  BY WritesAreLegal
<1> QED
  BY <1>1, Invariance, PTL DEF Spec, VerdictIsFinal

\* A Job appears only when the reconciler creates it.
LEMMA JobAppears ==
    ASSUME Inv, [Next]_vars, job'.exists, ~job.exists
    PROVE  pc = "createJob"
<1>1. job \in Jobs
  BY DEF Inv, Surroundings
<1>2. CASE CreateJob
  BY <1>2 DEF CreateJob
<1>3. CASE UNCHANGED job
  BY <1>3
<1>4. CASE DeleteJob
  BY <1>1, <1>4 DEF DeleteJob, Jobs
<1>5. CASE Worker /\ ~CreateJob /\ ~DeleteJob
  <2>1. \/ ReadOnly \/ AddFinalizer \/ WriteStatus \/ RemoveFinalizer \/ KillPod
    BY <1>5, Zenon
       DEF Worker, Reconcile, Conflict, reconcileTerminal, AdoptGeneration,
           parkSuspended, restartForSpecChange, StayFinished, PublishNextRun,
           StartScheduledRun, ReconcileRun, FirstReconcile, JobVanished,
           WaitForTarget, FailSpawn, spawnJob, CreateJobExists, JobFailed,
           FinishWithoutPod, finishRun, maybeInjectDisruption, NothingToDisrupt,
           WaitToDisrupt, DecideDisruption, finalize, FinalizeJob, FinalizeDone
  <2>2. ReadOnly \/ KillPod => UNCHANGED job
    BY DEF ReadOnly, KillPod, apiVars
  <2>3. ASSUME NEW o, UpdateObject(o) PROVE UNCHANGED job
    BY <2>3 DEF UpdateObject
  <2> QED
    BY <1>3, <2>1, <2>2, <2>3, Zenon DEF AddFinalizer, WriteStatus, RemoveFinalizer
<1>6. CASE Cluster
  <2>1. ASSUME NEW j, NEW ps, ClusterStep(j, ps) PROVE job' = j
    BY <2>1 DEF ClusterStep
  <2>2. CASE StartPod
    BY <2>2 DEF StartPod
  <2>3. CASE EndJob
    BY <2>3 DEF EndJob
  <2>4. CASE RemoveJob
    BY <2>4 DEF RemoveJob
  <2>5. CASE CollectJob
    BY <2>5 DEF CollectJob
  <2>6. CASE FinishLoad \/ ObserverExit \/ ReapPod
    BY <1>3, <2>1, <2>6, Zenon DEF FinishLoad, ObserverExit, ReapPod
  <2> QED
    BY <1>6, <2>2, <2>3, <2>4, <2>5, <2>6 DEF Cluster
<1>7. CASE Informers \/ TimerFires \/ Tick
  BY <1>3, <1>7 DEF Informers, DeliverCR, DeliverJob, TimerFires, Tick, apiVars
<1>8. CASE Faults
  BY <1>3, <1>8 DEF Faults, ApiError, Crash, OutsideJobDelete, LosePod, apiVars
<1>9. CASE User
  BY <1>3, <1>9, Zenon DEF User, EditSpec, DeleteCR, ForeignUpdate
<1> QED
  BY <1>2, <1>3, <1>4, <1>5, <1>6, <1>7, <1>8, <1>9 DEF Next, vars, apiVars

\* A Job is created only for an object whose deletion has yet to pass through
\* finalize.
THEOREM GuardedJob == Spec => JobIsGuarded
<1>1. ASSUME Inv, pc = "createJob" PROVE cr.exists /\ cr.finalizer
  <2>1. loc.finalizer /\ ~loc.deleting
    BY <1>1, Zenon DEF Inv, Core, ReconcilerIsCoherent, Established
  <2>2. cr.finalizer /\ (~cr.exists => cr = NoObject)
    BY <1>1, <2>1 DEF Inv, Core, ReconcilerIsCoherent, CopiesAreOlder
  <2> QED
    BY <2>2, NoObjectFacts, Zenon
<1>2. Inv /\ [Next]_vars =>
        [job'.exists /\ ~job.exists => cr.exists /\ cr.finalizer]_vars
  BY <1>1, JobAppears
<1> QED
  BY <1>2, Invariance, PTL DEF Spec, JobIsGuarded

=============================================================================
