--------------------------- MODULE ContractProofs ---------------------------
(***************************************************************************)
(* Lifecycle implements RunContract, for every value of the constants.     *)
(*                                                                         *)
(* A step of Lifecycle changes the status only by writing the staged one   *)
(* over the copy it was computed from (ObjectChanges).  So it is enough    *)
(* that a staged status is always one step of the contract away from that  *)
(* copy's: StagedFollows, which every staging step establishes and no      *)
(* other step can disturb.                                                 *)
(*                                                                         *)
(* The same argument, for the generation that a status says it has dealt   *)
(* with, gives ObservedMeansFinished (AllHonest).                          *)
(***************************************************************************)
EXTENDS LifecycleProofs

\* The history after a run that ended with e.
Prepended(e, h) ==
    LET all == <<e>> \o h
    IN  SubSeq(all, 1, IF Len(all) > HistoryLimit THEN HistoryLimit ELSE Len(all))

Same(s, t) == t.report = s.report /\ t.history = s.history

\* One step of the contract, or none, leads from status s to status t.
Follows(s, t) ==
    \/ t.phase = s.phase /\ Same(s, t)
    \/ /\ s.phase \in Terminal \cup {""} /\ t.phase = "Pending"
       /\ t.report = NoReport /\ t.history = s.history
    \/ s.phase = "Pending" /\ t.phase = "Running" /\ Same(s, t)
    \/ /\ s.phase \in {"Pending", "Running"}
       /\ \E e \in Entry : /\ t.phase = e.phase /\ t.report = e.report
                           /\ t.history = Prepended(e, s.history)
    \/ s.phase # "Terminating" /\ t.phase = "Error" /\ Same(s, t)
    \/ t.phase = "Terminating" /\ Same(s, t)

StagedFollows == pc = "writeStatus" => Follows(loc.status, staged)

-----------------------------------------------------------------------------
(* The ways a step of a reconcile ends.                                    *)

\* Staging a status that follows the copy's.
LEMMA StageFollows ==
    ASSUME NEW s, NEW next, StageThen(s, next), Follows(loc.status, s)
    PROVE  StagedFollows'
BY Zenon DEF StageThen, StagedFollows, Follows, Same

\* Returning, and going on to another call, leaves nothing staged.
LEMMA OtherwiseFollows ==
    ASSUME pc' # "writeStatus"
    PROVE  StagedFollows'
BY DEF StagedFollows

\* A reconcile that ends without a write stages nothing.
LEMMA IdleFollows ==
    ASSUME Idle
    PROVE  StagedFollows'
BY OtherwiseFollows DEF Idle

\* Steps of others leave what is staged, and the copy it is for, alone.
LEMMA FrameFollows ==
    ASSUME StagedFollows, UNCHANGED <<pc, loc, staged>>
    PROVE  StagedFollows'
BY Zenon DEF StagedFollows, Follows, Same

-----------------------------------------------------------------------------
(* The statuses that are staged.                                           *)

\* A reconcile that handles a run has a copy that is not being deleted.
LEMMA NotTerminating ==
    ASSUME Core, pc = "dispatch"
    PROVE  loc.status.phase # "Terminating"
BY DEF Core, ReconcilerIsCoherent, Established, CopiesAreOlder

\* Ending a run in Error.
LEMMA FailFollows ==
    ASSUME Core, pc = "dispatch", NEW reason \in ErrorReasons
    PROVE  Follows(loc.status, FailRun(loc.status, loc.generation, reason))
<1> DEFINE f == FailRun(loc.status, loc.generation, reason)
<1>1. loc.status \in Status
  BY LocFacts
<1>2. /\ f.phase = "Error" /\ f.report = loc.status.report
      /\ f.history = loc.status.history
  BY <1>1 DEF FailRun, setTerminalPhase, markFinished, Status
<1> HIDE DEF f
<1>3. Follows(loc.status, f)
  BY <1>2, NotTerminating DEF Follows, Same
<1> QED
  BY <1>3 DEF f

\* Starting over.
LEMMA ResetFollows ==
    ASSUME Core, loc.status.phase \in Terminal
    PROVE  Follows(loc.status, [resetForNextRun(loc.status) EXCEPT !.phase = "Pending"])
<1> DEFINE s == [resetForNextRun(loc.status) EXCEPT !.phase = "Pending"]
<1>1. s.phase = "Pending" /\ s.report = NoReport /\ s.history = loc.status.history
  BY LocFacts DEF resetForNextRun, Status
<1> HIDE DEF s
<1>2. Follows(loc.status, s)
  BY <1>1, Zenon DEF Follows
<1> QED
  BY <1>2 DEF s

\* Finishing with a report.
LEMMA FinishFollows ==
    ASSUME Core, loc.status.phase \in {"Pending", "Running"},
           NEW r \in Reports, NEW b
    PROVE  Follows(loc.status, FinishedStatus(loc.status, loc.generation, r, b))
<1> DEFINE v == finishedVerdict(r)
           e == [phase |-> v.phase, report |-> r]
           f == FinishedStatus(loc.status, loc.generation, r, b)
<1>1. e \in Entry /\ e.phase = v.phase /\ e.report = r
  BY ReportFacts
<1>2. f.phase = v.phase /\ f.report = r /\ f.history = Prepended(e, loc.status.history)
  BY LocFacts, Zenon DEF FinishedStatus, appendRunHistory, setTerminalPhase, markFinished,
                  applyReport, Status, Prepended
<1> HIDE DEF f, e, v
<1>3. Follows(loc.status, f)
  BY <1>1, <1>2, Zenon DEF Follows
<1> QED
  BY <1>3 DEF f

-----------------------------------------------------------------------------
(* The actions.                                                            *)

\* The reset for the next run follows a finished status.
LEMMA StartNextRunFollows ==
    ASSUME Core, loc.status.phase \in Terminal, startNextRun
    PROVE  StagedFollows'
<1>1. CASE jobView.exists
  BY <1>1, IdleFollows, OtherwiseFollows DEF startNextRun, Retry, RequeueAt, GoTo
<1>2. CASE ~jobView.exists
  BY <1>2, ResetFollows, StageFollows DEF startNextRun, Stage
<1> QED
  BY <1>1, <1>2

\* A status that differs from the copy's in bookkeeping only.
LEMMA SameFollows ==
    ASSUME NEW s, s.phase = loc.status.phase, s.report = loc.status.report,
           s.history = loc.status.history
    PROVE  Follows(loc.status, s)
BY DEF Follows, Same

\* Every other way a step of the reconcile ends.
LEMMA EndFollows ==
    ASSUME Done \/ Retry \/ (\E t : RequeueAt(t))
             \/ (\E step : step # "writeStatus" /\ GoTo(step))
    PROVE  StagedFollows'
BY IdleFollows, OtherwiseFollows DEF Done, Retry, RequeueAt, GoTo

\* What reconcileTerminal stages follows the status it read.
LEMMA TerminalFollows ==
    ASSUME Core, reconcileTerminal
    PROVE  StagedFollows'
<1>1. loc.status \in Status /\ pc = "dispatch" /\ loc.status.phase \in Terminal
  BY LocFacts DEF reconcileTerminal, AdoptGeneration, parkSuspended,
     restartForSpecChange, StayFinished, PublishNextRun, StartScheduledRun,
     Settled, AtTerminal
<1>2. CASE AdoptGeneration
  <2> DEFINE s == [loc.status EXCEPT !.observedGeneration = loc.generation]
  <2>1. Follows(loc.status, s)
    BY <1>1, SameFollows DEF Status
  <2> QED
    BY <1>2, <2>1, StageFollows DEF AdoptGeneration, Stage
<1>3. CASE parkSuspended
  <2> DEFINE s == [loc.status EXCEPT !.nextRun = NoTime,
                                     !.observedGeneration = loc.generation]
  <2>1. /\ s.phase = loc.status.phase /\ s.report = loc.status.report
        /\ s.history = loc.status.history
    BY <1>1 DEF Status
  <2>2. StageThen(s, "done") \/ Done
    BY <1>3 DEF parkSuspended, Stage
  <2> HIDE DEF s
  <2> QED
    BY <2>1, <2>2, SameFollows, StageFollows, EndFollows
<1>4. CASE restartForSpecChange
  <2>1. Follows(loc.status, FailRun(loc.status, loc.generation, "ScheduleInvalid"))
    BY <1>1, FailFollows DEF ErrorReasons
  <2> QED
    BY <1>1, <1>4, <2>1, StageFollows, StartNextRunFollows
       DEF restartForSpecChange, Stage
<1>5. CASE StayFinished
  BY <1>5, EndFollows DEF StayFinished
<1>6. CASE PublishNextRun
  <2> DEFINE s == [loc.status EXCEPT !.nextRun = nextDue]
  <2>1. Follows(loc.status, s)
    BY <1>1, SameFollows DEF Status
  <2> QED
    BY <1>6, <2>1, StageFollows, EndFollows DEF PublishNextRun
<1>7. CASE StartScheduledRun
  BY <1>1, <1>7, StartNextRunFollows DEF StartScheduledRun
<1> QED
  BY <1>2, <1>3, <1>4, <1>5, <1>6, <1>7 DEF reconcileTerminal

\* A run that is in flight is Pending or Running.
LEMMA InFlightPhase ==
    ASSUME Core, InFlight
    PROVE  pc = "dispatch" /\ loc.status.phase \in {"Pending", "Running"}
BY LocFacts, NotTerminating, Zenon DEF InFlight, Phases, Terminal

\* A run that fails while in flight follows the status that was read.
LEMMA FailInFlightFollows ==
    ASSUME Core, pc = "dispatch", NEW reason \in ErrorReasons,
           Stage(FailRun(loc.status, loc.generation, reason))
    PROVE  StagedFollows'
BY FailFollows, StageFollows DEF Stage

\* What a reconcile of a run stages, its verdict included, follows it.
LEMMA RunFollows ==
    ASSUME Core, ReconcileRun
    PROVE  StagedFollows'
<1>1. loc.status \in Status
  BY LocFacts
<1>2. CASE FirstReconcile
  <2>1. CASE loc.spec.schedule = "Invalid"
    BY <1>2, <2>1, FailInFlightFollows, Zenon DEF FirstReconcile, ErrorReasons
  <2>2. CASE loc.spec.schedule # "Invalid"
    <3> DEFINE s == [loc.status EXCEPT !.phase = "Pending"]
    <3>1. loc.status.phase = "" /\ StageThen(s, "done")
      BY <1>2, <2>2, Zenon DEF FirstReconcile, Stage
    <3>2. loc.status.report = NoReport
      BY <3>1, CoreStatuses, Zenon DEF GoodStatus, ExplainsPhase
    <3>3. s.phase = "Pending" /\ s.report = NoReport /\ s.history = loc.status.history
      BY <1>1, <3>2 DEF Status
    <3> HIDE DEF s
    <3>4. Follows(loc.status, s)
      BY <3>1, <3>3, Zenon DEF Follows
    <3> QED
      BY <3>1, <3>4, StageFollows, Zenon
  <2> QED
    BY <2>1, <2>2
<1>3. CASE JobVanished
  BY <1>3, FailInFlightFollows DEF JobVanished, InFlight, ErrorReasons
<1>4. CASE WaitForTarget
  BY <1>4, FailInFlightFollows, EndFollows, Zenon
     DEF WaitForTarget, Unspawned, InFlight, ErrorReasons
<1>5. CASE FailSpawn
  <2>1. PICK reason \in SpawnFailures :
          Stage(FailRun(loc.status, loc.generation, reason))
    BY <1>5 DEF FailSpawn
  <2>2. reason \in ErrorReasons
    BY LifecycleAssumptions DEF ErrorReasons
  <2> QED
    BY <1>5, <2>1, <2>2, FailInFlightFollows, Zenon DEF FailSpawn, Unspawned, InFlight
<1>6. CASE spawnJob
  BY <1>6, EndFollows DEF spawnJob
<1>7. CASE CreateJob
  <2> DEFINE s == [loc.status EXCEPT !.lastRun = now, !.phase = "Running"]
  <2>1. loc.status.phase = "Pending" /\ StageThen(s, "done")
    BY <1>7 DEF CreateJob, Stage, Core, ReconcilerIsCoherent, Established
  <2>2. s.phase = "Running" /\ Same(loc.status, s)
    BY <1>1 DEF Status, Same
  <2> HIDE DEF s
  <2>3. Follows(loc.status, s)
    BY <2>1, <2>2 DEF Follows
  <2> QED
    BY <2>1, <2>3, StageFollows
<1>8. CASE CreateJobExists
  BY <1>8, EndFollows DEF CreateJobExists
<1>9. CASE JobFailed
  BY <1>9, FailInFlightFollows, Zenon DEF JobFailed, InFlight, ErrorReasons
<1>10. CASE FinishWithoutPod
  BY <1>10, FailInFlightFollows, Zenon
     DEF FinishWithoutPod, Collecting, InFlight, Unreadable, ErrorReasons
<1>11. CASE finishRun
  <2>1. InFlight /\ pc = "dispatch"
    BY <1>11, Zenon DEF finishRun, Collecting, InFlight
  <2>2. \/ Retry
        \/ Stage(Unreadable)
        \/ \E p \in pods : \E r \in Reports :
              Stage(FinishedStatus(loc.status, loc.generation, r, p.built))
    BY <1>11 DEF finishRun
  <2>3. CASE Stage(Unreadable)
    BY <2>1, <2>3, FailInFlightFollows DEF Unreadable, ErrorReasons
  <2>4. ASSUME NEW p \in pods, NEW r \in Reports,
               Stage(FinishedStatus(loc.status, loc.generation, r, p.built))
        PROVE  StagedFollows'
    BY <2>1, <2>4, InFlightPhase, FinishFollows, StageFollows DEF Stage
  <2> QED
    BY <2>2, <2>3, <2>4, EndFollows
<1> QED
  BY <1>2, <1>3, <1>4, <1>5, <1>6, <1>7, <1>8, <1>9, <1>10, <1>11 DEF ReconcileRun

\* The record of a disruption follows it.
LEMMA DisruptionFollows ==
    ASSUME Core, maybeInjectDisruption
    PROVE  StagedFollows'
<1>1. Follows(loc.status, Disrupted)
  BY LocFacts, SameFollows DEF Disrupted, Status
<1> QED
  BY <1>1, StageFollows, EndFollows
     DEF maybeInjectDisruption, NothingToDisrupt, WaitToDisrupt, DecideDisruption,
         KillPod, Stage

\* Terminating follows it.
LEMMA FinalizeFollows ==
    ASSUME Core, finalize
    PROVE  StagedFollows'
<1>1. CASE FinalizeJob
  <2> DEFINE s == [loc.status EXCEPT !.phase = "Terminating"]
  <2>1. s.phase = "Terminating" /\ Same(loc.status, s)
    BY LocFacts DEF Status, Same
  <2>2. \/ \E next : StageThen(s, next)
        \/ Retry
        \/ GoTo("deleteJob")
    BY <1>1 DEF FinalizeJob
  <2> HIDE DEF s
  <2>3. Follows(loc.status, s)
    BY <2>1 DEF Follows
  <2> QED
    BY <2>2, <2>3, StageFollows, EndFollows
<1> QED
  BY <1>1, EndFollows DEF finalize, DeleteJob, FinalizeDone, RemoveFinalizer, Conflict

\* Every step leaves staged only what follows.
LEMMA FollowsStep ==
    ASSUME Inv, StagedFollows, [Next]_vars
    PROVE  StagedFollows'
<1> USE DEF Inv
<1>1. CASE Worker
  <2>1. CASE Reconcile
    <3>1. pc' # "writeStatus"
      BY <2>1 DEF Reconcile
    <3> QED
      BY <3>1, OtherwiseFollows
  <2>2. CASE AddFinalizer
    BY <2>2, OtherwiseFollows DEF AddFinalizer
  <2>3. ASSUME NEW step, Conflict(step) PROVE StagedFollows'
    BY <2>3, EndFollows DEF Conflict
  <2>4. CASE WriteStatus
    <3>1. then \in {"done", "requeue", "park", "deleteJob"}
      BY DEF Surroundings
    <3>2. pc' # "writeStatus"
      BY <2>4, <3>1, Zenon DEF WriteStatus, Done, Retry, RequeueAt, Idle
    <3> QED
      BY <3>2, OtherwiseFollows
  <2> QED
    BY <1>1, <2>1, <2>2, <2>3, <2>4, TerminalFollows, RunFollows, DisruptionFollows,
       FinalizeFollows DEF Worker
<1>2. CASE Informers \/ TimerFires \/ Tick \/ User
  <2>1. UNCHANGED <<pc, loc, staged>>
    BY <1>2, Zenon DEF Informers, DeliverCR, DeliverJob, TimerFires, Tick, User, EditSpec,
                DeleteCR, ForeignUpdate, workerVars
  <2> QED
    BY <2>1, FrameFollows
<1>3. CASE Cluster
  <2>1. ASSUME NEW j, NEW ps, ClusterStep(j, ps) PROVE StagedFollows'
    BY <2>1, FrameFollows DEF ClusterStep, workerVars
  <2> QED
    BY <1>3, <2>1, Zenon DEF Cluster, StartPod, FinishLoad, ObserverExit, EndJob, RemoveJob,
                      ReapPod, CollectJob
<1>4. CASE Faults
  BY <1>4, EndFollows, IdleFollows, FrameFollows
     DEF Faults, ApiError, Crash, OutsideJobDelete, LosePod, workerVars
<1>5. CASE UNCHANGED vars
  BY <1>5, FrameFollows DEF vars, workerVars
<1> QED
  BY <1>1, <1>2, <1>3, <1>4, <1>5 DEF Next

-----------------------------------------------------------------------------
(* The refinement.                                                         *)

\* The first object is new, or finished by an older release.
LEMMA ContractInit ==
    ASSUME Init
    PROVE  Contract!Init
<1>1. CASE \E s \in Specs : cr = NewObject(s)
  <2>1. cr.exists /\ cr.status = NoStatus
    BY <1>1, NewObjectFacts
  <2>2. NoStatus.phase = "" /\ NoStatus.report = NoReport /\ NoStatus.history = <<>>
    BY DEF NoStatus
  <2> QED
    BY <2>1, <2>2, Zenon DEF Contract!Init
<1>2. ASSUME NEW s \in Legacies, NEW r \in Reports, cr = LegacyObject(s, r)
      PROVE  Contract!Init
  <2> DEFINE e == [phase |-> finishedVerdict(r).phase, report |-> r]
  <2>1. e \in Entry /\ e.phase = finishedVerdict(r).phase /\ e.report = r
    BY ReportFacts
  <2>2. /\ cr.exists /\ cr.status.phase = e.phase /\ cr.status.report = e.report
        /\ cr.status.history = <<e>>
    BY <1>2, Zenon DEF LegacyObject, NewObject, NoObject, NoStatus
  <2> HIDE DEF e
  <2> QED
    BY <2>1, <2>2 DEF Contract!Init
<1> QED
  BY <1>1, <1>2 DEF Init

\* Every step maps to a step of the contract, or to none.
LEMMA ContractStep ==
    ASSUME Inv, StagedFollows, [Next]_vars
    PROVE  [Contract!Next]_(Contract!view)
<1> USE DEF Contract!view
<1>1. CASE cr'.status = cr.status /\ cr'.exists = cr.exists
  BY <1>1
<1>2. CASE cr' = NoObject
  <2>1. Contract!Vanish
    BY <1>2, NoObjectFacts, Zenon DEF Contract!Vanish, NoObject, NoStatus
  <2> QED
    BY <2>1 DEF Contract!Next
<1>3. CASE /\ pc = "writeStatus" /\ loc = cr
           /\ cr'.status = staged /\ cr'.exists = cr.exists
  <2>1. Follows(cr.status, cr'.status)
    BY <1>3, Zenon DEF StagedFollows, Follows, Same
  <2>2. cr.exists /\ cr'.exists
    BY <1>3 DEF Inv, Core, ReconcilerIsCoherent, Established
  <2>3. cr.status.phase \in Phases /\ "Gone" \notin Phases
    BY Zenon DEF Inv, Core, Objects, Status, Phases, Terminal
  <2> QED
    BY <2>1, <2>2, <2>3, Zenon
       DEF Follows, Same, Prepended, Terminal, Contract!Next, Contract!Accept,
           Contract!Load, Contract!Conclude, Contract!GiveUp, Contract!Terminate,
           Contract!Finished
<1> QED
  BY <1>1, <1>2, <1>3, ObjectChanges

\* The reconciler keeps the contract of a validation's status (KeepsTheContract)
\* for any number of faults, edits, reports and specs: a phase that the CRD's
\* readers do not expect, a verdict written twice or changed afterwards, or a
\* history that is rewritten cannot come of stale caches, conflicts, crashes or
\* retries in Reconcile.
THEOREM Refinement == Spec => KeepsTheContract
<1>1. Init => StagedFollows
  BY DEF Init, StagedFollows
<1>2. Inv /\ StagedFollows /\ [Next]_vars => StagedFollows'
  BY FollowsStep
<1>3. Inv /\ StagedFollows /\ [Next]_vars => [Contract!Next]_(Contract!view)
  BY ContractStep
<1>4. Init => Contract!Init
  BY ContractInit
<1> QED
  BY <1>1, <1>2, <1>3, <1>4, Invariance, PTL DEF Spec, KeepsTheContract, Contract!Spec

-----------------------------------------------------------------------------
(* What observedGeneration tells.                                          *)

\* Status s does not say of object o that its spec has been dealt with unless
\* the run is over, or is one that a schedule started.
Honest(o, s) ==
    /\ s.observedGeneration <= o.generation
    /\ o.deleting => s.observedGeneration < o.generation
    /\ s.observedGeneration = o.generation /\ o.exists /\ o.spec.schedule # "Valid"
          => s.phase \in Terminal

\* It holds of the object and of the copies a reconcile works from: a status
\* that was computed from a stale copy is as honest about that copy.
AllHonest ==
    /\ Honest(cr, cr.status) /\ Honest(crView, crView.status)
    /\ Honest(loc, loc.status)
    /\ pc = "writeStatus" => Honest(loc, staged)

\* The absent object claims nothing.
LEMMA NoObjectHonest == Honest(NoObject, NoObject.status)
<1>1. /\ NoObject.generation = 0 /\ ~NoObject.deleting /\ ~NoObject.exists
      /\ NoObject.status = NoStatus
  BY DEF NoObject
<1>2. NoStatus.observedGeneration = 0
  BY DEF NoStatus
<1> QED
  BY <1>1, <1>2 DEF Honest

\* An edit or a deletion makes the status lag behind.
LEMMA LaterHonest ==
    ASSUME NEW o \in Objects, Honest(o, o.status), NEW p,
           p.generation = o.generation + 1, p.status = o.status
    PROVE  Honest(p, p.status)
<1>1. o.generation \in Nat /\ o.status.observedGeneration \in Nat
  BY DEF Objects, Status
<1> QED
  BY <1>1 DEF Honest

\* A status that leaves observedGeneration alone is honest, unless it ends the
\* phase of a finished run.
LEMMA KeptHonest ==
    ASSUME NEW o, NEW s, Honest(o, o.status),
           s.observedGeneration = o.status.observedGeneration,
           \/ s.phase = o.status.phase
           \/ o.status.phase \notin Terminal
           \/ s.observedGeneration # o.generation
           \/ o.spec.schedule = "Valid"
    PROVE  Honest(o, s)
BY DEF Honest

\* A status that catches up is honest if it finishes the run.
LEMMA FinishedHonest ==
    ASSUME NEW o, NEW s, o.generation \in Nat, ~o.deleting,
           s.observedGeneration = o.generation, s.phase \in Terminal
    PROVE  Honest(o, s)
BY DEF Honest

\* Staging an honest status.
LEMMA StageHonest ==
    ASSUME AllHonest, NEW s, NEW next, StageThen(s, next), Honest(loc, s),
           UNCHANGED <<cr, crView>>
    PROVE  AllHonest'
BY DEF StageThen, AllHonest, Honest

\* Every other way a step of a reconcile ends.
LEMMA EndHonest ==
    ASSUME AllHonest, UNCHANGED <<cr, crView>>,
           Done \/ Retry \/ (\E t : RequeueAt(t))
             \/ (\E step : step # "writeStatus" /\ GoTo(step))
    PROVE  AllHonest'
<1>1. CASE Idle
  BY <1>1, NoObjectHonest DEF AllHonest, Idle, Honest
<1>2. ASSUME NEW step, step # "writeStatus", GoTo(step) PROVE AllHonest'
  BY <1>2 DEF GoTo, AllHonest, Honest
<1> QED
  BY <1>1, <1>2 DEF Done, Retry, RequeueAt

\* Steps of others leave the object and its copies alone.
LEMMA FrameHonest ==
    ASSUME AllHonest, UNCHANGED <<cr, crView, pc, loc, staged>>
    PROVE  AllHonest'
BY DEF AllHonest, Honest

\* Ending a run in Error catches up.
LEMMA FailHonest ==
    ASSUME Core, AllHonest, pc = "dispatch", NEW reason \in ErrorReasons,
           UNCHANGED <<cr, crView>>,
           Stage(FailRun(loc.status, loc.generation, reason))
    PROVE  AllHonest'
<1> DEFINE f == FailRun(loc.status, loc.generation, reason)
<1>1. loc.status \in Status /\ loc.generation \in Nat /\ ~loc.deleting
  BY LocFacts DEF Core, ReconcilerIsCoherent, Established
<1>2. f.phase = "Error" /\ f.observedGeneration = loc.generation
  BY <1>1 DEF FailRun, setTerminalPhase, markFinished, Status
<1>3. StageThen(f, "done")
  BY DEF Stage
<1> HIDE DEF f
<1>4. Honest(loc, f)
  BY <1>1, <1>2, FinishedHonest DEF Terminal
<1> QED
  BY <1>3, <1>4, StageHonest

\* The reset for the next run leaves the status behind an edited spec.
LEMMA StartNextRunHonest ==
    ASSUME Core, AllHonest, startNextRun, UNCHANGED <<cr, crView>>,
           drifted \/ loc.spec.schedule = "Valid"
    PROVE  AllHonest'
<1>1. CASE jobView.exists
  BY <1>1, EndHonest DEF startNextRun
<1>2. CASE ~jobView.exists
  <2> DEFINE s == [resetForNextRun(loc.status) EXCEPT !.phase = "Pending"]
  <2>1. s.observedGeneration = loc.status.observedGeneration
    BY LocFacts DEF resetForNextRun, Status
  <2>2. StageThen(s, "done")
    BY <1>2 DEF startNextRun, Stage
  <2> HIDE DEF s
  <2>3. Honest(loc, s)
    BY <2>1, KeptHonest DEF drifted, observed, AllHonest
  <2> QED
    BY <2>2, <2>3, StageHonest
<1> QED
  BY <1>1, <1>2

\* What reconcileTerminal stages is honest.
LEMMA TerminalHonest ==
    ASSUME Core, AllHonest, reconcileTerminal
    PROVE  AllHonest'
<1>1. /\ pc = "dispatch" /\ loc.status.phase \in Terminal /\ loc.status \in Status
      /\ loc.generation \in Nat /\ ~loc.deleting
  BY LocFacts DEF reconcileTerminal, AdoptGeneration, parkSuspended,
     restartForSpecChange, StayFinished, PublishNextRun, StartScheduledRun,
     Settled, AtTerminal, Core, ReconcilerIsCoherent, Established
<1>2. UNCHANGED <<cr, crView>>
  BY ReadOnlyFrame DEF reconcileTerminal, AdoptGeneration, parkSuspended,
     restartForSpecChange, StayFinished, PublishNextRun, StartScheduledRun
<1>3. CASE AdoptGeneration
  <2> DEFINE s == [loc.status EXCEPT !.observedGeneration = loc.generation]
  <2>1. s.phase = loc.status.phase /\ s.observedGeneration = loc.generation
    BY <1>1 DEF Status
  <2>2. StageThen(s, "done")
    BY <1>3 DEF AdoptGeneration, Stage
  <2> HIDE DEF s
  <2> QED
    BY <1>1, <1>2, <2>1, <2>2, FinishedHonest, StageHonest
<1>4. CASE parkSuspended
  <2> DEFINE s == [loc.status EXCEPT !.nextRun = NoTime,
                                     !.observedGeneration = loc.generation]
  <2>1. s.phase = loc.status.phase /\ s.observedGeneration = loc.generation
    BY <1>1 DEF Status
  <2>2. StageThen(s, "done") \/ Done
    BY <1>4 DEF parkSuspended, Stage
  <2> HIDE DEF s
  <2> QED
    BY <1>1, <1>2, <2>1, <2>2, FinishedHonest, StageHonest, EndHonest
<1>5. CASE restartForSpecChange
  BY <1>1, <1>2, <1>5, FailHonest, StartNextRunHonest
     DEF restartForSpecChange, ErrorReasons
<1>6. CASE StayFinished
  BY <1>2, <1>6, EndHonest DEF StayFinished
<1>7. CASE PublishNextRun
  <2> DEFINE s == [loc.status EXCEPT !.nextRun = nextDue]
  <2>1. /\ s.phase = loc.status.phase
        /\ s.observedGeneration = loc.status.observedGeneration
    BY <1>1 DEF Status
  <2>2. StageThen(s, "park") \/ \E t : RequeueAt(t)
    BY <1>7 DEF PublishNextRun
  <2> HIDE DEF s
  <2>3. Honest(loc, s)
    BY <2>1, KeptHonest DEF AllHonest
  <2> QED
    BY <1>2, <2>2, <2>3, StageHonest, EndHonest
<1>8. CASE StartScheduledRun
  BY <1>2, <1>8, StartNextRunHonest DEF StartScheduledRun
<1> QED
  BY <1>3, <1>4, <1>5, <1>6, <1>7, <1>8 DEF reconcileTerminal

\* What a reconcile of a run stages is honest.
LEMMA RunHonest ==
    ASSUME Core, AllHonest, ReconcileRun
    PROVE  AllHonest'
<1>1. loc.status \in Status /\ loc.generation \in Nat
  BY LocFacts
<1>2. ReadOnly \/ CreateJob
  BY Zenon DEF ReconcileRun, FirstReconcile, JobVanished, WaitForTarget, FailSpawn, spawnJob,
         CreateJobExists, JobFailed, FinishWithoutPod, finishRun
<1>3. UNCHANGED <<cr, crView>>
  BY <1>2, ReadOnlyFrame DEF CreateJob
<1>4. CASE FirstReconcile
  <2>1. CASE loc.spec.schedule = "Invalid"
    BY <1>3, <1>4, <2>1, FailHonest, Zenon DEF FirstReconcile, ErrorReasons
  <2>2. CASE loc.spec.schedule # "Invalid"
    <3> DEFINE s == [loc.status EXCEPT !.phase = "Pending"]
    <3>1. loc.status.phase = "" /\ StageThen(s, "done")
      BY <1>4, <2>2, Zenon DEF FirstReconcile, Stage
    <3>2. s.observedGeneration = loc.status.observedGeneration
      BY <1>1 DEF Status
    <3> HIDE DEF s
    <3>3. Honest(loc, s)
      BY <3>1, <3>2, KeptHonest, Zenon DEF AllHonest, Terminal
    <3> QED
      BY <1>3, <3>1, <3>3, StageHonest, Zenon
  <2> QED
    BY <2>1, <2>2
<1>5. CASE JobVanished
  BY <1>3, <1>5, FailHonest DEF JobVanished, InFlight, ErrorReasons
<1>6. CASE WaitForTarget
  BY <1>3, <1>6, FailHonest, EndHonest, Zenon DEF WaitForTarget, Unspawned, InFlight, ErrorReasons
<1>7. CASE FailSpawn
  <2>1. PICK reason \in SpawnFailures :
          Stage(FailRun(loc.status, loc.generation, reason))
    BY <1>7 DEF FailSpawn
  <2>2. reason \in ErrorReasons
    BY LifecycleAssumptions DEF ErrorReasons
  <2> QED
    BY <1>3, <1>7, <2>1, <2>2, FailHonest, Zenon DEF FailSpawn, Unspawned, InFlight
<1>8. CASE spawnJob
  BY <1>3, <1>8, EndHonest DEF spawnJob
<1>9. CASE CreateJob
  <2> DEFINE s == [loc.status EXCEPT !.lastRun = now, !.phase = "Running"]
  <2>1. loc.status.phase = "Pending" /\ StageThen(s, "done")
    BY <1>9 DEF CreateJob, Stage, Core, ReconcilerIsCoherent, Established
  <2>2. s.observedGeneration = loc.status.observedGeneration
    BY <1>1 DEF Status
  <2> HIDE DEF s
  <2>3. Honest(loc, s)
    BY <2>1, <2>2, KeptHonest DEF AllHonest, Terminal
  <2> QED
    BY <1>3, <2>1, <2>3, StageHonest
<1>10. CASE CreateJobExists
  BY <1>3, <1>10, EndHonest DEF CreateJobExists
<1>11. CASE JobFailed
  BY <1>3, <1>11, FailHonest, Zenon DEF JobFailed, InFlight, ErrorReasons
<1>12. CASE FinishWithoutPod
  BY <1>3, <1>12, FailHonest, Zenon
     DEF FinishWithoutPod, Collecting, InFlight, Unreadable, ErrorReasons
<1>13. CASE finishRun
  <2>1. pc = "dispatch" /\ ~loc.deleting
    BY <1>13, Zenon DEF finishRun, Collecting, InFlight, Core, ReconcilerIsCoherent, Established
  <2>2. \/ Retry
        \/ Stage(Unreadable)
        \/ \E p \in pods : \E r \in Reports :
              Stage(FinishedStatus(loc.status, loc.generation, r, p.built))
    BY <1>13 DEF finishRun
  <2>3. CASE Stage(Unreadable)
    BY <1>3, <2>1, <2>3, FailHonest DEF Unreadable, ErrorReasons
  <2>4. ASSUME NEW p \in pods, NEW r \in Reports,
               Stage(FinishedStatus(loc.status, loc.generation, r, p.built))
        PROVE  AllHonest'
    <3> DEFINE f == FinishedStatus(loc.status, loc.generation, r, p.built)
    <3>1. f.phase = finishedVerdict(r).phase /\ f.observedGeneration = loc.generation
      BY <1>1 DEF FinishedStatus, appendRunHistory, setTerminalPhase, markFinished,
                  applyReport, Status
    <3>2. StageThen(f, "done")
      BY <2>4 DEF Stage
    <3> HIDE DEF f
    <3>3. Honest(loc, f)
      BY <1>1, <2>1, <3>1, ReportFacts, FinishedHonest, Zenon DEF Terminal
    <3> QED
      BY <1>3, <3>2, <3>3, StageHonest
  <2> QED
    BY <1>3, <2>2, <2>3, <2>4, EndHonest
<1> QED
  BY <1>4, <1>5, <1>6, <1>7, <1>8, <1>9, <1>10, <1>11, <1>12, <1>13 DEF ReconcileRun

\* The record of a disruption is.
LEMMA DisruptionHonest ==
    ASSUME Core, AllHonest, maybeInjectDisruption
    PROVE  AllHonest'
<1>1. /\ Disrupted.phase = loc.status.phase
      /\ Disrupted.observedGeneration = loc.status.observedGeneration
  BY LocFacts DEF Disrupted, Status
<1>2. Honest(loc, Disrupted)
  BY <1>1, KeptHonest DEF AllHonest
<1>3. UNCHANGED <<cr, crView>>
  BY ReadOnlyFrame DEF maybeInjectDisruption, NothingToDisrupt, WaitToDisrupt,
     DecideDisruption, KillPod, apiVars, cacheVars
<1> QED
  BY <1>2, <1>3, StageHonest, EndHonest
     DEF maybeInjectDisruption, NothingToDisrupt, WaitToDisrupt, DecideDisruption,
         KillPod, Stage

\* Terminating is: the deletion has a generation of its own.
LEMMA FinalizeHonest ==
    ASSUME Core, AllHonest, finalize, ~RemoveFinalizer
    PROVE  AllHonest'
<1>1. UNCHANGED <<cr, crView>>
  BY ReadOnlyFrame DEF finalize, FinalizeJob, DeleteJob, FinalizeDone, Conflict
<1>2. CASE FinalizeJob
  <2> DEFINE s == [loc.status EXCEPT !.phase = "Terminating"]
  <2>1. s.observedGeneration = loc.status.observedGeneration
    BY LocFacts DEF Status
  <2>2. s.observedGeneration # loc.generation
    <3>1. loc.deleting
      BY <1>2 DEF FinalizeJob, Core, ReconcilerIsCoherent, Established
    <3> QED
      BY <2>1, <3>1, LocFacts DEF AllHonest, Honest
  <2>3. \/ \E next : StageThen(s, next)
        \/ Retry
        \/ GoTo("deleteJob")
    BY <1>2 DEF FinalizeJob
  <2> HIDE DEF s
  <2>4. Honest(loc, s)
    BY <2>1, <2>2, KeptHonest DEF AllHonest
  <2> QED
    BY <1>1, <2>3, <2>4, StageHonest, EndHonest
<1> QED
  BY <1>1, <1>2, EndHonest DEF finalize, DeleteJob, FinalizeDone, Conflict

\* The write of a status puts on the object what is honest about its copy.
LEMMA WriteHonest ==
    ASSUME Core, AllHonest, WriteStatus, then \in {"done", "requeue", "park", "deleteJob"}
    PROVE  AllHonest'
<1>1. /\ loc = cr /\ pc = "writeStatus" /\ cr' = [cr EXCEPT !.status = staged]
      /\ crView' = crView /\ cr \in Objects
  BY DEF WriteStatus, UpdateObject, Core, ReconcilerIsCoherent, CopiesAreOlder
<1>2. Honest(cr, staged)
  BY <1>1 DEF AllHonest
<1>3. /\ cr'.status = staged /\ cr'.generation = cr.generation
      /\ cr'.deleting = cr.deleting /\ cr'.exists = cr.exists /\ cr'.spec = cr.spec
  BY <1>1 DEF Objects
<1>4. Honest(cr', cr'.status)
  BY <1>2, <1>3 DEF Honest
<1>5. CASE Idle
  BY <1>1, <1>4, <1>5, NoObjectHonest DEF AllHonest, Idle
<1>6. CASE pc' = "deleteJob" /\ loc' = [loc EXCEPT !.status = staged]
  BY <1>1, <1>4, <1>6 DEF AllHonest
<1> QED
  BY <1>5, <1>6, Zenon DEF WriteStatus, Done, Retry, RequeueAt

\* So do an edit, a deletion and a finalizer.
LEMMA ObjectHonest ==
    ASSUME Core, AllHonest, User \/ AddFinalizer \/ RemoveFinalizer
    PROVE  AllHonest'
<1>1. cr \in Objects /\ (current => loc = cr)
  BY DEF Core, ReconcilerIsCoherent, CopiesAreOlder
<1>2. CASE AddFinalizer
  <2>1. /\ cr' = [cr EXCEPT !.finalizer = TRUE] /\ loc' = [loc EXCEPT !.finalizer = TRUE]
        /\ crView' = crView /\ pc' = "dispatch" /\ loc = cr
    BY <1>1, <1>2 DEF AddFinalizer, UpdateObject
  <2>2. /\ cr'.status = cr.status /\ cr'.generation = cr.generation
        /\ cr'.deleting = cr.deleting /\ cr'.exists = cr.exists /\ cr'.spec = cr.spec
    BY <1>1, <2>1 DEF Objects
  <2>3. Honest(cr', cr'.status)
    BY <2>2 DEF AllHonest, Honest
  <2> QED
    BY <2>1, <2>3 DEF AllHonest
<1>3. CASE RemoveFinalizer
  <2>1. cr' = NoObject /\ crView' = crView /\ loc' = NoObject /\ pc' = "idle"
    BY <1>3 DEF RemoveFinalizer, UpdateObject, Done, Idle
  <2> QED
    BY <2>1, NoObjectHonest DEF AllHonest
<1>4. ASSUME NEW o, ForeignUpdate(o), Honest(o, o.status) PROVE AllHonest'
  <2>1. cr' = o /\ UNCHANGED <<crView, loc, staged, pc>>
    BY <1>4 DEF ForeignUpdate
  <2> QED
    BY <1>4, <2>1 DEF AllHonest
<1>5. CASE EditSpec
  <2>1. PICK s \in Specs :
          ForeignUpdate([cr EXCEPT !.spec = s, !.generation = cr.generation + 1])
    BY <1>5, Zenon DEF EditSpec
  <2> DEFINE o == [cr EXCEPT !.spec = s, !.generation = cr.generation + 1]
  <2>2. o.generation = cr.generation + 1 /\ o.status = cr.status
    BY <1>1 DEF Objects
  <2>3. ForeignUpdate(o)
    BY <2>1
  <2> HIDE DEF o
  <2> QED
    BY <1>1, <1>4, <2>2, <2>3, LaterHonest DEF AllHonest
<1>6. CASE DeleteCR
  <2>1. CASE cr.finalizer
    <3> DEFINE o == [cr EXCEPT !.deleting = TRUE, !.generation = cr.generation + 1]
    <3>1. o.generation = cr.generation + 1 /\ o.status = cr.status
      BY <1>1 DEF Objects
    <3>2. ForeignUpdate(o)
      BY <1>6, <2>1 DEF DeleteCR
    <3> HIDE DEF o
    <3> QED
      BY <1>1, <1>4, <3>1, <3>2, LaterHonest DEF AllHonest
  <2>2. CASE ~cr.finalizer
    BY <1>4, <1>6, <2>2, NoObjectHonest DEF DeleteCR
  <2> QED
    BY <2>1, <2>2
<1> QED
  BY <1>2, <1>3, <1>5, <1>6 DEF User

\* Every step keeps the object and its copies honest.
LEMMA HonestStep ==
    ASSUME Inv, AllHonest, [Next]_vars
    PROVE  AllHonest'
<1>1. Core /\ then \in {"done", "requeue", "park", "deleteJob"}
  BY DEF Inv, Surroundings
<1>2. CASE Worker
  <2>1. CASE Reconcile
    <3>1. UNCHANGED <<cr, crView>> /\ loc' \in {loc, crView} /\ pc' # "writeStatus"
      BY <2>1, ReadOnlyFrame DEF Reconcile
    <3> QED
      BY <3>1 DEF AllHonest
  <2>2. ASSUME NEW step, Conflict(step) PROVE AllHonest'
    BY <2>2, ReadOnlyFrame, EndHonest DEF Conflict
  <2> QED
    BY <1>1, <1>2, <2>1, <2>2, ObjectHonest, WriteHonest, TerminalHonest, RunHonest,
       DisruptionHonest, FinalizeHonest DEF Worker
<1>3. CASE Informers
  <2>1. crView' \in {crView, cr} /\ UNCHANGED <<cr, pc, loc, staged>>
    BY <1>3 DEF Informers, DeliverCR, DeliverJob, apiVars, workerVars
  <2> QED
    BY <2>1 DEF AllHonest
<1>4. CASE TimerFires \/ Tick
  BY <1>4, FrameHonest DEF TimerFires, Tick, apiVars, cacheVars, workerVars
<1>5. CASE Cluster
  <2>1. ASSUME NEW j, NEW ps, ClusterStep(j, ps) PROVE AllHonest'
    BY <2>1, FrameHonest DEF ClusterStep, workerVars
  <2> QED
    BY <1>5, <2>1, Zenon DEF Cluster, StartPod, FinishLoad, ObserverExit, EndJob, RemoveJob,
                      ReapPod, CollectJob
<1>6. CASE Faults
  <2>1. CASE ApiError
    BY <2>1, EndHonest DEF ApiError, apiVars, cacheVars
  <2>2. CASE Crash
    <3>1. cr' = cr /\ crView' = cr /\ loc' = NoObject /\ pc' = "idle"
      BY <2>2 DEF Crash, Idle, apiVars
    <3> QED
      BY <3>1, NoObjectHonest DEF AllHonest
  <2>3. CASE OutsideJobDelete \/ LosePod
    BY <2>3, FrameHonest DEF OutsideJobDelete, LosePod, cacheVars, workerVars
  <2> QED
    BY <1>6, <2>1, <2>2, <2>3 DEF Faults
<1>7. CASE User
  BY <1>1, <1>7, ObjectHonest
<1>8. CASE UNCHANGED vars
  BY <1>8, FrameHonest DEF vars, apiVars, cacheVars, workerVars
<1> QED
  BY <1>2, <1>3, <1>4, <1>5, <1>6, <1>7, <1>8 DEF Next

\* Objects start at generation 1, of which neither a new status nor one of an
\* older release says anything.
LEMMA InitHonest == Init => AllHonest
<1> SUFFICES ASSUME Init PROVE AllHonest
  OBVIOUS
<1>1. ASSUME NEW o \in Objects, o.generation = 1, o.status.observedGeneration = 0
      PROVE  Honest(o, o.status)
  BY <1>1 DEF Honest
<1>2. ASSUME NEW s \in Specs
      PROVE  /\ NewObject(s).generation = 1
             /\ NewObject(s).status.observedGeneration = 0
  BY Zenon DEF NewObject, NoObject, NoStatus
<1>3. ASSUME NEW s \in Legacies, NEW r \in Reports
      PROVE  /\ LegacyObject(s, r).generation = 1
             /\ LegacyObject(s, r).status.observedGeneration = 0
  BY Zenon DEF LegacyObject, NewObject, NoObject, NoStatus
<1>4. cr.generation = 1 /\ cr.status.observedGeneration = 0
  BY <1>2, <1>3 DEF Init
<1>5. cr \in Objects
  BY InitInv DEF Inv, Core
<1> QED
  BY <1>1, <1>4, <1>5, NoObjectHonest DEF Init, AllHonest

\* A status that has caught up with the spec of a one-shot validation is that of a
\* run that is over (markFinished, startNextRun, AdoptGeneration), for any number
\* of edits, reports, faults and stale reads: a client that waits for
\* observedGeneration never takes a run that is still going for a result.
THEOREM ObservedFinished == Spec => []ObservedMeansFinished
<1>1. Spec => []AllHonest
  BY Invariance, InitHonest, HonestStep, PTL DEF Spec
<1>2. AllHonest => ObservedMeansFinished
  BY DEF AllHonest, Honest, ObservedMeansFinished
<1> QED
  BY <1>1, <1>2, PTL
=============================================================================
