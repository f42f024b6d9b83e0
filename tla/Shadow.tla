------------------------------- MODULE Shadow -------------------------------
(***************************************************************************)
(* The shadow controller (internal/controller/shadow_controller.go): an    *)
(* annotated Deployment gets a ScaleValidation of its own, which its user  *)
(* may edit, and with whose spec the load generator is started.  The       *)
(* controller reads both objects from a cache that trails the API server.  *)
(* Uids are 1, 2, ...: uid 0 is no Deployment, owner 0 no ScaleValidation.  *)
(***************************************************************************)
EXTENDS LoadRequest, FiniteSets

CONSTANTS
    Annotations,    \* bound: the annotations that a user gives a Deployment
    Edits,          \* bound: the specs that users give a ScaleValidation
    Absent,         \* an annotation that is not there
    Malformed,      \* one that does not parse
    MaxUid          \* bound: Deployments made under the one name

shadowDefaultPort == 80
shadowDefaultSLA == 300
shadowDefaultBaseRPS == 50

ASSUME ShadowAssumptions ==
    /\ Annotations \subseteq [enabled : BOOLEAN,
                              port : Int \cup {Absent, Malformed},
                              sla : Int \cup {Absent, Malformed},
                              baseRPS : Int \cup {Absent, Malformed}]
    /\ Edits \subseteq Specs
    /\ MaxUid \in Nat
    /\ Absent \notin Int /\ Malformed \notin Int

VARIABLES
    deploy,     \* the Deployment: its uid and annotations
    deployView, \* the cache's copy of it
    cr,         \* the ScaleValidation: owner, spec, and whether a user wrote it
    crView,     \* the owner of the cache's copy
    uids,       \* the uids given out
    queued,     \* the Deployment's key is in the work queue
    pc,         \* Reconcile: "idle", "get" the ScaleValidation, "create" it
    read        \* the Deployment that Reconcile read

vars == <<deploy, deployView, cr, crView, uids, queued, pc, read>>
cluster == <<deploy, deployView, cr, crView, uids>>

NoAnnotations == [enabled |-> FALSE, port |-> Absent, sla |-> Absent, baseRPS |-> Absent]
NoDeploy == [uid |-> 0, annotations |-> NoAnnotations]
NoSpec == [port |-> 0, sla |-> 0, base |-> 0, concurrency |-> 0, warmup |-> {},
           profile |-> {}]
NoCR == [owner |-> 0, spec |-> NoSpec, edited |-> FALSE]

Parses(a) == Malformed \notin {a.port, a.sla, a.baseRPS}
Given(annotation, default) == IF annotation = Absent THEN default ELSE annotation

\* The CR that the annotations describe.
shadowScaleValidation(d) ==
    [owner |-> d.uid, edited |-> FALSE,
     spec |-> [NoSpec EXCEPT
                 !.port = Given(d.annotations.port, shadowDefaultPort),
                 !.sla = Given(d.annotations.sla, shadowDefaultSLA),
                 !.base = Given(d.annotations.baseRPS, shadowDefaultBaseRPS)]]

Init ==
    /\ deploy = NoDeploy /\ deployView = NoDeploy
    /\ cr = NoCR /\ crView = 0 /\ uids = 0
    /\ queued = FALSE /\ pc = "idle" /\ read = NoDeploy

-----------------------------------------------------------------------------
(* Reconcile.                                                              *)

\* r.Get of the Deployment, and the test of the enabling annotation.
ReadDeployment ==
    /\ pc = "idle" /\ queued
    /\ queued' = FALSE
    /\ IF deployView.uid # 0 /\ deployView.annotations.enabled
       THEN pc' = "get" /\ read' = deployView
       ELSE UNCHANGED <<pc, read>>
    /\ UNCHANGED cluster

\* Mutant: any error of r.Get ends the reconcile, NotFound included.
GetOrGiveUp ==
    /\ pc = "get" /\ pc' = "idle" /\ read' = NoDeploy
    /\ queued' = (queued \/ crView = 0)
    /\ UNCHANGED cluster

\* Mutant: the error of shadowScaleValidation is not looked at.
GetUnparsed ==
    /\ pc = "get"
    /\ IF crView = 0 THEN pc' = "create" /\ UNCHANGED read
       ELSE pc' = "idle" /\ read' = NoDeploy
    /\ UNCHANGED <<cluster, queued>>

\* r.Get of the ScaleValidation: if there is one, or the annotations do not
\* parse, there is nothing to do and nothing to retry.
GetShadow ==
    /\ pc = "get"
    /\ IF crView = 0 /\ Parses(read.annotations)
       THEN pc' = "create" /\ UNCHANGED read
       ELSE pc' = "idle" /\ read' = NoDeploy
    /\ UNCHANGED <<cluster, queued>>

\* Mutant: an object that is there is overwritten.
CreateOrUpdate ==
    /\ pc = "create" /\ pc' = "idle" /\ read' = NoDeploy
    /\ cr' = shadowScaleValidation(read)
    /\ UNCHANGED <<deploy, deployView, crView, uids, queued>>

\* r.Create, which fails if the server already has one; the error is retried.
Create ==
    /\ pc = "create" /\ pc' = "idle" /\ read' = NoDeploy
    /\ IF cr.owner = 0
       THEN cr' = shadowScaleValidation(read) /\ UNCHANGED queued
       ELSE queued' = TRUE /\ UNCHANGED cr
    /\ UNCHANGED <<deploy, deployView, crView, uids>>

\* Any of the calls fails at the server, and the error is retried.
CallFails ==
    /\ pc # "idle" /\ pc' = "idle" /\ read' = NoDeploy
    /\ queued' = TRUE
    /\ UNCHANGED cluster

Reconcile == ReadDeployment \/ GetShadow \/ Create

-----------------------------------------------------------------------------
(* The informers, with the event filter of SetupWithManager.               *)

\* A create or update event is filtered by the new object, a delete event by
\* the last one known.
SyncDeployment ==
    /\ deployView # deploy
    /\ deployView' = deploy
    /\ LET object == IF deploy.uid = 0 THEN deployView ELSE deploy
       IN  queued' = (queued \/ object.annotations.enabled)
    /\ UNCHANGED <<deploy, cr, crView, uids, pc, read>>

\* ScaleValidations are cached and not watched by this controller.
SyncShadow ==
    /\ crView # cr.owner
    /\ crView' = cr.owner
    /\ UNCHANGED <<deploy, deployView, cr, uids, queued, pc, read>>

\* The periodic resync of the informer, and any other update of the
\* Deployment (its status, its replicas), replay it through the filter.
Replay ==
    /\ deployView.annotations.enabled /\ ~queued
    /\ queued' = TRUE
    /\ UNCHANGED <<cluster, pc, read>>

-----------------------------------------------------------------------------
(* The cluster and its users.                                              *)

Deploy(a) ==
    /\ deploy.uid = 0 /\ uids < MaxUid
    /\ deploy' = [uid |-> uids + 1, annotations |-> a]
    /\ uids' = uids + 1
    /\ UNCHANGED <<deployView, cr, crView, queued, pc, read>>

Annotate(a) ==
    /\ deploy.uid # 0 /\ a # deploy.annotations
    /\ deploy' = [deploy EXCEPT !.annotations = a]
    /\ UNCHANGED <<deployView, cr, crView, uids, queued, pc, read>>

DeleteDeployment ==
    /\ deploy.uid # 0
    /\ deploy' = NoDeploy
    /\ UNCHANGED <<deployView, cr, crView, uids, queued, pc, read>>

\* Bound: one edit to an object.
EditShadow(spec) ==
    /\ cr.owner # 0 /\ ~cr.edited
    /\ cr' = [cr EXCEPT !.spec = spec, !.edited = TRUE]
    /\ UNCHANGED <<deploy, deployView, crView, uids, queued, pc, read>>

DeleteShadow ==
    /\ cr.owner # 0
    /\ cr' = NoCR
    /\ UNCHANGED <<deploy, deployView, crView, uids, queued, pc, read>>

\* The garbage collector removes what a Deployment that is gone owned.
CollectGarbage ==
    /\ cr.owner \notin {0, deploy.uid}
    /\ cr' = NoCR
    /\ UNCHANGED <<deploy, deployView, crView, uids, queued, pc, read>>

Next ==
    \/ Reconcile \/ CallFails
    \/ SyncDeployment \/ SyncShadow \/ Replay
    \/ \E a \in Annotations : Deploy(a) \/ Annotate(a)
    \/ \E spec \in Edits : EditShadow(spec)
    \/ DeleteDeployment \/ DeleteShadow \/ CollectGarbage

Spec == Init /\ [][Next]_vars

\* The work queue, the caches, the resync and the garbage collector go on;
\* calls do not fail for ever, and users need do nothing.
Fairness ==
    /\ WF_vars(ReadDeployment) /\ SF_vars(GetShadow) /\ SF_vars(Create)
    /\ WF_vars(SyncDeployment) /\ WF_vars(SyncShadow) /\ WF_vars(Replay)
    /\ WF_vars(CollectGarbage)

FairSpec == Spec /\ Fairness

-----------------------------------------------------------------------------
(* Properties of the shadow controller.                                    *)

TypeOK ==
    /\ deploy \in [uid : 0..MaxUid, annotations : Annotations \cup {NoAnnotations}]
    /\ cr \in [owner : 0..uids, spec : Specs, edited : BOOLEAN]
    /\ deploy.uid \in {0, uids} /\ crView \in 0..uids
    /\ pc \in {"idle", "get", "create"} /\ queued \in BOOLEAN

\* "The CR is created once and never updated": however stale its cache, the
\* controller never takes back what a user wrote into the ScaleValidation, its
\* own or a namesake's: the edit stays until the object is deleted.
EditsSurvive == [][cr.edited => cr'.edited \/ cr' = NoCR]_vars

\* A Deployment that stays enabled, with annotations that parse, gets its
\* ScaleValidation: after a correction of the annotations, failed calls, a
\* deletion of the ScaleValidation, or a namesake that is still being
\* collected (Reconcile, SetupWithManager).
Wanted(d) == d.uid # 0 /\ d.annotations.enabled /\ Parses(d.annotations)
ShadowAppears == <>[]Wanted(deploy) => []<>(cr.owner # 0)

-----------------------------------------------------------------------------
(* Properties of the load that the ScaleValidation asks for.               *)

\* Where a spike ends, 0 for none, and where the base slice after it does.
SpikeEnd(spikes, i) == IF i = 0 THEN 0 ELSE spikes[i].at + spikes[i].duration
NextAt(spikes, window, i) == IF i = Len(spikes) THEN window ELSE spikes[i + 1].at

\* Spikes lie in the window in order, apart, and above the base rate.
InOrder(spikes, window, base) ==
    /\ spikes # <<>>
    /\ \A i \in 0..Len(spikes) : SpikeEnd(spikes, i) <= NextAt(spikes, window, i)
    /\ \A i \in 1..Len(spikes) :
          spikes[i].duration > 0 /\ spikes[i].rps > base /\ spikes[i].rps > 0

\* Spikes leave nothing of the window to the base rate.
Filled(spikes, window) ==
    \A i \in 0..Len(spikes) : SpikeEnd(spikes, i) = NextAt(spikes, window, i)

\* An optional field is there and positive.
Positive(option) == option # {} /\ The(option) > 0

\* What a user may sensibly ask for: windows and rates are positive, the warmup
\* leaves a window, and a Ramp without a length of its own takes that window,
\* which the API's comment on rampDuration ("Required") does not allow for.  A
\* base rate that is never offered is of no account.
Reasonable(spec) ==
    LET warm == OrElse(spec.warmup, 0)
        window == spec.sla - warm
        p == OrElse(spec.profile, Profile("Constant"))
    IN  /\ warm >= 0 /\ window > 0
        /\ \/ spec.base > 0
           \/ p.pattern = "Spike" /\ warm = 0 /\ Filled(p.spikes, window)
        /\ p.pattern = "Ramp" => Positive(p.endRPS)
        /\ p.pattern = "Step" => Positive(p.stepRPS) /\ Positive(p.stepDuration)
        /\ p.pattern = "Spike" => InOrder(p.spikes, window, spec.base)

\* The generator runs exactly the reasonable specs: between them the checks
\* of the controller and of the generator let no other through and stop no
\* reasonable one (buildPhases, Config.Validate, Phase.Validate).
ReasonableLoadsRun ==
    cr.owner # 0 => (Start(cr.spec).result = "Started" <=> Reasonable(cr.spec))

\* The spikes that are on at an instant of the measurement window.
On(spikes, since) ==
    {i \in DOMAIN spikes : spikes[i].at <= since /\ since < SpikeEnd(spikes, i)}

\* Rates are fractions of a request per second, a whole one over 1.
PerSecond(rps) == <<rps, 1>>

\* How long the profile is measured: a Ramp may have a length of its own.
MeasureLength(spec) ==
    LET p == OrElse(spec.profile, Profile("Constant"))
        ramp == OrElse(p.rampDuration, 0)
    IN  IF p.pattern = "Ramp" /\ ramp > 0 THEN ramp
        ELSE spec.sla - OrElse(spec.warmup, 0)

\* The rate that the profile has at an instant of the run.  It is the base rate
\* during the warmup and between spikes.  A Ramp goes evenly from the base rate
\* to the end rate, and a Step climbs after each interval.
RateAt(spec, t) ==
    LET p == OrElse(spec.profile, Profile("Constant"))
        since == t - OrElse(spec.warmup, 0)
        length == MeasureLength(spec)
        on == On(p.spikes, since)
    IN  CASE since >= 0 /\ p.pattern = "Ramp" ->
                <<spec.base * length + since * (The(p.endRPS) - spec.base), length>>
          [] since >= 0 /\ p.pattern = "Step" ->
                PerSecond(spec.base + (since \div The(p.stepDuration)) * The(p.stepRPS))
          [] p.pattern = "Spike" /\ on # {} -> PerSecond(p.spikes[The(on)].rps)
          [] OTHER -> PerSecond(spec.base)

\* The rate at which the emitter of a phase offers arrivals so long after the
\* phase began, for Poisson on average.
PhaseRate(c, at) ==
    CASE c.pattern = "Ramp" -> <<rampRate(c, at), c.duration>>
      [] c.pattern = "Step" -> PerSecond(stepRate(c, at \div c.every))
      [] OTHER -> PerSecond(c.start)

\* The instants at which phases end, each where the next begins.
Ends(ph) ==
    LET ends[i \in 0..Len(ph)] == IF i = 0 THEN 0 ELSE ends[i - 1] + ph[i].duration
    IN  ends

\* Phases that end at these instants offer the profile of a spec.
Realise(spec, ph, ends) ==
    LET warm == OrElse(spec.warmup, 0)
    IN  /\ ends[Len(ph)] = warm + MeasureLength(spec)
        /\ \A i \in DOMAIN ph : \A t \in ends[i - 1]..(ends[i] - 1) :
              /\ PhaseRate(ph[i], t - ends[i - 1]) = RateAt(spec, t)
              /\ ph[i].recordStats <=> t >= warm

\* The phases that run take the SLA window, with the warmup at its beginning,
\* or the warmup and the length of a Ramp that has its own.  At each instant
\* the emitters go at the rate of the profile, where the floors of emitRamp and
\* emitStep never show, and what is measured is exactly what comes after the
\* warmup (buildPhases, decomposeSpike, emitRamp, emitStep).
PhasesRealiseProfile ==
    cr.owner # 0 => \A s \in {Start(cr.spec)} :
        s.result = "Started" =>
            Realise(cr.spec, s.config.phases, Ends(s.config.phases))
=============================================================================
