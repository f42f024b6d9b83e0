------------------------------ MODULE MCShadow ------------------------------
(* A small instance of Shadow for TLC.                                     *)
EXTENDS Pool

Plain == [NoAnnotations EXCEPT !.enabled = TRUE, !.sla = 12, !.baseRPS = 1]

FourAnnotations ==
    {NoAnnotations, Plain, [Plain EXCEPT !.baseRPS = 0], [Plain EXCEPT !.sla = Malformed]}

Basic == [NoSpec EXCEPT !.port = 80, !.sla = 24, !.base = 1]
With(base, warm, profile) ==
    [Basic EXCEPT !.base = base, !.warmup = warm, !.profile = {profile}]

Spike(at, duration, rps) == [at |-> at, duration |-> duration, rps |-> rps]
Ramps == {[Profile("Ramp") EXCEPT !.endRPS = e, !.rampDuration = r] :
             e \in {{}, {0}, {1}, {4}}, r \in {{}, {0}, {36}}}
Steps == {[Profile("Step") EXCEPT !.stepRPS = r, !.stepDuration = d] :
             r \in {{}, {0}, {1}}, d \in {{}, {0}, {8}, {12}}}
Climbs == {p \in Ramps \cup Steps : Positive(p.endRPS) \/ Positive(p.stepDuration)}
OneSpike == {<<Spike(at, d, r)>> : at \in {-1, 0, 12, 18}, d \in {-1, 0, 6}, r \in {1, 4}}
TwoSpikes == {<<Spike(3, 6, 4), Spike(at, 6, 3)>> : at \in {8, 9, 12, 18}}
SpikeProfiles == {[Profile("Spike") EXCEPT !.spikes = s] : s \in OneSpike \cup TwoSpikes \cup {<<>>}}
Plains == {Profile("Constant"), Profile("Poisson")}

\* Spikes that leave no gap, or one at the end, with a base rate of no use.
Filling == {<<Spike(0, 24, r)>> : r \in {0, 4}}
           \cup {<<Spike(0, 9, 4), Spike(9, d, 3)>> : d \in {14, 15}}

ManyEdits ==
    {Basic, [Basic EXCEPT !.sla = 0], [Basic EXCEPT !.concurrency = 2]}
    \cup {With(2, {}, p) : p \in Ramps \cup Steps}
    \cup {With(2, {6}, p) : p \in Climbs}
    \cup {With(0, {}, p) : p \in Plains}
    \cup {With(b, {}, [Profile("Spike") EXCEPT !.spikes = s]) : b \in {-1, 0}, s \in Filling}
    \cup {With(1, w, p) : w \in {{}, {6}}, p \in SpikeProfiles}
    \cup {With(1, w, p) : w \in {{}, {-1}, {0}, {6}, {24}}, p \in Plains}
=============================================================================
