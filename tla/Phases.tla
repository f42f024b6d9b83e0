-------------------------------- MODULE Phases --------------------------------
(***************************************************************************)
(* The load generator's phases (internal/loadgen/phase.go, config.go) and  *)
(* the arrivals that schedule.go draws from one.  Times are counted in     *)
(* ticks from the start of the phase, rates in requests per second.  The   *)
(* code divides in floating point and truncates to the clock's resolution, *)
(* which is integer division here.                                         *)
(***************************************************************************)
EXTENDS Integers, Sequences, FiniteSetsExt

CONSTANTS
    Second,         \* ticks in a second
    Gaps            \* bound: the gaps that a Poisson phase draws from

ASSUME PhasesAssumptions ==
    /\ Second \in Nat \ {0}
    /\ Gaps \subseteq Nat \ {0} /\ Gaps # {}

\* pattern is one of these; end is for Ramp only, step and every for Step only.
Patterns == {"Constant", "Poisson", "Ramp", "Step"}

Constant(duration, rps, recordStats) ==
    [pattern |-> "Constant", duration |-> duration, start |-> rps, end |-> 0,
     step |-> 0, every |-> 0, recordStats |-> recordStats]

\* Phase.Validate; names are given by the program that builds the phases.
Valid(p) ==
    /\ p.duration > 0
    /\ p.start > 0
    /\ p.pattern \in Patterns
    /\ p.pattern = "Ramp" => p.end > 0
    /\ p.pattern = "Step" => p.step > 0 /\ p.every > 0

\* Mutant: a Step phase is taken for as fast as it starts.
peakOfStart(p) == IF p.pattern = "Ramp" THEN Max({p.start, p.end}) ELSE p.start

peakRPS(p) ==
    CASE p.pattern = "Ramp" -> Max({p.start, p.end})
      [] p.pattern = "Step" -> p.start + (p.duration \div p.every) * p.step
      [] OTHER -> p.start

\* withDefaults: the size of the worker pool when none is configured.
DefaultConcurrency(phases) ==
    Min({256, Max({peakRPS(phases[i]) : i \in DOMAIN phases})})

-----------------------------------------------------------------------------
(* runSchedule.  The emitter's position is [at, seg]: the arrival it offers *)
(* next and, for Step, the plateau that belongs to.                         *)

interval(rate) == Second \div rate

\* The rate at an instant of a Ramp is rampRate(p, at) / p.duration, at least 1.
rampRate(p, at) == Max({p.duration, p.start * p.duration + at * (p.end - p.start)})

\* emitRamp falls back to a microsecond, here a tick, when the interval is 0.
rampInterval(p, at) == Max({1, (Second * p.duration) \div rampRate(p, at)})

\* Mutant: the first plateau is already a step up.
stepRateEarly(p, seg) == Max({1, p.start + (seg + 1) * p.step})

stepRate(p, seg) == Max({1, p.start + seg * p.step})

emitStep(p, pos) ==
    LET next == pos.at + interval(stepRate(p, pos.seg))
        segEnd == Min({(pos.seg + 1) * p.every, p.duration})
    IN  IF next < segEnd
        THEN [pos EXCEPT !.at = next]
        ELSE [at |-> (pos.seg + 1) * p.every, seg |-> pos.seg + 1]

FirstArrivals(p) ==
    IF p.pattern = "Poisson" THEN {[at |-> gap, seg |-> 0] : gap \in Gaps}
    ELSE {[at |-> 0, seg |-> 0]}

\* Where the emitter may be once it has offered the arrival at pos.
NextArrivals(p, pos) ==
    CASE p.pattern = "Constant" -> {[pos EXCEPT !.at = pos.at + interval(p.start)]}
      [] p.pattern = "Poisson" -> {[pos EXCEPT !.at = pos.at + gap] : gap \in Gaps}
      [] p.pattern = "Ramp" -> {[pos EXCEPT !.at = pos.at + rampInterval(p, pos.at)]}
      [] p.pattern = "Step" -> {emitStep(p, pos)}

\* emit refuses an arrival at or after the end of the phase.
Over(p, pos) == pos.at >= p.duration
=============================================================================
