----------------------------- MODULE LoadRequest -----------------------------
(***************************************************************************)
(* From spec.load to a running generator: the controller renders the       *)
(* arguments of the load generator (internal/controller/loadprofile.go and *)
(* job.go), the command parses and validates them and fills in defaults    *)
(* (cmd/loadgen/main.go, internal/loadgen/config.go).  An optional field   *)
(* is a set of at most one value.  Durations and rates survive the trip    *)
(* through flags and JSON exactly, as integers.                            *)
(***************************************************************************)
EXTENDS Phases

The(option) == CHOOSE v \in option : TRUE
OrElse(option, default) == IF option = {} THEN default ELSE The(option)

\* spec.load.profile, the fields that its pattern does not use left out.
Profile(pattern) ==
    [pattern |-> pattern, endRPS |-> {}, rampDuration |-> {}, stepRPS |-> {},
     stepDuration |-> {}, spikes |-> <<>>]

\* What the API server admits: the schema has types for all fields and names
\* the patterns, and no bound on a rate or a duration.  It also keeps the
\* concurrency from being negative, which nothing here depends on.
Optional(T) == {option \in SUBSET T : \A u, v \in option : u = v}
Spikes == [at : Int, duration : Int, rps : Int]
Profiles == [pattern : Patterns \cup {"Spike"},
             endRPS : Optional(Int), rampDuration : Optional(Int),
             stepRPS : Optional(Int), stepDuration : Optional(Int),
             spikes : Seq(Spikes)]
Specs == [port : Int, sla : Int, base : Int, concurrency : Int,
          warmup : Optional(Int), profile : Optional(Profiles)]

Refused == [ok |-> FALSE, phases |-> <<>>]
Accepted(phases) == [ok |-> TRUE, phases |-> phases]

-----------------------------------------------------------------------------
(* loadprofile.go.                                                         *)

\* Mutant: where the previous spike ended does not matter.
SliceAnywhere(base, total, done, spike) ==
    IF ~done.ok \/ spike.at + spike.duration > total \/ spike.rps <= base
    THEN [done EXCEPT !.ok = FALSE]
    ELSE [done EXCEPT !.cursor = spike.at + spike.duration,
            !.phases = @ \o <<Constant(spike.duration, spike.rps, TRUE)>>]

\* The loop of decomposeSpike: one spike, after the base slice before it.
Slice(base, total, done, spike) ==
    LET pre == spike.at - done.cursor
    IN  IF \/ ~done.ok
           \/ pre < 0
           \/ spike.at + spike.duration > total
           \/ spike.rps <= base
        THEN [done EXCEPT !.ok = FALSE]
        ELSE [ok |-> TRUE,
              cursor |-> spike.at + spike.duration,
              phases |-> done.phases
                         \o (IF pre > 0 THEN <<Constant(pre, base, TRUE)>> ELSE <<>>)
                         \o <<Constant(spike.duration, spike.rps, TRUE)>>]

\* What the loop has done after each number of spikes.
Sliced(base, total, spikes) ==
    LET done[n \in 0..Len(spikes)] ==
            IF n = 0 THEN [ok |-> TRUE, cursor |-> 0, phases |-> <<>>]
            ELSE Slice(base, total, done[n - 1], spikes[n])
    IN  done

decomposeSpike(base, total, spikes) ==
    LET done == Sliced(base, total, spikes)[Len(spikes)]
        tail == total - done.cursor
    IN  IF spikes = <<>> \/ ~done.ok THEN Refused
        ELSE Accepted(done.phases
                      \o IF tail > 0 THEN <<Constant(tail, base, TRUE)>> ELSE <<>>)

\* The phases of the measurement window.
measurePhases(base, total, profile) ==
    LET measure == [Constant(total, base, TRUE) EXCEPT !.pattern = profile.pattern]
        ramp == OrElse(profile.rampDuration, 0)
    IN  CASE profile.pattern \in {"Constant", "Poisson"} -> Accepted(<<measure>>)
          [] profile.pattern = "Ramp" ->
                IF profile.endRPS = {} THEN Refused
                ELSE Accepted(<<[measure EXCEPT !.end = The(profile.endRPS),
                                   !.duration = IF ramp > 0 THEN ramp ELSE total]>>)
          [] profile.pattern = "Step" ->
                IF profile.stepRPS = {} \/ profile.stepDuration = {} THEN Refused
                ELSE Accepted(<<[measure EXCEPT !.step = The(profile.stepRPS),
                                   !.every = The(profile.stepDuration)]>>)
          [] profile.pattern = "Spike" -> decomposeSpike(base, total, profile.spikes)
          [] OTHER -> Refused

\* The empty list stands for the nil that selects the flags of a single shot.
buildPhases(spec) ==
    LET warm == OrElse(spec.warmup, 0)
        measure == measurePhases(spec.base, spec.sla - warm,
                                 OrElse(spec.profile, Profile("Constant")))
    IN  IF spec.profile = {} /\ warm = 0 THEN Accepted(<<>>)
        ELSE IF spec.sla <= 0 \/ warm < 0 \/ warm >= spec.sla \/ ~measure.ok THEN Refused
        ELSE Accepted((IF warm > 0 THEN <<Constant(warm, spec.base, FALSE)>> ELSE <<>>)
                      \o measure.phases)

-----------------------------------------------------------------------------
(* job.go and cmd/loadgen/main.go.                                         *)

\* loadgenArgs passes the phases, or the rate and duration of a single shot.
loadgenArgs(spec) ==
    LET built == buildPhases(spec)
    IN  [ok |-> built.ok, phases |-> built.phases,
         rps |-> spec.base, duration |-> spec.sla,
         concurrency |-> Max({0, spec.concurrency})]

\* Config.Validate; the controller always gives the flags of URL and mode.
Validate(args) ==
    IF args.phases = <<>> THEN args.rps > 0 /\ args.duration > 0
    ELSE \A i \in DOMAIN args.phases : Valid(args.phases[i])

\* Config.withDefaults.
withDefaults(args) ==
    LET phases == IF args.phases # <<>> THEN args.phases
                  ELSE <<Constant(args.duration, args.rps, TRUE)>>
    IN  [phases |-> phases,
         concurrency |-> IF args.concurrency # 0 THEN args.concurrency
                         ELSE DefaultConcurrency(phases)]

\* What becomes of the arguments: the controller may refuse to build the Job,
\* the generator may refuse to start, or it runs these phases with this pool.
NoLoad == [phases |-> <<>>, concurrency |-> 0]
StartWith(args) ==
    CASE ~args.ok -> [result |-> "JobBuildFailed", config |-> NoLoad]
      [] args.ok /\ ~Validate(args) -> [result |-> "Rejected", config |-> NoLoad]
      [] OTHER -> [result |-> "Started", config |-> withDefaults(args)]

Start(spec) == StartWith(loadgenArgs(spec))
=============================================================================
