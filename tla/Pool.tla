-------------------------------- MODULE Pool --------------------------------
(***************************************************************************)
(* The worker pool that the load generator derives when none is configured *)
(* (Config.withDefaults, Phase.peakRPS), against the arrivals that the     *)
(* emitters of schedule.go offer it.                                       *)
(***************************************************************************)
EXTENDS Shadow

\* The arrivals of a phase from a position on, for patterns whose gaps are not
\* drawn at random.
RECURSIVE ArrivalsFrom(_, _)
ArrivalsFrom(p, pos) ==
    IF Over(p, pos) THEN {}
    ELSE {pos.at} \cup ArrivalsFrom(p, The(NextArrivals(p, pos)))

\* The arrivals of a phase.
Arrivals(p) == ArrivalsFrom(p, The(FirstArrivals(p)))

\* No second of a schedule has more arrivals than so many.
AtMost(n, arrivals) ==
    \A t \in arrivals : Cardinality({a \in arrivals : a >= t /\ a < t + Second}) <= n

\* A derived pool that is below its cap has a worker for every arrival of any
\* one second: the peak it is sized for is the peak of the schedule (peakRPS,
\* withDefaults and the emitters of schedule.go).  This is about rates that
\* divide a second; the interval of another is truncated, and some second has
\* one arrival more.
PoolCoversThePeak ==
    cr.owner # 0 /\ cr.spec.concurrency = 0 => \A c \in {Start(cr.spec).config} :
        c.concurrency < 256 => \A i \in DOMAIN c.phases :
            c.phases[i].pattern # "Poisson" =>
                AtMost(c.concurrency, Arrivals(c.phases[i]))
=============================================================================
