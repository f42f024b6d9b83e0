----------------------------- MODULE MCObserver -----------------------------
(* A small cluster for the observer: an autoscaler that goes from one to   *)
(* three replicas, two slices that may list the same pod, and the postures *)
(* that tell the audits apart.                                             *)
EXTENDS Observer

HPA(current, desired, conditions) ==
    [current |-> current, desired |-> desired, conditions |-> conditions]

ThreeHPAStates ==
    {HPA(1, 1, {}), HPA(2, 3, {"UnableToScale"}), HPA(3, 3, {"ScalingLimited"})}

FirstIP == CHOOSE ip \in IPs : TRUE
FirstSlice == CHOOSE s \in Slices : TRUE

OneSlice == {[s \in Slices |-> IF s = FirstSlice THEN {FirstIP} ELSE Absent]}
ThreeReadySets == {Absent, {FirstIP}, IPs}

CPU(periods, throttled) == [periods |-> periods, throttled |-> throttled]

OneStat == {CPU(100, 10)}

\* One failure, and two that come in the wrong way round.
TwoBursts == {<<0>>, <<0, 1>>}

Count(n) == [percent |-> FALSE, value |-> n]
Percent(n) == [percent |-> TRUE, value |-> n]
MinAvailable(v) == [minAvailable |-> v, maxUnavailable |-> Absent]
MaxUnavailable(v) == [minAvailable |-> Absent, maxUnavailable |-> v]

Pod(created, containersReady, ready, period) ==
    [created |-> created, containersReady |-> containersReady, ready |-> ready,
     period |-> period]

Bare == [after |-> Absent, pods |-> <<>>, ndots |-> Malformed,
         budgets |-> Absent, scaleRead |-> FALSE]

\* Every list failed; a cold start and budgets, with and without the scale.
ThreePostures ==
    {Bare,
     [Bare EXCEPT !.after = CPU(50, 50), !.ndots = 2,
                  !.budgets = <<MinAvailable(Count(2))>>,
                  !.pods = <<Pod(2, 2, 4, 1), Pod(2, 3, 8, 1)>>],
     [Bare EXCEPT !.after = CPU(200, 15), !.ndots = Absent, !.scaleRead = TRUE,
                  !.budgets = <<MinAvailable(Percent(51)), MinAvailable(Percent(67)),
                                MinAvailable(Count(2)), MaxUnavailable(Percent(33)),
                                MaxUnavailable(Percent(34)), MaxUnavailable(Count(1)),
                                MaxUnavailable(Count(0))>>,
                  !.pods = <<Pod(0, 0, 3, 1)>>]}
=============================================================================
