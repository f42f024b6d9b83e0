--------------------------- MODULE MCLoadGenerator ---------------------------
(* A small instance of LoadGenerator for TLC.                              *)
EXTENDS LoadGenerator

\* A warmup, then a rate that climbs after two ticks.
WarmupThenStep ==
    <<Constant(2, 1, FALSE),
      [Constant(3, 1, TRUE) EXCEPT !.pattern = "Step", !.step = 1, !.every = 2]>>

ThreeAnswers ==
    {Check("OK", FALSE), Check("OK", TRUE), Broken({"GOAWAY", "stream error"})}
=============================================================================
