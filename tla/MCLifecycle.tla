----------------------------- MODULE MCLifecycle -----------------------------
(***************************************************************************)
(* Instances of Lifecycle for model checking.                              *)
(***************************************************************************)
EXTENDS Lifecycle

PassReport == [sla |-> "Pass", traffic |-> "Pass"]
FailReport == [sla |-> "Pass", traffic |-> "Fail"]

OneReport == {PassReport}
TwoReports == {PassReport, FailReport}

OneShot == [schedule |-> "None", suspend |-> FALSE]
Scheduled == [schedule |-> "Valid", suspend |-> FALSE]
Paused == [schedule |-> "Valid", suspend |-> TRUE]
Broken == [schedule |-> "Invalid", suspend |-> FALSE]

JustOneShot == {OneShot}
JustScheduled == {Scheduled}
ScheduleEdits == {Scheduled, Paused, Broken}
=============================================================================
