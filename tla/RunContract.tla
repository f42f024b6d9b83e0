----------------------------- MODULE RunContract -----------------------------
(***************************************************************************)
(* What a ScaleValidation promises to whoever watches its status: the      *)
(* phases a validation goes through, the verdict it shows and the history  *)
(* of its verdicts, with no Job, cache, conflict or crash in sight.        *)
(***************************************************************************)
EXTENDS Integers, Sequences

CONSTANTS
    Results,    \* the verdicts a run may end with: [phase, report] records
    NoReport,   \* the report of a validation that has none
    Limit       \* how many verdicts the history keeps

VARIABLES phase, report, history

view == <<phase, report, history>>

Finished == {"Succeeded", "Failed", "Error"}

\* A validation is new, or was finished by an older release.
Init ==
    \/ phase = "" /\ report = NoReport /\ history = <<>>
    \/ \E e \in Results : phase = e.phase /\ report = e.report /\ history = <<e>>

\* The first run is accepted, or a later one asked for: no verdict is shown until
\* it has one.
Accept ==
    /\ phase \in Finished \cup {""}
    /\ phase' = "Pending" /\ report' = NoReport
    /\ UNCHANGED history

Load ==
    /\ phase = "Pending"
    /\ phase' = "Running"
    /\ UNCHANGED <<report, history>>

\* A run ends with a verdict, which is shown and put first in the history.
Conclude ==
    /\ phase \in {"Pending", "Running"}
    /\ \E e \in Results :
          /\ phase' = e.phase /\ report' = e.report
          /\ LET all == <<e>> \o history
             IN  history' = SubSeq(all, 1, IF Len(all) > Limit THEN Limit ELSE Len(all))

\* A run ends without a verdict, or a schedule that does not parse is refused.  The
\* verdict of the last run, if it is shown, stays.
GiveUp ==
    /\ phase # "Gone" /\ phase # "Terminating"
    /\ phase' = "Error"
    /\ UNCHANGED <<report, history>>

Terminate ==
    /\ phase # "Gone"
    /\ phase' = "Terminating"
    /\ UNCHANGED <<report, history>>

Vanish ==
    /\ phase' = "Gone" /\ report' = NoReport /\ history' = <<>>

Next == Accept \/ Load \/ Conclude \/ GiveUp \/ Terminate \/ Vanish

Spec == Init /\ [][Next]_view
=============================================================================
