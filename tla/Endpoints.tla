------------------------------ MODULE Endpoints ------------------------------
(***************************************************************************)
(* The observer's endpoint tracker (internal/observer/endpoints.go) and    *)
(* the two analyzers that set failed requests against its events           *)
(* (internal/analyzer/leakage, internal/analyzer/drain).                   *)
(***************************************************************************)
EXTENDS Integers, Sequences, FiniteSets, FiniteSetsExt

CONSTANTS
    Slices,         \* the EndpointSlices that may back the Service
    IPs,            \* pod addresses
    leakageWindow,  \* DefaultLeakageWindow
    drainWindow,    \* DefaultDrainWindow
    DefaultLookback

ASSUME EndpointsAssumptions ==
    /\ leakageWindow \in Nat \ {0} /\ drainWindow \in Nat \ {0}
    /\ DefaultLookback \in Nat

-----------------------------------------------------------------------------
(* The tracker.  Of a slice it keeps the addresses that are ready in it; an *)
(* address listed twice is ready if it is ready once.  A slice that is gone *)
(* contributes none.                                                        *)

newEndpointTracker == [slices |-> [s \in Slices |-> {}], ready |-> {}]

\* Mutant: an update is compared with its own slice only.
applyToSlice(tracker, slice, ready) ==
    [tracker EXCEPT !.slices[slice] = ready,
                    !.ready = (@ \ tracker.slices[slice]) \cup ready]

\* The tracker after one slice event, ready being the addresses that are ready
\* in the slice, none if it is deleted.
apply(tracker, slice, ready) ==
    LET slices == [tracker.slices EXCEPT ![slice] = ready]
    IN  [slices |-> slices, ready |-> UNION {slices[s] : s \in Slices}]

EventsOf(kind, ips, at) == {[kind |-> kind, ip |-> ip, at |-> at] : ip \in ips}

\* The elements of a finite set, in some order.
Listed(S) == CHOOSE f \in [1..Cardinality(S) -> S] : IsInjective(f)

\* The events that apply returns; the code ranges over maps, in any order.
applyEvents(before, after, at) ==
    LET added == EventsOf("Ready", after.ready \ before.ready, at)
        removed == EventsOf("Removed", before.ready \ after.ready, at)
    IN  Listed(added) \o Listed(removed)

-----------------------------------------------------------------------------
(* Correlation.  Only the instants matter: of the events of one kind and of *)
(* the error samples, both as sorted sequences.                             *)

\* The instants at[i] of the indices in I, in ascending order: each index stands
\* where its rank among them says.
Sorted(at, I) ==
    LET rank(i) == Cardinality({j \in I : at[j] < at[i] \/ (at[j] = at[i] /\ j <= i)})
    IN  [k \in 1..Cardinality(I) |-> at[CHOOSE i \in I : rank(i) = k]]

Times(events, kind) ==
    Sorted([i \in DOMAIN events |-> events[i].at],
           {i \in DOMAIN events : events[i].kind = kind})

\* Mutant: the cursor also leaves the window in which it counts an error.
MatchOnce(starts, before, after, scan, err) ==
    LET open == {j \in scan.cursor..Len(starts) : err < starts[j] + after}
        cursor == Min(open \cup {Len(starts) + 1})
        hit == cursor <= Len(starts) /\ err >= starts[cursor] - before
    IN  [cursor |-> cursor + IF hit THEN 1 ELSE 0,
         hits |-> scan.hits + IF hit THEN 1 ELSE 0]

\* The scan over sorted errors: the cursor skips the windows that closed before
\* this error, and the error counts if the next window has opened.
Match(starts, before, after, scan, err) ==
    LET open == {j \in scan.cursor..Len(starts) : err < starts[j] + after}
        cursor == Min(open \cup {Len(starts) + 1})
        hit == cursor <= Len(starts) /\ err >= starts[cursor] - before
    IN  [cursor |-> cursor, hits |-> scan.hits + IF hit THEN 1 ELSE 0]

\* How many of the errors fall into a window.
Correlate(starts, errors, before, after) ==
    LET errs == Sorted(errors, DOMAIN errors)
        scan[i \in 0..Len(errs)] ==
            IF i = 0 THEN [cursor |-> 1, hits |-> 0]
            ELSE Match(starts, before, after, scan[i - 1], errs[i])
    IN  scan[Len(errs)].hits

LeakedRequests(events, errors) ==
    Correlate(Times(events, "Ready"), errors, 0, leakageWindow)

DroppedRequests(events, errors) ==
    Correlate(Times(events, "Removed"), errors, DefaultLookback, drainWindow)

\* Mutant: the severity is set only when it escalates.
CountAlertUnset(type, count, critical) ==
    IF count = 0 THEN {}
    ELSE {[type |-> type, about |-> 0,
           severity |-> IF count >= critical THEN "Critical" ELSE ""]}

\* The alert of a correlation: none, or one that is critical from a count on.
CountAlert(type, count, critical) ==
    IF count = 0 THEN {}
    ELSE {[type |-> type, about |-> 0,
           severity |-> IF count >= critical THEN "Critical" ELSE "Warning"]}
=============================================================================
