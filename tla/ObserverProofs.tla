--------------------------- MODULE ObserverProofs ---------------------------
(***************************************************************************)
(* Safety of the observer's session, for any cluster, any number of        *)
(* instances and any length of a run: its types, what its endpoint tracker *)
(* can miss (Followed), and what the counts of its report mean.            *)
(***************************************************************************)
EXTENDS ReportProofs, EndpointsProofs

Notices == [slice : Slices, ready : SUBSET IPs]

Typed ==
    /\ slices \in [Slices -> ReadySets]
    /\ tracker \in [slices : [Slices -> SUBSET IPs], ready : SUBSET IPs]
    /\ stream \in [state : {"off", "opening", "open", "dead"}, queue : Seq(Notices)]

\* The latest notice of the slice that is under way tells what it now is.
Told(s) ==
    \E i \in DOMAIN stream.queue :
       /\ stream.queue[i] = Notify(s)
       /\ \A j \in DOMAIN stream.queue : stream.queue[j].slice = s => j <= i

Known(s) ==
    /\ \A j \in DOMAIN stream.queue : stream.queue[j].slice # s
    /\ tracker.slices[s] = Notify(s).ready \/ (s \in missed /\ slices[s] = Absent)

\* Before the watch is open a slice that is gone is missed; once it is open every
\* slice is known, or news of it is under way.
Followed ==
    /\ pc \in {"resolve", "before"} => tracker = newEndpointTracker /\ stream = NoStream
    /\ stream.state = "opening" =>
          \A s \in Slices : slices[s] = Absent => tracker.slices[s] = {} \/ s \in missed
    /\ stream.state = "open" => \A s \in Slices : Told(s) \/ Known(s)

WInv == Typed /\ Followed

\* Init establishes the invariant: there is no watch.
LEMMA WInit == Init => WInv
<1> SUFFICES ASSUME Init PROVE WInv
  OBVIOUS
<1>1. slices \in [Slices -> ReadySets]
  BY ObserverAssumptions DEF Init
<1>2. stream = NoStream /\ tracker = newEndpointTracker /\ pc = "down"
  BY DEF Init
<1>3. stream \in [state : {"off", "opening", "open", "dead"}, queue : Seq(Notices)]
  BY <1>2 DEF NoStream
<1>4. tracker \in [slices : [Slices -> SUBSET IPs], ready : SUBSET IPs]
  BY <1>2 DEF newEndpointTracker
<1> QED
  BY <1>1, <1>2, <1>3, <1>4 DEF WInv, Typed, Followed, NoStream

\* A notice names a slice and the addresses ready in it.
LEMMA NotifyTyped ==
    ASSUME Typed, NEW s \in Slices
    PROVE  /\ Notify(s) \in Notices
           /\ Notify(s).slice = s
BY ObserverAssumptions DEF Typed, Notify, Notices

\* A step that leaves the slices, the watch and the tracker alone, and does not start
\* a session, keeps the invariant.
LEMMA Quiet ==
    ASSUME WInv, UNCHANGED <<slices, stream, tracker, missed>>,
           pc' \in {"resolve", "before"} => pc \in {"resolve", "before"}
    PROVE  WInv'
<1>1. Typed'
  BY DEF WInv, Typed
<1>2. \A s \in Slices : (Told(s) <=> Told(s)') /\ (Known(s) <=> Known(s)')
  BY DEF Told, Known, Notify
<1> QED
  BY <1>1, <1>2 DEF WInv, Followed

\* So does one that drops the watch.
LEMMA NoWatch ==
    ASSUME WInv, slices' = slices,
           stream' \in {NoStream, [state |-> "dead", queue |-> <<>>]},
           tracker' \in {tracker, newEndpointTracker},
           pc' \in {"resolve", "before"} =>
              tracker' = newEndpointTracker /\ stream' = NoStream
    PROVE  WInv'
<1>1. newEndpointTracker \in [slices : [Slices -> SUBSET IPs], ready : SUBSET IPs]
  BY DEF newEndpointTracker
<1>2. stream'.state \in {"off", "dead"} /\ stream'.queue = <<>>
  BY DEF NoStream
<1>3. stream' \in [state : {"off", "opening", "open", "dead"}, queue : Seq(Notices)]
  <2>1. <<>> \in Seq(Notices)
    OBVIOUS
  <2>2. CASE stream' = NoStream
    BY <2>1, <2>2 DEF NoStream
  <2>3. CASE stream' = [state |-> "dead", queue |-> <<>>]
    BY <2>1, <2>3
  <2> QED
    BY <2>2, <2>3
<1>4. Typed'
  BY <1>1, <1>3 DEF WInv, Typed
<1> QED
  BY <1>2, <1>4 DEF WInv, Followed

\* The watch goroutine starts with a tracker that knows no slice.
LEMMA WScrapeBefore == ASSUME WInv, ScrapeBefore PROVE WInv'
<1>1. /\ stream = NoStream /\ tracker = newEndpointTracker
      /\ stream' = [stream EXCEPT !.state = "opening"] /\ pc' = "poll"
      /\ UNCHANGED <<slices, tracker, missed>>
  BY Zenon DEF WInv, Followed, ScrapeBefore
<1>2. stream' = [state |-> "opening", queue |-> <<>>]
  BY <1>1 DEF NoStream
<1>3. \A s \in Slices : tracker'.slices[s] = {}
  BY <1>1 DEF newEndpointTracker
<1>4. Typed'
  BY <1>1, <1>2 DEF WInv, Typed
<1> QED
  BY <1>1, <1>2, <1>3, <1>4 DEF WInv, Followed

\* An opened watch tells of every slice that exists; the others are known to be gone
\* or missed.
LEMMA WWatchOpens == ASSUME WInv, WatchOpens PROVE WInv'
<1> DEFINE exist == {s \in Slices : slices[s] # Absent}
           list == Listed(exist)
           queue == [i \in DOMAIN list |-> Notify(list[i])]
<1>1. /\ stream' = [state |-> "open", queue |-> queue] /\ missed' = missed \ exist
      /\ stream.state = "opening" /\ pc \in {"poll", "finalize"}
      /\ UNCHANGED <<slices, tracker, pc>>
  BY DEF WatchOpens, WatchChanges, Watching
<1>2. IsFiniteSet(exist)
  BY ObserverAssumptions, FS_Subset
<1> HIDE DEF exist
<1>3. /\ list \in Seq(exist)
      /\ \A s \in exist : \E i \in DOMAIN list : list[i] = s
      /\ \A i, j \in DOMAIN list : list[i] = list[j] => i = j
  BY <1>2, ListedOnce
<1> HIDE DEF list
<1>4. exist \subseteq Slices
  BY DEF exist
<1>5. \A i \in DOMAIN list : list[i] \in exist
  BY <1>3
<1>6. \A i \in DOMAIN list : queue[i] \in Notices /\ queue[i].slice = list[i]
  BY <1>4, <1>5, NotifyTyped DEF WInv
<1>7. DOMAIN queue = 1..Len(list) /\ DOMAIN list = 1..Len(list) /\ Len(list) \in Nat
  BY <1>3
<1>8. queue \in Seq(Notices)
  <2>1. queue \in [1..Len(list) -> Notices]
    BY <1>6, <1>7
  <2> QED
    BY <2>1, <1>7, SeqDef
<1>9. DOMAIN queue = DOMAIN list
  OBVIOUS
<1>10. \A s \in Slices : Notify(s)' = Notify(s)
  BY <1>1 DEF Notify
<1>11. ASSUME NEW s \in exist PROVE Told(s)'
  <2>1. PICK i \in DOMAIN list : list[i] = s
    BY <1>3
  <2>2. queue[i] = Notify(s)
    BY <2>1
  <2>3. \A j \in DOMAIN queue : queue[j].slice = s => j = i
    BY <1>3, <1>6, <1>9, <2>1
  <2>4. i \in DOMAIN queue /\ i <= i /\ stream'.queue = queue
    BY <1>1, <1>7, <2>1
  <2> HIDE DEF queue
  <2> QED
    BY <1>4, <1>7, <1>10, <2>2, <2>3, <2>4 DEF Told
<1>12. ASSUME NEW s \in Slices \ exist PROVE Known(s)'
  <2>1. slices[s] = Absent /\ s \in missed' <=> s \in missed
    BY <1>1 DEF exist
  <2>2. slices[s] = Absent
    BY DEF exist
  <2>3. tracker.slices[s] = {} \/ s \in missed
    BY <1>1, <2>2 DEF WInv, Followed
  <2>4. Notify(s).ready = {}
    BY <2>2 DEF Notify
  <2>5. \A j \in DOMAIN queue : queue[j].slice # s
    BY <1>5, <1>6, <1>9
  <2> HIDE DEF queue
  <2>6. stream'.queue = queue
    BY <1>1
  <2> QED
    BY <1>1, <1>10, <2>2, <2>3, <2>4, <2>5, <2>6 DEF Known
<1>13. Typed'
  BY <1>1, <1>8 DEF WInv, Typed
<1> QED
  BY <1>1, <1>11, <1>12, <1>13 DEF WInv, Followed

\* A watch that is closed leaves what is gone, and still in the tracker, missed.
LEMMA WWatchCloses == ASSUME WInv, WatchCloses PROVE WInv'
<1>1. /\ stream' = [state |-> "opening", queue |-> <<>>]
      /\ missed' = missed \cup {s \in Slices : slices[s] = Absent /\ tracker.slices[s] # {}}
      /\ UNCHANGED <<slices, tracker, pc>> /\ pc \in {"poll", "finalize"}
  BY DEF WatchCloses, WatchChanges, Watching
<1>2. Typed'
  BY <1>1 DEF WInv, Typed
<1> QED
  BY <1>1, <1>2 DEF WInv, Followed

\* The tracker takes the first notice.  A slice told of by a later one stays so; one
\* told of by this one is now known; the others are not touched.
LEMMA WConsume == ASSUME WInv, consumeWatch PROVE WInv'
<1> DEFINE q == stream.queue
           ev == Head(q)
<1>1. /\ stream.state = "open" /\ q # <<>> /\ pc \in {"poll", "finalize"}
      /\ stream' = [stream EXCEPT !.queue = Tail(@)]
      /\ tracker' = apply(tracker, ev.slice, ev.ready)
      /\ UNCHANGED <<slices, missed, pc>>
  BY DEF consumeWatch, WatchChanges, Watching
<1>2. q \in Seq(Notices)
  BY DEF WInv, Typed
<1>3. /\ ev \in Notices /\ Tail(q) \in Seq(Notices) /\ Len(Tail(q)) = Len(q) - 1
      /\ \A i \in 1..Len(Tail(q)) : Tail(q)[i] = q[i + 1]
  BY <1>1, <1>2, HeadTailProperties
<1>4. ev = q[1] /\ Len(q) \in Nat \ {0} /\ DOMAIN q = 1..Len(q)
      /\ DOMAIN Tail(q) = 1..Len(Tail(q))
  BY <1>1, <1>2, <1>3
<1>5. stream'.state = "open" /\ stream'.queue = Tail(q)
      /\ stream' \in [state : {"off", "opening", "open", "dead"}, queue : Seq(Notices)]
  BY <1>1, <1>3, Zenon DEF WInv, Typed
<1>6. tracker'.slices = [tracker.slices EXCEPT ![ev.slice] = ev.ready]
  BY <1>1 DEF apply
<1>7. tracker' \in [slices : [Slices -> SUBSET IPs], ready : SUBSET IPs]
  <2>1. tracker'.slices \in [Slices -> SUBSET IPs]
    BY <1>3, <1>6 DEF WInv, Typed, Notices
  <2>2. tracker' = [slices |-> tracker'.slices,
                    ready |-> UNION {tracker'.slices[s] : s \in Slices}]
    BY <1>1 DEF apply
  <2>3. UNION {tracker'.slices[s] : s \in Slices} \in SUBSET IPs
    BY <2>1
  <2> QED
    BY <2>1, <2>2, <2>3
<1>8. \A s \in Slices : Notify(s)' = Notify(s)
  BY <1>1 DEF Notify
<1> HIDE DEF ev, q
<1>9. ASSUME NEW s \in Slices PROVE Told(s)' \/ Known(s)'
  <2>1. CASE Told(s)
    <3>1. PICK i \in DOMAIN q :
             q[i] = Notify(s) /\ \A j \in DOMAIN q : q[j].slice = s => j <= i
      BY <2>1 DEF Told, q
    <3>2. CASE i = 1
      <4>1. \A j \in DOMAIN Tail(q) : Tail(q)[j].slice # s
        BY <1>3, <1>4, <3>1, <3>2
      <4>2. ev = Notify(s) /\ Notify(s).slice = s
        BY <1>4, <3>1, <3>2, NotifyTyped DEF WInv
      <4>3. tracker'.slices[s] = Notify(s).ready
        BY <1>6, <4>2 DEF WInv, Typed
      <4> QED
        BY <1>5, <1>8, <4>1, <4>3 DEF Known
    <3>3. CASE i # 1
      <4>1. i - 1 \in DOMAIN Tail(q) /\ Tail(q)[i - 1] = Notify(s)
        BY <1>3, <1>4, <3>1, <3>3
      <4>2. \A j \in DOMAIN Tail(q) : Tail(q)[j].slice = s => j <= i - 1
        BY <1>3, <1>4, <3>1
      <4> QED
        BY <1>5, <1>8, <4>1, <4>2 DEF Told
    <3> QED
      BY <3>2, <3>3
  <2>2. CASE Known(s)
    <3>1. \A j \in DOMAIN q : q[j].slice # s
      BY <2>2 DEF Known, q
    <3>2. ev.slice # s /\ \A j \in DOMAIN Tail(q) : Tail(q)[j].slice # s
      BY <1>3, <1>4, <3>1
    <3>3. tracker'.slices[s] = tracker.slices[s]
      BY <1>6, <3>2 DEF WInv, Typed
    <3> QED
      BY <1>1, <1>5, <1>8, <2>2, <3>2, <3>3 DEF Known
  <2> QED
    BY <1>1, <2>1, <2>2 DEF WInv, Followed
<1>10. Typed'
  BY <1>1, <1>5, <1>7 DEF WInv, Typed
<1> QED
  BY <1>1, <1>5, <1>9, <1>10 DEF WInv, Followed

\* A slice changes: an open watch gets a notice, and otherwise a deletion is missed.
LEMMA WSliceChanges == ASSUME WInv, SliceChanges PROVE WInv'
<1>1. PICK c \in Slices, ready \in ReadySets :
         /\ slices' = [slices EXCEPT ![c] = ready]
         /\ stream' = IF stream.state # "open" THEN stream
                      ELSE [stream EXCEPT !.queue = Append(@, Notify(c)')]
         /\ missed' = IF stream.state # "open" /\ tracker.slices[c] # {} /\ ready = Absent
                      THEN missed \cup {c} ELSE missed \ {c}
  BY Zenon DEF SliceChanges
<1>2. UNCHANGED <<tracker, pc>>
  BY DEF SliceChanges, Change
<1>3. slices' \in [Slices -> ReadySets] /\ slices'[c] = ready
      /\ \A s \in Slices \ {c} : slices'[s] = slices[s]
  BY <1>1 DEF WInv, Typed
<1>4. Notify(c)' \in Notices /\ Notify(c)'.slice = c
  BY <1>3, ObserverAssumptions DEF Notify, Notices
<1>5. \A s \in Slices \ {c} : Notify(s)' = Notify(s)
  BY <1>3 DEF Notify
<1>6. CASE stream.state # "open"
  <2>1. stream' = stream
    BY <1>1, <1>6
  <2>2. Typed'
    BY <1>2, <1>3, <2>1 DEF WInv, Typed
  <2>3. \A s \in Slices \ {c} : s \in missed' <=> s \in missed
    BY <1>1
  <2>4. ready = Absent /\ tracker.slices[c] # {} => c \in missed'
    BY <1>1, <1>6
  <2> QED
    BY <1>2, <1>3, <1>6, <2>1, <2>2, <2>3, <2>4 DEF WInv, Followed
<1>7. CASE stream.state = "open"
  <2> DEFINE q == stream.queue
             n == Notify(c)'
  <2>1. q \in Seq(Notices) /\ DOMAIN q = 1..Len(q) /\ Len(q) \in Nat
    BY DEF WInv, Typed
  <2>2. stream'.state = "open" /\ stream'.queue = Append(q, n)
        /\ stream' = [stream EXCEPT !.queue = Append(q, n)]
    BY <1>1, <1>7 DEF WInv, Typed
  <2> HIDE DEF n
  <2>3. /\ Append(q, n) \in Seq(Notices) /\ Len(Append(q, n)) = Len(q) + 1
        /\ \A i \in 1..Len(q) : Append(q, n)[i] = q[i]
        /\ Append(q, n)[Len(q) + 1] = n
    BY <1>4, <2>1, AppendProperties DEF n
  <2>4. DOMAIN Append(q, n) = 1..(Len(q) + 1)
    BY <2>3, <2>1
  <2>5. Typed'
    BY <1>2, <1>3, <2>2, <2>3, Zenon DEF WInv, Typed
  <2>6. Told(c)'
    BY <2>1, <2>2, <2>3, <2>4 DEF Told, n
  <2>7. ASSUME NEW s \in Slices \ {c} PROVE Told(s)' \/ Known(s)'
    <3>1. n.slice # s
      BY <1>4 DEF n
    <3>2. CASE Told(s)
      <4>1. PICK i \in DOMAIN q :
               q[i] = Notify(s) /\ \A j \in DOMAIN q : q[j].slice = s => j <= i
        BY <3>2 DEF Told
      <4>2. i \in DOMAIN Append(q, n) /\ Append(q, n)[i] = Notify(s)
        BY <2>1, <2>3, <2>4, <4>1
      <4>3. \A j \in DOMAIN Append(q, n) : Append(q, n)[j].slice = s => j <= i
        BY <2>1, <2>3, <2>4, <3>1, <4>1
      <4> QED
        BY <1>5, <2>2, <4>2, <4>3 DEF Told
    <3>3. CASE Known(s)
      <4>1. \A j \in DOMAIN Append(q, n) : Append(q, n)[j].slice # s
        BY <2>1, <2>3, <2>4, <3>1, <3>3 DEF Known
      <4>2. s \in missed' <=> s \in missed
        BY <1>1
      <4> QED
        BY <1>2, <1>3, <1>5, <2>2, <3>3, <4>1, <4>2 DEF Known
    <3> QED
      BY <1>7, <3>2, <3>3 DEF WInv, Followed
  <2>8. pc' \in {"resolve", "before"} => FALSE
    BY <1>2, <1>7 DEF WInv, Followed, NoStream
  <2> QED
    BY <2>2, <2>5, <2>6, <2>7, <2>8 DEF WInv, Followed
<1> QED
  BY <1>6, <1>7

\* Every step keeps the invariant of the watch.
LEMMA WNext == WInv /\ [Next]_vars => WInv'
<1> SUFFICES ASSUME WInv, [Next]_vars PROVE WInv'
  OBVIOUS
<1>1. CASE StartSession
  BY <1>1, NoWatch DEF StartSession, cluster
<1>2. CASE Crash
  BY <1>2, NoWatch DEF Crash
<1>3. CASE Finalize
  BY <1>3, NoWatch DEF Finalize, cluster
<1>4. CASE WatchDies
  BY <1>4, NoWatch DEF WatchDies, WatchChanges, Watching
<1>5. CASE ResolveFails \/ resolveTarget \/ pollHPA \/ StopPolling
  BY <1>5, Quiet DEF ResolveFails, resolveTarget, pollHPA, StopPolling, watch, cluster
<1>6. CASE ScalingMoves \/ RequestFails
  BY <1>6, Quiet DEF ScalingMoves, RequestFails, Change
<1>7. CASE LoadStarts \/ LoadExits \/ Sigterm \/ Tick
  BY <1>7, Quiet DEF LoadStarts, LoadExits, Sigterm, Tick, LoadSteps, watch, cluster
<1>8. CASE UNCHANGED vars
  BY <1>8, Quiet DEF vars, watch, cluster
<1> QED
  BY <1>1, <1>2, <1>3, <1>4, <1>5, <1>6, <1>7, <1>8, WScrapeBefore, WWatchOpens,
     WWatchCloses, WConsume, WSliceChanges DEF Next, Session, Watch, Environment

\* Once it has applied what an open watch sent, the tracker has the slices of the
\* cluster, but for those deleted while no watch was open (watchEndpoints,
\* consumeWatch).
THEOREM CaughtUp == Spec => []OnlyDeletionsAreMissed
<1>1. WInv => OnlyDeletionsAreMissed
  BY DEF WInv, Followed, Told, Known, OnlyDeletionsAreMissed
<1> QED
  BY <1>1, WInit, WNext, PTL DEF Spec

-----------------------------------------------------------------------------
(* The tracker's events.                                                    *)

\* The tracker's addresses are those of its slices, and its events explain them.
Explained ==
    /\ now \in Nat
    /\ tracker.ready = UNION {tracker.slices[s] : s \in Slices}
    /\ Explains(events, tracker.ready)

\* A tracker that has seen nothing.
LEMMA NothingExplained ==
    LET t == newEndpointTracker
    IN  t.ready = UNION {t.slices[s] : s \in Slices} /\ Explains(<<>>, t.ready)
<1> DEFINE t == newEndpointTracker
<1>1. t.ready = {} /\ \A s \in Slices : t.slices[s] = {}
  BY DEF newEndpointTracker
<1>2. \A ip : ~LastReady(<<>>, Len(<<>>), ip)
  BY DEF LastReady
<1>3. DOMAIN <<>> = {} /\ <<>> \in Seq(Events)
  OBVIOUS
<1> HIDE DEF t
<1>4. Explains(<<>>, t.ready)
  BY <1>1, <1>2, <1>3 DEF Explains
<1> QED
  BY <1>1, <1>4 DEF t

\* Init establishes it: the tracker has seen nothing.
LEMMA EInit == Init => Explained
<1> SUFFICES ASSUME Init PROVE Explained
  OBVIOUS
<1>1. now \in Nat /\ tracker = newEndpointTracker /\ events = <<>>
  BY DEF Init
<1> QED
  BY <1>1, NothingExplained DEF Explained

\* Every step keeps the tracker's events true to it.
LEMMA ENext == WInv /\ Explained /\ [Next]_vars => Explained'
<1> SUFFICES ASSUME WInv, Explained, [Next]_vars PROVE Explained'
  OBVIOUS
<1>1. now' \in Nat
  <2>1. now' \in {now, now + 1}
    BY Zenon DEF Next, Session, Watch, Environment, StartSession, ResolveFails, resolveTarget,
           ScrapeBefore, pollHPA, StopPolling, Finalize, WatchOpens, WatchDies,
           WatchCloses, consumeWatch, WatchChanges, ScalingMoves, SliceChanges,
           RequestFails, Change, Crash, LoadStarts, LoadExits, Sigterm, LoadSteps, Tick,
           vars
  <2> QED
    BY <2>1 DEF Explained
<1>2. CASE StartSession \/ Crash
  <2>1. tracker' = newEndpointTracker /\ events' = <<>>
    BY <1>2 DEF StartSession, Crash
  <2> QED
    BY <1>1, <2>1, NothingExplained DEF Explained
<1>3. CASE consumeWatch
  <2> DEFINE ev == Head(stream.queue)
  <2>1. /\ tracker' = apply(tracker, ev.slice, ev.ready)
        /\ events' = events \o applyEvents(tracker, tracker', now)
    BY <1>3 DEF consumeWatch
  <2>2. tracker'.ready = UNION {tracker'.slices[s] : s \in Slices}
    BY <2>1, Zenon DEF apply
  <2>3. WInv'
    BY <1>3, WConsume
  <2>4. tracker'.ready \subseteq IPs
    BY <2>3 DEF WInv, Typed
  <2>5. IsFiniteSet(IPs) /\ now \in Nat /\ Explains(events, tracker.ready)
    BY ObserverAssumptions DEF Explained
  <2>6. Explains(events \o applyEvents(tracker, tracker', now), tracker'.ready)
    BY <2>4, <2>5, AppliedExplained
  <2> QED
    BY <1>1, <2>1, <2>2, <2>6, Zenon DEF Explained
<1>4. CASE UNCHANGED <<tracker, events>>
  BY <1>1, <1>4, Zenon DEF Explained
<1>5. CASE Session \/ WatchOpens \/ WatchDies \/ WatchCloses
  BY <1>2, <1>4, <1>5, Zenon DEF Session, ResolveFails, resolveTarget, ScrapeBefore, pollHPA,
                          StopPolling, Finalize, WatchOpens, WatchDies, WatchCloses, watch
<1>6. CASE Environment
  BY <1>2, <1>4, <1>6 DEF Environment, ScalingMoves, SliceChanges, RequestFails, Change,
                          LoadStarts, LoadExits, Sigterm, LoadSteps, Tick, watch
<1>7. CASE UNCHANGED vars
  BY <1>4, <1>7 DEF vars, watch
<1> QED
  BY <1>3, <1>5, <1>6, <1>7 DEF Next, Watch

\* The events of an address alternate, Ready first, and the last one says whether it
\* is ready now in some slice (endpointTracker.apply, consumeWatch).
THEOREM ReadinessExplained == Spec => []EventsExplainReadiness
<1>1. Explained => EventsExplainReadiness
  <2> SUFFICES ASSUME Explained PROVE EventsExplainReadiness
    OBVIOUS
  <2>1. \A n, ip : ReadyAfter(n, ip) <=> LastReady(events, n, ip)
    BY DEF ReadyAfter, LastReady
  <2> QED
    BY <2>1 DEF Explained, Explains, EventsExplainReadiness
<1> QED
  BY <1>1, WInit, EInit, WNext, ENext, PTL DEF Spec

-----------------------------------------------------------------------------
(* Types.                                                                   *)

Ranges ==
    /\ now \in 0..MaxTime /\ changes \in 0..MaxChanges
    /\ instances \in 0..MaxInstances
    /\ pc \in {"down", "resolve", "before", "poll", "finalize", "exited"}
    /\ load \in {"pending", "running", "exited"} /\ sigterm \in BOOLEAN

KnownTerms == \A i \in DOMAIN log :
             /\ {log[i].slaStatus, log[i].trafficIntegrity} \subseteq Verdicts
             /\ \A a \in log[i].diagnostics : a.severity \in Severities

\* A step of the session, the watch, the load or the cluster stays in the ranges.
LEMMA RangesNext == Ranges /\ [Next]_vars => Ranges'
<1> SUFFICES ASSUME Ranges, [Next]_vars PROVE Ranges'
  OBVIOUS
<1>0. /\ MaxTime \in Nat /\ MaxChanges \in Nat /\ MaxInstances \in Nat
      /\ changes < MaxChanges => changes + 1 \in 0..MaxChanges
      /\ now < MaxTime => now + 1 \in 0..MaxTime
      /\ instances < MaxInstances => instances + 1 \in 0..MaxInstances
  <2>1. /\ MaxTime \in Nat /\ MaxChanges \in Nat /\ MaxInstances \in Nat
        /\ now \in 0..MaxTime /\ changes \in 0..MaxChanges /\ instances \in 0..MaxInstances
    BY ObserverAssumptions DEF Ranges
  <2>2. changes < MaxChanges => changes + 1 \in 0..MaxChanges
    BY <2>1
  <2>3. now < MaxTime => now + 1 \in 0..MaxTime
    BY <2>1
  <2>4. instances < MaxInstances => instances + 1 \in 0..MaxInstances
    BY <2>1
  <2> QED
    BY <2>1, <2>2, <2>3, <2>4
<1>1. Upset => changes' \in 0..MaxChanges
  BY <1>0 DEF Upset, Ranges
<1>2. CASE StartSession
  BY <1>0, <1>2 DEF StartSession, Ranges, cluster, generator
<1>3. CASE ResolveFails
  BY <1>1, <1>3 DEF ResolveFails, Ranges, generator
<1>4. CASE resolveTarget
  <2>1. changes' \in 0..MaxChanges
    BY <1>1, <1>4 DEF resolveTarget, Ranges
  <2> QED
    BY <1>4, <2>1 DEF resolveTarget, Ranges, generator
<1>5. CASE ScrapeBefore
  <2>1. changes' \in 0..MaxChanges
    BY <1>1, <1>5, Zenon DEF ScrapeBefore, Ranges
  <2> QED
    BY <1>5, <2>1, Zenon DEF ScrapeBefore, Ranges, generator
<1>6. CASE pollHPA
  <2>1. changes' \in 0..MaxChanges
    BY <1>1, <1>6 DEF pollHPA, Ranges
  <2> QED
    BY <1>6, <2>1 DEF pollHPA, Ranges, generator
<1>7. CASE StopPolling \/ Finalize
  BY <1>7 DEF StopPolling, Finalize, Ranges, cluster, generator
<1>8. CASE WatchOpens \/ WatchDies \/ WatchCloses \/ consumeWatch
  <2>1. WatchChanges
    BY <1>8 DEF WatchOpens, WatchDies, WatchCloses, consumeWatch
  <2>2. changes' \in 0..MaxChanges
    BY <1>1, <1>8 DEF WatchOpens, WatchDies, WatchCloses, consumeWatch, Ranges
  <2> QED
    BY <2>1, <2>2 DEF WatchChanges, Ranges, generator
<1>9. CASE ScalingMoves \/ SliceChanges \/ RequestFails
  <2>1. Change /\ load' = load
    BY <1>9 DEF ScalingMoves, SliceChanges, RequestFails, generator
  <2> QED
    BY <1>0, <2>1 DEF Change, Ranges
<1>10. CASE Crash
  BY <1>0, <1>10 DEF Crash, Ranges, generator
<1>11. CASE LoadStarts \/ LoadExits \/ Sigterm
  <2>1. LoadSteps /\ load' \in {"pending", "running", "exited"} /\ sigterm' \in BOOLEAN
    BY <1>11, Zenon DEF LoadStarts, LoadExits, Sigterm, Ranges, generator
  <2>2. changes' \in 0..MaxChanges
    BY <1>1, <1>11 DEF LoadStarts, LoadExits, Sigterm, Ranges
  <2> QED
    BY <2>1, <2>2 DEF LoadSteps, Ranges
<1>12. CASE Tick
  BY <1>0, <1>12, Zenon DEF Tick, Ranges, cluster, generator
<1>13. CASE UNCHANGED vars
  BY <1>13 DEF vars, cluster, generator, Ranges
<1> QED
  BY <1>2, <1>3, <1>4, <1>5, <1>6, <1>7, <1>8, <1>9, <1>10, <1>11, <1>12, <1>13
     DEF Next, Session, Watch, Environment

\* A report is made of known verdicts and severities.
LEMMA ReportKnown ==
    ASSUME NEW w, NEW observed, \A a \in observed : a.severity \in Severities,
           log' = <<report(w, observed)>>
    PROVE  KnownTerms'
<1> DEFINE r == report(w, observed)
<1>1. r.slaStatus \in Verdicts /\ r.trafficIntegrity \in Verdicts
  BY Zenon DEF report, slaVerdict, trafficVerdict, Verdicts
<1>2. \A a \in r.diagnostics : a.severity \in Severities
  BY ReportAlerts
<1> HIDE DEF r
<1>3. log' = <<r>>
  BY DEF r
<1>4. \A i \in DOMAIN log' : log'[i] = r
  BY <1>3
<1> QED
  BY <1>1, <1>2, <1>4 DEF KnownTerms

\* The state of the session has its types, and its log at most one report, of known
\* verdicts and severities (Session.Run, every Diagnostics method).
THEOREM SessionTypes == Spec => []TypeOK
<1> DEFINE T == WInv /\ LInv /\ Ranges /\ KnownTerms
<1>1. Init => T
  <2>1. 0 \in 0..MaxTime /\ 0 \in 0..MaxChanges /\ 0 \in 0..MaxInstances
    BY ObserverAssumptions
  <2>2. Init => Ranges
    BY <2>1, Zenon DEF Init, Ranges
  <2>3. Init => KnownTerms
    <3>1. Init => log = <<>>
      BY Zenon DEF Init
    <3>2. log = <<>> => KnownTerms
      BY DEF KnownTerms
    <3> QED
      BY <3>1, <3>2
  <2> QED
    BY <2>2, <2>3, WInit, LInit
<1>2. T /\ [Next]_vars => T'
  <2> SUFFICES ASSUME T, [Next]_vars PROVE KnownTerms'
    BY WNext, LNext, RangesNext
  <2>1. CASE log' = <<>>
    BY <2>1 DEF KnownTerms
  <2>2. CASE log # <<>> /\ log' # <<>>
    <3>1. log' = log
      BY <2>2, Frozen DEF LInv
    <3> QED
      BY <3>1 DEF KnownTerms
  <2>3. CASE log = <<>> /\ log' # <<>>
    <3>1. CASE log' = <<report(NoWatcher, {})>>
      BY <3>1, ReportKnown
    <3>2. ASSUME NEW posture \in Postures,
                 log' = <<report(session.watcher, Observed(posture))>>
          PROVE  KnownTerms'
      <4>1. \A a \in Observed(posture) : a.severity \in Severities
        BY ObserverAssumptions, ObservedAlerts, Zenon
      <4> QED
        BY <3>2, <4>1, ReportKnown
    <3> QED
      BY <2>3, <3>1, <3>2, Prints DEF LInv
  <2> QED
    BY <2>1, <2>2, <2>3
<1>3. T => TypeOK
  <2> SUFFICES ASSUME T PROVE TypeOK
    OBVIOUS
  <2>1. Len(log) <= 1
    <3>1. CASE log = <<>>
      BY <3>1
    <3>2. CASE log # <<>>
      <4>1. PICK r : log = <<r>>
        BY <3>2 DEF LInv, Printed
      <4> QED
        BY <4>1
    <3> QED
      BY <3>1, <3>2
  <2>2. /\ stream.state \in {"off", "opening", "open", "dead"}
        /\ tracker \in [slices : [Slices -> SUBSET IPs], ready : SUBSET IPs]
    BY DEF WInv, Typed
  <2> QED
    BY <2>1, <2>2 DEF TypeOK, Ranges, KnownTerms, Severities
<1> QED
  BY <1>1, <1>2, <1>3, PTL DEF Spec

-----------------------------------------------------------------------------
(* The correlations.                                                        *)

\* The failed requests have instants, and a result that was written holds them.
Recorded ==
    /\ errors \in Seq(Nat)
    /\ file \notin {Absent, Malformed} => file.errors \in Seq(Nat)

\* Every step keeps the instants.
LEMMA RecordedNext == now \in Nat /\ Recorded /\ [Next]_vars => Recorded'
<1> SUFFICES ASSUME now \in Nat, Recorded, [Next]_vars PROVE Recorded'
  OBVIOUS
<1>1. CASE UNCHANGED generator
  BY <1>1 DEF Recorded, generator
<1>2. CASE RequestFails
  <2>1. PICK burst \in Bursts :
           /\ \A i \in DOMAIN burst : burst[i] <= now
           /\ errors' = errors \o [i \in DOMAIN burst |-> now - burst[i]]
    BY <1>2, Zenon DEF RequestFails
  <2>2. file' = file
    BY <1>2 DEF RequestFails
  <2>3. burst \in Seq(Nat)
    BY ObserverAssumptions
  <2>4. [i \in DOMAIN burst |-> now - burst[i]] \in Seq(Nat)
    <3>1. DOMAIN burst = 1..Len(burst) /\ Len(burst) \in Nat
      BY <2>3
    <3>2. \A i \in DOMAIN burst : now - burst[i] \in Nat
      BY <2>1, <2>3
    <3> QED
      BY <3>1, <3>2
  <2>5. errors' \in Seq(Nat)
    BY <2>1, <2>4 DEF Recorded
  <2> QED
    BY <2>2, <2>5 DEF Recorded
<1>3. CASE LoadStarts \/ LoadExits
  <2>1. errors' = errors
    BY <1>3 DEF LoadStarts, LoadExits
  <2>2. file' \notin {Absent, Malformed} => file' = file \/ file'.errors = Sampled(errors)
    BY <1>3 DEF LoadStarts, LoadExits
  <2>3. Sampled(errors) \in Seq(Nat)
    BY ObserverAssumptions DEF Recorded, Sampled
  <2> QED
    BY <2>1, <2>2, <2>3 DEF Recorded
<1>4. CASE Session
  BY <1>1, <1>4, Zenon DEF Session, StartSession, ResolveFails, resolveTarget, ScrapeBefore, pollHPA,
                    StopPolling, Finalize
<1>5. CASE Watch
  BY <1>1, <1>5 DEF Watch, WatchOpens, WatchDies, WatchCloses, consumeWatch, WatchChanges
<1>6. CASE ScalingMoves \/ SliceChanges \/ Crash \/ Sigterm \/ Tick
  BY <1>1, <1>6 DEF ScalingMoves, SliceChanges, Crash, Sigterm, Tick
<1>7. CASE UNCHANGED vars
  BY <1>1, <1>7 DEF vars
<1> QED
  BY <1>2, <1>3, <1>4, <1>5, <1>6, <1>7 DEF Next, Environment

\* What a count raises.
LEMMA CountRaises ==
    ASSUME NEW type, NEW count \in Nat
    PROVE  LET A == CountAlert(type, count, criticalCount)
           IN  /\ A # {} <=> count > 0
               /\ \A a \in A : a.type = type /\ (a.severity = "Critical" <=> count >= criticalCount)
<1> DEFINE x == [type |-> type, about |-> 0,
                 severity |-> IF count >= criticalCount THEN "Critical" ELSE "Warning"]
<1>1. CountAlert(type, count, criticalCount) = IF count = 0 THEN {} ELSE {x}
  BY DEF CountAlert
<1>2. x.type = type /\ (x.severity = "Critical" <=> count >= criticalCount)
  OBVIOUS
<1> HIDE DEF x
<1>3. CASE count = 0
  BY <1>1, <1>3
<1>4. CASE count # 0
  <2>1. count > 0
    BY <1>4
  <2> QED
    BY <1>1, <1>2, <1>4, <2>1
<1> QED
  BY <1>3, <1>4

\* Of a result, the alerts of each correlation are those of its count.
LEMMA CorrelationRaises ==
    ASSUME NEW result
    PROVE  LET C == CorrelationDiagnostics(result)
           IN  /\ {a \in C : a.type = "ColdStartLeakage"} =
                     CountAlert("ColdStartLeakage",
                                LeakedRequests(events, result.errors), criticalCount)
               /\ {a \in C : a.type = "UngracefulDrain"} =
                     CountAlert("UngracefulDrain",
                                DroppedRequests(events, result.errors), criticalCount)
<1> DEFINE C == CorrelationDiagnostics(result)
           L == CountAlert("ColdStartLeakage",
                           LeakedRequests(events, result.errors), criticalCount)
           D == CountAlert("UngracefulDrain",
                           DroppedRequests(events, result.errors), criticalCount)
           S == When(L \cup D # {}, Alert("MetricsLikelySkewed", "Info"))
<1>1. C = L \cup D \cup S
  BY DEF CorrelationDiagnostics
<1>2. /\ \A a \in L : a.type = "ColdStartLeakage"
      /\ \A a \in D : a.type = "UngracefulDrain"
      /\ \A a \in S : a.type = "MetricsLikelySkewed"
  BY DEF CountAlert, When, Alert, AlertAbout
<1> HIDE DEF C, L, D, S
<1>3. {a \in C : a.type = "ColdStartLeakage"} = L /\ {a \in C : a.type = "UngracefulDrain"} = D
  BY <1>1, <1>2
<1> QED
  BY <1>3 DEF C, L, D

\* A report with a traffic verdict shows the counts of the result it was made from.
LEMMA CountsPrinted ==
    ASSUME Explained, Recorded, NEW w, NEW observed,
           \A a \in observed : a.type \notin {"ColdStartLeakage", "UngracefulDrain"},
           log' = <<report(w, observed)>>, UNCHANGED <<events, file>>
    PROVE  CountsMatchWindows'
<1> DEFINE r == report(w, observed)
           D == r.diagnostics
           C == CorrelationDiagnostics(file)
           leaked == LeakedRequests(events, file.errors)
           dropped == DroppedRequests(events, file.errors)
           inReady == InWindows(events, file.errors, "Ready", 0, leakageWindow)
           inRemoved == InWindows(events, file.errors, "Removed", DefaultLookback, drainWindow)
<1>1. log'[1] = r /\ log'[1].diagnostics = D
  OBVIOUS
<1> SUFFICES ASSUME r.trafficIntegrity # "Unknown"
             PROVE  /\ CountShown("ColdStartLeakage", Cardinality(inReady))'
                    /\ CountShown("UngracefulDrain", Cardinality(inRemoved))'
  BY <1>1 DEF CountsMatchWindows, InWindows
<1>2. loadResult # Absent /\ loadResult = file /\ file \notin {Absent, Malformed}
  BY Zenon DEF report, loadResult
<1>3. events \in Seq(Events) /\ file.errors \in Seq(Nat)
  BY <1>2 DEF Explained, Explains, Recorded
<1>4. leaked = Cardinality(inReady)
  BY <1>3, CorrelationCounts, EndpointsAssumptions DEF LeakedRequests
<1>5. dropped = Cardinality(inRemoved)
  BY <1>3, CorrelationCounts, EndpointsAssumptions DEF DroppedRequests
<1>6. leaked \in Nat /\ dropped \in Nat
  <2>1. IsFiniteSet(DOMAIN file.errors)
    <3> DEFINE n == Len(file.errors)
    <3>1. DOMAIN file.errors = 1..n /\ n \in Nat
      BY <1>3
    <3> HIDE DEF n
    <3>2. IsFiniteSet(1..n)
      BY <3>1, FS_Interval
    <3> QED
      BY <3>1, <3>2
  <2>2. inReady \subseteq DOMAIN file.errors /\ inRemoved \subseteq DOMAIN file.errors
    BY DEF InWindows
  <2>3. IsFiniteSet(inReady) /\ IsFiniteSet(inRemoved)
    BY <2>1, <2>2, FS_Subset
  <2> QED
    BY <1>4, <1>5, <2>3, FS_CardinalityType
<1>7. D = When(w.samples # <<>>, HPADiagnostics(w, SLA)) \cup observed \cup C
  BY <1>2, Zenon DEF report, When
<1>8. \A a \in When(w.samples # <<>>, HPADiagnostics(w, SLA)) : a.type \in HPATypes
  BY HPAAlerts, Zenon DEF When
<1> DEFINE of(S, type) == {a \in S : a.type = type}
<1>9. /\ of(C, "ColdStartLeakage") = CountAlert("ColdStartLeakage", leaked, criticalCount)
      /\ of(C, "UngracefulDrain") = CountAlert("UngracefulDrain", dropped, criticalCount)
  BY CorrelationRaises
<1> HIDE DEF r, D, C, leaked, dropped, inReady, inRemoved
<1>10. /\ of(D, "ColdStartLeakage") = of(C, "ColdStartLeakage")
       /\ of(D, "UngracefulDrain") = of(C, "UngracefulDrain")
  BY <1>7, <1>8 DEF HPATypes
<1>11. /\ Alerts("ColdStartLeakage")' = CountAlert("ColdStartLeakage", leaked, criticalCount)
       /\ Alerts("UngracefulDrain")' = CountAlert("UngracefulDrain", dropped, criticalCount)
  BY <1>1, <1>9, <1>10 DEF Alerts
<1>12. inReady' = inReady /\ inRemoved' = inRemoved
  BY DEF inReady, inRemoved
<1> QED
  BY <1>4, <1>5, <1>6, <1>11, <1>12, CountRaises DEF CountShown

\* The two correlation alerts of a report are there, and critical, exactly as the
\* number of failed requests of the result that lie in the window of some endpoint
\* event says (leakage.Correlate, drain.Correlate).
THEOREM WindowsCounted == Spec => []CountsMatchWindows
<1> DEFINE I == WInv /\ LInv /\ Explained /\ Recorded
<1>1. Init => I /\ CountsMatchWindows
  <2>1. Init => Recorded
    BY DEF Init, Recorded
  <2>2. Init => CountsMatchWindows
    BY DEF Init, CountsMatchWindows
  <2> QED
    BY <2>1, <2>2, WInit, LInit, EInit
<1>2. I /\ [Next]_vars => I'
  BY WNext, LNext, ENext, RecordedNext DEF Explained
<1>3. ASSUME I, CountsMatchWindows, [Next]_vars PROVE CountsMatchWindows'
  <2>1. CASE log' = <<>>
    BY <2>1 DEF CountsMatchWindows
  <2>2. CASE log # <<>> /\ log' # <<>>
    <3>1. log' = log /\ events' = events /\ (load = "exited" => file' = file)
      BY <1>3, <2>2, Frozen DEF LInv
    <3>2. CASE log[1].trafficIntegrity = "Unknown"
      BY <3>1, <3>2 DEF CountsMatchWindows
    <3>3. CASE log[1].trafficIntegrity # "Unknown"
      <4>1. load = "exited"
        BY <1>3, <2>2, <3>3 DEF LInv, Reported, TrafficVerdictIsOfTheLoad
      <4>2. UNCHANGED <<log, events, file>>
        BY <3>1, <4>1
      <4> QED
        BY <1>3, <4>2, Zenon DEF CountsMatchWindows, CountShown, Alerts
    <3> QED
      BY <3>2, <3>3
  <2>3. CASE log = <<>> /\ log' # <<>>
    <3>1. CASE log' = <<report(NoWatcher, {})>> /\ UNCHANGED <<events, file>>
      BY <1>3, <3>1, CountsPrinted
    <3>2. ASSUME NEW posture \in Postures, UNCHANGED <<events, file>>,
                 log' = <<report(session.watcher, Observed(posture))>>
          PROVE  CountsMatchWindows'
      <4>1. \A a \in Observed(posture) :
               a.type \notin {"ColdStartLeakage", "UngracefulDrain"}
        BY ObserverAssumptions, ObservedAlerts, Zenon DEF PDBTypes
      <4> QED
        BY <1>3, <3>2, <4>1, CountsPrinted
    <3> QED
      BY <1>3, <2>3, <3>1, <3>2, Prints DEF LInv
  <2> QED
    BY <2>1, <2>2, <2>3
<1> QED
  BY <1>1, <1>2, <1>3, PTL DEF Spec
=============================================================================
