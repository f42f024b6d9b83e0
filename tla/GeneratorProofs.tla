--------------------------- MODULE GeneratorProofs ---------------------------
(***************************************************************************)
(* Safety of the load generator, for every list of phases, every number of *)
(* workers and every size of the channel.                                  *)
(*                                                                         *)
(* The invariant has four parts: the types, that workers only live inside  *)
(* the phase they were started for (Scoped), that every emitted arrival is *)
(* at exactly one place (Conserved), and that emitters of later phases     *)
(* have emitted nothing (Unborn).                                          *)
(*                                                                         *)
(* The result rests on it: each counter of the collector is the size of a  *)
(* set of recorded requests (Tallied).  That a step of Record adds one     *)
(* element to each set that its counter goes up for, and to no other, is   *)
(* due to the conservation of the arrivals: what a worker has in hand was  *)
(* not recorded before.                                                    *)
(***************************************************************************)
EXTENDS LoadGenerator, SequenceTheorems, FiniteSetTheorems, TLAPS

Slot == [phase : Index, n : Nat \ {0}, at : Nat]
Holding == {"hold", "send", "record"}
Positions == [at : Nat, seg : Nat]
Emitters == [state : {"unborn", "emitting", "closed"}, count : Nat, pos : Positions]
Sample == [category : ErrorCategories, code : Nat, phase : Index]

Typed ==
    /\ pc \in {"next", "wait", "returned"}
    /\ phase \in 0..Len(PhaseList) /\ (pc = "wait" => phase \in Index)
    /\ emitter \in [Index -> Emitters]
    /\ ch \in [Index -> Seq(Slot)]
    /\ worker \in [Workers -> [state : Holding \cup {"exited", "select"},
                               slot : Slot \cup {NoSlot},
                               reply : Answers \cup {NoReply}]]
    /\ samples \in Seq(Sample)

Scoped ==
    /\ \A w \in Workers : /\ worker[w].state # "exited" => pc = "wait"
                          /\ worker[w].state \in Holding =>
                               worker[w].slot \in Slot /\ worker[w].slot.phase = phase
                          /\ worker[w].state = "record" =>
                               /\ PhaseList[phase].recordStats
                               /\ worker[w].reply \in Answers
                          /\ worker[w].state \notin Holding => worker[w].slot = NoSlot
    /\ \A r \in recorded : PhaseList[r.slot.phase].recordStats
    /\ \A k \in DOMAIN samples : PhaseList[samples[k].phase].recordStats

-----------------------------------------------------------------------------
(* The operators that the arrivals are made of.                            *)

\* The larger of two numbers.
LEMMA MaxOfTwo ==
    ASSUME NEW a \in Int, NEW b \in Int
    PROVE  Max({a, b}) \in {a, b} /\ Max({a, b}) >= a /\ Max({a, b}) >= b
<1>1. \E x \in {a, b} : \A y \in {a, b} : x >= y
  OBVIOUS
<1> QED
  BY <1>1 DEF Max

\* The indices of the phases.
LEMMA IndexFacts == Len(PhaseList) \in Nat /\ Index = 1..Len(PhaseList)
<1> DEFINE P == [pattern : Patterns, duration : Nat, start : Nat, end : Nat,
                 step : Nat, every : Nat, recordStats : BOOLEAN]
<1>1. PhaseList \in Seq(P)
  BY LoadGeneratorAssumptions
<1> HIDE DEF P
<1> QED
  BY <1>1 DEF Index

\* An element of PhaseList is a valid phase.
LEMMA PhaseFacts ==
    ASSUME NEW i \in Index
    PROVE  LET p == PhaseList[i]
           IN  /\ p.duration \in Nat \ {0} /\ p.start \in Nat \ {0}
               /\ p.end \in Nat /\ p.step \in Nat /\ p.every \in Nat
               /\ p.pattern \in Patterns
<1>1. Valid(PhaseList[i])
  BY LoadGeneratorAssumptions DEF Index
<1> DEFINE P == [pattern : Patterns, duration : Nat, start : Nat, end : Nat,
                 step : Nat, every : Nat, recordStats : BOOLEAN]
<1>2. PhaseList \in Seq(P) /\ i \in DOMAIN PhaseList
  BY LoadGeneratorAssumptions DEF Index
<1>3. PhaseList[i] \in P
  <2> HIDE DEF P
  <2> QED
    BY <1>2
<1> QED
  BY <1>1, <1>3 DEF Valid

\* Division by a positive number stays in Nat.
LEMMA DivNat ==
    ASSUME NEW a \in Nat, NEW b \in Nat \ {0}
    PROVE  a \div b \in Nat
OBVIOUS

\* The emitter starts at an instant of its phase.
LEMMA FirstTyped ==
    ASSUME NEW i \in Index, NEW pos \in FirstArrivals(PhaseList[i])
    PROVE  pos \in Positions
BY PhasesAssumptions DEF FirstArrivals, Positions

\* Wherever it goes from there is an instant too (emitConstant, emitPoisson,
\* emitRamp, emitStep).
LEMMA NextTyped ==
    ASSUME NEW i \in Index, NEW at \in Positions,
           NEW pos \in NextArrivals(PhaseList[i], at)
    PROVE  pos \in Positions
<1> DEFINE p == PhaseList[i]
<1>1. /\ p.duration \in Nat \ {0} /\ p.start \in Nat \ {0}
      /\ p.end \in Nat /\ p.step \in Nat /\ p.every \in Nat
      /\ p.pattern \in Patterns
  BY PhaseFacts
<1>2. at.at \in Nat /\ at.seg \in Nat /\ Second \in Nat \ {0}
  BY PhasesAssumptions DEF Positions
<1> HIDE DEF p
<1>3. CASE p.pattern = "Constant"
  <2>1. interval(p.start) \in Nat
    BY <1>1, <1>2, DivNat DEF interval
  <2>2. pos = [at EXCEPT !.at = at.at + interval(p.start)]
    BY <1>3 DEF NextArrivals, p
  <2> QED
    BY <1>2, <2>1, <2>2 DEF Positions
<1>4. CASE p.pattern = "Poisson"
  <2>1. PICK gap \in Gaps : pos = [at EXCEPT !.at = at.at + gap]
    BY <1>4 DEF NextArrivals, p
  <2>2. gap \in Nat
    BY PhasesAssumptions
  <2> QED
    BY <1>2, <2>1, <2>2 DEF Positions
<1>5. CASE p.pattern = "Ramp"
  <2>1. rampRate(p, at.at) \in Nat \ {0}
    <3>1. p.start * p.duration + at.at * (p.end - p.start) \in Int
      BY <1>1, <1>2
    <3> DEFINE r == p.start * p.duration + at.at * (p.end - p.start)
    <3>2. p.duration \in Int
      BY <1>1
    <3>3. rampRate(p, at.at) = Max({p.duration, r})
      BY DEF rampRate
    <3> HIDE DEF r
    <3>4. Max({p.duration, r}) \in {p.duration, r} /\ Max({p.duration, r}) >= p.duration
      BY <3>1, <3>2, MaxOfTwo, Zenon DEF r
    <3> QED
      BY <1>1, <3>1, <3>3, <3>4 DEF r
  <2>2. Second * p.duration \in Nat
    BY <1>1, <1>2
  <2>3. (Second * p.duration) \div rampRate(p, at.at) \in Nat
    BY <2>1, <2>2, DivNat
  <2>4. rampInterval(p, at.at) \in Nat
    <3> DEFINE q == (Second * p.duration) \div rampRate(p, at.at)
    <3>1. q \in Int /\ 1 \in Int
      BY <2>3
    <3>2. rampInterval(p, at.at) = Max({1, q})
      BY DEF rampInterval
    <3>3. q \in Nat
      BY <2>3
    <3> HIDE DEF q
    <3>4. Max({1, q}) \in {1, q}
      BY <3>1, MaxOfTwo, Zenon
    <3> QED
      BY <3>2, <3>3, <3>4
  <2>5. pos = [at EXCEPT !.at = at.at + rampInterval(p, at.at)]
    BY <1>5 DEF NextArrivals, p
  <2> QED
    BY <1>2, <2>4, <2>5 DEF Positions
<1>6. CASE p.pattern = "Step"
  <2>1. stepRate(p, at.seg) \in Nat \ {0}
    <3>1. p.start + at.seg * p.step \in Int
      BY <1>1, <1>2
    <3> DEFINE r == p.start + at.seg * p.step
    <3>2. stepRate(p, at.seg) = Max({1, r}) /\ 1 \in Int
      BY DEF stepRate
    <3> HIDE DEF r
    <3>3. Max({1, r}) \in {1, r} /\ Max({1, r}) >= 1
      BY <3>1, <3>2, MaxOfTwo, Zenon DEF r
    <3> QED
      BY <3>1, <3>2, <3>3 DEF r
  <2>2. interval(stepRate(p, at.seg)) \in Nat
    BY <1>2, <2>1, DivNat DEF interval
  <2>3. (at.seg + 1) * p.every \in Nat
    BY <1>1, <1>2
  <2>4. pos = emitStep(p, at)
    BY <1>6 DEF NextArrivals, p
  <2>5. \/ pos = [at EXCEPT !.at = at.at + interval(stepRate(p, at.seg))]
        \/ pos = [at |-> (at.seg + 1) * p.every, seg |-> at.seg + 1]
    BY <2>4 DEF emitStep
  <2> QED
    BY <1>2, <2>2, <2>3, <2>5 DEF Positions
<1> QED
  BY <1>1, <1>3, <1>4, <1>5, <1>6 DEF Patterns

\* A failed request gets one of the categories of the result.
LEMMA ClassifyTyped ==
    ASSUME NEW traits
    PROVE  classify(traits) \in ErrorCategories
<1> DEFINE shown == {i \in DOMAIN precedence : precedence[i].trait \in traits}
<1>1. DOMAIN precedence = 1..6
  BY DEF precedence
<1>2. \A i \in 1..6 : precedence[i].category \in ErrorCategories
  <2>1. \A i \in 1..6 : i = 1 \/ i = 2 \/ i = 3 \/ i = 4 \/ i = 5 \/ i = 6
    OBVIOUS
  <2>2. /\ precedence[1].category = "Timeout" /\ precedence[2].category = "Server5xx"
        /\ precedence[3].category = "StreamReset"
        /\ precedence[4].category = "ConnReset"
        /\ precedence[5].category = "TLS" /\ precedence[6].category = "Dial"
    BY Zenon DEF precedence
  <2> QED
    BY <2>1, <2>2 DEF ErrorCategories
<1>3. shown \subseteq 1..6
  BY <1>1
<1>4. ASSUME shown # {} PROVE Min(shown) \in shown
  <2> HIDE DEF shown
  <2>1. \E x \in shown : \A y \in shown : x <= y
    <3>1. \A y \in shown : y \in Int /\ 1 <= y /\ y <= 6
      BY <1>3
    <3>2. ASSUME NEW n \in 1..6, n \in shown, \A m \in 1..(n - 1) : m \notin shown
          PROVE  \E x \in shown : \A y \in shown : x <= y
      <4>1. \A y \in shown : n <= y
        BY <3>1, <3>2
      <4> QED
        BY <3>2, <4>1
    <3>3. ASSUME \A m \in 1..6 : m \notin shown PROVE FALSE
      BY <1>3, <1>4, <3>3, Zenon
    <3>4. \E n \in 1..6 : n \in shown /\ \A m \in 1..(n - 1) : m \notin shown
      <4>1. 1 \in shown \/ 2 \in shown \/ 3 \in shown \/ 4 \in shown
              \/ 5 \in shown \/ 6 \in shown
        BY <3>3
      <4> QED
        BY <4>1
    <3> QED
      BY <3>2, <3>4
  <2> QED
    BY <2>1 DEF Min
<1> HIDE DEF shown
<1>5. classify(traits) = IF shown = {} THEN "Other" ELSE precedence[Min(shown)].category
  BY DEF classify, shown
<1> QED
  BY <1>2, <1>3, <1>4, <1>5, Zenon DEF ErrorCategories

\* A reply is an answer over HTTP, the answer of a health check, or none.
LEMMA RepliesAre ==
    ASSUME NEW reply \in Replies
    PROVE  \/ \E code \in 100..599 : reply = HTTP(code)
           \/ \E s \in DOMAIN grpcStatusToHTTP, b \in BOOLEAN : reply = Check(s, b)
           \/ \E t \in SUBSET ErrorTraits : reply = Broken(t)
<1> DEFINE A == {HTTP(code) : code \in 100..599}
           B == {Check(s, b) : s \in DOMAIN grpcStatusToHTTP, b \in BOOLEAN}
           C == {Broken(t) : t \in SUBSET ErrorTraits}
<1>1. Replies = A \cup B \cup C
  BY DEF Replies
<1>2. reply \in A => \E code \in 100..599 : reply = HTTP(code)
  OBVIOUS
<1>3. reply \in B => \E s \in DOMAIN grpcStatusToHTTP, b \in BOOLEAN : reply = Check(s, b)
  OBVIOUS
<1>4. reply \in C => \E t \in SUBSET ErrorTraits : reply = Broken(t)
  OBVIOUS
<1> HIDE DEF A, B, C
<1>5. reply \in A \/ reply \in B \/ reply \in C
  BY <1>1
<1> QED
  BY <1>2, <1>3, <1>4, <1>5

\* A gRPC status other than OK counts as an HTTP status that is an error.
LEMMA GrpcStatuses ==
    ASSUME NEW s \in DOMAIN grpcStatusToHTTP
    PROVE  /\ grpcStatusToHTTP[s] \in Nat
           /\ s # "OK" => grpcStatusToHTTP[s] >= 400
<1>1. s \in {"OK", "InvalidArgument", "OutOfRange", "Unauthenticated",
             "PermissionDenied", "NotFound", "AlreadyExists", "Aborted",
             "FailedPrecondition", "ResourceExhausted", "Canceled", "Internal",
             "DataLoss", "Unknown", "Unimplemented", "Unavailable",
             "DeadlineExceeded", "Unheard"}
  BY DEF grpcStatusToHTTP
<1>2. /\ grpcStatusToHTTP["OK"] = 200
      /\ grpcStatusToHTTP["InvalidArgument"] = 400
      /\ grpcStatusToHTTP["OutOfRange"] = 400
      /\ grpcStatusToHTTP["Unauthenticated"] = 401
      /\ grpcStatusToHTTP["PermissionDenied"] = 403
      /\ grpcStatusToHTTP["NotFound"] = 404
      /\ grpcStatusToHTTP["AlreadyExists"] = 409
      /\ grpcStatusToHTTP["Aborted"] = 409
      /\ grpcStatusToHTTP["FailedPrecondition"] = 412
      /\ grpcStatusToHTTP["ResourceExhausted"] = 429
      /\ grpcStatusToHTTP["Canceled"] = 499
      /\ grpcStatusToHTTP["Internal"] = 500
      /\ grpcStatusToHTTP["DataLoss"] = 500
      /\ grpcStatusToHTTP["Unknown"] = 500
      /\ grpcStatusToHTTP["Unimplemented"] = 501
      /\ grpcStatusToHTTP["Unavailable"] = 503
      /\ grpcStatusToHTTP["DeadlineExceeded"] = 504
      /\ grpcStatusToHTTP["Unheard"] = 500
  BY DEF grpcStatusToHTTP
<1> QED
  BY <1>1, <1>2

\* The status of an answered request is a number.
LEMMA DoTyped ==
    ASSUME NEW reply \in Answers, reply.kind # "broken"
    PROVE  Do(reply) \in Nat
<1>1. reply \in Replies
  BY LoadGeneratorAssumptions
<1>2. CASE \E code \in 100..599 : reply = HTTP(code)
  BY <1>2 DEF HTTP, Do
<1>3. CASE \E s \in DOMAIN grpcStatusToHTTP, b \in BOOLEAN : reply = Check(s, b)
  <2>1. \A s \in DOMAIN grpcStatusToHTTP : grpcStatusToHTTP[s] \in Nat
    BY GrpcStatuses
  <2> QED
    BY <1>3, <2>1 DEF Check, Do
<1>4. CASE \E t \in SUBSET ErrorTraits : reply = Broken(t)
  BY <1>4 DEF Broken
<1> QED
  BY <1>1, <1>2, <1>3, <1>4, RepliesAre

-----------------------------------------------------------------------------
(* Types and scopes.                                                       *)

Rec == [state : Holding \cup {"exited", "select"}, slot : Slot \cup {NoSlot},
        reply : Answers \cup {NoReply}]

\* The initial state has the types of the invariant.
LEMMA InitTyped == Init => Typed /\ Scoped
<1> SUFFICES ASSUME Init PROVE Typed /\ Scoped
  OBVIOUS
<1>1. Len(PhaseList) \in Nat /\ 0 \in 0..Len(PhaseList)
  BY LoadGeneratorAssumptions
<1>2. /\ pc = "next" /\ phase = 0 /\ ch = [i \in Index |-> <<>>]
      /\ worker = [w \in Workers |-> Idle] /\ samples = <<>> /\ recorded = {}
      /\ emitter = [i \in Index |-> [state |-> "unborn", count |-> 0,
                                     pos |-> [at |-> 0, seg |-> 0]]]
  BY DEF Init
<1>3. Typed
  BY <1>1, <1>2 DEF Typed, Idle, Positions, Emitters
<1>4. Scoped
  BY <1>2 DEF Scoped, Idle, Holding
<1> QED
  BY <1>3, <1>4

\* What a worker that took a step is.
LEMMA SelectFacts ==
    LET idle == [Idle EXCEPT !.state = "select"]
    IN  /\ idle \in Rec /\ idle.state = "select" /\ idle.slot = NoSlot
        /\ Idle \in Rec /\ Idle.state = "exited" /\ Idle.slot = NoSlot
BY Zenon DEF Idle, Rec, Holding

\* Steps that leave the workers, the phase and the records alone.
LEMMA FrameScoped ==
    ASSUME Scoped, UNCHANGED <<pc, phase, worker, recorded, samples>>
    PROVE  Scoped'
BY DEF Scoped

\* A channel's arrivals carry the index of its phase.
InOrder == \A i \in Index : \A a \in InChannel(i) : a.phase = i

\* Starting a phase.
LEMMA StartTyped ==
    ASSUME Typed, Scoped, StartPhase
    PROVE  Typed' /\ Scoped'
<1>1. phase + 1 \in Index /\ phase + 1 \in 0..Len(PhaseList)
  BY IndexFacts DEF Typed, StartPhase
<1>2. /\ pc' = "wait" /\ phase' = phase + 1
      /\ worker' = [w \in Workers |-> [Idle EXCEPT !.state = "select"]]
      /\ UNCHANGED <<ch, samples, recorded>>
  BY DEF StartPhase, ghosts
<1>3. PICK pos \in FirstArrivals(PhaseList[phase + 1]) :
        emitter' = [emitter EXCEPT ![phase + 1] =
                       [state |-> "emitting", count |-> 0, pos |-> pos]]
  BY Zenon DEF StartPhase
<1>4. pos \in Positions
  BY <1>1, FirstTyped
<1>5. emitter' \in [Index -> Emitters]
  BY <1>1, <1>3, <1>4 DEF Typed, Emitters
<1>6. worker' \in [Workers -> Rec]
  BY <1>2, SelectFacts, Zenon
<1>7. Typed'
  BY <1>1, <1>2, <1>5, <1>6, Zenon DEF Typed, Rec
<1>8. Scoped'
  BY <1>2, SelectFacts, Zenon DEF Scoped, Holding
<1> QED
  BY <1>7, <1>8

\* The rest of Run, the deadline, SIGTERM and the clock.
LEMMA RunTyped ==
    ASSUME Typed, Scoped, EndPhase \/ Return \/ PhaseTimeout \/ Cancel \/ Tick
    PROVE  Typed' /\ Scoped'
<1>1. /\ UNCHANGED <<phase, emitter, ch, worker, samples, recorded>>
      /\ \/ UNCHANGED pc
         \/ pc' = "next" /\ \A w \in Workers : worker[w].state = "exited"
         \/ pc' = "returned" /\ pc = "next"
  BY DEF EndPhase, Return, PhaseTimeout, Cancel, Tick, collectorVars, ghosts
<1>2. Typed'
  BY <1>1 DEF Typed
<1>3. Scoped'
  BY <1>1 DEF Scoped, Holding
<1> QED
  BY <1>2, <1>3

\* An emitter that has offered an arrival.
LEMMA MovedTyped ==
    ASSUME NEW e \in Emitters, NEW pos \in Positions
    PROVE  LET m == [e EXCEPT !.count = e.count + 1, !.pos = pos]
           IN  m \in Emitters /\ m.count = e.count + 1
<1> DEFINE n == e.count + 1
           m == [e EXCEPT !.count = n, !.pos = pos]
<1>1. n \in Nat
  BY DEF Emitters
<1> HIDE DEF n
<1>2. m \in Emitters /\ m.count = n
  BY <1>1, Zenon DEF Emitters
<1> QED
  BY <1>2 DEF n

\* The emitters.
LEMMA EmitterTyped ==
    ASSUME Typed, Scoped, NEW i \in Index, Emitter(i)
    PROVE  Typed' /\ Scoped'
<1>1. UNCHANGED <<pc, phase, worker, samples, recorded>>
  BY Zenon DEF Emitter, Emit, CloseChannel, runVars, collectorVars, ghosts
<1>2. emitter \in [Index -> Emitters] /\ emitter[i] \in Emitters /\ ch \in [Index -> Seq(Slot)]
  BY DEF Typed
<1>3. emitter' \in [Index -> Emitters] /\ ch' \in [Index -> Seq(Slot)]
  <2>1. CASE CloseChannel(i)
    BY <1>2, <2>1, Zenon DEF CloseChannel, Emitters
  <2>2. CASE Emit(i)
    <3> DEFINE e == emitter[i]
               a == [phase |-> i, n |-> e.count + 1, at |-> e.pos.at]
    <3>1. PICK pos \in NextArrivals(PhaseList[i], e.pos) :
            emitter' = [emitter EXCEPT ![i] =
                           [e EXCEPT !.count = e.count + 1, !.pos = pos]]
      BY <2>2, Zenon DEF Emit
    <3>2. e.pos \in Positions /\ e.count \in Nat /\ e \in Emitters
      BY <1>2 DEF Emitters
    <3>3. pos \in Positions
      BY <3>2, NextTyped
    <3>4. a \in Slot
      <4>1. e.pos.at \in Nat /\ e.count + 1 \in Nat \ {0}
        BY <3>2 DEF Positions
      <4> HIDE DEF e
      <4> QED
        BY <4>1 DEF Slot
    <3>5. ch' = [ch EXCEPT ![i] = Append(@, a)]
      BY <2>2 DEF Emit
    <3>6. [e EXCEPT !.count = e.count + 1, !.pos = pos] \in Emitters
      BY <3>2, <3>3, MovedTyped, Zenon
    <3> HIDE DEF a, e
    <3>7. emitter' \in [Index -> Emitters]
      BY <1>2, <3>1, <3>6 DEF e
    <3>8. Append(ch[i], a) \in Seq(Slot)
      BY <1>2, <3>4
    <3> QED
      BY <1>2, <3>5, <3>7, <3>8, Zenon
  <2> QED
    BY <2>1, <2>2 DEF Emitter
<1>4. Typed'
  BY <1>1, <1>3 DEF Typed
<1> QED
  BY <1>1, <1>4, FrameScoped

\* The workers, but for the step that records.
LEMMA WorkerTyped ==
    ASSUME Typed, Scoped, InOrder, NEW w \in Workers,
           Exit(w) \/ Take(w) \/ Drop(w) \/ Send(w) \/ Complete(w) \/ Discard(w)
    PROVE  Typed' /\ Scoped'
<1>1. UNCHANGED <<pc, phase, emitter, samples, recorded>>
  BY DEF Exit, Take, Drop, Send, Complete, Discard, runVars, collectorVars, ghosts
<1>2. /\ worker \in [Workers -> Rec] /\ worker[w] \in Rec /\ ch \in [Index -> Seq(Slot)]
      /\ worker[w].state # "exited" => pc = "wait" /\ phase \in Index
  BY Zenon DEF Typed, Scoped, Rec
<1>3. ASSUME NEW r \in Rec, worker' = [worker EXCEPT ![w] = r],
             worker[w].state # "exited", ch' \in [Index -> Seq(Slot)],
             r.state \in Holding => r.slot \in Slot /\ r.slot.phase = phase,
             r.state = "record" => PhaseList[phase].recordStats /\ r.reply \in Answers,
             r.state \notin Holding => r.slot = NoSlot
      PROVE  Typed' /\ Scoped'
  <2>1. worker' \in [Workers -> Rec]
    BY <1>2, <1>3
  <2>2. Typed'
    BY <1>1, <1>3, <2>1 DEF Typed, Rec
  <2>3. \A v \in Workers : worker'[v] = IF v = w THEN r ELSE worker[v]
    BY <1>2, <1>3
  <2>4. Scoped'
    BY <1>1, <1>2, <1>3, <2>3, Zenon DEF Scoped
  <2> QED
    BY <2>2, <2>4
<1>4. CASE Exit(w)
  <2>1. worker' = [worker EXCEPT ![w] = Idle] /\ ch' = ch /\ worker[w].state = "select"
    BY <1>4 DEF Exit
  <2> QED
    BY <1>2, <1>3, <2>1, SelectFacts, Zenon DEF Holding
<1>5. CASE Drop(w) \/ Discard(w)
  <2> DEFINE r == [Idle EXCEPT !.state = "select"]
  <2>1. worker' = [worker EXCEPT ![w] = r] /\ ch' = ch /\ worker[w].state # "exited"
    BY <1>5 DEF Drop, Discard, ToSelect
  <2>2. r \in Rec /\ r.state = "select" /\ r.slot = NoSlot
    BY SelectFacts, Zenon
  <2> HIDE DEF r
  <2> QED
    BY <1>2, <1>3, <2>1, <2>2, Zenon DEF Holding
<1>6. CASE Take(w)
  <2> DEFINE a == Head(ch[phase])
             next == IF elapsed < a.at THEN "hold" ELSE "send"
             r == [Idle EXCEPT !.state = next, !.slot = a]
  <2>1. /\ worker' = [worker EXCEPT ![w] = r] /\ worker[w].state = "select"
        /\ ch' = [ch EXCEPT ![phase] = Tail(@)] /\ ch[phase] # <<>>
    BY <1>6 DEF Take
  <2>2. phase \in Index /\ ch[phase] \in Seq(Slot)
    BY <1>2, <2>1
  <2>3. a \in Slot /\ a = ch[phase][1] /\ 1 \in DOMAIN ch[phase]
          /\ Tail(ch[phase]) \in Seq(Slot)
    BY <2>1, <2>2
  <2>4. a.phase = phase
    BY <2>2, <2>3 DEF InOrder, InChannel
  <2>5. next \in {"hold", "send"} /\ next # "record"
    OBVIOUS
  <2>5a. r \in Rec /\ r.state = next /\ r.slot = a
    <3> HIDE DEF next, a
    <3>1. r = [Idle EXCEPT !.state = next, !.slot = a]
      OBVIOUS
    <3> HIDE DEF r
    <3> QED
      BY <2>3, <2>5, <3>1, Zenon DEF Idle, Rec, Holding
  <2>6. ch' \in [Index -> Seq(Slot)]
    BY <1>2, <2>1, <2>3
  <2> HIDE DEF r, a, next
  <2> QED
    BY <1>3, <2>1, <2>3, <2>4, <2>5, <2>5a, <2>6, Zenon DEF Holding
<1>7. CASE Send(w)
  <2> DEFINE r == [worker[w] EXCEPT !.state = "send"]
  <2>1. worker' = [worker EXCEPT ![w] = r] /\ ch' = ch /\ worker[w].state = "hold"
    BY <1>2, <1>7 DEF Send
  <2>2. r \in Rec /\ r.state = "send" /\ r.slot = worker[w].slot
    BY <1>2, Zenon DEF Rec, Holding
  <2>3. worker[w].slot \in Slot /\ worker[w].slot.phase = phase
    BY <2>1 DEF Scoped, Holding
  <2> HIDE DEF r
  <2> QED
    BY <1>2, <1>3, <2>1, <2>2, <2>3, Zenon DEF Holding
<1>8. CASE Complete(w)
  <2>1. PICK reply \in Answers :
          worker' = [worker EXCEPT ![w].state = "record", ![w].reply = reply]
    BY <1>8, Zenon DEF Complete
  <2> DEFINE r == [worker[w] EXCEPT !.state = "record", !.reply = reply]
  <2>2. worker' = [worker EXCEPT ![w] = r]
    BY <1>2, <2>1, Zenon
  <2>3. ch' = ch /\ worker[w].state = "send" /\ PhaseList[phase].recordStats
    BY <1>8 DEF Complete
  <2>4. /\ r \in Rec /\ r.state = "record" /\ r.slot = worker[w].slot
        /\ r.reply = reply
    BY <1>2, Zenon DEF Rec, Holding
  <2>5. worker[w].slot \in Slot /\ worker[w].slot.phase = phase
    BY <2>3 DEF Scoped, Holding
  <2> HIDE DEF r
  <2> QED
    BY <1>2, <1>3, <2>2, <2>3, <2>4, <2>5, Zenon DEF Holding
<1> QED
  BY <1>4, <1>5, <1>6, <1>7, <1>8

\* Recording: only a request of a phase that records gets there.
LEMMA RecordTyped ==
    ASSUME Typed, Scoped, NEW w \in Workers, Record(w)
    PROVE  Typed' /\ Scoped'
<1> DEFINE r == [Idle EXCEPT !.state = "select"]
           x == [slot |-> worker[w].slot, reply |-> worker[w].reply]
<1>1. /\ UNCHANGED <<pc, phase, emitter, ch>> /\ worker[w].state = "record"
      /\ worker' = [worker EXCEPT ![w] = r] /\ recorded' = recorded \cup {x}
  BY DEF Record, ToSelect, runVars
<1>2. /\ worker[w].slot.phase = phase /\ PhaseList[phase].recordStats
      /\ worker[w].reply \in Answers /\ phase \in Index
  BY <1>1 DEF Scoped, Typed, Holding
<1>3. r \in Rec /\ r.state = "select" /\ r.slot = NoSlot
  BY SelectFacts, Zenon
<1>4. worker \in [Workers -> Rec] /\ samples \in Seq(Sample)
  BY DEF Typed, Rec
<1>5. \/ samples' = samples
      \/ \E a \in Sample : a.phase = phase /\ samples' = Append(samples, a)
  <2>1. ASSUME NEW category \in ErrorCategories, NEW code \in Nat,
               addSample(category, code)
        PROVE  \/ samples' = samples
               \/ \E a \in Sample : a.phase = phase /\ samples' = Append(samples, a)
    <3> DEFINE a == [category |-> category, code |-> code, phase |-> phase]
    <3>1. a \in Sample /\ a.phase = phase
      BY <1>2 DEF Sample
    <3>2. samples' = samples \/ samples' = Append(samples, a)
      BY <2>1 DEF addSample
    <3> HIDE DEF a
    <3> QED
      BY <3>1, <3>2
  <2>2. CASE worker[w].reply.kind = "broken"
    <3>1. addSample(classify(worker[w].reply.traits), 0)
      BY <2>2 DEF Record, recordError
    <3>2. classify(worker[w].reply.traits) \in ErrorCategories
      BY ClassifyTyped
    <3> QED
      BY <2>1, <3>1, <3>2
  <2>3. CASE worker[w].reply.kind # "broken"
    <3> DEFINE code == Do(worker[w].reply)
               category == IF code >= 500 THEN "Server5xx" ELSE "Client4xx"
    <3>1. code \in Nat
      BY <1>2, <2>3, DoTyped
    <3>2. category \in ErrorCategories
      BY DEF ErrorCategories
    <3>3. addSample(category, code) \/ samples' = samples
      BY <2>3 DEF Record, recordStatus
    <3> HIDE DEF code, category
    <3> QED
      BY <2>1, <3>1, <3>2, <3>3
  <2> QED
    BY <2>2, <2>3
<1>6. /\ samples' \in Seq(Sample)
      /\ \A k \in DOMAIN samples' : PhaseList[samples'[k].phase].recordStats
  <2>1. CASE samples' = samples
    BY <1>4, <2>1 DEF Scoped
  <2>2. ASSUME NEW a \in Sample, a.phase = phase, samples' = Append(samples, a)
        PROVE  /\ samples' \in Seq(Sample)
               /\ \A k \in DOMAIN samples' : PhaseList[samples'[k].phase].recordStats
    <3>1. /\ samples' \in Seq(Sample)
          /\ \A k \in DOMAIN samples' : samples'[k] = a \/ (k \in DOMAIN samples
                                                      /\ samples'[k] = samples[k])
      BY <1>4, <2>2
    <3> QED
      BY <1>2, <2>2, <3>1 DEF Scoped
  <2> QED
    BY <1>5, <2>1, <2>2
<1>7. \A q \in recorded' : PhaseList[q.slot.phase].recordStats
  BY <1>1, <1>2 DEF Scoped
<1> HIDE DEF r, x
<1>8. worker' \in [Workers -> Rec]
  BY <1>1, <1>3, <1>4
<1>9. Typed'
  BY <1>1, <1>6, <1>8 DEF Typed, Rec
<1>10. \A v \in Workers : worker'[v] = IF v = w THEN r ELSE worker[v]
  BY <1>1, <1>4
<1>11. Scoped'
  BY <1>1, <1>2, <1>3, <1>6, <1>7, <1>10 DEF Scoped, Holding
<1> QED
  BY <1>9, <1>11

-----------------------------------------------------------------------------
(* Conservation of arrivals.                                               *)

Queued == UNION {InChannel(i) : i \in Index}
Recorded == {r.slot : r \in recorded}
All == Queued \cup InHand \cup Recorded \cup unrecorded \cup dropped

\* No arrival is at two places.
Apart(q, h, r, u, d) ==
    /\ q \cap h = {} /\ q \cap r = {} /\ q \cap u = {} /\ q \cap d = {}
    /\ h \cap r = {} /\ h \cap u = {} /\ h \cap d = {}
    /\ r \cap u = {} /\ r \cap d = {} /\ u \cap d = {}

\* The arrivals all are those that were emitted, numbered from 1 in each phase.
Numbered(all, count(_)) ==
    /\ \A a \in all : a \in Slot /\ a.n \in 1..count(a.phase)
    /\ \A i \in Index : \A n \in 1..count(i) : \E a \in all : a.phase = i /\ a.n = n
    /\ \A a, b \in all : a.phase = b.phase /\ a.n = b.n => a = b

Count(i) == emitter[i].count

Once(c) == \A j, k \in DOMAIN c : c[j] = c[k] => j = k

\* A channel holds an arrival once, and a worker one that no other has.
NoDoubles ==
    /\ \A i \in Index : Once(ch[i])
    /\ \A v, w \in Workers :
          v # w /\ worker[v].state \in Holding /\ worker[w].state \in Holding
          => worker[v].slot # worker[w].slot

Conserved ==
    /\ InOrder
    /\ NoDoubles
    /\ Apart(Queued, InHand, Recorded, unrecorded, dropped)
    /\ Numbered(All, Count)

GInv == Typed /\ Scoped /\ Conserved

\* The arrivals in the hands of workers.
LEMMA InHandIs ==
    \A a : a \in InHand <=>
             \E w \in Workers : worker[w].state \in Holding /\ worker[w].slot = a
BY DEF InHand, Holding

\* The arrivals in the channels.
LEMMA QueuedIs == \A a : a \in Queued <=> \E i \in Index : a \in InChannel(i)
BY DEF Queued

\* Receiving from a channel.
LEMMA TailLoses ==
    ASSUME NEW c \in Seq(Slot), c # <<>>, Once(c)
    PROVE  /\ Head(c) \in Slot /\ Head(c) \in {c[k] : k \in DOMAIN c}
           /\ Tail(c) \in Seq(Slot) /\ Once(Tail(c))
           /\ {Tail(c)[k] : k \in DOMAIN Tail(c)}
              = {c[k] : k \in DOMAIN c} \ {Head(c)}
<1> DEFINE t == Tail(c)
<1>1. /\ Len(c) \in Nat \ {0} /\ DOMAIN c = 1..Len(c) /\ Head(c) = c[1]
      /\ t \in Seq(Slot) /\ DOMAIN t = 1..(Len(c) - 1)
      /\ \A k \in 1..(Len(c) - 1) : t[k] = c[k + 1]
  OBVIOUS
<1>2. c[1] \in Slot /\ 1 \in DOMAIN c
  BY <1>1
<1> HIDE DEF t
<1>3. \A k \in DOMAIN t : k + 1 \in DOMAIN c /\ t[k] = c[k + 1] /\ k + 1 # 1 /\ k \in Nat
  BY <1>1
<1>4. \A k \in DOMAIN c : k = 1 \/ (k - 1 \in DOMAIN t /\ t[k - 1] = c[k])
  <2>1. ASSUME NEW k \in DOMAIN c, k # 1 PROVE k - 1 \in DOMAIN t /\ t[k - 1] = c[k]
    <3>1. k \in Nat /\ k - 1 \in 1..(Len(c) - 1) /\ (k - 1) + 1 = k
      BY <1>1, <2>1
    <3> QED
      BY <1>1, <3>1
  <2> QED
    BY <2>1
<1>5. Once(t)
  <2>1. ASSUME NEW j \in DOMAIN t, NEW k \in DOMAIN t, t[j] = t[k] PROVE j = k
    <3>1. j + 1 = k + 1
      BY <1>3, <2>1 DEF Once
    <3> QED
      BY <1>3, <3>1
  <2> QED
    BY <2>1 DEF Once
<1>6. \A k \in DOMAIN t : t[k] # c[1]
  BY <1>2, <1>3 DEF Once
<1>7. {t[k] : k \in DOMAIN t} = {c[k] : k \in DOMAIN c} \ {c[1]}
  BY <1>3, <1>4, <1>6
<1> QED
  BY <1>1, <1>2, <1>5, <1>7, Zenon DEF t

\* Sending to a channel.
LEMMA AppendGains ==
    ASSUME NEW c \in Seq(Slot), NEW a \in Slot, Once(c), a \notin {c[k] : k \in DOMAIN c}
    PROVE  /\ Once(Append(c, a))
           /\ {Append(c, a)[k] : k \in DOMAIN Append(c, a)}
              = {c[k] : k \in DOMAIN c} \cup {a}
<1> DEFINE t == Append(c, a)
<1>1. /\ Len(c) \in Nat /\ DOMAIN c = 1..Len(c)
      /\ DOMAIN t = 1..(Len(c) + 1) /\ t[Len(c) + 1] = a
      /\ \A k \in 1..Len(c) : t[k] = c[k]
  OBVIOUS
<1> HIDE DEF t
<1>2. \A k \in DOMAIN t : (k \in DOMAIN c /\ t[k] = c[k]) \/ (k = Len(c) + 1 /\ t[k] = a)
  BY <1>1
<1>3. /\ \A k \in DOMAIN c : k \in DOMAIN t /\ t[k] = c[k]
      /\ Len(c) + 1 \in DOMAIN t
  BY <1>1
<1>4. Once(t)
  BY <1>2 DEF Once
<1>5. {t[k] : k \in DOMAIN t} = {c[k] : k \in DOMAIN c} \cup {a}
  BY <1>1, <1>2, <1>3
<1> QED
  BY <1>4, <1>5 DEF t

\* Nothing moves.
LEMMA FrameConserved ==
    ASSUME Conserved, UNCHANGED <<ch, worker, recorded, unrecorded, dropped>>,
           \A i \in Index : Count(i)' = Count(i)
    PROVE  Conserved'
<1>1. /\ Queued' = Queued /\ InHand' = InHand /\ Recorded' = Recorded
      /\ unrecorded' = unrecorded /\ dropped' = dropped /\ All' = All
  BY DEF Queued, InChannel, InHand, Recorded, All
<1>2. InOrder' /\ NoDoubles'
  BY DEF Conserved, InOrder, NoDoubles, InChannel, Once
<1>3. Numbered(All, Count)'
  BY <1>1 DEF Conserved, Numbered, Slot
<1> QED
  BY <1>1, <1>2, <1>3 DEF Conserved, Apart

\* A worker lets go of its arrival, which goes to one of the records.
LEMMA LetGo ==
    ASSUME Typed, Scoped, Conserved, NEW w \in Workers, worker[w].state \in Holding,
           ToSelect(w), UNCHANGED <<ch, emitter>>,
           \/ /\ Recorded' = Recorded \cup {worker[w].slot}
              /\ unrecorded' = unrecorded /\ dropped' = dropped
           \/ /\ unrecorded' = unrecorded \cup {worker[w].slot}
              /\ Recorded' = Recorded /\ dropped' = dropped
           \/ /\ dropped' = dropped \cup {worker[w].slot}
              /\ Recorded' = Recorded /\ unrecorded' = unrecorded
    PROVE  Conserved'
<1> DEFINE a == worker[w].slot
           r == [Idle EXCEPT !.state = "select"]
<1>1. /\ r.state \notin Holding
      /\ \A v \in Workers : worker'[v] = IF v = w THEN r ELSE worker[v]
  BY SelectFacts, Zenon DEF Typed, ToSelect, Holding
<1> HIDE DEF r
<1>2. Queued' = Queued /\ a \in InHand
  BY InHandIs DEF Queued, InChannel
<1>3. InHand' = InHand \ {a}
  <2>1. \A b : b \in InHand' <=>
          \E v \in Workers : worker'[v].state \in Holding /\ worker'[v].slot = b
    BY DEF InHand, Holding
  <2>2. ASSUME NEW b \in InHand' PROVE b \in InHand /\ b # a
    <3>1. PICK v \in Workers : worker'[v].state \in Holding /\ worker'[v].slot = b
      BY <2>1, <2>2
    <3>2. v # w /\ worker[v].state \in Holding /\ worker[v].slot = b
      BY <1>1, <3>1
    <3>3. b # a
      BY <3>2 DEF Conserved, NoDoubles
    <3> QED
      BY <3>2, <3>3, InHandIs
  <2>3. ASSUME NEW b \in InHand, b # a PROVE b \in InHand'
    BY <1>1, <2>1, <2>3, InHandIs
  <2> QED
    BY <2>2, <2>3
<1>4. InOrder' /\ NoDoubles'
  <2>1. InOrder' /\ \A i \in Index : Once(ch[i])'
    <3>1. InOrder'
      BY Zenon DEF Conserved, InOrder, InChannel
    <3>2. \A i \in Index : Once(ch[i])'
      BY Zenon DEF Conserved, NoDoubles, Once
    <3> QED
      BY <3>1, <3>2
  <2>2. \A u, v \in Workers :
          u # v /\ worker'[u].state \in Holding /\ worker'[v].state \in Holding
          => worker'[u].slot # worker'[v].slot
    BY <1>1 DEF Conserved, NoDoubles
  <2> QED
    BY <2>1, <2>2 DEF NoDoubles
<1>5. Apart(Queued, InHand, Recorded, unrecorded, dropped)
  BY DEF Conserved
<1> HIDE DEF a
<1>6. Apart(Queued, InHand, Recorded, unrecorded, dropped)' /\ All' = All
  BY <1>2, <1>3, <1>5 DEF Apart, All, a
<1>7. Numbered(All, Count)'
  BY <1>6 DEF Conserved, Numbered, Count, Slot
<1> QED
  BY <1>4, <1>6, <1>7 DEF Conserved

\* A worker goes on with the arrival it has, or goes from none to none.
LEMMA KeepHold ==
    ASSUME Typed, Conserved, NEW w \in Workers,
           NEW r, worker' = [worker EXCEPT ![w] = r],
           r.state \in Holding <=> worker[w].state \in Holding,
           r.state \in Holding => r.slot = worker[w].slot,
           UNCHANGED <<ch, emitter, ghosts>>
    PROVE  Conserved'
<1>1. \A v \in Workers : worker'[v] = IF v = w THEN r ELSE worker[v]
  BY DEF Typed
<1>2. Queued' = Queued /\ Recorded' = Recorded
  BY DEF Queued, InChannel, Recorded, ghosts
<1>3. InHand' = InHand
  <2>1. \A b : b \in InHand' <=>
          \E v \in Workers : worker'[v].state \in Holding /\ worker'[v].slot = b
    BY DEF InHand, Holding
  <2>2. \A b : b \in InHand' <=> b \in InHand
    BY <1>1, <2>1, InHandIs
  <2> QED
    BY <2>2, Zenon
<1>4. InOrder' /\ NoDoubles'
  <2>1. InOrder'
    BY Zenon DEF Conserved, InOrder, InChannel
  <2>2. \A i \in Index : Once(ch[i])'
    BY Zenon DEF Conserved, NoDoubles, InChannel, Once
  <2>3. \A v \in Workers : worker'[v].state \in Holding =>
           worker[v].state \in Holding /\ worker[v].slot = worker'[v].slot
    BY <1>1
  <2>4. ASSUME NEW u \in Workers, NEW v \in Workers, u # v,
               worker'[u].state \in Holding, worker'[v].state \in Holding
        PROVE  worker'[u].slot # worker'[v].slot
    <3>1. worker[u].slot # worker[v].slot
      BY <2>3, <2>4, Zenon DEF Conserved, NoDoubles
    <3> QED
      BY <2>3, <2>4, <3>1, Zenon
  <2> QED
    BY <2>1, <2>2, <2>4 DEF NoDoubles
<1>5. Apart(Queued, InHand, Recorded, unrecorded, dropped)' /\ All' = All
  BY <1>2, <1>3 DEF Conserved, Apart, All, ghosts
<1>6. Numbered(All, Count)'
  BY <1>5 DEF Conserved, Numbered, Count, Slot
<1> QED
  BY <1>4, <1>5, <1>6 DEF Conserved

\* The head of the channel goes to the worker that receives it.
LEMMA TakeConserved ==
    ASSUME Typed, Scoped, Conserved, NEW w \in Workers, Take(w)
    PROVE  Conserved'
<1> DEFINE a == Head(ch[phase])
           next == IF elapsed < a.at THEN "hold" ELSE "send"
           r == [Idle EXCEPT !.state = next, !.slot = a]
<1>1. /\ worker' = [worker EXCEPT ![w] = r] /\ worker[w].state = "select"
      /\ ch' = [ch EXCEPT ![phase] = Tail(@)] /\ ch[phase] # <<>>
      /\ UNCHANGED <<emitter, ghosts>>
  BY DEF Take
<1>2. phase \in Index /\ ch \in [Index -> Seq(Slot)] /\ ch[phase] \in Seq(Slot)
  BY <1>1 DEF Typed, Scoped
<1>3. \A i \in Index : ch'[i] = IF i = phase THEN Tail(ch[phase]) ELSE ch[i]
  BY <1>1, <1>2
<1>4. /\ a \in Slot /\ a \in InChannel(phase) /\ Once(Tail(ch[phase]))
      /\ {Tail(ch[phase])[k] : k \in DOMAIN Tail(ch[phase])} = InChannel(phase) \ {a}
  BY <1>1, <1>2, TailLoses, Zenon DEF Conserved, NoDoubles, InChannel
<1>5. /\ r.state \in Holding /\ r.slot = a
      /\ \A v \in Workers : worker'[v] = IF v = w THEN r ELSE worker[v]
  <2>1. next \in Holding /\ next \in {"hold", "send"}
    BY DEF Holding
  <2> HIDE DEF a, next
  <2>2. r = [Idle EXCEPT !.state = next, !.slot = a]
    OBVIOUS
  <2> HIDE DEF r
  <2>3. r.state = next /\ r.slot = a
    BY <2>2, Zenon DEF Idle
  <2> QED
    BY <1>1, <2>1, <2>3 DEF Typed
<1> HIDE DEF a, r
<1>6. \A i \in Index :
        InChannel(i)' = IF i = phase THEN InChannel(phase) \ {a} ELSE InChannel(i)
  <2>1. InChannel(phase)' = {ch'[phase][k] : k \in DOMAIN ch'[phase]}
    <3>1. phase' = phase
      BY DEF Take, runVars
    <3> QED
      BY <3>1 DEF InChannel
  <2>2. ch'[phase] = Tail(ch[phase])
    BY <1>2, <1>3, Zenon
  <2>3. {ch'[phase][k] : k \in DOMAIN ch'[phase]} = InChannel(phase) \ {a}
    BY <1>4, <2>2
  <2>4. ASSUME NEW i \in Index, i # phase PROVE InChannel(i)' = InChannel(i)
    BY <1>3, <2>4 DEF InChannel
  <2>5. ASSUME NEW i \in Index, i = phase PROVE InChannel(i)' = InChannel(phase) \ {a}
    BY <2>3, <2>5 DEF InChannel
  <2> QED
    BY <2>4, <2>5
<1>7. InOrder /\ \A i \in Index : a \in InChannel(i) => i = phase
  BY <1>2, <1>4 DEF Conserved, InOrder
<1>8. a \in Queued /\ Queued' = Queued \ {a}
  <2>1. \A b : b \in Queued' <=> \E i \in Index : b \in InChannel(i)'
    BY DEF Queued
  <2>2. \A b : b \in Queued' <=> b \in Queued /\ b # a
    <3>1. ASSUME NEW b \in Queued' PROVE b \in Queued /\ b # a
      BY <1>6, <1>7, <2>1, <3>1, QueuedIs
    <3>2. ASSUME NEW b \in Queued, b # a PROVE b \in Queued'
      BY <1>6, <2>1, <3>2, QueuedIs
    <3> QED
      BY <3>1, <3>2
  <2>3. a \in Queued
    BY <1>2, <1>4, QueuedIs
  <2> QED
    BY <2>2, <2>3
<1>9. InHand' = InHand \cup {a}
  <2>1. \A b : b \in InHand' <=>
          \E v \in Workers : worker'[v].state \in Holding /\ worker'[v].slot = b
    BY DEF InHand, Holding
  <2>2. worker[w].state \notin Holding
    BY <1>1 DEF Holding
  <2>3. \A b : b \in InHand' <=> b \in InHand \/ b = a
    BY <1>5, <2>1, <2>2, InHandIs
  <2> QED
    BY <2>3
<1>10. Apart(Queued, InHand, Recorded, unrecorded, dropped)
  BY DEF Conserved
<1>11. Recorded' = Recorded /\ unrecorded' = unrecorded /\ dropped' = dropped
  BY <1>1 DEF Recorded, ghosts
<1>12. Apart(Queued, InHand, Recorded, unrecorded, dropped)' /\ All' = All
  BY <1>8, <1>9, <1>10, <1>11 DEF Apart, All
<1>13. Numbered(All, Count)'
  BY <1>1, <1>12 DEF Conserved, Numbered, Count, Slot
<1>14. InOrder'
  BY <1>6, <1>7 DEF InOrder
<1>15. NoDoubles'
  <2>1. \A v \in Workers : worker[v].state \in Holding => worker[v].slot # a
    BY <1>8, <1>10, InHandIs DEF Apart
  <2>2. \A i \in Index : Once(ch'[i])
    BY <1>3, <1>4 DEF Conserved, NoDoubles
  <2>3. \A u, v \in Workers :
          u # v /\ worker'[u].state \in Holding /\ worker'[v].state \in Holding
          => worker'[u].slot # worker'[v].slot
    BY <1>5, <2>1 DEF Conserved, NoDoubles
  <2> QED
    BY <2>2, <2>3 DEF NoDoubles, Once
<1> QED
  BY <1>12, <1>13, <1>14, <1>15 DEF Conserved

\* A new arrival, numbered next, goes to the end of the channel of its phase.
LEMMA EmitConserved ==
    ASSUME Typed, Conserved, NEW i \in Index, Emit(i)
    PROVE  Conserved'
<1> DEFINE e == emitter[i]
           a == [phase |-> i, n |-> e.count + 1, at |-> e.pos.at]
           c == ch[i]
<1>1. /\ ch' = [ch EXCEPT ![i] = Append(c, a)]
      /\ UNCHANGED <<worker, ghosts>>
  BY DEF Emit
<1>2. PICK pos \in NextArrivals(PhaseList[i], e.pos) :
        emitter' = [emitter EXCEPT ![i] = [e EXCEPT !.count = e.count + 1, !.pos = pos]]
  BY Zenon DEF Emit
<1>3. /\ e \in Emitters /\ e.count \in Nat /\ e.pos \in Positions /\ c \in Seq(Slot)
      /\ emitter \in [Index -> Emitters] /\ ch \in [Index -> Seq(Slot)]
  BY DEF Typed, Emitters
<1>4. pos \in Positions
  BY <1>3, NextTyped
<1>5. a \in Slot /\ a.phase = i /\ a.n = e.count + 1
  <2>1. e.pos.at \in Nat /\ e.count + 1 \in Nat \ {0}
    BY <1>3 DEF Positions
  <2> HIDE DEF e
  <2> QED
    BY <2>1 DEF Slot
<1>6. [e EXCEPT !.count = e.count + 1, !.pos = pos].count = e.count + 1
  BY <1>3, <1>4, MovedTyped, Zenon
<1> HIDE DEF a, c
<1>7. \A k \in Index : Count(k)' = IF k = i THEN Count(i) + 1 ELSE Count(k)
  <2> DEFINE m == [e EXCEPT !.count = e.count + 1, !.pos = pos]
  <2>1. emitter' = [emitter EXCEPT ![i] = m] /\ m.count = e.count + 1
    BY <1>2, <1>6
  <2> HIDE DEF m
  <2>2. emitter'[i] = m /\ \A k \in Index : k # i => emitter'[k] = emitter[k]
    BY <1>3, <2>1
  <2> QED
    BY <2>1, <2>2 DEF Count
<1>8. a \notin All
  <2>1. \A b \in All : b.n \in 1..emitter[b.phase].count
    BY DEF Conserved, Numbered, Count
  <2>2. emitter[a.phase].count = e.count /\ a.n = e.count + 1
    BY <1>5
  <2>3. a.n \notin 1..emitter[a.phase].count
    BY <1>3, <2>2
  <2> QED
    BY <2>1, <2>3
<1>9. InChannel(i) = {c[k] : k \in DOMAIN c} /\ a \notin InChannel(i)
  BY <1>8, QueuedIs, Zenon DEF InChannel, All, c
<1>10. /\ Once(Append(c, a))
       /\ {Append(c, a)[k] : k \in DOMAIN Append(c, a)} = InChannel(i) \cup {a}
  BY <1>3, <1>5, <1>9, AppendGains, Zenon DEF Conserved, NoDoubles, c
<1>11. \A j \in Index : ch'[j] = IF j = i THEN Append(c, a) ELSE ch[j]
  BY <1>1, <1>3
<1>12. \A j \in Index :
         InChannel(j)' = IF j = i THEN InChannel(i) \cup {a} ELSE InChannel(j)
  BY <1>10, <1>11, Zenon DEF InChannel
<1>13. Queued' = Queued \cup {a}
  <2>1. \A b : b \in Queued' <=> \E j \in Index : b \in InChannel(j)'
    BY DEF Queued
  <2>2. \A b : b \in Queued' <=> b \in Queued \/ b = a
    <3>1. ASSUME NEW b \in Queued' PROVE b \in Queued \/ b = a
      BY <1>12, <2>1, <3>1, QueuedIs
    <3>2. ASSUME NEW b \in Queued PROVE b \in Queued'
      BY <1>12, <2>1, <3>2, QueuedIs
    <3>3. a \in Queued'
      BY <1>12, <2>1
    <3> QED
      BY <3>1, <3>2, <3>3
  <2> QED
    BY <2>2, Zenon
<1>14. /\ InHand' = InHand /\ Recorded' = Recorded /\ unrecorded' = unrecorded
       /\ dropped' = dropped
  BY <1>1 DEF InHand, Recorded, ghosts
<1>15. Apart(Queued, InHand, Recorded, unrecorded, dropped)' /\ All' = All \cup {a}
  BY <1>8, <1>13, <1>14 DEF Conserved, Apart, All
<1>16. Numbered(All, Count)'
  <2>1. /\ \A b \in All : b \in Slot /\ b.n \in 1..Count(b.phase)
        /\ \A k \in Index : \A n \in 1..Count(k) : \E b \in All : b.phase = k /\ b.n = n
        /\ \A b, d \in All : b.phase = d.phase /\ b.n = d.n => b = d
    BY DEF Conserved, Numbered
  <2>2. Count(i) \in Nat /\ a.n = Count(i) + 1 /\ a.phase = i /\ a \in Slot
    BY <1>3, <1>5 DEF Count
  <2>3. \A b \in All : b.phase \in Index /\ b.n \in Nat
    BY <2>1 DEF Slot
  <2>4. \A k \in Index : Count(k) \in Nat
    BY <1>3 DEF Count, Emitters
  <2>5. \A b \in All' : b \in Slot /\ b.n \in 1..Count(b.phase)'
    <3>1. ASSUME NEW b \in All PROVE b.n \in 1..Count(b.phase)'
      <4>1. b.n \in 1..Count(b.phase) /\ b.phase \in Index
        BY <2>1, <2>3
      <4>2. Count(b.phase) \in Nat /\ (\/ Count(b.phase)' = Count(b.phase)
                                       \/ Count(b.phase)' = Count(b.phase) + 1)
        BY <1>7, <2>4, <4>1
      <4> QED
        BY <4>1, <4>2
    <3>2. a.n \in 1..Count(i)'
      <4>1. Count(i)' = Count(i) + 1
        BY <1>7
      <4> QED
        BY <2>2, <4>1
    <3>3. ASSUME NEW b, b = a PROVE b \in Slot /\ b.n \in 1..Count(b.phase)'
      BY <2>2, <3>2, <3>3
    <3>4. \A b \in All : b \in Slot /\ b.n \in 1..Count(b.phase)'
      BY <2>1, <3>1, Zenon
    <3> QED
      BY <1>15, <3>3, <3>4
  <2>6. ASSUME NEW k \in Index, NEW n \in 1..Count(k)'
        PROVE  \E b \in All' : b.phase = k /\ b.n = n
    <3>1. n \in 1..Count(k) \/ (k = i /\ n = a.n)
      <4>1. CASE k = i
        <5>1. Count(k)' = Count(i) + 1
          BY <1>7, <4>1
        <5> QED
          BY <2>2, <4>1, <5>1
      <4>2. CASE k # i
        BY <1>7, <4>2
      <4> QED
        BY <4>1, <4>2
    <3>2. CASE n \in 1..Count(k)
      <4>1. PICK b \in All : b.phase = k /\ b.n = n
        BY <2>1, <3>2
      <4> QED
        BY <1>15, <4>1, Zenon
    <3>3. CASE k = i /\ n = a.n
      <4>1. a \in All'
        BY <1>15, Zenon
      <4> QED
        BY <2>2, <3>3, <4>1
    <3> QED
      BY <3>1, <3>2, <3>3
  <2>7. \A b \in All : b.phase = i => b.n # a.n
    BY <2>1, <2>2, <2>3
  <2>8. \A b, d \in All' : b.phase = d.phase /\ b.n = d.n => b = d
    BY <1>15, <2>1, <2>2, <2>7
  <2> QED
    BY <2>5, <2>6, <2>8 DEF Numbered, Slot
<1>17. InOrder'
  BY <1>5, <1>12 DEF Conserved, InOrder
<1>18. NoDoubles'
  <2>1. \A j \in Index : Once(ch'[j])
    BY <1>10, <1>11, Zenon DEF Conserved, NoDoubles
  <2> QED
    BY <1>1, <2>1, Zenon DEF Conserved, NoDoubles, Once
<1> QED
  BY <1>15, <1>16, <1>17, <1>18 DEF Conserved

-----------------------------------------------------------------------------
(* The invariant.                                                          *)

\* Nothing is anywhere at the start.
LEMMA InitConserved == Init => Conserved
<1> SUFFICES ASSUME Init PROVE Conserved
  OBVIOUS
<1>1. /\ ch = [i \in Index |-> <<>>] /\ worker = [w \in Workers |-> Idle]
      /\ recorded = {} /\ unrecorded = {} /\ dropped = {}
      /\ \A i \in Index : Count(i) = 0
  BY DEF Init, Count
<1>2. \A w \in Workers : worker[w].state \notin Holding
  BY <1>1, SelectFacts, Zenon DEF Holding
<1>3. \A i \in Index : ch[i] = <<>> /\ InChannel(i) = {}
  BY <1>1 DEF InChannel
<1>4. Queued = {} /\ InHand = {} /\ Recorded = {} /\ All = {}
  BY <1>1, <1>2, <1>3, InHandIs, QueuedIs DEF Recorded, All
<1>5. InOrder /\ NoDoubles
  BY <1>2, <1>3 DEF InOrder, NoDoubles, Once
<1>6. Apart(Queued, InHand, Recorded, unrecorded, dropped) /\ Numbered(All, Count)
  BY <1>1, <1>4 DEF Apart, Numbered
<1> QED
  BY <1>5, <1>6 DEF Conserved

\* A phase starts when nothing is in anyone's hands.
LEMMA StartConserved ==
    ASSUME Typed, Scoped, Conserved, StartPhase,
           \* an emitter starts once
           emitter[phase + 1].count = 0
    PROVE  Conserved'
<1>1. phase + 1 \in Index /\ emitter \in [Index -> Emitters]
  BY IndexFacts DEF Typed, StartPhase
<1>2. /\ worker' = [w \in Workers |-> [Idle EXCEPT !.state = "select"]]
      /\ UNCHANGED <<ch, ghosts>>
  BY DEF StartPhase
<1>3. /\ \A w \in Workers : worker[w].state \notin Holding
      /\ \A w \in Workers : worker'[w].state \notin Holding
  BY <1>2, SelectFacts, Zenon DEF Scoped, StartPhase, Holding
<1>4. InHand = {} /\ InHand' = {}
  BY <1>3 DEF InHand, Holding
<1>5. \A i \in Index : Count(i)' = Count(i)
  BY <1>1 DEF Count, StartPhase
<1>6. Queued' = Queued /\ Recorded' = Recorded
        /\ unrecorded' = unrecorded /\ dropped' = dropped
  BY <1>2 DEF Queued, InChannel, Recorded, ghosts
<1>7. InOrder' /\ NoDoubles'
  BY <1>2, <1>3 DEF Conserved, InOrder, NoDoubles, InChannel, Once
<1>8. Apart(Queued, InHand, Recorded, unrecorded, dropped)' /\ All' = All
  BY <1>4, <1>6 DEF Conserved, Apart, All
<1>9. Numbered(All, Count)'
  BY <1>5, <1>8 DEF Conserved, Numbered, Slot
<1> QED
  BY <1>7, <1>8, <1>9 DEF Conserved

\* The emitters of later phases have emitted nothing.
Unborn == \A i \in Index : i > phase => emitter[i].state = "unborn" /\ emitter[i].count = 0

\* No emitter starts before its phase.
LEMMA UnbornStep ==
    ASSUME Typed, Unborn, Next
    PROVE  Unborn'
<1>1. phase \in Nat /\ emitter \in [Index -> Emitters] /\ \A i \in Index : i \in Nat
  BY IndexFacts DEF Typed
<1>2. CASE StartPhase
  <2>1. phase' = phase + 1 /\ phase + 1 \in Index
    BY <1>2, IndexFacts DEF StartPhase, Typed
  <2>2. \A i \in Index : i # phase + 1 => emitter'[i] = emitter[i]
    BY <1>1, <1>2 DEF StartPhase
  <2> QED
    BY <1>1, <2>1, <2>2 DEF Unborn
<1>3. ASSUME NEW i \in Index, Emitter(i) PROVE Unborn'
  <2>1. phase' = phase /\ emitter[i].state = "emitting"
          /\ \A j \in Index : j # i => emitter'[j] = emitter[j]
    BY <1>1, <1>3, Zenon DEF Emitter, Emit, CloseChannel, runVars
  <2> QED
    BY <2>1 DEF Unborn
<1>4. CASE EndPhase \/ Return \/ PhaseTimeout \/ Cancel \/ Tick
  BY <1>4 DEF EndPhase, Return, PhaseTimeout, Cancel, Tick, Unborn
<1>5. ASSUME NEW w \in Workers, Worker(w) PROVE Unborn'
  <2>1. UNCHANGED <<phase, emitter>>
    BY <1>5 DEF Worker, Exit, Take, Drop, Send, Complete, Discard, Record, runVars
  <2> QED
    BY <2>1 DEF Unborn
<1> QED
  BY <1>2, <1>3, <1>4, <1>5 DEF Next, Run

Inv == GInv /\ Unborn

\* The steps of a worker preserve types, scope and conservation.
LEMMA WorkerStep ==
    ASSUME GInv, NEW w \in Workers, Worker(w)
    PROVE  GInv'
<1> USE DEF GInv
<1>1. worker \in [Workers -> Rec] /\ worker[w] \in Rec
  BY DEF Typed, Rec
<1>2. CASE Record(w)
  <2>1. worker[w].state \in Holding
    BY <1>2, Zenon DEF Record, Holding
  <2> DEFINE x == [slot |-> worker[w].slot, reply |-> worker[w].reply]
  <2>2. /\ recorded' = recorded \cup {x}
        /\ UNCHANGED <<unrecorded, dropped, ch, emitter>> /\ ToSelect(w)
    BY <1>2, Zenon DEF Record
  <2>3. x.slot = worker[w].slot
    OBVIOUS
  <2> HIDE DEF x
  <2>4. Recorded' = Recorded \cup {worker[w].slot}
    BY <2>2, <2>3 DEF Recorded
  <2> QED
    BY <1>2, <2>1, <2>2, <2>4, LetGo, RecordTyped
<1>3. CASE Drop(w) \/ Discard(w)
  <2>1. worker[w].state \in Holding /\ ToSelect(w) /\ UNCHANGED <<ch, emitter>>
    BY <1>3, Zenon DEF Drop, Discard, Holding
  <2>2. \/ /\ unrecorded' = unrecorded \cup {worker[w].slot}
           /\ Recorded' = Recorded /\ dropped' = dropped
        \/ /\ dropped' = dropped \cup {worker[w].slot}
           /\ Recorded' = Recorded /\ unrecorded' = unrecorded
    BY <1>3, Zenon DEF Drop, Discard, Recorded
  <2> QED
    BY <1>3, <2>1, <2>2, LetGo, WorkerTyped DEF Conserved
<1>4. CASE Take(w)
  BY <1>4, TakeConserved, WorkerTyped DEF Conserved
<1>5. CASE Exit(w)
  <2>1. /\ worker' = [worker EXCEPT ![w] = Idle] /\ worker[w].state = "select"
        /\ UNCHANGED <<ch, emitter, ghosts>>
    BY <1>5 DEF Exit
  <2> QED
    BY <1>5, <2>1, KeepHold, WorkerTyped, SelectFacts, Zenon DEF Conserved, Holding
<1>6. CASE Send(w)
  <2> DEFINE r == [worker[w] EXCEPT !.state = "send"]
  <2>1. /\ worker' = [worker EXCEPT ![w] = r] /\ worker[w].state = "hold"
        /\ UNCHANGED <<ch, emitter, ghosts>>
    BY <1>1, <1>6 DEF Send
  <2>2. r.state = "send" /\ r.slot = worker[w].slot
    BY <1>1 DEF Rec
  <2> HIDE DEF r
  <2>3. Conserved'
    BY <2>1, <2>2, KeepHold, Zenon DEF Holding
  <2> QED
    BY <1>6, <2>3, WorkerTyped DEF Conserved
<1>7. CASE Complete(w)
  <2>1. PICK reply \in Answers :
          worker' = [worker EXCEPT ![w].state = "record", ![w].reply = reply]
    BY <1>7, Zenon DEF Complete
  <2> DEFINE r == [worker[w] EXCEPT !.state = "record", !.reply = reply]
  <2>2. worker' = [worker EXCEPT ![w] = r]
    BY <1>1, <2>1, Zenon
  <2>3. worker[w].state = "send" /\ UNCHANGED <<ch, emitter, ghosts>>
    BY <1>7 DEF Complete
  <2>4. r.state = "record" /\ r.slot = worker[w].slot
    BY <1>1 DEF Rec
  <2> HIDE DEF r
  <2>5. Conserved'
    BY <2>2, <2>3, <2>4, KeepHold, Zenon DEF Holding
  <2> QED
    BY <1>7, <2>5, WorkerTyped DEF Conserved
<1> QED
  BY <1>2, <1>3, <1>4, <1>5, <1>6, <1>7 DEF Worker

\* Every step preserves the inductive invariant.
LEMMA InvStep == Inv /\ [Next]_vars => Inv'
<1> SUFFICES ASSUME Inv, [Next]_vars PROVE Inv'
  OBVIOUS
<1> USE DEF Inv, GInv
<1>1. CASE StartPhase
  <2>1. emitter[phase + 1].count = 0
    <3>1. phase + 1 \in Index /\ phase + 1 > phase
      BY <1>1, IndexFacts DEF StartPhase, Typed
    <3> QED
      BY <3>1 DEF Unborn
  <2> QED
    BY <1>1, <2>1, StartTyped, StartConserved, UnbornStep DEF Next, Run
<1>2. CASE EndPhase \/ Return \/ PhaseTimeout \/ Cancel \/ Tick
  <2>1. UNCHANGED <<ch, worker, recorded, unrecorded, dropped, emitter>>
    BY <1>2, Zenon DEF EndPhase, Return, PhaseTimeout, Cancel, Tick, ghosts
  <2>2. Conserved'
    BY <2>1, FrameConserved DEF Count
  <2> QED
    BY <1>2, <2>2, RunTyped, UnbornStep DEF Next, Run
<1>3. ASSUME NEW i \in Index, Emitter(i) PROVE Inv'
  <2>1. CASE CloseChannel(i)
    <3>1. UNCHANGED <<ch, worker, recorded, unrecorded, dropped>>
      BY <2>1 DEF CloseChannel, ghosts
    <3>2. \A j \in Index : Count(j)' = Count(j)
      BY <2>1 DEF CloseChannel, Typed, Emitters, Count
    <3> QED
      BY <1>3, <3>1, <3>2, FrameConserved, EmitterTyped, UnbornStep DEF Next
  <2>2. CASE Emit(i)
    BY <1>3, <2>2, EmitConserved, EmitterTyped, UnbornStep DEF Next
  <2> QED
    BY <1>3, <2>1, <2>2 DEF Emitter
<1>4. ASSUME NEW w \in Workers, Worker(w) PROVE Inv'
  BY <1>4, WorkerStep, UnbornStep DEF Next
<1>5. CASE UNCHANGED vars
  <2>1. UNCHANGED <<pc, phase, emitter, ch, worker, samples, recorded, unrecorded, dropped>>
    BY <1>5 DEF vars, runVars, collectorVars, ghosts
  <2>2. Typed' /\ Unborn'
    BY <2>1 DEF Typed, Unborn
  <2>3. Scoped'
    BY <2>1, FrameScoped
  <2>4. Conserved'
    BY <2>1, FrameConserved DEF Count
  <2> QED
    BY <2>2, <2>3, <2>4
<1> QED
  BY <1>1, <1>2, <1>3, <1>4, <1>5 DEF Next, Run

\* The invariant holds throughout a run of the load generator (Generator.Run).
THEOREM Invariance == Spec => []Inv
<1>1. Init => Inv
  <2>1. Init => Unborn
    <3>1. ASSUME Init, NEW i \in Index
          PROVE  emitter[i].state = "unborn" /\ emitter[i].count = 0
      <4> DEFINE e == [state |-> "unborn", count |-> 0, pos |-> [at |-> 0, seg |-> 0]]
      <4>1. emitter[i] = e
        BY <3>1 DEF Init
      <4> QED
        BY <4>1
    <3> QED
      BY <3>1 DEF Unborn
  <2> QED
    BY <2>1, InitTyped, InitConserved DEF Inv, GInv
<1> QED
  BY <1>1, InvStep, PTL DEF Spec

-----------------------------------------------------------------------------
(* What it says.                                                           *)

\* Every arrival that an emitter put into its channel is at one place, for any
\* number of workers and any buffer: none is lost, sent twice or given to two
\* workers (runSchedule, worker, do).
THEOREM Conservation == Spec => []ArrivalsAreConserved
<1>1. Inv => ArrivalsAreConserved
  <2> SUFFICES ASSUME Inv PROVE ArrivalsAreConserved
    OBVIOUS
  <2> DEFINE places == <<Queued, InHand, Recorded, unrecorded, dropped>>
             all == UNION {places[k] : k \in DOMAIN places}
  <2>1. Conserved /\ Scoped /\ Typed
    BY DEF Inv, GInv
  <2>2. all = All
    BY DEF All
  <2>3. \A j, k \in DOMAIN places : j # k => places[j] \cap places[k] = {}
    BY <2>1 DEF Conserved, Apart
  <2>4. \A i \in Index : {a.n : a \in {b \in All : b.phase = i}} = 1..emitter[i].count
    <3>1. /\ \A a \in All : a.n \in 1..emitter[a.phase].count
          /\ \A i \in Index : \A n \in 1..emitter[i].count :
                \E a \in All : a.phase = i /\ a.n = n
      BY <2>1, Zenon DEF Conserved, Numbered, Count
    <3> QED
      BY <3>1
  <2>5. \A a, b \in All : a.phase = b.phase /\ a.n = b.n => a = b
    BY <2>1 DEF Conserved, Numbered
  <2>6. ASSUME NEW v \in Workers, NEW w \in Workers, v # w,
               worker[v].slot \in InHand, worker[w].slot \in InHand
        PROVE  worker[v].slot # worker[w].slot
    <3>1. NoSlot \notin Slot
      BY IndexFacts DEF NoSlot, Slot
    <3>2. \A a \in InHand : a \in Slot
      BY <2>1, InHandIs DEF Scoped
    <3>3. worker[v].state \in Holding /\ worker[w].state \in Holding
      BY <2>1, <2>6, <3>1, <3>2 DEF Scoped
    <3> QED
      BY <2>1, <2>6, <3>3 DEF Conserved, NoDoubles
  <2> HIDE DEF places, all
  <2>7. /\ \A i \in Index : {a.n : a \in {b \in all : b.phase = i}} = 1..emitter[i].count
        /\ \A a, b \in all : a.phase = b.phase /\ a.n = b.n => a = b
    BY <2>2, <2>4, <2>5, Zenon
  <2> QED
    BY <2>3, <2>6, <2>7, Zenon DEF ArrivalsAreConserved, places, all, Queued, Recorded
<1> QED
  BY <1>1, Invariance, PTL

\* Nothing of a warmup phase is measured, and no worker outlives its phase
\* (runPhase, do).
THEOREM MeasuredOnly == Spec => []OnlyMeasuredPhasesCount
<1>1. Inv => OnlyMeasuredPhasesCount
  <2> SUFFICES ASSUME Scoped PROVE OnlyMeasuredPhasesCount
    BY DEF Inv, GInv
  <2>1. \A a \in InHand : a.phase = phase
    BY InHandIs DEF Scoped
  <2> QED
    BY <2>1, Zenon DEF Scoped, OnlyMeasuredPhasesCount
<1> QED
  BY <1>1, Invariance, PTL

\* The result that Run returned does not change any more (Run, finalize).
THEOREM FinalResult == Spec => ResultIsFinal
<1>1. Inv /\ [Next]_vars => (pc = "returned" => UNCHANGED <<collectorVars, worker>>)
  <2> SUFFICES ASSUME Inv, [Next]_vars, pc = "returned"
               PROVE  UNCHANGED <<collectorVars, worker>>
    OBVIOUS
  <2>1. \A w \in Workers : worker[w].state = "exited"
    BY DEF Inv, GInv, Scoped
  <2>2. ASSUME NEW w \in Workers, Worker(w) PROVE FALSE
    BY <2>1, <2>2 DEF Worker, Exit, Take, Drop, Send, Complete, Discard, Record
  <2>3. ~StartPhase /\ ~EndPhase /\ ~Return /\ ~PhaseTimeout /\ ~Cancel /\ ~Tick
    BY DEF StartPhase, EndPhase, Return, PhaseTimeout, Cancel, Tick
  <2>4. ASSUME NEW i \in Index, Emitter(i) PROVE UNCHANGED <<collectorVars, worker>>
    BY <2>4, Zenon DEF Emitter, Emit, CloseChannel
  <2> QED
    BY <2>2, <2>3, <2>4 DEF Next, Run, vars
<1> QED
  BY <1>1, Invariance, PTL DEF Spec, ResultIsFinal

-----------------------------------------------------------------------------
(* The result.                                                             *)

Result == [sent : Nat, succeeded : Nat, failed : Nat, latencies : Nat,
           statusCounts : [Statuses -> Nat], errors : [ErrorCategories -> Nat]]
Failures == {r \in recorded : ~Served(r.reply)}
Blamed(c) == {r \in Failures : Category(r.reply) = c}
Answered(code) == {r \in recorded : r.reply.kind # "broken" /\ Do(r.reply) = code}

Tallied ==
    /\ collector \in Result /\ IsFiniteSet(recorded)
    /\ collector.sent = Cardinality(recorded) /\ collector.latencies = collector.sent
    /\ collector.failed = Cardinality(Failures)
    /\ collector.succeeded = collector.sent - collector.failed
    /\ \A c \in ErrorCategories : collector.errors[c] = Cardinality(Blamed(c))
    /\ \A code \in Statuses : collector.statusCounts[code] = Cardinality(Answered(code))
    /\ Len(samples) = Min({collector.failed, maxErrorSamples})

\* The smaller of two numbers, by cases.
LEMMA MinIs ==
    ASSUME NEW a \in Int, NEW b \in Int
    PROVE  Min({a, b}) = IF a <= b THEN a ELSE b
<1>1. \E x \in {a, b} : \A y \in {a, b} : x <= y
  OBVIOUS
<1> QED
  BY <1>1 DEF Min

\* A reply is an answer exactly if it has a status, and one below 400.
LEMMA ServedIs ==
    ASSUME NEW reply \in Answers
    PROVE  Served(reply) <=> reply.kind # "broken" /\ Do(reply) < 400
<1>1. reply \in Replies
  BY LoadGeneratorAssumptions
<1>2. CASE \E code \in 100..599 : reply = HTTP(code)
  BY <1>2 DEF HTTP, Do, Served
<1>3. CASE \E s \in DOMAIN grpcStatusToHTTP, b \in BOOLEAN : reply = Check(s, b)
  <2>1. PICK s \in DOMAIN grpcStatusToHTTP, b \in BOOLEAN : reply = Check(s, b)
    BY <1>3
  <2>2. s # "OK" => grpcStatusToHTTP[s] \in Nat /\ grpcStatusToHTTP[s] >= 400
    BY GrpcStatuses
  <2>3. reply.kind = "check" /\ reply.status = s /\ reply.serving = b
    BY <2>1 DEF Check
  <2> QED
    BY <2>2, <2>3 DEF Do, Served
<1>4. CASE \E t \in SUBSET ErrorTraits : reply = Broken(t)
  BY <1>4 DEF Broken, Served
<1> QED
  BY <1>1, <1>2, <1>3, <1>4, RepliesAre

\* One more element in a part of a finite set.
LEMMA OneMore ==
    ASSUME NEW S, IsFiniteSet(S), NEW T \in SUBSET S, NEW x, x \notin S
    PROVE  /\ Cardinality(T) \in Nat
           /\ Cardinality(T \cup {x}) = Cardinality(T) + 1
<1>1. IsFiniteSet(T)
  BY FS_Subset
<1> QED
  BY <1>1, FS_AddElement, FS_CardinalityType

\* A request enters the counters.
LEMMA CountedIs ==
    ASSUME NEW c \in Result
    PROVE  /\ Counted(c) \in Result
           /\ Counted(c).sent = c.sent + 1 /\ Counted(c).latencies = c.latencies + 1
           /\ Counted(c).failed = c.failed /\ Counted(c).succeeded = c.succeeded
           /\ Counted(c).statusCounts = c.statusCounts /\ Counted(c).errors = c.errors
<1>1. c.sent + 1 \in Nat /\ c.latencies + 1 \in Nat
  BY DEF Result
<1> DEFINE m == c.sent + 1
           n == c.latencies + 1
<1>2. Counted(c) = [c EXCEPT !.sent = m, !.latencies = n]
  BY DEF Counted
<1> HIDE DEF m, n
<1>3. m \in Nat /\ n \in Nat
  BY <1>1 DEF m, n
<1>4. [c EXCEPT !.sent = m, !.latencies = n] \in Result
  BY <1>3, Zenon DEF Result
<1> QED
  BY <1>2, <1>3, <1>4 DEF Result, m, n

\* A failure enters them under its category.
LEMMA FailedWithIs ==
    ASSUME NEW c \in Result, NEW category \in ErrorCategories
    PROVE  LET f == FailedWith(c, category)
           IN  /\ f \in Result
               /\ f.sent = c.sent /\ f.latencies = c.latencies
               /\ f.failed = c.failed + 1 /\ f.succeeded = c.succeeded
               /\ f.statusCounts = c.statusCounts
               /\ f.errors = [c.errors EXCEPT ![category] = @ + 1]
<1> DEFINE errors == [c.errors EXCEPT ![category] = @ + 1]
           n == c.failed + 1
<1>1. FailedWith(c, category) = [c EXCEPT !.failed = n, !.errors = errors]
  BY DEF FailedWith, Result
<1>2. c.errors \in [ErrorCategories -> Nat] /\ c.errors[category] + 1 \in Nat
  BY DEF Result
<1>3. errors \in [ErrorCategories -> Nat]
  BY <1>2
<1>4. n \in Nat
  BY DEF Result
<1> HIDE DEF errors, n
<1>5. [c EXCEPT !.failed = n, !.errors = errors] \in Result
  BY <1>3, <1>4, Zenon DEF Result
<1> QED
  BY <1>1, <1>3, <1>4, <1>5 DEF Result, errors, n

\* A status is counted.
LEMMA StatusIs ==
    ASSUME NEW c \in Result, NEW code \in Statuses
    PROVE  LET s == [c EXCEPT !.statusCounts[code] = @ + 1]
           IN  /\ s \in Result
               /\ s.sent = c.sent /\ s.latencies = c.latencies
               /\ s.failed = c.failed /\ s.succeeded = c.succeeded
               /\ s.statusCounts = [c.statusCounts EXCEPT ![code] = @ + 1]
               /\ s.errors = c.errors
<1> DEFINE counts == [c.statusCounts EXCEPT ![code] = @ + 1]
<1>1. [c EXCEPT !.statusCounts[code] = @ + 1] = [c EXCEPT !.statusCounts = counts]
  BY DEF Result
<1>2. c.statusCounts \in [Statuses -> Nat] /\ c.statusCounts[code] + 1 \in Nat
  BY DEF Result
<1>3. counts \in [Statuses -> Nat]
  BY <1>2
<1> HIDE DEF counts
<1>4. [c EXCEPT !.statusCounts = counts] \in Result
  BY <1>3 DEF Result
<1> QED
  BY <1>1, <1>3, <1>4 DEF Result, counts

\* One more request leaves the difference of two counters alone, or adds to it.
LEMMA Differences ==
    ASSUME NEW s \in Nat, NEW f \in Nat
    PROVE  (s + 1) - (f + 1) = s - f /\ (s - f) + 1 = (s + 1) - f /\ f + 0 = f
OBVIOUS

\* What the record of one more request, with this reply, does to the sets it is
\* counted in.
LEMMA RecordedSets ==
    ASSUME NEW x, recorded' = recorded \cup {x}, x \notin recorded, IsFiniteSet(recorded)
    PROVE  /\ IsFiniteSet(recorded)'
           /\ Cardinality(recorded)' = Cardinality(recorded) + 1
           /\ Cardinality(Failures)' =
                 Cardinality(Failures) + IF Served(x.reply) THEN 0 ELSE 1
           /\ \A c : Cardinality(Blamed(c))' =
                 Cardinality(Blamed(c)) +
                    IF ~Served(x.reply) /\ Category(x.reply) = c THEN 1 ELSE 0
           /\ \A code : Cardinality(Answered(code))' =
                 Cardinality(Answered(code)) +
                    IF x.reply.kind # "broken" /\ Do(x.reply) = code THEN 1 ELSE 0
<1>1. IsFiniteSet(recorded)'
  BY FS_AddElement
<1>2. Cardinality(recorded)' = Cardinality(recorded) + 1
  BY OneMore
<1>3. Cardinality(Failures)' = Cardinality(Failures) + IF Served(x.reply) THEN 0 ELSE 1
  <2>1. Failures \subseteq recorded
    BY DEF Failures
  <2>2. /\ Cardinality(Failures) \in Nat
        /\ Cardinality(Failures \cup {x}) = Cardinality(Failures) + 1
    BY <2>1, OneMore, Zenon
  <2>3. CASE ~Served(x.reply)
    <3>1. Failures' = Failures \cup {x}
      BY <2>3 DEF Failures
    <3> QED
      BY <2>2, <2>3, <3>1
  <2>4. CASE ~(~Served(x.reply))
    <3>1. Failures' = Failures
      BY <2>4 DEF Failures
    <3> QED
      BY <2>2, <2>4, <3>1
  <2> QED
    BY <2>3, <2>4
<1>4. ASSUME NEW c
      PROVE  Cardinality(Blamed(c))' = Cardinality(Blamed(c)) +
                IF ~Served(x.reply) /\ Category(x.reply) = c THEN 1 ELSE 0
  <2>1. Blamed(c) \subseteq recorded
    BY DEF Blamed, Failures
  <2>2. /\ Cardinality(Blamed(c)) \in Nat
        /\ Cardinality(Blamed(c) \cup {x}) = Cardinality(Blamed(c)) + 1
    BY <2>1, OneMore
  <2>3. CASE ~Served(x.reply) /\ Category(x.reply) = c
    <3>1. Blamed(c)' = Blamed(c) \cup {x}
      BY <2>3 DEF Blamed, Failures
    <3> QED
      BY <2>2, <2>3, <3>1
  <2>4. CASE ~(~Served(x.reply) /\ Category(x.reply) = c)
    <3>1. Blamed(c)' = Blamed(c)
      BY <2>4 DEF Blamed, Failures
    <3> QED
      BY <2>2, <2>4, <3>1
  <2> QED
    BY <2>3, <2>4
<1>5. ASSUME NEW code
      PROVE  Cardinality(Answered(code))' = Cardinality(Answered(code)) +
                IF x.reply.kind # "broken" /\ Do(x.reply) = code THEN 1 ELSE 0
  <2>1. Answered(code) \subseteq recorded
    BY DEF Answered
  <2>2. /\ Cardinality(Answered(code)) \in Nat
        /\ Cardinality(Answered(code) \cup {x}) = Cardinality(Answered(code)) + 1
    BY <2>1, OneMore
  <2>3. CASE x.reply.kind # "broken" /\ Do(x.reply) = code
    <3>1. Answered(code)' = Answered(code) \cup {x}
      BY <2>3 DEF Answered
    <3> QED
      BY <2>2, <2>3, <3>1
  <2>4. CASE ~(x.reply.kind # "broken" /\ Do(x.reply) = code)
    <3>1. Answered(code)' = Answered(code)
      BY <2>4 DEF Answered
    <3> QED
      BY <2>2, <2>4, <3>1
  <2> QED
    BY <2>3, <2>4, Zenon
<1> QED
  BY <1>1, <1>2, <1>3, <1>4, <1>5, Zenon

\* The samples of one more failure.
LEMMA SampleCount ==
    ASSUME Typed, NEW category \in ErrorCategories, NEW code \in Nat, phase \in Index,
           addSample(category, code), NEW n \in Nat, Len(samples) = Min({n, maxErrorSamples})
    PROVE  Len(samples') = Min({n + 1, maxErrorSamples})
<1>1. maxErrorSamples \in Nat
  BY LoadGeneratorAssumptions
<1>2. Len(samples) = IF n <= maxErrorSamples THEN n ELSE maxErrorSamples
  BY <1>1, MinIs
<1>3. Min({n + 1, maxErrorSamples}) =
         IF n + 1 <= maxErrorSamples THEN n + 1 ELSE maxErrorSamples
  BY <1>1, MinIs
<1>4. samples \in Seq(Sample)
  BY DEF Typed
<1>5. Len(samples') = IF Len(samples) >= maxErrorSamples THEN Len(samples)
                      ELSE Len(samples) + 1
  BY <1>4 DEF addSample
<1> QED
  BY <1>1, <1>2, <1>3, <1>5

\* A reply enters the counters and samples as what it is.
LEMMA RecordTallied ==
    ASSUME Inv, Tallied, NEW w \in Workers, Record(w)
    PROVE  Tallied'
<1> DEFINE reply == worker[w].reply
           x == [slot |-> worker[w].slot, reply |-> reply]
<1>1. /\ worker[w].state = "record" /\ recorded' = recorded \cup {x}
      /\ x.reply = reply /\ x.slot = worker[w].slot
  BY Zenon DEF Record
<1>2. reply \in Answers /\ phase \in Index
  BY <1>1, Zenon DEF Inv, GInv, Scoped, Typed, Holding
<1>3. x \notin recorded
  <2>1. x.slot \in InHand
    BY <1>1, InHandIs DEF Holding
  <2>2. x \in recorded => x.slot \in Recorded
    BY DEF Recorded
  <2> QED
    BY <2>1, <2>2, Zenon DEF Inv, GInv, Conserved, Apart
<1> HIDE DEF x, reply
<1>4. IsFiniteSet(recorded) /\ collector \in Result
  BY Zenon DEF Tallied
<1>5. x.reply = reply
  BY <1>1
<1>6. /\ IsFiniteSet(recorded)'
      /\ Cardinality(recorded)' = Cardinality(recorded) + 1
      /\ Cardinality(Failures)' =
            Cardinality(Failures) + IF Served(reply) THEN 0 ELSE 1
  BY <1>1, <1>3, <1>4, <1>5, RecordedSets, Zenon
<1>7. \A c : Cardinality(Blamed(c))' =
         Cardinality(Blamed(c)) + IF ~Served(reply) /\ Category(reply) = c THEN 1 ELSE 0
  BY <1>1, <1>3, <1>4, <1>5, RecordedSets, Zenon
<1>8. \A code : Cardinality(Answered(code))' =
         Cardinality(Answered(code)) +
            IF reply.kind # "broken" /\ Do(reply) = code THEN 1 ELSE 0
  BY <1>1, <1>3, <1>4, <1>5, RecordedSets, Zenon
<1>9. /\ collector.sent \in Nat /\ collector.failed \in Nat
      /\ collector.succeeded \in Nat /\ collector.latencies \in Nat
      /\ collector.errors \in [ErrorCategories -> Nat]
      /\ collector.statusCounts \in [Statuses -> Nat]
  BY <1>4 DEF Result
<1>10. /\ \A c \in ErrorCategories : collector.errors[c] = Cardinality(Blamed(c))
      /\ \A code \in Statuses : collector.statusCounts[code] = Cardinality(Answered(code))
  BY DEF Tallied
<1>11. /\ collector.sent = Cardinality(recorded) /\ collector.latencies = collector.sent
      /\ collector.failed = Cardinality(Failures)
      /\ collector.succeeded = collector.sent - collector.failed
      /\ Len(samples) = Min({collector.failed, maxErrorSamples})
  BY Zenon DEF Tallied
<1>12. Typed /\ samples \in Seq(Sample)
  BY DEF Inv, GInv, Typed
<1>13. /\ (collector.sent + 1) - (collector.failed + 1) = collector.sent - collector.failed
       /\ (collector.sent - collector.failed) + 1 = (collector.sent + 1) - collector.failed
       /\ collector.failed + 0 = collector.failed
  BY <1>9, Differences, Zenon
<1>14. \A c \in ErrorCategories : collector.errors[c] + 0 = collector.errors[c]
  BY <1>9
<1>15. CASE reply.kind = "broken"
  <2>1. /\ collector' = FailedWith(Counted(collector), Category(reply))
        /\ addSample(Category(reply), 0)
    BY <1>15, Zenon DEF Record, recordError, Category, reply
  <2>2. Category(reply) \in ErrorCategories
    BY <1>15, ClassifyTyped DEF Category
  <2>3. ~Served(reply)
    BY <1>2, <1>15, ServedIs
  <2>4. /\ collector' \in Result
        /\ collector'.sent = collector.sent + 1
        /\ collector'.latencies = collector.latencies + 1
        /\ collector'.failed = collector.failed + 1
        /\ collector'.succeeded = collector.succeeded
        /\ collector'.statusCounts = collector.statusCounts
        /\ collector'.errors = [collector.errors EXCEPT ![Category(reply)] = @ + 1]
    <3> DEFINE d == Counted(collector)
               f == FailedWith(d, Category(reply))
    <3>1. /\ d \in Result
          /\ d.sent = collector.sent + 1 /\ d.latencies = collector.latencies + 1
          /\ d.failed = collector.failed /\ d.succeeded = collector.succeeded
          /\ d.statusCounts = collector.statusCounts /\ d.errors = collector.errors
      BY <1>4, CountedIs
    <3>2. collector' = f
      BY <2>1
    <3> HIDE DEF d
    <3>3. /\ f \in Result
          /\ f.sent = d.sent /\ f.latencies = d.latencies
          /\ f.failed = d.failed + 1 /\ f.succeeded = d.succeeded
          /\ f.statusCounts = d.statusCounts
          /\ f.errors = [d.errors EXCEPT ![Category(reply)] = @ + 1]
      BY <2>2, <3>1, FailedWithIs, Zenon
    <3> HIDE DEF f
    <3> QED
      BY <3>1, <3>2, <3>3, Zenon
  <2>5. Len(samples') = Min({collector.failed + 1, maxErrorSamples})
    BY <1>2, <1>9, <1>12, <1>11, <2>1, <2>2, SampleCount, Zenon
  <2>6. ASSUME NEW e \in ErrorCategories
        PROVE  collector'.errors[e] = Cardinality(Blamed(e))'
    <3>1. collector'.errors[e] = collector.errors[e] + IF e = Category(reply) THEN 1 ELSE 0
      <4> DEFINE f == collector.errors
                 g == collector'.errors
      <4>1. f \in [ErrorCategories -> Nat] /\ g = [f EXCEPT ![Category(reply)] = @ + 1]
        BY <1>9, <2>4, Zenon
      <4> HIDE DEF f, g
      <4>2. g[e] = f[e] + IF e = Category(reply) THEN 1 ELSE 0
        BY <2>2, <4>1
      <4> QED
        BY <4>2 DEF f, g
    <3>2. Cardinality(Blamed(e))' = Cardinality(Blamed(e)) + IF Category(reply) = e THEN 1 ELSE 0
      BY <1>7, <2>3
    <3> QED
      BY <1>10, <3>1, <3>2, Zenon
  <2>7. ASSUME NEW code \in Statuses
        PROVE  collector'.statusCounts[code] = Cardinality(Answered(code))'
    <3>1. Cardinality(Answered(code))' = Cardinality(Answered(code)) + 0
      BY <1>8, <1>15
    <3> QED
      BY <1>9, <1>10, <2>4, <3>1
  <2>8. /\ collector'.sent = Cardinality(recorded)' /\ collector'.latencies = collector'.sent
        /\ collector'.failed = Cardinality(Failures)'
        /\ collector'.succeeded = collector'.sent - collector'.failed
    <3>1. Cardinality(Failures)' = Cardinality(Failures) + 1
      BY <1>6, <2>3
    <3> QED
      BY <1>6, <1>11, <1>13, <2>4, <3>1, Zenon
  <2>9. Len(samples') = Min({collector'.failed, maxErrorSamples})
    BY <2>4, <2>5, Zenon
  <2> QED
    BY <1>6, <2>4, <2>6, <2>7, <2>8, <2>9, Zenon DEF Tallied
<1>16. CASE reply.kind # "broken"
  <2> DEFINE c == [Counted(collector) EXCEPT !.statusCounts[Do(reply)] = @ + 1]
             category == IF Do(reply) >= 500 THEN "Server5xx" ELSE "Client4xx"
  <2>1. Do(reply) \in Nat /\ Do(reply) \in Statuses
    BY <1>2, <1>16, DoTyped DEF Statuses
  <2>2. /\ c \in Result
        /\ c.sent = collector.sent + 1 /\ c.latencies = collector.latencies + 1
        /\ c.failed = collector.failed /\ c.succeeded = collector.succeeded
        /\ c.statusCounts = [collector.statusCounts EXCEPT ![Do(reply)] = @ + 1]
        /\ c.errors = collector.errors
    <3> DEFINE d == Counted(collector)
    <3>1. /\ d \in Result
          /\ d.sent = collector.sent + 1 /\ d.latencies = collector.latencies + 1
          /\ d.failed = collector.failed /\ d.succeeded = collector.succeeded
          /\ d.statusCounts = collector.statusCounts /\ d.errors = collector.errors
      BY <1>4, CountedIs
    <3>2. c = [d EXCEPT !.statusCounts[Do(reply)] = @ + 1]
      OBVIOUS
    <3> HIDE DEF c, d
    <3>3. /\ c \in Result
          /\ c.sent = d.sent /\ c.latencies = d.latencies
          /\ c.failed = d.failed /\ c.succeeded = d.succeeded
          /\ c.statusCounts = [d.statusCounts EXCEPT ![Do(reply)] = @ + 1]
          /\ c.errors = d.errors
      BY <2>1, <3>1, <3>2, StatusIs
    <3> QED
      BY <3>1, <3>3, Zenon
  <2>3. IF Do(reply) >= 400
        THEN collector' = FailedWith(c, category) /\ addSample(category, Do(reply))
        ELSE collector' = [c EXCEPT !.succeeded = @ + 1] /\ samples' = samples
    BY <1>16 DEF Record, recordStatus, reply
  <2> HIDE DEF c
  <2>4. category = Category(reply) /\ category \in ErrorCategories
    BY <1>16 DEF Category, ErrorCategories
  <2> HIDE DEF category
  <2>5. CASE Do(reply) >= 400
    <3>1. ~Served(reply)
      BY <1>2, <2>1, <2>5, ServedIs
    <3>2. /\ collector' \in Result
          /\ collector'.sent = collector.sent + 1
          /\ collector'.latencies = collector.latencies + 1
          /\ collector'.failed = collector.failed + 1
          /\ collector'.succeeded = collector.succeeded
          /\ collector'.statusCounts = [collector.statusCounts EXCEPT ![Do(reply)] = @ + 1]
          /\ collector'.errors = [collector.errors EXCEPT ![category] = @ + 1]
      BY <2>2, <2>3, <2>4, <2>5, FailedWithIs
    <3>3. Len(samples') = Min({collector.failed + 1, maxErrorSamples})
      BY <1>2, <1>9, <1>12, <1>11, <2>1, <2>3, <2>4, <2>5, SampleCount, Zenon
    <3>4. ASSUME NEW e \in ErrorCategories
          PROVE  collector'.errors[e] = Cardinality(Blamed(e))'
      <4>1. collector'.errors[e] = collector.errors[e] + IF e = category THEN 1 ELSE 0
        <5> DEFINE f == collector.errors
                   g == collector'.errors
        <5>1. f \in [ErrorCategories -> Nat] /\ g = [f EXCEPT ![category] = @ + 1]
          BY <1>9, <3>2, Zenon
        <5> HIDE DEF f, g
        <5>2. g[e] = f[e] + IF e = category THEN 1 ELSE 0
          BY <2>4, <5>1
        <5> QED
          BY <5>2 DEF f, g
      <4>2. Cardinality(Blamed(e))' = Cardinality(Blamed(e)) + IF category = e THEN 1 ELSE 0
        BY <1>7, <2>4, <3>1
      <4> QED
        BY <1>10, <4>1, <4>2, Zenon
    <3>5. ASSUME NEW code \in Statuses
          PROVE  collector'.statusCounts[code] = Cardinality(Answered(code))'
      <4>1. collector'.statusCounts[code] =
              collector.statusCounts[code] + IF code = Do(reply) THEN 1 ELSE 0
        <5> DEFINE f == collector.statusCounts
                   g == collector'.statusCounts
        <5>1. f \in [Statuses -> Nat] /\ g = [f EXCEPT ![Do(reply)] = @ + 1]
          BY <1>9, <3>2, Zenon
        <5> HIDE DEF f, g
        <5>2. g[code] = f[code] + IF code = Do(reply) THEN 1 ELSE 0
          BY <2>1, <5>1
        <5> QED
          BY <5>2 DEF f, g
      <4>2. Cardinality(Answered(code))' =
              Cardinality(Answered(code)) + IF Do(reply) = code THEN 1 ELSE 0
        BY <1>8, <1>16
      <4> QED
        BY <1>10, <4>1, <4>2
    <3>6. /\ collector'.sent = Cardinality(recorded)'
          /\ collector'.latencies = collector'.sent
          /\ collector'.failed = Cardinality(Failures)'
          /\ collector'.succeeded = collector'.sent - collector'.failed
      <4>1. Cardinality(Failures)' = Cardinality(Failures) + 1
        BY <1>6, <3>1
      <4> QED
        BY <1>6, <1>11, <1>13, <3>2, <4>1, Zenon
    <3>7. Len(samples') = Min({collector'.failed, maxErrorSamples})
      BY <3>2, <3>3
    <3> QED
      BY <1>6, <3>2, <3>4, <3>5, <3>6, <3>7, Zenon DEF Tallied
  <2>6. CASE ~(Do(reply) >= 400)
    <3>1. Served(reply)
      BY <1>2, <1>16, <2>1, <2>6, ServedIs
    <3> DEFINE n == c.succeeded + 1
    <3>2. n \in Nat /\ n = collector.succeeded + 1
      BY <1>9, <2>2
    <3>3. collector' = [c EXCEPT !.succeeded = n] /\ samples' = samples
      BY <2>3, <2>6
    <3> HIDE DEF n
    <3>4. /\ collector' \in Result /\ collector'.succeeded = n
          /\ collector'.sent = c.sent /\ collector'.latencies = c.latencies
          /\ collector'.failed = c.failed /\ collector'.errors = c.errors
          /\ collector'.statusCounts = c.statusCounts
      BY <2>2, <3>2, <3>3 DEF Result
    <3>5. ASSUME NEW e \in ErrorCategories
          PROVE  collector'.errors[e] = Cardinality(Blamed(e))'
      <4>1. Cardinality(Blamed(e))' = Cardinality(Blamed(e)) + 0
        BY <1>7, <3>1
      <4> QED
        BY <1>10, <1>14, <2>2, <3>4, <4>1, Zenon
    <3>6. ASSUME NEW code \in Statuses
          PROVE  collector'.statusCounts[code] = Cardinality(Answered(code))'
      <4>1. collector'.statusCounts[code] =
              collector.statusCounts[code] + IF code = Do(reply) THEN 1 ELSE 0
        <5> DEFINE f == collector.statusCounts
                   g == collector'.statusCounts
        <5>1. f \in [Statuses -> Nat] /\ g = [f EXCEPT ![Do(reply)] = @ + 1]
          BY <1>9, <2>2, <3>4, Zenon
        <5> HIDE DEF f, g
        <5>2. g[code] = f[code] + IF code = Do(reply) THEN 1 ELSE 0
          BY <2>1, <5>1
        <5> QED
          BY <5>2 DEF f, g
      <4>2. Cardinality(Answered(code))' =
              Cardinality(Answered(code)) + IF Do(reply) = code THEN 1 ELSE 0
        BY <1>8, <1>16
      <4> QED
        BY <1>10, <4>1, <4>2
    <3>7. /\ collector'.sent = collector.sent + 1 /\ collector'.latencies = collector'.sent
          /\ collector'.failed = collector.failed
          /\ collector'.succeeded = collector'.sent - collector'.failed
      BY <1>11, <1>13, <2>2, <3>2, <3>4, Zenon
    <3>8. Cardinality(Failures)' = Cardinality(Failures) + 0
      BY <1>6, <1>9, <1>11, <3>1, Zenon
    <3>9. /\ collector'.sent = Cardinality(recorded)'
          /\ collector'.failed = Cardinality(Failures)'
      BY <1>6, <1>11, <1>13, <3>7, <3>8, Zenon
    <3>10. Len(samples') = Min({collector'.failed, maxErrorSamples})
      BY <1>11, <3>3, <3>7, Zenon
    <3> QED
      BY <1>6, <3>4, <3>5, <3>6, <3>7, <3>9, <3>10, Zenon DEF Tallied
  <2> QED
    BY <2>1, <2>5, <2>6
<1> QED
  BY <1>15, <1>16

\* The rest of the type invariant: the clock, the contexts and the room in the
\* channels.
Bounded ==
    /\ elapsed \in Nat /\ cancelled \in BOOLEAN /\ expired \subseteq Index
    /\ \A i \in Index : Len(ch[i]) <= scheduleBuffer

RInv == Tallied /\ Bounded

\* Run starts with an empty collector and empty channels.
LEMMA InitResult == Init => RInv
<1> SUFFICES ASSUME Init PROVE RInv
  OBVIOUS
<1>1. maxErrorSamples \in Nat /\ scheduleBuffer \in Nat
  BY LoadGeneratorAssumptions
<1>2. Bounded
  <2>1. \A i \in Index : ch[i] = <<>> /\ Len(ch[i]) = 0
    BY DEF Init
  <2>2. elapsed \in Nat /\ cancelled \in BOOLEAN /\ expired \subseteq Index
    BY Zenon DEF Init
  <2> QED
    BY <1>1, <2>1, <2>2 DEF Bounded
<1>3. /\ collector \in Result /\ collector.sent = 0 /\ collector.latencies = 0
      /\ collector.failed = 0 /\ collector.succeeded = 0
      /\ \A c \in ErrorCategories : collector.errors[c] = 0
      /\ \A code \in Statuses : collector.statusCounts[code] = 0
  BY Zenon DEF Init, newCollector, Result
<1>4. IsFiniteSet(recorded) /\ Cardinality(recorded) = 0 /\ recorded = {}
  BY FS_EmptySet, Zenon DEF Init
<1>5. Failures = {} /\ (\A c : Blamed(c) = {}) /\ (\A code : Answered(code) = {})
  BY <1>4 DEF Failures, Blamed, Answered
<1>6. Len(samples) = Min({0, maxErrorSamples})
  BY <1>1, MinIs DEF Init
<1>7. /\ Cardinality(Failures) = 0 /\ \A c : Cardinality(Blamed(c)) = 0
      /\ \A code : Cardinality(Answered(code)) = 0
  BY <1>5, FS_EmptySet
<1>8. Tallied
  <2>1. collector.succeeded = collector.sent - collector.failed
    BY <1>3
  <2> QED
    BY <1>3, <1>4, <1>6, <1>7, <2>1, Zenon DEF Tallied
<1> QED
  BY <1>2, <1>8 DEF RInv

\* A step that does not record leaves the tally alone.
LEMMA TallyKept ==
    ASSUME Tallied, UNCHANGED <<collector, samples, recorded>>
    PROVE  Tallied'
<1>1. Failures' = Failures /\ (\A c : Blamed(c)' = Blamed(c))
      /\ (\A code : Answered(code)' = Answered(code))
  BY DEF Failures, Blamed, Answered
<1> QED
  BY <1>1, Zenon DEF Tallied

\* A channel never holds more than its capacity: emit waits for room.
LEMMA BoundedStep ==
    ASSUME Inv, Bounded, [Next]_vars
    PROVE  Bounded'
<1>1. /\ ch \in [Index -> Seq(Slot)] /\ phase \in 0..Len(PhaseList)
      /\ pc = "wait" => phase \in Index
      /\ scheduleBuffer \in Nat
  BY LoadGeneratorAssumptions, Zenon DEF Inv, GInv, Typed, Scoped
<1>2. ASSUME NEW w \in Workers, Take(w) PROVE Bounded'
  <2>1. phase \in Index
    BY <1>1, <1>2 DEF Take, Inv, GInv, Scoped
  <2>2. /\ ch[phase] \in Seq(Slot) /\ ch[phase] # <<>>
        /\ ch' = [ch EXCEPT ![phase] = Tail(ch[phase])]
    BY <1>1, <1>2, <2>1 DEF Take
  <2>3. Len(Tail(ch[phase])) <= scheduleBuffer
    <3>1. Len(Tail(ch[phase])) = Len(ch[phase]) - 1 /\ Len(ch[phase]) \in Nat
      BY <2>2
    <3> QED
      BY <1>1, <2>1, <3>1 DEF Bounded
  <2>4. UNCHANGED <<elapsed, cancelled, expired>>
    BY <1>2 DEF Take, runVars
  <2> QED
    BY <1>1, <2>1, <2>2, <2>3, <2>4 DEF Bounded
<1>3. ASSUME NEW i \in Index, Emit(i) PROVE Bounded'
  <2> DEFINE slot == [phase |-> i, n |-> emitter[i].count + 1, at |-> emitter[i].pos.at]
  <2>1. ch' = [ch EXCEPT ![i] = Append(ch[i], slot)] /\ Len(ch[i]) < scheduleBuffer
    BY <1>3 DEF Emit
  <2> HIDE DEF slot
  <2>2. ch[i] \in Seq(Slot) /\ Len(ch[i]) \in Nat
    BY <1>1
  <2>3. Len(Append(ch[i], slot)) <= scheduleBuffer
    <3>1. Len(Append(ch[i], slot)) = Len(ch[i]) + 1
      BY <2>2
    <3> QED
      BY <1>1, <2>1, <2>2, <3>1
  <2>4. UNCHANGED <<elapsed, cancelled, expired>>
    BY <1>3 DEF Emit, runVars
  <2> QED
    BY <1>1, <2>1, <2>3, <2>4 DEF Bounded
<1>4. ASSUME UNCHANGED ch, elapsed' \in Nat, cancelled' \in BOOLEAN, expired' \subseteq Index
      PROVE  Bounded'
  BY <1>4 DEF Bounded
<1>5. ASSUME Run \/ PhaseTimeout \/ Cancel \/ Tick PROVE Bounded'
  <2>1. CASE EndPhase \/ PhaseTimeout
    BY <1>1, <1>4, <2>1, Zenon DEF EndPhase, PhaseTimeout, Bounded
  <2>2. CASE StartPhase \/ Return
    BY <1>4, <2>2 DEF StartPhase, Return, Bounded
  <2>3. CASE Cancel
    BY <1>4, <2>3 DEF Cancel, Bounded
  <2>4. CASE Tick
    BY <1>4, <2>4 DEF Tick, Bounded
  <2> QED
    BY <1>5, <2>1, <2>2, <2>3, <2>4 DEF Run
<1>6. ASSUME NEW w \in Workers, Worker(w) PROVE Bounded'
  <2>1. CASE Take(w)
    BY <1>2, <2>1
  <2>2. CASE ~Take(w)
    BY <1>4, <1>6, <2>2 DEF Worker, Exit, Drop, Send, Complete, Discard, Record, runVars,
       Bounded
  <2> QED
    BY <2>1, <2>2
<1>7. ASSUME NEW i \in Index, CloseChannel(i) PROVE Bounded'
  BY <1>4, <1>7 DEF CloseChannel, runVars, Bounded
<1>8. CASE UNCHANGED vars
  BY <1>4, <1>8 DEF vars, runVars, Bounded
<1> QED
  BY <1>3, <1>5, <1>6, <1>7, <1>8 DEF Next, Emitter

\* No step of the generator takes the counters away from the record.
LEMMA ResultStep == Inv /\ RInv /\ [Next]_vars => RInv'
<1> SUFFICES ASSUME Inv, RInv, [Next]_vars PROVE RInv'
  OBVIOUS
<1>1. Tallied /\ Bounded
  BY DEF RInv
<1>2. ASSUME UNCHANGED <<collector, samples, recorded>> PROVE Tallied'
  BY <1>1, <1>2, TallyKept
<1>3. ASSUME NEW w \in Workers, Worker(w) PROVE Tallied'
  <2>1. CASE Record(w)
    BY <1>1, <2>1, RecordTallied
  <2>2. CASE ~Record(w)
    BY <1>2, <1>3, <2>2 DEF Worker, Exit, Take, Drop, Send, Complete, Discard,
       collectorVars, ghosts
  <2> QED
    BY <2>1, <2>2
<1>4. ASSUME NEW i \in Index, Emitter(i) PROVE Tallied'
  BY <1>2, <1>4, Zenon DEF Emitter, Emit, CloseChannel, collectorVars, ghosts
<1>5. ASSUME Run \/ PhaseTimeout \/ Cancel \/ Tick PROVE Tallied'
  BY <1>2, <1>5 DEF Run, StartPhase, EndPhase, Return, PhaseTimeout, Cancel, Tick,
     collectorVars, ghosts
<1>6. ASSUME UNCHANGED vars PROVE Tallied'
  BY <1>2, <1>6 DEF vars, collectorVars, ghosts
<1>7. Tallied'
  BY <1>3, <1>4, <1>5, <1>6 DEF Next
<1> QED
  BY <1>1, <1>7, BoundedStep DEF RInv

\* The counters, the status counts, the error counts and the number of samples
\* are those of the requests that were recorded, for any number of workers and
\* any replies: none is counted twice, left out or filed under the status or the
\* category of another (recordStatus, recordError, addSample, classify, Do).
THEOREM ResultRecord == Spec => []ResultIsTheRecord
<1>1. Spec => []RInv
  BY Invariance, InitResult, ResultStep, PTL DEF Spec
<1>2. RInv => ResultIsTheRecord
  BY Zenon DEF RInv, Tallied, ResultIsTheRecord, Failures, Blamed, Answered
<1> QED
  BY <1>1, <1>2, PTL

\* The state keeps its types: the states of the emitters and workers, and at most
\* scheduleBuffer arrivals in a channel and maxErrorSamples samples in a result
\* (runSchedule, addSample).
THEOREM TypeCorrect == Spec => []TypeOK
<1>1. Spec => []RInv
  BY Invariance, InitResult, ResultStep, PTL DEF Spec
<1>2. Inv /\ RInv => TypeOK
  <2> SUFFICES ASSUME Inv, RInv PROVE TypeOK
    OBVIOUS
  <2>1. Len(samples) <= maxErrorSamples
    <3>1. collector.failed \in Nat /\ maxErrorSamples \in Nat
      BY LoadGeneratorAssumptions DEF RInv, Tallied, Result
    <3> QED
      BY <3>1, MinIs DEF RInv, Tallied
  <2> QED
    BY <2>1, Zenon DEF Inv, GInv, Typed, Scoped, RInv, Bounded, TypeOK, Holding, Emitters, Rec
<1> QED
  BY <1>1, <1>2, Invariance, PTL
=============================================================================
