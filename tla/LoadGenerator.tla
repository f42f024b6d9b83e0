---------------------------- MODULE LoadGenerator ----------------------------
(***************************************************************************)
(* The load generator (internal/loadgen/generator.go): Run goes through    *)
(* the phases in order.  Each phase has an emitter goroutine that puts     *)
(* scheduled arrivals into a bounded channel, a pool of workers that send  *)
(* one request per arrival, and a context that ends with the phase's       *)
(* deadline, with the run's context, or when runPhase returns.  Workers    *)
(* report to one collector under its mutex.                                *)
(***************************************************************************)
EXTENDS Phases, Client, FiniteSets

CONSTANTS
    PhaseList,          \* cfg.Phases
    Workers,            \* the worker pool, cfg.Concurrency of them
    Answers,            \* bound: the replies that requests get
    scheduleBuffer,     \* capacity of a phase's channel
    maxErrorSamples,    \* cap on the error samples of a result
    Slack               \* bound: ticks that a phase outlasts its deadline

ASSUME LoadGeneratorAssumptions ==
    /\ PhaseList \in Seq([pattern : Patterns, duration : Nat, start : Nat,
                          end : Nat, step : Nat, every : Nat,
                          recordStats : BOOLEAN])
    /\ \A i \in DOMAIN PhaseList : Valid(PhaseList[i])     \* by Config.Validate
    /\ IsFiniteSet(Workers)
    /\ Answers \subseteq Replies
    /\ scheduleBuffer \in Nat \ {0}
    /\ maxErrorSamples \in Nat
    /\ Slack \in Nat

Index == DOMAIN PhaseList

VARIABLES
    pc,         \* Run: "next" phase, "wait" for the workers, "returned"
    phase,      \* the index of the last phase that was started
    elapsed,    \* ticks since that phase started
    cancelled,  \* the context of the run is done
    expired,    \* the phases whose own context is done
    emitter,    \* per phase: is it "unborn", "emitting" or "closed"; pos; count
    ch,         \* per phase: the arrivals in its channel
    worker,     \* per worker: its state, its phase, its arrival, its result
    collector,  \* the counters of the collector
    samples,    \* its error samples
    summaries,  \* its phase summaries
    recorded,   \* ghost: the arrivals that the collector recorded, with the reply
    unrecorded, \* ghost: those whose request was sent and not recorded
    dropped     \* ghost: those that were never sent

runVars == <<pc, phase, elapsed, cancelled, expired>>
collectorVars == <<collector, samples, summaries>>
ghosts == <<recorded, unrecorded, dropped>>
vars == <<runVars, emitter, ch, worker, collectorVars, ghosts>>

\* ctx.Err() != nil in phase i.
ctxDone(i) == cancelled \/ i \in expired

NoSlot == [phase |-> 0, n |-> 0, at |-> 0]
NoReply == Broken({})
Idle == [state |-> "exited", slot |-> NoSlot, reply |-> NoReply]

\* The keys that the map of status counts may get.
Statuses == {Do(r) : r \in {a \in Answers : a.kind # "broken"}}

newCollector ==
    [sent |-> 0, succeeded |-> 0, failed |-> 0, latencies |-> 0,
     statusCounts |-> [c \in Statuses |-> 0],
     errors |-> [c \in ErrorCategories |-> 0]]

Init ==
    /\ pc = "next" /\ phase = 0 /\ elapsed = 0
    /\ cancelled = FALSE /\ expired = {}
    /\ emitter = [i \in Index |-> [state |-> "unborn", count |-> 0,
                                   pos |-> [at |-> 0, seg |-> 0]]]
    /\ ch = [i \in Index |-> <<>>]
    /\ worker = [w \in Workers |-> Idle]
    /\ collector = newCollector /\ samples = <<>> /\ summaries = <<>>
    /\ recorded = {} /\ unrecorded = {} /\ dropped = {}

-----------------------------------------------------------------------------
(* Run and runPhase.                                                       *)

\* beginPhase: the summary's end is stamped by endPhase.
beginPhase(i) ==
    summaries' = Append(summaries, [phase |-> i, ended |-> -1])

StartPhase ==
    /\ pc = "next" /\ phase < Len(PhaseList) /\ ~cancelled
    /\ phase' = phase + 1 /\ elapsed' = 0 /\ pc' = "wait"
    /\ beginPhase(phase + 1)
    /\ \E pos \in FirstArrivals(PhaseList[phase + 1]) :
          emitter' = [emitter EXCEPT ![phase + 1] =
                         [state |-> "emitting", count |-> 0, pos |-> pos]]
    /\ worker' = [w \in Workers |-> [Idle EXCEPT !.state = "select"]]
    /\ UNCHANGED <<cancelled, expired, ch, collector, samples, ghosts>>

endPhase == summaries' = [summaries EXCEPT ![Len(summaries)].ended = elapsed]

\* Mutant: runPhase does not wait for its workers.
EndPhaseUnawaited ==
    /\ pc = "wait" /\ ctxDone(phase)
    /\ endPhase
    /\ expired' = expired \cup {phase}
    /\ pc' = "next"
    /\ UNCHANGED <<phase, elapsed, cancelled, emitter, ch, worker, collector,
                   samples, ghosts>>

\* wg.Wait returns; the deferred calls stamp the summary and cancel the
\* context.  The emitter is not waited for.
EndPhase ==
    /\ pc = "wait" /\ \A w \in Workers : worker[w].state = "exited"
    /\ endPhase
    /\ expired' = expired \cup {phase}
    /\ pc' = "next"
    /\ UNCHANGED <<phase, elapsed, cancelled, emitter, ch, worker, collector,
                   samples, ghosts>>

\* Run returns what finalize makes of the collector.
Return ==
    /\ pc = "next" /\ (phase = Len(PhaseList) \/ cancelled)
    /\ pc' = "returned"
    /\ UNCHANGED <<phase, elapsed, cancelled, expired, emitter, ch, worker,
                   collectorVars, ghosts>>

\* context.WithTimeout(ctx, phase.Duration): the timer may fire late.
PhaseTimeout ==
    /\ pc = "wait" /\ phase \notin expired
    /\ elapsed >= PhaseList[phase].duration
    /\ expired' = expired \cup {phase}
    /\ UNCHANGED <<pc, phase, elapsed, cancelled, emitter, ch, worker,
                   collectorVars, ghosts>>

-----------------------------------------------------------------------------
(* The emitter of phase i: runSchedule.                                    *)

\* Mutant: emit waits for room in the channel and for nothing else.
CloseWhenOver(i) ==
    /\ emitter[i].state = "emitting"
    /\ Over(PhaseList[i], emitter[i].pos)
    /\ emitter' = [emitter EXCEPT ![i].state = "closed"]
    /\ UNCHANGED <<runVars, ch, worker, collectorVars, ghosts>>

\* The next arrival is past the end, or the select takes ctx.Done.
CloseChannel(i) ==
    /\ emitter[i].state = "emitting"
    /\ Over(PhaseList[i], emitter[i].pos) \/ ctxDone(i)
    /\ emitter' = [emitter EXCEPT ![i].state = "closed"]
    /\ UNCHANGED <<runVars, ch, worker, collectorVars, ghosts>>

\* The select puts the arrival into the channel; it may do so although the
\* context is done.
Emit(i) ==
    LET e == emitter[i]
    IN  /\ e.state = "emitting" /\ ~Over(PhaseList[i], e.pos)
        /\ Len(ch[i]) < scheduleBuffer
        /\ ch' = [ch EXCEPT ![i] =
                    Append(@, [phase |-> i, n |-> e.count + 1, at |-> e.pos.at])]
        /\ \E pos \in NextArrivals(PhaseList[i], e.pos) :
              emitter' = [emitter EXCEPT ![i] =
                             [e EXCEPT !.count = e.count + 1, !.pos = pos]]
        /\ UNCHANGED <<runVars, worker, collectorVars, ghosts>>

-----------------------------------------------------------------------------
(* The workers: worker and do.                                             *)

ToSelect(w) == worker' = [worker EXCEPT ![w] = [Idle EXCEPT !.state = "select"]]

\* The select takes ctx.Done, or finds the channel closed and empty.
Exit(w) ==
    /\ worker[w].state = "select"
    /\ ctxDone(phase) \/ (emitter[phase].state = "closed" /\ ch[phase] = <<>>)
    /\ worker' = [worker EXCEPT ![w] = Idle]
    /\ UNCHANGED <<runVars, emitter, ch, collectorVars, ghosts>>

\* The select takes an arrival, although the context may be done.  do holds it
\* if it is early; a late one is sent at once, whatever the context.
Take(w) ==
    LET slot == Head(ch[phase])
    IN  /\ worker[w].state = "select" /\ ch[phase] # <<>>
        /\ ch' = [ch EXCEPT ![phase] = Tail(@)]
        /\ worker' = [worker EXCEPT ![w] =
                         [Idle EXCEPT !.state = IF elapsed < slot.at THEN "hold" ELSE "send",
                                      !.slot = slot]]
        /\ UNCHANGED <<runVars, emitter, collectorVars, ghosts>>

\* The select of do takes ctx.Done, although the timer may have fired too.
Drop(w) ==
    /\ worker[w].state = "hold" /\ ctxDone(phase)
    /\ ToSelect(w)
    /\ dropped' = dropped \cup {worker[w].slot}
    /\ UNCHANGED <<runVars, emitter, ch, collectorVars, recorded, unrecorded>>

\* The select of do takes the timer, although the context may be done too.
Send(w) ==
    /\ worker[w].state = "hold"
    /\ elapsed >= worker[w].slot.at
    /\ worker' = [worker EXCEPT ![w].state = "send"]
    /\ UNCHANGED <<runVars, emitter, ch, collectorVars, ghosts>>

\* client.Do returned; the test of ctx.Err follows at once.  A context that is
\* done between the two has the same effect as one that is done before both.
Complete(w) ==
    /\ worker[w].state = "send"
    /\ ~ctxDone(phase) /\ PhaseList[phase].recordStats
    /\ \E reply \in Answers :
          worker' = [worker EXCEPT ![w].state = "record", ![w].reply = reply]
    /\ UNCHANGED <<runVars, emitter, ch, collectorVars, ghosts>>

\* A request of a warmup phase, or one that outlasted the context.
Discard(w) ==
    /\ worker[w].state = "send"
    /\ ctxDone(phase) \/ ~PhaseList[phase].recordStats
    /\ ToSelect(w)
    /\ unrecorded' = unrecorded \cup {worker[w].slot}
    /\ UNCHANGED <<runVars, emitter, ch, collectorVars, recorded, dropped>>

-----------------------------------------------------------------------------
(* The collector: one call under its mutex is one step.                    *)

\* Mutant: the samples are not capped.
addEverySample(category, code) ==
    samples' = Append(samples, [category |-> category, code |-> code, phase |-> phase])

addSample(category, code) ==
    samples' = IF Len(samples) >= maxErrorSamples THEN samples
               ELSE Append(samples, [category |-> category, code |-> code,
                                     phase |-> phase])

\* sent++, and the latency enters the histogram, clamped to its range.
Counted(c) == [c EXCEPT !.sent = @ + 1, !.latencies = @ + 1]

FailedWith(c, category) == [c EXCEPT !.failed = @ + 1, !.errors[category] = @ + 1]

recordStatus(code) ==
    LET c == [Counted(collector) EXCEPT !.statusCounts[code] = @ + 1]
        category == IF code >= 500 THEN "Server5xx" ELSE "Client4xx"
    IN  IF code >= 400
        THEN collector' = FailedWith(c, category) /\ addSample(category, code)
        ELSE collector' = [c EXCEPT !.succeeded = @ + 1] /\ UNCHANGED samples

recordError(category) ==
    /\ collector' = FailedWith(Counted(collector), category)
    /\ addSample(category, 0)

\* Mutant: a request that got no answer is recorded and sent again.
RecordAndRetry(w) ==
    LET reply == worker[w].reply
    IN  /\ worker[w].state = "record"
        /\ IF reply.kind = "broken"
           THEN /\ recordError(classify(reply.traits))
                /\ worker' = [worker EXCEPT ![w].state = "send"]
           ELSE recordStatus(Do(reply)) /\ ToSelect(w)
        /\ recorded' = recorded \cup {[slot |-> worker[w].slot, reply |-> reply]}
        /\ UNCHANGED <<runVars, emitter, ch, summaries, unrecorded, dropped>>

Record(w) ==
    LET reply == worker[w].reply
    IN  /\ worker[w].state = "record"
        /\ IF reply.kind = "broken" THEN recordError(classify(reply.traits))
           ELSE recordStatus(Do(reply))
        /\ recorded' = recorded \cup {[slot |-> worker[w].slot, reply |-> reply]}
        /\ ToSelect(w)
        /\ UNCHANGED <<runVars, emitter, ch, summaries, unrecorded, dropped>>

-----------------------------------------------------------------------------
(* SIGTERM, the clock, and the specification.                              *)

Cancel ==
    /\ ~cancelled /\ pc # "returned"
    /\ cancelled' = TRUE
    /\ UNCHANGED <<pc, phase, elapsed, expired, emitter, ch, worker,
                   collectorVars, ghosts>>

Tick ==
    /\ pc = "wait" /\ elapsed < PhaseList[phase].duration + Slack
    /\ elapsed' = elapsed + 1
    /\ UNCHANGED <<pc, phase, cancelled, expired, emitter, ch, worker,
                   collectorVars, ghosts>>

Run == StartPhase \/ EndPhase \/ Return
Emitter(i) == Emit(i) \/ CloseChannel(i)
Worker(w) ==
    Exit(w) \/ Take(w) \/ Drop(w) \/ Send(w) \/ Complete(w) \/ Discard(w) \/ Record(w)

Next ==
    \/ Run \/ PhaseTimeout \/ Cancel \/ Tick
    \/ \E i \in Index : Emitter(i)
    \/ \E w \in Workers : Worker(w)

Spec == Init /\ [][Next]_vars

\* Goroutines that can run do run, timers fire, and a request ends because
\* client.Do is bounded by cfg.Timeout.  SIGTERM need never come.
Fairness ==
    /\ WF_vars(Run) /\ WF_vars(PhaseTimeout) /\ WF_vars(Tick)
    /\ \A i \in Index : WF_vars(Emitter(i))
    /\ \A w \in Workers : WF_vars(Worker(w))

FairSpec == Spec /\ Fairness

-----------------------------------------------------------------------------
(* Properties.                                                             *)

InHand == {worker[w].slot : w \in {v \in Workers :
                worker[v].state \in {"hold", "send", "record"}}}
InChannel(i) == {ch[i][k] : k \in DOMAIN ch[i]}
Sent == {r.slot : r \in recorded} \cup unrecorded

TypeOK ==
    /\ pc \in {"next", "wait", "returned"}
    /\ phase \in 0..Len(PhaseList)
    /\ elapsed \in Nat
    /\ cancelled \in BOOLEAN
    /\ expired \subseteq Index
    /\ \A i \in Index : /\ emitter[i].state \in {"unborn", "emitting", "closed"}
                        /\ emitter[i].count \in Nat
                        /\ Len(ch[i]) <= scheduleBuffer
    /\ \A w \in Workers :
          worker[w].state \in {"exited", "select", "hold", "send", "record"}
    /\ Len(samples) <= maxErrorSamples

\* Every arrival that the emitter of a phase put into the channel is at one
\* place: still in the channel, in the hands of one worker, recorded, sent and
\* not recorded, or dropped.  No two workers get the same arrival, and none is
\* lost or sent twice (runSchedule, worker, do).
ArrivalsAreConserved ==
    LET places == <<UNION {InChannel(i) : i \in Index}, InHand,
                    {r.slot : r \in recorded}, unrecorded, dropped>>
        all == UNION {places[k] : k \in DOMAIN places}
    IN  /\ \A i \in Index :
              {a.n : a \in {b \in all : b.phase = i}} = 1..emitter[i].count
        /\ \A a, b \in all : a.phase = b.phase /\ a.n = b.n => a = b
        /\ \A j, k \in DOMAIN places : j # k => places[j] \cap places[k] = {}
        /\ \A v, w \in Workers :
              v # w /\ {worker[v].slot, worker[w].slot} \subseteq InHand
              => worker[v].slot # worker[w].slot

\* The result is the sum of what was recorded: a request is counted once, as a
\* success exactly if the target served it, under the status it got, and each
\* failure under its one category (collector, recordStatus, recordError, classify
\* and the clients).  Samples stop at their cap and the counters do not.
ResultIsTheRecord ==
    LET failures == {r \in recorded : ~Served(r.reply)}
    IN  /\ collector.sent = Cardinality(recorded)
        /\ collector.latencies = collector.sent
        /\ collector.failed = Cardinality(failures)
        /\ collector.succeeded = collector.sent - collector.failed
        /\ \A c \in ErrorCategories :
              collector.errors[c] = Cardinality({r \in failures : Category(r.reply) = c})
        /\ \A code \in Statuses :
              collector.statusCounts[code] =
                 Cardinality({r \in recorded : /\ r.reply.kind # "broken"
                                               /\ Do(r.reply) = code})
        /\ Len(samples) = Min({collector.failed, maxErrorSamples})

\* What is measured belongs to a phase that records, and to the phase that
\* was running when the request ended: workers of an earlier phase are gone
\* before the next one starts, so no warmup request is measured (runPhase, do).
OnlyMeasuredPhasesCount ==
    /\ \A r \in recorded : PhaseList[r.slot.phase].recordStats
    /\ \A w \in Workers : worker[w].state # "exited" => pc = "wait"
    /\ \A a \in InHand : a.phase = phase
    /\ \A k \in DOMAIN samples : PhaseList[samples[k].phase].recordStats

\* Once the run has returned its result, nothing changes it: no worker is left
\* that could still record (Run reads the collector in finalize).
ResultIsFinal == [][pc = "returned" => UNCHANGED <<collectorVars, worker>>]_vars

\* Run returns, and every emitter ends, also the ones that outlive their
\* phase with a full channel and no reader (Run, runSchedule).
RunReturns ==
    <>[](pc = "returned" /\ \A i \in Index : emitter[i].state # "emitting")
=============================================================================
