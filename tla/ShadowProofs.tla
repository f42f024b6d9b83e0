---------------------------- MODULE ShadowProofs ----------------------------
(***************************************************************************)
(* Proofs about the shadow controller and about the load that a            *)
(* ScaleValidation asks for.  The first part is the inductive invariant of *)
(* the controller.  The second shows what loadprofile.go, job.go and       *)
(* config.go make of every spec that the schema admits: by induction over  *)
(* the spikes, which specs run and at what rate.                           *)
(***************************************************************************)
EXTENDS Shadow, Inductions

-----------------------------------------------------------------------------
(* The controller's state.                                                 *)

AnyAnnotations == [enabled : BOOLEAN,
                   port : Int \cup {Absent, Malformed},
                   sla : Int \cup {Absent, Malformed},
                   baseRPS : Int \cup {Absent, Malformed}]
Deployments(n) == [uid : 0..n, annotations : Annotations \cup {NoAnnotations}]
ScaleValidations(n) == [owner : 0..n, spec : Specs, edited : BOOLEAN]

\* The inductive invariant: what Reconcile creates has been parsed, and only
\* a ScaleValidation that is there has been edited.
CInv ==
    /\ uids \in 0..MaxUid
    /\ deploy \in Deployments(uids) /\ deploy.uid \in {0, uids}
    /\ deployView \in Deployments(uids) /\ read \in Deployments(uids)
    /\ cr \in ScaleValidations(uids) /\ crView \in 0..uids
    /\ pc \in {"idle", "get", "create"} /\ queued \in BOOLEAN
    /\ pc = "create" => Parses(read.annotations)
    /\ cr.edited => cr.owner # 0

\* The annotations of a Deployment are typed.
LEMMA AnnotationsTyped ==
    ASSUME NEW n, NEW d \in Deployments(n)
    PROVE  d.annotations \in AnyAnnotations
<1>1. NoAnnotations \in AnyAnnotations
  BY DEF NoAnnotations, AnyAnnotations
<1>2. Annotations \subseteq AnyAnnotations
  BY ShadowAssumptions DEF AnyAnnotations
<1>3. d.annotations \in Annotations \cup {NoAnnotations}
  BY DEF Deployments
<1> QED
  BY <1>1, <1>2, <1>3

\* The spec without a profile or a warmup is one that the schema admits.
LEMMA NoSpecTyped == NoSpec \in Specs
<1>1. {} \in Optional(Int) /\ {} \in Optional(Profiles)
  BY DEF Optional
<1> QED
  BY <1>1 DEF NoSpec, Specs

\* The ScaleValidation of annotations that parse is one that the schema admits.
LEMMA ShadowTyped ==
    ASSUME NEW n \in Nat, NEW d \in Deployments(n), Parses(d.annotations)
    PROVE  shadowScaleValidation(d) \in ScaleValidations(n)
<1> DEFINE a == d.annotations
<1>1. a \in AnyAnnotations /\ Parses(a)
  BY AnnotationsTyped
<1> HIDE DEF a
<1>0. /\ a.port \in Int \cup {Absent, Malformed} /\ a.port # Malformed
      /\ a.sla \in Int \cup {Absent, Malformed} /\ a.sla # Malformed
      /\ a.baseRPS \in Int \cup {Absent, Malformed} /\ a.baseRPS # Malformed
  BY <1>1 DEF Parses, AnyAnnotations
<1>2. Given(a.port, shadowDefaultPort) \in Int
  BY <1>0 DEF Given, shadowDefaultPort
<1>3. Given(a.sla, shadowDefaultSLA) \in Int
  BY <1>0 DEF Given, shadowDefaultSLA
<1>4. Given(a.baseRPS, shadowDefaultBaseRPS) \in Int
  BY <1>0 DEF Given, shadowDefaultBaseRPS
<1> DEFINE s == shadowScaleValidation(d).spec
<1>5. s \in Specs
  BY <1>2, <1>3, <1>4, NoSpecTyped, Zenon DEF shadowScaleValidation, Specs, a
<1>6. d.uid \in 0..n
  BY DEF Deployments
<1> QED
  BY <1>5, <1>6 DEF shadowScaleValidation, ScaleValidations

\* What was typed with the uids given out stays typed when there are more.
LEMMA MoreUids ==
    ASSUME NEW m \in Nat, NEW n \in Nat, m <= n
    PROVE  /\ Deployments(m) \subseteq Deployments(n)
           /\ ScaleValidations(m) \subseteq ScaleValidations(n)
           /\ 0..m \subseteq 0..n
  BY DEF Deployments, ScaleValidations

\* Nothing is there and nothing is edited at the start (Init).
LEMMA CInit == Init => CInv
<1> SUFFICES ASSUME Init PROVE CInv
  OBVIOUS
<1>1. NoDeploy \in Deployments(0)
  BY DEF NoDeploy, Deployments
<1>2. NoCR \in ScaleValidations(0)
  BY NoSpecTyped DEF NoCR, ScaleValidations
<1>3. NoDeploy.uid = 0 /\ ~NoCR.edited
  BY DEF NoDeploy, NoCR
<1>4. 0 \in 0..0 /\ 0 \in 0..MaxUid
  BY ShadowAssumptions
<1> QED
  BY <1>1, <1>2, <1>3, <1>4, Zenon DEF Init, CInv

\* No step of the controller, of its caches, of the cluster or of a user
\* breaks the invariant (Reconcile, SetupWithManager).
LEMMA CNext == CInv /\ [Next]_vars => CInv'
<1> SUFFICES ASSUME CInv, [Next]_vars PROVE CInv'
  OBVIOUS
<1> USE DEF CInv
<1>0. uids \in Nat /\ uids <= MaxUid /\ MaxUid \in Nat
  BY ShadowAssumptions
<1>1. NoDeploy \in Deployments(uids) /\ NoDeploy.uid = 0
  BY <1>0 DEF NoDeploy, Deployments
<1>2. NoCR \in ScaleValidations(uids) /\ ~NoCR.edited
  BY <1>0, NoSpecTyped DEF NoCR, ScaleValidations
<1>3. CASE ReadDeployment
  BY <1>3, Zenon DEF ReadDeployment, cluster
<1>4. CASE GetShadow
  BY <1>1, <1>4 DEF GetShadow, cluster
<1>5. CASE Create
  <2>1. shadowScaleValidation(read) \in ScaleValidations(uids)
    BY <1>0, <1>5, ShadowTyped DEF Create
  <2>2. ~shadowScaleValidation(read).edited
    BY DEF shadowScaleValidation
  <2> QED
    BY <1>1, <1>5, <2>1, <2>2, Zenon DEF Create
<1>6. CASE CallFails
  BY <1>1, <1>6 DEF CallFails, cluster
<1>7. CASE SyncDeployment
  <2>1. \A d \in Deployments(uids) : d.annotations.enabled \in BOOLEAN
    BY AnnotationsTyped DEF AnyAnnotations
  <2> QED
    BY <1>7, <2>1 DEF SyncDeployment
<1>8. CASE SyncShadow
  <2>1. cr.owner \in 0..uids
    BY DEF ScaleValidations
  <2> QED
    BY <1>8, <2>1 DEF SyncShadow
<1>9. CASE Replay
  BY <1>9 DEF Replay, cluster
<1>10. ASSUME NEW a \in Annotations, Deploy(a) PROVE CInv'
  <2>1. uids' \in 0..MaxUid /\ uids' = uids + 1 /\ uids' \in Nat
    BY <1>0, <1>10 DEF Deploy
  <2>2. deploy' \in Deployments(uids') /\ deploy'.uid = uids'
    BY <1>10, <2>1 DEF Deploy, Deployments
  <2>3. /\ Deployments(uids) \subseteq Deployments(uids')
        /\ ScaleValidations(uids) \subseteq ScaleValidations(uids')
        /\ 0..uids \subseteq 0..uids'
    BY <1>0, <2>1, MoreUids
  <2> QED
    BY <1>10, <2>1, <2>2, <2>3 DEF Deploy
<1>11. ASSUME NEW a \in Annotations, Annotate(a) PROVE CInv'
  <2>1. deploy' \in Deployments(uids) /\ deploy'.uid = deploy.uid
    BY <1>11 DEF Annotate, Deployments
  <2> QED
    BY <1>11, <2>1 DEF Annotate
<1>12. CASE DeleteDeployment
  BY <1>1, <1>12 DEF DeleteDeployment
<1>13. ASSUME NEW spec \in Edits, EditShadow(spec) PROVE CInv'
  <2>1. cr' \in ScaleValidations(uids) /\ cr'.owner = cr.owner
    BY <1>13, ShadowAssumptions, Zenon DEF EditShadow, ScaleValidations
  <2> QED
    BY <1>13, <2>1 DEF EditShadow
<1>14. CASE DeleteShadow
  BY <1>2, <1>14 DEF DeleteShadow
<1>15. CASE CollectGarbage
  BY <1>2, <1>15 DEF CollectGarbage
<1>16. CASE UNCHANGED vars
  BY <1>16 DEF vars
<1> QED
  BY <1>3, <1>4, <1>5, <1>6, <1>7, <1>8, <1>9, <1>10, <1>11, <1>12, <1>13,
     <1>14, <1>15, <1>16, Zenon DEF Next, Reconcile

\* The state is well typed: in particular, the controller creates and users
\* leave only ScaleValidations whose spec the schema admits, and uids are
\* those of Deployments that were there.
THEOREM ShadowTypes == Spec => []TypeOK
<1>1. CInv => TypeOK
  <2> SUFFICES ASSUME CInv PROVE TypeOK
    OBVIOUS
  <2>1. uids \in Nat /\ uids <= MaxUid /\ MaxUid \in Nat
    BY ShadowAssumptions DEF CInv
  <2>2. deploy \in Deployments(MaxUid)
    BY <2>1, MoreUids DEF CInv
  <2> QED
    BY <2>1, <2>2 DEF CInv, TypeOK, Deployments, ScaleValidations
<1> QED
  BY <1>1, CInit, CNext, PTL DEF Spec

\* Whatever the cache shows, the controller never takes back what a user
\* wrote into the ScaleValidation: r.Create is the only write of Reconcile.
THEOREM EditsKept == Spec => EditsSurvive
<1>1. CInv /\ [Next]_vars => [cr.edited => cr'.edited \/ cr' = NoCR]_vars
  <2> SUFFICES ASSUME CInv, Next, cr.edited, cr' # NoCR
               PROVE  cr'.edited
    BY DEF vars
  <2>1. cr.owner # 0
    BY DEF CInv
  <2>2. ASSUME NEW spec \in Edits, EditShadow(spec) PROVE FALSE
    BY <2>2 DEF EditShadow
  <2>3. ~DeleteShadow /\ ~CollectGarbage
    BY DEF DeleteShadow, CollectGarbage
  <2>4. cr' = cr
    BY <2>1, <2>2, <2>3 DEF Next, Reconcile, ReadDeployment, GetShadow, Create,
       CallFails, SyncDeployment, SyncShadow, Replay, Deploy, Annotate,
       DeleteDeployment, cluster
  <2> QED
    BY <2>4
<1> QED
  BY <1>1, CInit, CNext, PTL DEF Spec, EditsSurvive

-----------------------------------------------------------------------------
(* Lists of phases.                                                        *)

PhaseT == [pattern : Patterns, duration : Int, start : Int, end : Int,
           step : Int, every : Int, recordStats : BOOLEAN]

AllValid(ph) == \A i \in DOMAIN ph : Valid(ph[i])

\* A phase of constant rate is valid if its length and rate are positive
\* (Phase.Validate).
LEMMA ConstantIs ==
    ASSUME NEW d \in Int, NEW r \in Int, NEW b \in BOOLEAN
    PROVE  /\ Constant(d, r, b) \in PhaseT
           /\ Constant(d, r, b).duration = d /\ Constant(d, r, b).start = r
           /\ Constant(d, r, b).pattern = "Constant"
           /\ Valid(Constant(d, r, b)) <=> d > 0 /\ r > 0
  BY DEF Constant, PhaseT, Patterns, Valid

\* What is in a list with one more phase.
LEMMA OneMore ==
    ASSUME NEW ph \in Seq(PhaseT), NEW c \in PhaseT
    PROVE  /\ ph \o <<c>> \in Seq(PhaseT) /\ Len(ph \o <<c>>) = Len(ph) + 1
           /\ \A i \in 1..Len(ph) : (ph \o <<c>>)[i] = ph[i]
           /\ (ph \o <<c>>)[Len(ph) + 1] = c
  OBVIOUS

\* A list is valid with one more phase if it was and the phase is.
LEMMA ValidMore ==
    ASSUME NEW ph \in Seq(PhaseT), NEW c \in PhaseT
    PROVE  AllValid(ph \o <<c>>) <=> AllValid(ph) /\ Valid(c)
<1> DEFINE n == Len(ph)
           q == ph \o <<c>>
<1>1. /\ q \in Seq(PhaseT) /\ Len(q) = n + 1 /\ q[n + 1] = c
      /\ \A i \in 1..n : q[i] = ph[i]
  BY OneMore
<1>2. n \in Nat /\ DOMAIN ph = 1..n /\ DOMAIN q = 1..(n + 1)
  BY <1>1
<1> HIDE DEF n, q
<1>3. \A i \in 1..(n + 1) : i \in 1..n \/ i = n + 1
  BY <1>2
<1>4. \A i \in 1..n : i \in 1..(n + 1)
  BY <1>2
<1>5. n + 1 \in 1..(n + 1)
  BY <1>2
<1> QED
  BY <1>1, <1>2, <1>3, <1>4, <1>5 DEF AllValid, q

\* A list is valid after a phase if it is and the phase is.
LEMMA ValidAfter ==
    ASSUME NEW ph \in Seq(PhaseT), NEW c \in PhaseT
    PROVE  AllValid(<<c>> \o ph) <=> AllValid(ph) /\ Valid(c)
<1> DEFINE n == Len(ph)
           q == <<c>> \o ph
<1>1. /\ Len(q) = n + 1 /\ q[1] = c /\ DOMAIN q = 1..(n + 1)
      /\ \A i \in 1..n : q[i + 1] = ph[i]
  OBVIOUS
<1>2. n \in Nat /\ DOMAIN ph = 1..n
  OBVIOUS
<1> HIDE DEF n, q
<1>3. \A i \in 1..(n + 1) : i = 1 \/ (i - 1 \in 1..n /\ q[i] = ph[i - 1])
  <2> SUFFICES ASSUME NEW i \in 1..(n + 1), i # 1
               PROVE  i - 1 \in 1..n /\ q[i] = ph[i - 1]
    OBVIOUS
  <2>1. i - 1 \in 1..n /\ (i - 1) + 1 = i
    BY <1>2
  <2> QED
    BY <1>1, <2>1
<1>4. \A i \in 1..n : i + 1 \in 1..(n + 1)
  BY <1>2
<1>5. 1 \in 1..(n + 1)
  BY <1>2
<1> QED
  BY <1>1, <1>2, <1>3, <1>4, <1>5, Zenon DEF AllValid, q

-----------------------------------------------------------------------------
(* Phases in time.                                                         *)


\* What a phase offers from an instant on is the rate, measured after warmup.
Offers(c, from, rate, warm) ==
    \A t \in from..(from + c.duration - 1) :
        PhaseRate(c, t - from) = rate[t] /\ (c.recordStats <=> t >= warm)

\* A phase of one rate offers it, and so does a Poisson phase on average.
LEMMA SteadyOffers ==
    ASSUME NEW c, c.pattern \notin {"Ramp", "Step"}, NEW from, NEW rate, NEW warm,
           \A t \in from..(from + c.duration - 1) :
               PerSecond(c.start) = rate[t] /\ (c.recordStats <=> t >= warm)
    PROVE  Offers(c, from, rate, warm)
<1>1. \A at : PhaseRate(c, at) = PerSecond(c.start)
  BY DEF PhaseRate
<1> QED
  BY <1>1, Zenon DEF Offers

\* Phases that begin at one instant and end at another offer the rate.
Fits(ph, from, to, rate, warm) ==
    \E e \in [0..Len(ph) -> Int] :
        /\ e[0] = from /\ e[Len(ph)] = to
        /\ \A i \in 1..Len(ph) :
              e[i] = e[i - 1] + ph[i].duration /\ Offers(ph[i], e[i - 1], rate, warm)

\* No phases take no time.
LEMMA FitsNone ==
    ASSUME NEW from \in Int, NEW rate, NEW warm
    PROVE  Fits(<<>>, from, from, rate, warm)
<1> DEFINE e == [i \in 0..0 |-> from]
<1>1. e \in [0..0 -> Int] /\ e[0] = from
  OBVIOUS
<1>2. Len(<<>>) = 0 /\ 1..0 = {}
  OBVIOUS
<1> HIDE DEF e
<1> QED
  BY <1>1, <1>2 DEF Fits

\* A phase more begins where the last one ended.
LEMMA FitsMore ==
    ASSUME NEW ph \in Seq(PhaseT), NEW c \in PhaseT, NEW from, NEW to \in Int,
           NEW rate, NEW warm,
           Fits(ph, from, to, rate, warm), Offers(c, to, rate, warm)
    PROVE  Fits(ph \o <<c>>, from, to + c.duration, rate, warm)
<1> DEFINE n == Len(ph)
           q == ph \o <<c>>
<1>1. /\ q \in Seq(PhaseT) /\ Len(q) = n + 1 /\ q[n + 1] = c
      /\ \A i \in 1..n : q[i] = ph[i]
  BY OneMore
<1>2. n \in Nat
  OBVIOUS
<1>3. PICK e \in [0..n -> Int] :
        /\ e[0] = from /\ e[n] = to
        /\ \A i \in 1..n :
              e[i] = e[i - 1] + ph[i].duration /\ Offers(ph[i], e[i - 1], rate, warm)
  BY DEF Fits
<1> HIDE DEF n, q
<1> DEFINE last == to + c.duration
           h == [i \in 0..(n + 1) |-> IF i = n + 1 THEN last ELSE e[i]]
<1>4. last \in Int
  BY DEF PhaseT
<1> HIDE DEF last
<1>5. h \in [0..(n + 1) -> Int] /\ h[n + 1] = last
  BY <1>2, <1>4
<1>6. \A i \in 0..n : h[i] = e[i]
  BY <1>2
<1> HIDE DEF h
<1>7. ASSUME NEW i \in 1..(n + 1)
      PROVE  h[i] = h[i - 1] + q[i].duration /\ Offers(q[i], h[i - 1], rate, warm)
  <2>1. CASE i = n + 1
    <3>1. i - 1 = n /\ n \in 0..n
      BY <1>2, <2>1
    <3>2. h[i - 1] = to /\ h[i] = last /\ q[i] = c
      BY <1>1, <1>3, <1>5, <1>6, <2>1, <3>1
    <3> QED
      BY <3>2 DEF last
  <2>2. CASE i # n + 1
    <3>1. i \in 1..n /\ i \in 0..n /\ i - 1 \in 0..n
      BY <1>2, <2>2
    <3>2. h[i - 1] = e[i - 1] /\ h[i] = e[i] /\ q[i] = ph[i]
      BY <1>1, <1>6, <3>1
    <3> QED
      BY <1>3, <3>1, <3>2
  <2> QED
    BY <2>1, <2>2
<1>8. h[0] = from
  BY <1>2, <1>3, <1>6
<1>9. Fits(q, from, last, rate, warm)
  BY <1>1, <1>5, <1>7, <1>8, Zenon DEF Fits
<1> QED
  BY <1>9 DEF q, last

\* A phase before the others ends where they begin.
LEMMA FitsAfter ==
    ASSUME NEW ph \in Seq(PhaseT), NEW c \in PhaseT, NEW to, NEW rate, NEW warm,
           Fits(ph, c.duration, to, rate, warm), Offers(c, 0, rate, warm)
    PROVE  Fits(<<c>> \o ph, 0, to, rate, warm)
<1> DEFINE n == Len(ph)
           q == <<c>> \o ph
<1>1. Len(q) = n + 1 /\ q[1] = c /\ \A i \in 1..n : q[i + 1] = ph[i]
  OBVIOUS
<1>2. n \in Nat
  OBVIOUS
<1>3. PICK e \in [0..n -> Int] :
        /\ e[0] = c.duration /\ e[n] = to
        /\ \A i \in 1..n :
              e[i] = e[i - 1] + ph[i].duration /\ Offers(ph[i], e[i - 1], rate, warm)
  BY DEF Fits
<1> HIDE DEF n, q
<1> DEFINE h == [i \in 0..(n + 1) |-> IF i = 0 THEN 0 ELSE e[i - 1]]
<1>4. h \in [0..(n + 1) -> Int] /\ h[0] = 0
  BY <1>2
<1>5. \A i \in 1..(n + 1) : i - 1 \in 0..n /\ h[i] = e[i - 1]
  BY <1>2
<1> HIDE DEF h
<1>6. ASSUME NEW i \in 1..(n + 1)
      PROVE  h[i] = h[i - 1] + q[i].duration /\ Offers(q[i], h[i - 1], rate, warm)
  <2>1. CASE i = 1
    <3>1. h[i - 1] = 0 /\ h[i] = c.duration /\ q[i] = c
      BY <1>1, <1>3, <1>4, <1>5, <2>1
    <3>2. c.duration = 0 + c.duration
      BY DEF PhaseT
    <3> QED
      BY <3>1, <3>2
  <2>2. CASE i # 1
    <3> DEFINE j == i - 1
    <3>1. j \in 1..n /\ j \in 1..(n + 1) /\ j + 1 = i
      BY <1>2, <2>2
    <3>2. h[j] = e[j - 1] /\ h[i] = e[j] /\ q[i] = ph[j]
      BY <1>1, <1>5, <3>1
    <3> HIDE DEF j
    <3>3. h[i] = h[j] + q[i].duration /\ Offers(q[i], h[j], rate, warm)
      BY <1>3, <3>1, <3>2
    <3> QED
      BY <3>3 DEF j
  <2> QED
    BY <2>1, <2>2
<1>7. h[n + 1] = to
  <2>1. n + 1 \in 1..(n + 1) /\ (n + 1) - 1 = n
    BY <1>2
  <2> QED
    BY <1>3, <1>5, <2>1
<1>8. Fits(q, 0, to, rate, warm)
  BY <1>1, <1>4, <1>6, <1>7 DEF Fits
<1> QED
  BY <1>8 DEF q

EndsFit(ph, ends, to, rate, warm) ==
    /\ ends[Len(ph)] = to
    /\ \A i \in 1..Len(ph) :
          /\ ends[i - 1] \in Int
          /\ ends[i] = ends[i - 1] + ph[i].duration
          /\ Offers(ph[i], ends[i - 1], rate, warm)

\* The instants that phases end at are the ones that fit them.
LEMMA FitsEnds ==
    ASSUME NEW ph \in Seq(PhaseT), NEW to, NEW rate, NEW warm,
           Fits(ph, 0, to, rate, warm)
    PROVE  EndsFit(ph, Ends(ph), to, rate, warm)
<1> DEFINE n == Len(ph)
           S(f) == f = [i \in 0..n |-> IF i = 0 THEN 0 ELSE f[i - 1] + ph[i].duration]
           ends == CHOOSE f : S(f)
<1>1. n \in Nat
  OBVIOUS
<1>2. PICK e \in [0..n -> Int] :
        /\ e[0] = 0 /\ e[n] = to
        /\ \A i \in 1..n :
              e[i] = e[i - 1] + ph[i].duration /\ Offers(ph[i], e[i - 1], rate, warm)
  BY DEF Fits
<1>3. Ends(ph) = ends
  BY DEF Ends
<1> HIDE DEF n
<1>4. S(e)
  <2>1. \A i \in 0..n : e[i] = IF i = 0 THEN 0 ELSE e[i - 1] + ph[i].duration
    BY <1>1, <1>2
  <2> QED
    BY <1>2, <2>1
<1>5. S(ends)
  <2> HIDE DEF S
  <2> QED
    BY <1>4
<1> HIDE DEF ends
<1> DEFINE T == {i \in Nat : i <= n => ends[i] = e[i]}
<1>6. 0 \in T
  BY <1>1, <1>2, <1>5
<1>7. ASSUME NEW i \in Nat, i \in T PROVE i + 1 \in T
  <2> SUFFICES ASSUME i + 1 <= n PROVE ends[i + 1] = e[i + 1]
    OBVIOUS
  <2>1. i + 1 \in 0..n /\ i + 1 \in 1..n /\ i + 1 # 0 /\ (i + 1) - 1 = i /\ i <= n
    BY <1>1
  <2>2. ends[i + 1] = ends[(i + 1) - 1] + ph[i + 1].duration
    BY <1>5, <2>1
  <2>3. e[i + 1] = e[(i + 1) - 1] + ph[i + 1].duration
    BY <1>2, <2>1
  <2>4. ends[i] = e[i]
    BY <1>7, <2>1
  <2> QED
    BY <2>1, <2>2, <2>3, <2>4
<1> HIDE DEF T
<1>8. \A i \in Nat : i \in T
  BY <1>6, <1>7, Induction
<1>9. \A i \in 0..n : ends[i] = e[i]
  <2> SUFFICES ASSUME NEW i \in 0..n PROVE ends[i] = e[i]
    OBVIOUS
  <2>1. i \in Nat /\ i <= n
    BY <1>1
  <2> QED
    BY <1>8, <2>1 DEF T
<1>10. ends[n] = to
  <2>1. n \in 0..n
    BY <1>1
  <2> QED
    BY <1>2, <1>9, <2>1
<1>11. ASSUME NEW i \in 1..n
       PROVE  /\ ends[i - 1] \in Int
              /\ ends[i] = ends[i - 1] + ph[i].duration
              /\ Offers(ph[i], ends[i - 1], rate, warm)
  <2>1. i \in 0..n /\ i - 1 \in 0..n
    BY <1>1
  <2>2. ends[i] = e[i] /\ ends[i - 1] = e[i - 1]
    BY <1>9, <2>1
  <2>3. e[i - 1] \in Int
    BY <1>2, <2>1
  <2>4. e[i] = e[i - 1] + ph[i].duration /\ Offers(ph[i], e[i - 1], rate, warm)
    BY <1>2
  <2> QED
    BY <2>2, <2>3, <2>4
<1> QED
  BY <1>3, <1>10, <1>11 DEF EndsFit, n

-----------------------------------------------------------------------------
(* The loop of decomposeSpike.                                             *)

Progress == [ok : BOOLEAN, cursor : Int, phases : Seq(PhaseT)]
AtStart == [ok |-> TRUE, cursor |-> 0, phases |-> <<>>]

\* What makes the loop go on at a spike.
Admits(base, total, cursor, spike) ==
    /\ cursor <= spike.at /\ spike.at + spike.duration <= total
    /\ base < spike.rps

\* A base slice, if there is room for one.
Gap(base, len) == IF len > 0 THEN <<Constant(len, base, TRUE)>> ELSE <<>>

\* A list with a base slice more, or as it was.
LEMMA GapIs ==
    ASSUME NEW ph \in Seq(PhaseT), NEW base \in Int, NEW len \in Int
    PROVE  /\ ph \o Gap(base, len) \in Seq(PhaseT)
           /\ len > 0 => ph \o Gap(base, len) = ph \o <<Constant(len, base, TRUE)>>
           /\ ~(len > 0) => ph \o Gap(base, len) = ph
<1> DEFINE c == Constant(len, base, TRUE)
<1>1. c \in PhaseT
  BY ConstantIs, Zenon
<1>2. Gap(base, len) = IF len > 0 THEN <<c>> ELSE <<>>
  BY DEF Gap
<1> HIDE DEF c
<1>3. ph \o <<c>> \in Seq(PhaseT)
  BY <1>1, OneMore
<1>4. ph \o <<>> = ph
  OBVIOUS
<1> QED
  BY <1>2, <1>3, <1>4, Zenon DEF c

\* A base slice is valid if the base rate is positive.
LEMMA ValidGap ==
    ASSUME NEW ph \in Seq(PhaseT), NEW base \in Int, NEW len \in Int
    PROVE  AllValid(ph \o Gap(base, len)) <=> AllValid(ph) /\ (len > 0 => base > 0)
<1> DEFINE c == Constant(len, base, TRUE)
<1>1. c \in PhaseT /\ (Valid(c) <=> len > 0 /\ base > 0)
  BY ConstantIs, Zenon
<1>2. /\ len > 0 => ph \o Gap(base, len) = ph \o <<c>>
      /\ ~(len > 0) => ph \o Gap(base, len) = ph
  BY GapIs, Zenon
<1> HIDE DEF c
<1>3. AllValid(ph \o <<c>>) <=> AllValid(ph) /\ Valid(c)
  BY <1>1, ValidMore
<1> QED
  BY <1>1, <1>2, <1>3, Zenon

OneSlice(base, total, done, spike, next) ==
    /\ next \in Progress
    /\ next.ok <=> done.ok /\ Admits(base, total, done.cursor, spike)
    /\ next.ok =>
          /\ next.cursor = spike.at + spike.duration
          /\ next.phases = (done.phases \o Gap(base, spike.at - done.cursor))
                           \o <<Constant(spike.duration, spike.rps, TRUE)>>

\* What the loop does with one spike.
LEMMA SliceIs ==
    ASSUME NEW base \in Int, NEW total \in Int, NEW done \in Progress,
           NEW spike \in Spikes
    PROVE  OneSlice(base, total, done, spike, Slice(base, total, done, spike))
<1> USE DEF OneSlice
<1> DEFINE next == Slice(base, total, done, spike)
           pre == spike.at - done.cursor
           ph == (done.phases \o Gap(base, spike.at - done.cursor))
                 \o <<Constant(spike.duration, spike.rps, TRUE)>>
           end == spike.at + spike.duration
<1>1. /\ spike.at \in Int /\ spike.duration \in Int /\ spike.rps \in Int
      /\ done.cursor \in Int /\ done.ok \in BOOLEAN /\ done.phases \in Seq(PhaseT)
      /\ pre \in Int /\ end \in Int
  BY DEF Spikes, Progress
<1>2. ph \in Seq(PhaseT)
  <2>1. Constant(spike.duration, spike.rps, TRUE) \in PhaseT
    BY <1>1, ConstantIs, Zenon
  <2>2. done.phases \o Gap(base, spike.at - done.cursor) \in Seq(PhaseT)
    BY <1>1, GapIs, Zenon
  <2> QED
    BY <2>1, <2>2, OneMore, Zenon
<1>3. CASE done.ok /\ Admits(base, total, done.cursor, spike)
  <2>1. next = [ok |-> TRUE, cursor |-> end, phases |-> ph]
    BY <1>1, <1>3 DEF Slice, Admits, Gap
  <2> HIDE DEF next, ph, end
  <2>2. next \in Progress
    BY <1>1, <1>2, <2>1 DEF Progress
  <2>3. next.ok /\ next.cursor = end /\ next.phases = ph
    BY <2>1
  <2> QED
    BY <1>3, <2>2, <2>3 DEF next, ph, end
<1>4. CASE ~(done.ok /\ Admits(base, total, done.cursor, spike))
  <2>1. next = [done EXCEPT !.ok = FALSE]
    BY <1>1, <1>4 DEF Slice, Admits
  <2>2. next \in Progress /\ ~next.ok
    BY <2>1, Zenon DEF Progress
  <2> QED
    BY <1>4, <2>2, Zenon
<1> QED
  BY <1>3, <1>4, Zenon

\* f is what the loop has done after each number of spikes.
Loops(f, base, total, spikes) ==
    /\ f \in [0..Len(spikes) -> Progress] /\ f[0] = AtStart
    /\ \A i \in 1..Len(spikes) : f[i] = Slice(base, total, f[i - 1], spikes[i])

\* The loop goes from one spike to the next (decomposeSpike).
LEMMA SlicedIs ==
    ASSUME NEW base \in Int, NEW total \in Int, NEW spikes \in Seq(Spikes)
    PROVE  Loops(Sliced(base, total, spikes), base, total, spikes)
<1> DEFINE n == Len(spikes)
           S(f) == f = [i \in 0..n |-> IF i = 0 THEN AtStart
                                       ELSE Slice(base, total, f[i - 1], spikes[i])]
           sliced == CHOOSE f : S(f)
<1>1. n \in Nat /\ \A i \in 1..n : spikes[i] \in Spikes
  OBVIOUS
<1>2. AtStart \in Progress
  BY DEF AtStart, Progress
<1>3. Sliced(base, total, spikes) = sliced
  BY DEF Sliced, AtStart
<1>4. \A p \in Progress, i \in 1..n : Slice(base, total, p, spikes[i]) \in Progress
  BY <1>1, SliceIs, Zenon DEF OneSlice
<1> HIDE DEF n
<1>5. \E f \in [0..n -> Progress] : S(f)
  <2> DEFINE g == [q \in Progress \X Nat |->
                     IF q[2] \in 1..n THEN Slice(base, total, q[1], spikes[q[2]])
                     ELSE AtStart]
  <2>1. \A q \in Progress \X Nat :
           (IF q[2] \in 1..n THEN Slice(base, total, q[1], spikes[q[2]])
            ELSE AtStart) \in Progress
    BY <1>2, <1>4
  <2>2. g \in Steps(Progress)
    BY <2>1 DEF Steps
  <2>3. \A p \in Progress, i \in 1..n :
           g[<<p, i>>] = Slice(base, total, p, spikes[i])
    BY <1>1
  <2> HIDE DEF g
  <2>4. PICK f : Iterates(f, Progress, AtStart, n, g)
    BY <1>1, <1>2, <2>2, Recursion
  <2>5. /\ f \in [0..n -> Progress] /\ f[0] = AtStart
        /\ \A i \in 1..n : f[i] = g[<<f[i - 1], i>>]
    BY <2>4 DEF Iterates
  <2>6. ASSUME NEW i \in 1..n PROVE f[i] = Slice(base, total, f[i - 1], spikes[i])
    <3>1. f[i - 1] \in Progress
      BY <1>1, <2>5
    <3> QED
      BY <2>3, <2>5, <3>1, Zenon
  <2>7. \A i \in 0..n : f[i] = IF i = 0 THEN AtStart
                               ELSE Slice(base, total, f[i - 1], spikes[i])
    BY <1>1, <2>5, <2>6
  <2>8. S(f)
    BY <2>5, <2>7
  <2> HIDE DEF S
  <2> QED
    BY <2>5, <2>8
<1>6. S(sliced)
  <2> HIDE DEF S
  <2> QED
    BY <1>5
<1> HIDE DEF sliced
<1>7. sliced[0] = AtStart
  BY <1>1, <1>6
<1>8. ASSUME NEW i \in 1..n
      PROVE  sliced[i] = Slice(base, total, sliced[i - 1], spikes[i])
  <2>1. i \in 0..n /\ i # 0
    BY <1>1
  <2> QED
    BY <1>6, <2>1, Zenon
<1> DEFINE T == {i \in Nat : i <= n => sliced[i] \in Progress}
<1>9. 0 \in T
  BY <1>2, <1>7
<1>10. ASSUME NEW i \in Nat, i \in T PROVE i + 1 \in T
  <2> SUFFICES ASSUME i + 1 <= n PROVE sliced[i + 1] \in Progress
    OBVIOUS
  <2>1. i + 1 \in 1..n /\ (i + 1) - 1 = i /\ i <= n
    BY <1>1
  <2>2. sliced[i] \in Progress
    BY <1>10, <2>1
  <2>3. sliced[i + 1] = Slice(base, total, sliced[i], spikes[i + 1])
    BY <1>8, <2>1
  <2> QED
    BY <1>4, <2>1, <2>2, <2>3
<1> HIDE DEF T
<1>11. \A i \in Nat : i \in T
  BY <1>9, <1>10, Induction
<1>12. \A i \in 0..n : sliced[i] \in Progress
  <2> SUFFICES ASSUME NEW i \in 0..n PROVE sliced[i] \in Progress
    OBVIOUS
  <2>1. i \in Nat /\ i <= n
    BY <1>1
  <2> QED
    BY <1>11, <2>1 DEF T
<1>13. sliced = [i \in 0..n |-> sliced[i]]
  BY <1>6
<1>14. sliced \in [0..n -> Progress]
  BY <1>12, <1>13
<1> QED
  BY <1>3, <1>7, <1>8, <1>14 DEF Loops, n

\* A spike and the slice before it are phases that the generator takes.
Sound(base, spikes, j) ==
    /\ spikes[j].duration > 0 /\ spikes[j].rps > 0
    /\ spikes[j].at > SpikeEnd(spikes, j - 1) => base > 0

\* Where the loop is after i spikes, and what its phases are worth.
Reached(f, base, total, spikes, i) ==
    /\ f[i].ok <=> \A j \in 1..i : Admits(base, total, SpikeEnd(spikes, j - 1), spikes[j])
    /\ f[i].ok => /\ f[i].cursor = SpikeEnd(spikes, i)
                  /\ i > 0 => f[i].phases # <<>>
                  /\ AllValid(f[i].phases) <=> \A j \in 1..i : Sound(base, spikes, j)

\* One more spike.
LEMMA ReachedNext ==
    ASSUME NEW base \in Int, NEW total \in Int, NEW spikes \in Seq(Spikes), NEW f,
           Loops(f, base, total, spikes), NEW i \in Nat, i + 1 <= Len(spikes),
           Reached(f, base, total, spikes, i)
    PROVE  Reached(f, base, total, spikes, i + 1)
<1> DEFINE k == i + 1
           sp == spikes[k]
           p == f[i]
           q == f[k]
           b == p.phases \o Gap(base, sp.at - p.cursor)
           c == Constant(sp.duration, sp.rps, TRUE)
           pre == sp.at - p.cursor
<1>1. /\ k \in 1..Len(spikes) /\ i \in 0..Len(spikes) /\ k - 1 = i /\ k > 0
      /\ \A j \in 1..k : j \in 1..i \/ j = k
      /\ \A j \in 1..i : j \in 1..k
      /\ k \in 1..k
  OBVIOUS
<1>0. sp \in Spikes
  BY <1>1
<1>3. p \in Progress /\ p.phases \in Seq(PhaseT) /\ p.cursor \in Int
  BY <1>1 DEF Loops, Progress
<1>4. q = Slice(base, total, p, sp)
  BY <1>1 DEF Loops
<1> HIDE DEF p, q, sp
<1>2. sp.at \in Int /\ sp.duration \in Int /\ sp.rps \in Int
  BY <1>0 DEF Spikes
<1>5. /\ q.ok <=> p.ok /\ Admits(base, total, p.cursor, sp)
      /\ q.ok => q.phases = b \o <<c>> /\ q.cursor = sp.at + sp.duration
  <2>1. OneSlice(base, total, p, sp, q)
    BY <1>0, <1>3, <1>4, SliceIs
  <2> QED
    BY <2>1, Zenon DEF OneSlice
<1>6. /\ p.ok <=> \A j \in 1..i : Admits(base, total, SpikeEnd(spikes, j - 1), spikes[j])
      /\ p.ok => /\ p.cursor = SpikeEnd(spikes, i)
                 /\ AllValid(p.phases) <=> \A j \in 1..i : Sound(base, spikes, j)
  BY DEF Reached, p
<1>7. c \in PhaseT /\ (Valid(c) <=> sp.duration > 0 /\ sp.rps > 0)
  BY <1>2, ConstantIs, Zenon
<1>8. b \in Seq(PhaseT) /\ (AllValid(b) <=> AllValid(p.phases) /\ (pre > 0 => base > 0))
  <2>1. pre \in Int
    BY <1>2, <1>3
  <2>2. b = p.phases \o Gap(base, pre)
    OBVIOUS
  <2> HIDE DEF b, pre
  <2> QED
    BY <1>3, <2>1, <2>2, GapIs, ValidGap, Zenon
<1> HIDE DEF b, c
<1>9. b \o <<c>> # <<>> /\ (AllValid(b \o <<c>>) <=> AllValid(b) /\ Valid(c))
  <2>1. Len(b \o <<c>>) = Len(b) + 1 /\ Len(b) \in Nat
    BY <1>7, <1>8, OneMore
  <2>2. Len(<<>>) = 0
    OBVIOUS
  <2> QED
    BY <1>7, <1>8, <2>1, <2>2, ValidMore
<1>10. SpikeEnd(spikes, k) = sp.at + sp.duration
  BY <1>1 DEF SpikeEnd, sp
<1>11. q.ok <=> \A j \in 1..k : Admits(base, total, SpikeEnd(spikes, j - 1), spikes[j])
  <2>1. q.ok <=> p.ok /\ Admits(base, total, SpikeEnd(spikes, k - 1), spikes[k])
    BY <1>1, <1>5, <1>6 DEF sp
  <2> QED
    BY <1>1, <1>6, <2>1, Zenon
<1>12. ASSUME q.ok
       PROVE  AllValid(q.phases) <=> \A j \in 1..k : Sound(base, spikes, j)
  <2>1. p.ok
    BY <1>5, <1>12
  <2>2. pre > 0 <=> sp.at > SpikeEnd(spikes, k - 1)
    BY <1>1, <1>2, <1>3, <1>6, <2>1
  <2>3. Sound(base, spikes, k) <=> Valid(c) /\ (pre > 0 => base > 0)
    BY <1>7, <2>2 DEF Sound, sp
  <2>4. AllValid(q.phases) <=> AllValid(p.phases) /\ Sound(base, spikes, k)
    BY <1>5, <1>8, <1>9, <1>12, <2>3, Zenon
  <2> QED
    BY <1>1, <1>6, <2>1, <2>4
<1>13. q.ok => q.cursor = SpikeEnd(spikes, k) /\ q.phases # <<>>
  BY <1>5, <1>9, <1>10
<1> QED
  BY <1>1, <1>11, <1>12, <1>13 DEF Reached, q

\* The whole loop.
LEMMA ReachedAll ==
    ASSUME NEW base \in Int, NEW total \in Int, NEW spikes \in Seq(Spikes), NEW f,
           Loops(f, base, total, spikes)
    PROVE  Reached(f, base, total, spikes, Len(spikes))
<1> DEFINE n == Len(spikes)
           T == {i \in Nat : i <= n => Reached(f, base, total, spikes, i)}
<1>1. n \in Nat
  OBVIOUS
<1>2. 0 \in T
  <2>1. f[0].ok /\ f[0].cursor = 0 /\ f[0].phases = <<>>
    BY DEF Loops, AtStart
  <2>2. AllValid(<<>>) /\ SpikeEnd(spikes, 0) = 0
    BY DEF AllValid, SpikeEnd
  <2>3. \A j \in 1..0 : FALSE
    OBVIOUS
  <2> QED
    BY <2>1, <2>2, <2>3 DEF Reached
<1>3. ASSUME NEW i \in Nat, i \in T PROVE i + 1 \in T
  <2> SUFFICES ASSUME i + 1 <= n PROVE Reached(f, base, total, spikes, i + 1)
    OBVIOUS
  <2>1. Reached(f, base, total, spikes, i)
    BY <1>1, <1>3
  <2> QED
    BY <2>1, ReachedNext
<1> HIDE DEF T
<1>4. n \in T
  BY <1>1, <1>2, <1>3, Induction
<1> QED
  BY <1>1, <1>4 DEF T

\* Spikes in order: each ends before any later one begins, and in the window.
Ordered(spikes, window) ==
    /\ \A k \in 1..Len(spikes) : \A j \in 0..(k - 1) : SpikeEnd(spikes, j) <= spikes[k].at
    /\ \A j \in 0..Len(spikes) : SpikeEnd(spikes, j) \in Int /\ SpikeEnd(spikes, j) <= window

\* What holds of neighbours holds of all.
LEMMA OrderIs ==
    ASSUME NEW window \in Int, NEW base \in Int, NEW spikes \in Seq(Spikes),
           InOrder(spikes, window, base)
    PROVE  Ordered(spikes, window)
<1> DEFINE n == Len(spikes)
           E(j) == SpikeEnd(spikes, j)
           T == {k \in Nat : k < n => \A j \in 0..k : E(j) <= spikes[k + 1].at}
<1>1. n \in Nat /\ \A j \in 1..n : spikes[j] \in Spikes
  OBVIOUS
<1>2. \A j \in 1..n : spikes[j].at \in Int /\ spikes[j].duration \in Int
  BY <1>1 DEF Spikes
<1> HIDE DEF n
<1>3. \A j \in 1..n : E(j) = spikes[j].at + spikes[j].duration /\ E(j) \in Int
  <2>1. \A j \in 1..n : j # 0
    BY <1>1
  <2> QED
    BY <1>2, <2>1 DEF SpikeEnd
<1>4. E(0) = 0
  BY DEF SpikeEnd
<1> HIDE DEF E
<1>5. \A j \in 0..n : E(j) \in Int
  <2>1. \A j \in 0..n : j = 0 \/ j \in 1..n
    BY <1>1
  <2> QED
    BY <1>3, <1>4, <2>1
<1>6. ASSUME NEW k \in Nat, k < n PROVE k + 1 \in 1..n /\ E(k) <= spikes[k + 1].at
  <2>1. k \in 0..n /\ k # n /\ k + 1 \in 1..n
    BY <1>1, <1>6
  <2>2. E(k) <= NextAt(spikes, window, k)
    BY <2>1 DEF InOrder, E, n
  <2> QED
    BY <2>1, <2>2 DEF NextAt, n
<1>7. \A j \in 1..n : spikes[j].at <= E(j)
  <2>1. \A j \in 1..n : spikes[j].duration > 0
    BY DEF InOrder, n
  <2> QED
    BY <1>2, <1>3, <2>1
<1>8. 0 \in T
  <2>1. \A j \in 0..0 : j = 0
    OBVIOUS
  <2> QED
    BY <1>6, <2>1
<1>9. ASSUME NEW k \in Nat, k \in T PROVE k + 1 \in T
  <2> SUFFICES ASSUME k + 1 < n, NEW j \in 0..(k + 1)
               PROVE  E(j) <= spikes[(k + 1) + 1].at
    OBVIOUS
  <2>1. k + 1 \in Nat /\ k < n /\ k + 1 \in 1..n /\ (k + 1) + 1 \in 1..n
    BY <1>1
  <2>2. E(k + 1) <= spikes[(k + 1) + 1].at
    BY <1>6, <2>1
  <2>3. CASE j = k + 1
    BY <2>2, <2>3
  <2>4. CASE j # k + 1
    <3>1. j \in 0..k /\ j \in 0..n
      BY <1>1, <2>1, <2>4
    <3>2. E(j) <= spikes[k + 1].at
      BY <1>9, <2>1, <3>1
    <3>3. /\ spikes[k + 1].at <= E(k + 1) /\ spikes[k + 1].at \in Int
          /\ E(k + 1) \in Int /\ E(j) \in Int /\ spikes[(k + 1) + 1].at \in Int
      BY <1>2, <1>3, <1>5, <1>7, <2>1, <3>1
    <3> QED
      BY <2>2, <3>2, <3>3
  <2> QED
    BY <2>3, <2>4
<1> HIDE DEF T
<1>10. \A k \in Nat : k \in T
  BY <1>8, <1>9, Induction
<1>11. ASSUME NEW k \in 1..n, NEW j \in 0..(k - 1) PROVE E(j) <= spikes[k].at
  <2>1. k - 1 \in Nat /\ k - 1 < n /\ (k - 1) + 1 = k
    BY <1>1
  <2> QED
    BY <1>10, <2>1 DEF T
<1>12. E(n) <= window
  <2>1. n \in 0..n
    BY <1>1
  <2>2. E(n) <= NextAt(spikes, window, n)
    BY <2>1 DEF InOrder, E, n
  <2> QED
    BY <2>2 DEF NextAt, n
<1>13. ASSUME NEW j \in 0..n PROVE E(j) <= window
  <2>1. CASE j = n
    BY <1>12, <2>1
  <2>2. CASE j # n
    <3>1. j \in 0..(n - 1) /\ n \in 1..n /\ n \in 0..n
      BY <1>1, <2>2
    <3>2. E(j) <= spikes[n].at /\ spikes[n].at <= E(n)
      BY <1>7, <1>11, <3>1
    <3>3. E(j) \in Int /\ spikes[n].at \in Int /\ E(n) \in Int
      BY <1>2, <1>5, <3>1
    <3> QED
      BY <1>12, <3>2, <3>3
  <2> QED
    BY <2>1, <2>2
<1> QED
  BY <1>5, <1>11, <1>13 DEF Ordered, E, n

-----------------------------------------------------------------------------
(* decomposeSpike.                                                         *)

\* What is built has phases, unless it is refused.
Built == {b \in [ok : BOOLEAN, phases : Seq(PhaseT)] : b.ok => b.phases # <<>>}

\* What is built is not refused, and the generator takes it.
Taken(built) == built.ok /\ AllValid(built.phases)

\* Spikes that can be offered: if there is a gap, the base rate is positive.
Timely(spikes, window, base) ==
    InOrder(spikes, window, base) /\ (base > 0 \/ Filled(spikes, window))

\* The loop admits every spike, and its phases are valid.
Passes(spikes, window, base) ==
    /\ \A j \in 1..Len(spikes) :
          /\ Admits(base, window, SpikeEnd(spikes, j - 1), spikes[j])
          /\ Sound(base, spikes, j)
    /\ window - SpikeEnd(spikes, Len(spikes)) > 0 => base > 0

\* The checks of decomposeSpike and Phase.Validate pass exactly the spikes that
\* can be offered.
LEMMA TimelyIs ==
    ASSUME NEW window \in Int, NEW base \in Int, NEW spikes \in Seq(Spikes),
           spikes # <<>>
    PROVE  Timely(spikes, window, base) <=> Passes(spikes, window, base)
<1> DEFINE n == Len(spikes)
           E(j) == SpikeEnd(spikes, j)
           N(j) == NextAt(spikes, window, j)
<1>1. n \in Nat /\ n # 0 /\ \A j \in 1..n : spikes[j] \in Spikes
  OBVIOUS
<1>2. \A j \in 1..n : /\ spikes[j].at \in Int /\ spikes[j].duration \in Int
                       /\ spikes[j].rps \in Int
  BY <1>1 DEF Spikes
<1> HIDE DEF n
<1>3. \A j \in 1..n : E(j) = spikes[j].at + spikes[j].duration /\ E(j) \in Int
  <2>1. \A j \in 1..n : j # 0
    BY <1>1
  <2> QED
    BY <1>2, <2>1 DEF SpikeEnd
<1>4. E(0) = 0
  BY DEF SpikeEnd
<1>5. N(n) = window
  BY DEF NextAt, n
<1>6. \A j \in 1..n : N(j - 1) = spikes[j].at
  <2>1. \A j \in 1..n : j - 1 # n /\ (j - 1) + 1 = j
    BY <1>1
  <2> QED
    BY <2>1 DEF NextAt, n
<1>7. /\ n \in 0..n /\ n \in 1..n
      /\ \A j \in 1..n : j - 1 \in 0..n /\ j \in 0..n
      /\ \A i \in 0..n : i = n \/ (i + 1 \in 1..n /\ (i + 1) - 1 = i)
  BY <1>1
<1> HIDE DEF E, N
<1>8. \A j \in 0..n : E(j) \in Int
  <2>1. \A j \in 0..n : j = 0 \/ j \in 1..n
    BY <1>1
  <2> QED
    BY <1>3, <1>4, <2>1
<1>9. ASSUME Timely(spikes, window, base) PROVE Passes(spikes, window, base)
  <2>1. Ordered(spikes, window)
    BY <1>9, OrderIs DEF Timely
  <2>2. \A j \in 0..n : E(j) <= window
    BY <2>1 DEF Ordered, E, n
  <2>3. /\ \A i \in 0..n : E(i) <= N(i)
        /\ \A j \in 1..n : /\ spikes[j].duration > 0 /\ spikes[j].rps > base
                            /\ spikes[j].rps > 0
    BY <1>9 DEF Timely, InOrder, E, N, n
  <2>4. base > 0 \/ \A i \in 0..n : E(i) = N(i)
    BY <1>9 DEF Timely, Filled, E, N, n
  <2>5. ASSUME NEW j \in 1..n
        PROVE  Admits(base, window, E(j - 1), spikes[j]) /\ Sound(base, spikes, j)
    <3>1. E(j - 1) <= spikes[j].at
      BY <1>6, <1>7, <2>3
    <3>2. Admits(base, window, E(j - 1), spikes[j])
      BY <1>2, <1>3, <1>7, <2>2, <2>3, <3>1 DEF Admits
    <3>3. spikes[j].at > E(j - 1) => base > 0
      BY <1>2, <1>6, <1>7, <1>8, <2>4
    <3>4. Sound(base, spikes, j)
      BY <2>3, <3>3 DEF Sound, E
    <3> QED
      BY <3>2, <3>4
  <2>6. window - E(n) > 0 => base > 0
    BY <1>5, <1>7, <1>8, <2>4
  <2> QED
    BY <2>5, <2>6 DEF Passes, E, n
<1>10. ASSUME Passes(spikes, window, base) PROVE Timely(spikes, window, base)
  <2>1. \A j \in 1..n : /\ E(j - 1) <= spikes[j].at
                        /\ spikes[j].at + spikes[j].duration <= window
                        /\ base < spikes[j].rps
    BY <1>10 DEF Passes, Admits, E, n
  <2>2. \A j \in 1..n : /\ spikes[j].duration > 0 /\ spikes[j].rps > 0
                        /\ spikes[j].at > E(j - 1) => base > 0
    BY <1>10 DEF Passes, Sound, E, n
  <2>3. window - E(n) > 0 => base > 0
    BY <1>10 DEF Passes, E, n
  <2>4. ASSUME NEW i \in 0..n
        PROVE  E(i) <= N(i) /\ (base > 0 \/ E(i) = N(i))
    <3>1. CASE i = n
      <4>1. E(n) \in Int /\ E(n) <= window
        BY <1>3, <1>7, <2>1, Zenon
      <4>2. base > 0 \/ E(n) = window
        BY <2>3, <4>1
      <4> QED
        BY <1>5, <3>1, <4>1, <4>2
    <3>2. CASE i # n
      <4> DEFINE j == i + 1
      <4>1. j \in 1..n /\ j - 1 = i
        BY <1>7, <3>2
      <4> HIDE DEF j
      <4>2. N(i) = spikes[j].at
        BY <1>6, <4>1
      <4>3. E(i) <= spikes[j].at /\ (spikes[j].at > E(i) => base > 0)
        BY <2>1, <2>2, <4>1
      <4>4. E(i) \in Int /\ spikes[j].at \in Int
        BY <1>2, <1>8, <4>1
      <4> QED
        BY <4>2, <4>3, <4>4
    <3> QED
      BY <3>1, <3>2
  <2>5. \A j \in 1..n : spikes[j].rps > base
    BY <1>2, <2>1
  <2>6. InOrder(spikes, window, base)
    BY <2>2, <2>4, <2>5 DEF InOrder, E, N, n
  <2>7. base > 0 \/ Filled(spikes, window)
    BY <2>4 DEF Filled, E, N, n
  <2> QED
    BY <2>6, <2>7 DEF Timely
<1> QED
  BY <1>9, <1>10

\* decomposeSpike, with the checks of the generator, lets exactly the spikes
\* through that can be offered.
LEMMA SpikesTaken ==
    ASSUME NEW base \in Int, NEW total \in Int, NEW spikes \in Seq(Spikes)
    PROVE  /\ decomposeSpike(base, total, spikes) \in Built
           /\ Taken(decomposeSpike(base, total, spikes)) <=> Timely(spikes, total, base)
<1> DEFINE D == decomposeSpike(base, total, spikes)
           n == Len(spikes)
           f == Sliced(base, total, spikes)
           done == f[n]
           tail == total - done.cursor
           ph == done.phases \o Gap(base, tail)
<1>1. CASE spikes = <<>>
  <2>1. D = Refused
    BY <1>1 DEF decomposeSpike
  <2>2. ~InOrder(spikes, total, base)
    BY <1>1 DEF InOrder
  <2>3. Refused \in Built /\ ~Taken(Refused)
    BY DEF Refused, Built, Taken
  <2> QED
    BY <2>1, <2>2, <2>3 DEF Timely
<1>2. CASE spikes # <<>>
  <2>1. D = IF ~done.ok THEN Refused ELSE Accepted(ph)
    BY <1>2 DEF decomposeSpike, Gap
  <2>2. Loops(f, base, total, spikes)
    BY SlicedIs
  <2>3. n \in Nat /\ n # 0 /\ n \in 0..n /\ n > 0
    BY <1>2
  <2>4. done \in Progress
    BY <2>2, <2>3 DEF Loops
  <2>5. Reached(f, base, total, spikes, n)
    BY <2>2, ReachedAll
  <2>6. /\ done.ok <=> \A j \in 1..n : Admits(base, total, SpikeEnd(spikes, j - 1), spikes[j])
        /\ done.ok => /\ done.cursor = SpikeEnd(spikes, n) /\ done.phases # <<>>
                      /\ AllValid(done.phases) <=> \A j \in 1..n : Sound(base, spikes, j)
    BY <2>3, <2>5 DEF Reached
  <2> HIDE DEF D, n, f, done
  <2>7. done.ok \in BOOLEAN /\ done.phases \in Seq(PhaseT) /\ tail \in Int
    BY <2>4 DEF Progress
  <2> HIDE DEF tail
  <2>8. /\ ph \in Seq(PhaseT)
        /\ AllValid(ph) <=> AllValid(done.phases) /\ (tail > 0 => base > 0)
    BY <2>7, GapIs, ValidGap, Zenon
  <2>9. done.phases # <<>> => ph # <<>>
    <3> DEFINE q == done.phases
               c == Constant(tail, base, TRUE)
    <3>1. c \in PhaseT
      BY <2>7, ConstantIs, Zenon
    <3>2. (tail > 0 => ph = q \o <<c>>) /\ (~(tail > 0) => ph = q)
      BY <2>7, GapIs, Zenon
    <3> HIDE DEF q, c, ph
    <3>3. Len(q \o <<c>>) = Len(q) + 1 /\ Len(q) \in Nat
      BY <2>7, <3>1, OneMore DEF q
    <3>4. q \o <<c>> # <<>>
      BY <3>3
    <3> QED
      BY <3>2, <3>4 DEF q
  <2> HIDE DEF ph
  <2>10. D \in Built
    BY <2>1, <2>6, <2>8, <2>9 DEF Built, Refused, Accepted
  <2>11. Taken(D) <=> done.ok /\ AllValid(ph)
    BY <2>1, <2>7 DEF Taken, Refused, Accepted
  <2>12. Taken(D) <=> Passes(spikes, total, base)
    <3>1. done.ok => tail = total - SpikeEnd(spikes, n)
      BY <2>6 DEF tail
    <3>2. Passes(spikes, total, base) <=>
            /\ \A j \in 1..n : Admits(base, total, SpikeEnd(spikes, j - 1), spikes[j])
            /\ \A j \in 1..n : Sound(base, spikes, j)
            /\ total - SpikeEnd(spikes, n) > 0 => base > 0
      BY DEF Passes, n
    <3> QED
      BY <2>6, <2>8, <2>9, <2>11, <3>1, <3>2
  <2> QED
    BY <1>2, <2>10, <2>12, TimelyIs DEF D
<1> QED
  BY <1>1, <1>2

-----------------------------------------------------------------------------
(* buildPhases and what becomes of them.                                   *)

\* An optional field that is there has a value of its type.
LEMMA OptionIs ==
    ASSUME NEW T, NEW option \in Optional(T)
    PROVE  /\ option # {} => The(option) \in T
           /\ \A d \in T : OrElse(option, d) \in T
<1>1. option \subseteq T
  BY DEF Optional
<1>2. option # {} => The(option) \in option
  BY DEF The
<1> QED
  BY <1>1, <1>2 DEF OrElse

\* What a measurement window may ask for.
Wants(base, window, p) ==
    /\ p.pattern # "Spike" => base > 0
    /\ p.pattern = "Ramp" => Positive(p.endRPS)
    /\ p.pattern = "Step" => Positive(p.stepRPS) /\ Positive(p.stepDuration)
    /\ p.pattern = "Spike" => Timely(p.spikes, window, base)

\* A list of one phase.
LEMMA OneTaken ==
    ASSUME NEW c \in PhaseT
    PROVE  Accepted(<<c>>) \in Built /\ (Taken(Accepted(<<c>>)) <=> Valid(c))
<1>1. <<c>> \in Seq(PhaseT) /\ DOMAIN <<c>> = 1..1 /\ <<c>>[1] = c /\ <<c>> # <<>>
  OBVIOUS
<1>2. AllValid(<<c>>) <=> Valid(c)
  BY <1>1 DEF AllValid
<1> QED
  BY <1>1, <1>2 DEF Built, Taken, Accepted

\* Nothing comes of what is refused.
LEMMA NoneTaken == Refused \in Built /\ ~Taken(Refused)
  BY DEF Refused, Built, Taken

\* The phases of a measurement window are taken if it may be asked for.
LEMMA MeasureTaken ==
    ASSUME NEW base \in Int, NEW window \in Int, window > 0, NEW p \in Profiles
    PROVE  /\ measurePhases(base, window, p) \in Built
           /\ Taken(measurePhases(base, window, p)) <=> Wants(base, window, p)
<1> DEFINE M == measurePhases(base, window, p)
           c == [Constant(window, base, TRUE) EXCEPT !.pattern = p.pattern]
           ramp == OrElse(p.rampDuration, 0)
<1>1. /\ p.pattern \in {"Constant", "Poisson", "Ramp", "Step", "Spike"}
      /\ p.endRPS \in Optional(Int) /\ p.rampDuration \in Optional(Int)
      /\ p.stepRPS \in Optional(Int) /\ p.stepDuration \in Optional(Int)
      /\ p.spikes \in Seq(Spikes)
  BY DEF Profiles, Patterns
<1>2. ASSUME p.pattern \in Patterns
      PROVE  /\ c \in PhaseT /\ c.pattern = p.pattern
             /\ c.duration = window /\ c.start = base
  <2> DEFINE k == Constant(window, base, TRUE)
  <2>1. k \in PhaseT /\ k.duration = window /\ k.start = base
    BY ConstantIs, Zenon
  <2>2. c = [k EXCEPT !.pattern = p.pattern]
    OBVIOUS
  <2> HIDE DEF k, c
  <2>3. c \in PhaseT
    BY <1>2, <2>1, <2>2 DEF PhaseT
  <2>4. c.pattern = p.pattern /\ c.duration = window /\ c.start = base
    BY <2>1, <2>2 DEF PhaseT
  <2> QED
    BY <2>3, <2>4
<1>3. CASE p.pattern \in {"Constant", "Poisson"}
  <2>1. M = Accepted(<<c>>)
    BY <1>3 DEF measurePhases
  <2>2. c \in PhaseT /\ (Valid(c) <=> base > 0)
    <3>1. p.pattern \in Patterns
      BY <1>3 DEF Patterns
    <3> HIDE DEF c
    <3> QED
      BY <1>2, <1>3, <3>1 DEF Valid
  <2> HIDE DEF M, c
  <2>3. Wants(base, window, p) <=> base > 0
    BY <1>3 DEF Wants
  <2> QED
    BY <2>1, <2>2, <2>3, OneTaken DEF M
<1>4. CASE p.pattern = "Ramp"
  <2>1. Wants(base, window, p) <=> base > 0 /\ Positive(p.endRPS)
    BY <1>4 DEF Wants
  <2>2. CASE p.endRPS = {}
    <3>1. M = Refused
      BY <1>4, <2>2 DEF measurePhases
    <3> QED
      BY <2>1, <2>2, <3>1, NoneTaken DEF Positive
  <2>3. CASE p.endRPS # {}
    <3> DEFINE e == The(p.endRPS)
               d == IF ramp > 0 THEN ramp ELSE window
               r == [c EXCEPT !.end = e, !.duration = d]
    <3>1. M = Accepted(<<r>>)
      BY <1>4, <2>3 DEF measurePhases
    <3>2. e \in Int /\ ramp \in Int
      BY <1>1, <2>3, OptionIs
    <3> HIDE DEF e, ramp, M
    <3>3. d \in Int /\ d > 0
      BY <3>2
    <3> HIDE DEF d
    <3> HIDE DEF c
    <3>4. p.pattern \in Patterns
      BY <1>4 DEF Patterns
    <3>5. /\ r \in PhaseT /\ r.pattern = "Ramp"
          /\ r.duration = d /\ r.start = base /\ r.end = e
      BY <1>2, <1>4, <3>2, <3>3, <3>4, Zenon DEF PhaseT
    <3> HIDE DEF r
    <3>7. Valid(r) <=> base > 0 /\ e > 0
      BY <1>4, <3>3, <3>4, <3>5 DEF Valid
    <3>6. Positive(p.endRPS) <=> e > 0
      BY <2>3 DEF Positive, e
    <3> QED
      BY <2>1, <3>1, <3>5, <3>6, <3>7, OneTaken DEF M
  <2> QED
    BY <2>2, <2>3
<1>5. CASE p.pattern = "Step"
  <2>1. Wants(base, window, p) <=>
          base > 0 /\ Positive(p.stepRPS) /\ Positive(p.stepDuration)
    BY <1>5 DEF Wants
  <2>2. CASE p.stepRPS = {} \/ p.stepDuration = {}
    <3>1. M = Refused
      BY <1>5, <2>2 DEF measurePhases
    <3> QED
      BY <2>1, <2>2, <3>1, NoneTaken DEF Positive
  <2>3. CASE ~(p.stepRPS = {} \/ p.stepDuration = {})
    <3> DEFINE e == The(p.stepRPS)
               d == The(p.stepDuration)
               r == [c EXCEPT !.step = e, !.every = d]
    <3>1. M = Accepted(<<r>>)
      BY <1>5, <2>3 DEF measurePhases
    <3>2. e \in Int /\ d \in Int
      BY <1>1, <2>3, OptionIs
    <3> HIDE DEF e, d, M
    <3> HIDE DEF c
    <3>4. p.pattern \in Patterns
      BY <1>5 DEF Patterns
    <3>5. /\ r \in PhaseT /\ r.pattern = "Step"
          /\ r.duration = window /\ r.start = base /\ r.step = e /\ r.every = d
      BY <1>2, <1>5, <3>2, <3>4, Zenon DEF PhaseT
    <3> HIDE DEF r
    <3>7. Valid(r) <=> base > 0 /\ e > 0 /\ d > 0
      BY <1>5, <3>4, <3>5 DEF Valid
    <3>6. (Positive(p.stepRPS) <=> e > 0) /\ (Positive(p.stepDuration) <=> d > 0)
      BY <2>3 DEF Positive, e, d
    <3> QED
      BY <2>1, <3>1, <3>5, <3>6, <3>7, OneTaken DEF M
  <2> QED
    BY <2>2, <2>3
<1>6. CASE p.pattern = "Spike"
  <2>1. M = decomposeSpike(base, window, p.spikes)
    BY <1>6 DEF measurePhases
  <2>2. Wants(base, window, p) <=> Timely(p.spikes, window, base)
    BY <1>6 DEF Wants
  <2> QED
    BY <1>1, <2>1, <2>2, SpikesTaken
<1> QED
  BY <1>1, <1>3, <1>4, <1>5, <1>6

\* The warmup phase, if any, before a list.
Warmup(warm, base) == IF warm > 0 THEN <<Constant(warm, base, FALSE)>> ELSE <<>>

Warmed(ph, warm, base, q) ==
    /\ q \in Seq(PhaseT) /\ q # <<>>
    /\ warm > 0 => q = <<Constant(warm, base, FALSE)>> \o ph
    /\ ~(warm > 0) => q = ph
    /\ AllValid(q) <=> AllValid(ph) /\ (warm > 0 => base > 0)

\* A list with the warmup before it.
LEMMA WarmupIs ==
    ASSUME NEW ph \in Seq(PhaseT), ph # <<>>, NEW warm \in Int, NEW base \in Int
    PROVE  Warmed(ph, warm, base, Warmup(warm, base) \o ph)
<1> DEFINE c == Constant(warm, base, FALSE)
<1>1. c \in PhaseT /\ (Valid(c) <=> warm > 0 /\ base > 0)
  BY ConstantIs, Zenon
<1>2. Warmup(warm, base) = IF warm > 0 THEN <<c>> ELSE <<>>
  BY DEF Warmup
<1> HIDE DEF c
<1>3. /\ <<c>> \o ph \in Seq(PhaseT) /\ <<c>> \o ph # <<>>
      /\ AllValid(<<c>> \o ph) <=> AllValid(ph) /\ Valid(c)
  <2>1. <<c>> \o ph \in Seq(PhaseT) /\ Len(<<c>> \o ph) # 0
    BY <1>1
  <2>2. <<c>> \o ph # <<>>
    BY <2>1
  <2> QED
    BY <1>1, <2>1, <2>2, ValidAfter
<1>4. <<>> \o ph = ph
  OBVIOUS
<1> QED
  BY <1>1, <1>2, <1>3, <1>4, Zenon DEF Warmed, c

\* The parts of a spec that the phases are built from.
Parts(spec, warm, window, p) ==
    /\ warm = OrElse(spec.warmup, 0) /\ window = spec.sla - warm
    /\ p = OrElse(spec.profile, Profile("Constant"))

\* They are typed, and the profile is Constant if none is given.
LEMMA PartsTyped ==
    ASSUME NEW spec \in Specs, NEW warm, NEW window, NEW p, Parts(spec, warm, window, p)
    PROVE  /\ warm \in Int /\ window \in Int /\ spec.sla \in Int /\ spec.base \in Int
           /\ p \in Profiles
           /\ spec.profile = {} => p.pattern = "Constant"
<1>1. /\ spec.sla \in Int /\ spec.base \in Int
      /\ spec.warmup \in Optional(Int) /\ spec.profile \in Optional(Profiles)
  BY DEF Specs
<1>2. 0 \in Int
  OBVIOUS
<1>3. OrElse(spec.warmup, 0) \in Int
  BY <1>1, <1>2, OptionIs
<1>4. Profile("Constant") \in Profiles /\ Profile("Constant").pattern = "Constant"
  <2>1. {} \in Optional(Int)
    BY DEF Optional
  <2>2. <<>> \in Seq(Spikes)
    OBVIOUS
  <2> QED
    BY <2>1, <2>2, Zenon DEF Profile, Profiles, Patterns
<1>5. OrElse(spec.profile, Profile("Constant")) \in Profiles
  BY <1>1, <1>4, OptionIs
<1>6. spec.profile = {} => p.pattern = "Constant"
  BY <1>4 DEF Parts, OrElse
<1> QED
  BY <1>1, <1>3, <1>5, <1>6 DEF Parts

\* The generator runs a list of phases of which nothing is refused.
LEMMA StartedIs ==
    ASSUME NEW spec \in Specs
    PROVE  /\ Start(spec).result = "Started" <=>
                 /\ buildPhases(spec).ok
                 /\ IF buildPhases(spec).phases = <<>>
                    THEN spec.base > 0 /\ spec.sla > 0
                    ELSE AllValid(buildPhases(spec).phases)
           /\ Start(spec).result = "Started" =>
                 Start(spec).config = withDefaults(loadgenArgs(spec))
<1> DEFINE args == loadgenArgs(spec)
           built == buildPhases(spec)
<1>1. /\ args.ok = built.ok /\ args.phases = built.phases
      /\ args.rps = spec.base /\ args.duration = spec.sla
  BY DEF loadgenArgs
<1>2. Start(spec) = StartWith(args)
  BY DEF Start
<1> HIDE DEF args, built
<1>3. StartWith(args).result = "Started" <=> args.ok /\ Validate(args)
  BY DEF StartWith
<1>4. args.ok /\ Validate(args) => StartWith(args).config = withDefaults(args)
  BY DEF StartWith
<1>5. Validate(args) <=> IF built.phases = <<>> THEN spec.base > 0 /\ spec.sla > 0
                         ELSE AllValid(built.phases)
  BY <1>1 DEF Validate, AllValid
<1> QED
  BY <1>1, <1>2, <1>3, <1>4, <1>5, Zenon DEF args, built

\* What Config.withDefaults makes of the arguments of one that starts.
LEMMA ConfigIs ==
    ASSUME NEW spec \in Specs, Start(spec).result = "Started",
           NEW ph, ph = Start(spec).config.phases
    PROVE  /\ ph = IF buildPhases(spec).phases # <<>> THEN buildPhases(spec).phases
                   ELSE <<Constant(spec.sla, spec.base, TRUE)>>
           /\ Start(spec).config.concurrency =
                 IF Max({0, spec.concurrency}) # 0 THEN Max({0, spec.concurrency})
                 ELSE DefaultConcurrency(ph)
<1> DEFINE args == loadgenArgs(spec)
           built == buildPhases(spec).phases
           asked == Max({0, spec.concurrency})
           config == withDefaults(args)
<1>1. Start(spec).config = config
  BY StartedIs
<1>2. /\ args.phases = built /\ args.concurrency = asked
      /\ args.duration = spec.sla /\ args.rps = spec.base
  BY DEF loadgenArgs
<1> HIDE DEF args, built, asked
<1>3. /\ config.phases = IF args.phases # <<>> THEN args.phases
                         ELSE <<Constant(args.duration, args.rps, TRUE)>>
      /\ config.concurrency = IF args.concurrency # 0 THEN args.concurrency
                              ELSE DefaultConcurrency(config.phases)
  BY DEF withDefaults
<1> HIDE DEF config
<1>4. ph = config.phases
  BY <1>1
<1>5. ph = IF built # <<>> THEN built ELSE <<Constant(spec.sla, spec.base, TRUE)>>
  BY <1>2, <1>3, <1>4, Zenon
<1>6. Start(spec).config.concurrency = IF asked # 0 THEN asked ELSE DefaultConcurrency(ph)
  BY <1>1, <1>2, <1>3, <1>4, Zenon
<1> QED
  BY <1>5, <1>6, Zenon DEF built, asked

\* What buildPhases returns, by cases.
LEMMA BuildCases ==
    ASSUME NEW spec \in Specs, NEW warm, NEW window, NEW p,
           Parts(spec, warm, window, p)
    PROVE  LET M == measurePhases(spec.base, window, p)
               legacy == spec.profile = {} /\ warm = 0
               bad == spec.sla <= 0 \/ warm < 0 \/ warm >= spec.sla \/ ~M.ok
           IN  /\ legacy => buildPhases(spec) = Accepted(<<>>)
               /\ ~legacy /\ bad => buildPhases(spec) = Refused
               /\ ~legacy /\ ~bad => buildPhases(spec) =
                                       Accepted(Warmup(warm, spec.base) \o M.phases)
  BY Zenon DEF buildPhases, Parts, Warmup

\* A reasonable spec, in the terms of its measurement window.
LEMMA ReasonableIs ==
    ASSUME NEW spec \in Specs, NEW warm, NEW window, NEW p,
           Parts(spec, warm, window, p)
    PROVE  Reasonable(spec) <=>
              /\ warm >= 0 /\ window > 0 /\ (warm > 0 => spec.base > 0)
              /\ Wants(spec.base, window, p)
<1>1. warm \in Int /\ spec.base \in Int
  BY PartsTyped
<1>2. Reasonable(spec) <=>
        /\ warm >= 0 /\ window > 0
        /\ \/ spec.base > 0
           \/ p.pattern = "Spike" /\ warm = 0 /\ Filled(p.spikes, window)
        /\ p.pattern = "Ramp" => Positive(p.endRPS)
        /\ p.pattern = "Step" => Positive(p.stepRPS) /\ Positive(p.stepDuration)
        /\ p.pattern = "Spike" => InOrder(p.spikes, window, spec.base)
  BY DEF Reasonable, Parts
<1> QED
  BY <1>1, <1>2 DEF Wants, Timely

\* Between them the controller and the generator let exactly the reasonable
\* specs through.
LEMMA ReasonableRuns ==
    ASSUME NEW spec \in Specs
    PROVE  Start(spec).result = "Started" <=> Reasonable(spec)
<1>1. PICK warm, window, p : Parts(spec, warm, window, p)
  BY DEF Parts
<1> DEFINE base == spec.base
           M == measurePhases(base, window, p)
           built == buildPhases(spec)
           legacy == spec.profile = {} /\ warm = 0
           badWindow == spec.sla <= 0 \/ warm < 0 \/ warm >= spec.sla
           ph == Warmup(warm, base) \o M.phases
<1>2. /\ warm \in Int /\ window \in Int /\ spec.sla \in Int /\ base \in Int
      /\ p \in Profiles /\ (spec.profile = {} => p.pattern = "Constant")
  BY <1>1, PartsTyped
<1>3. window = spec.sla - warm
  BY <1>1 DEF Parts
<1>4. badWindow <=> ~(warm >= 0 /\ window > 0)
  BY <1>2, <1>3
<1>5. /\ legacy => built = Accepted(<<>>)
      /\ ~legacy /\ (badWindow \/ ~M.ok) => built = Refused
      /\ ~legacy /\ ~(badWindow \/ ~M.ok) => built = Accepted(ph)
  BY <1>1, BuildCases, Zenon
<1>6. Reasonable(spec) <=>
        warm >= 0 /\ window > 0 /\ (warm > 0 => base > 0) /\ Wants(base, window, p)
  BY <1>1, ReasonableIs
<1>7. Start(spec).result = "Started" <=>
        built.ok /\ IF built.phases = <<>> THEN base > 0 /\ spec.sla > 0
                    ELSE AllValid(built.phases)
  BY StartedIs
<1> HIDE DEF base, M, built, badWindow, ph
<1>8. CASE legacy
  <2>1. built.ok /\ built.phases = <<>>
    BY <1>5, <1>8 DEF Accepted
  <2>2. Wants(base, window, p) <=> base > 0
    BY <1>2, <1>8 DEF Wants
  <2> QED
    BY <1>2, <1>3, <1>6, <1>7, <1>8, <2>1, <2>2
<1>9. CASE ~legacy /\ badWindow
  <2>1. ~built.ok
    BY <1>5, <1>9 DEF Refused
  <2> QED
    BY <1>4, <1>6, <1>7, <1>9, <2>1
<1>10. CASE ~legacy /\ ~badWindow
  <2>1. window > 0
    BY <1>4, <1>10
  <2>2. M \in Built /\ (Taken(M) <=> Wants(base, window, p))
    BY <1>2, <2>1, MeasureTaken DEF M
  <2>3. CASE ~M.ok
    <3>1. ~built.ok
      BY <1>5, <1>10, <2>3 DEF Refused
    <3>2. ~Taken(M)
      BY <2>3 DEF Taken
    <3> QED
      BY <1>6, <1>7, <2>2, <3>1, <3>2
  <2>4. CASE M.ok
    <3>1. M.phases \in Seq(PhaseT) /\ M.phases # <<>>
      BY <2>2, <2>4 DEF Built
    <3>2. ph # <<>> /\ (AllValid(ph) <=> AllValid(M.phases) /\ (warm > 0 => base > 0))
      <4>1. Warmed(M.phases, warm, base, ph)
        BY <1>2, <3>1, WarmupIs DEF ph
      <4> QED
        BY <4>1 DEF Warmed
    <3>3. built.ok /\ built.phases = ph
      BY <1>5, <1>10, <2>4 DEF Accepted
    <3>4. Taken(M) <=> AllValid(M.phases)
      BY <2>4 DEF Taken
    <3> QED
      BY <1>4, <1>6, <1>7, <1>10, <2>1, <2>2, <3>2, <3>3, <3>4
  <2> QED
    BY <2>3, <2>4
<1> QED
  BY <1>8, <1>9, <1>10

-----------------------------------------------------------------------------
(* The rate that is offered.                                               *)

\* One phase.
LEMMA FitsOne ==
    ASSUME NEW c \in PhaseT, NEW from \in Int, NEW rate, NEW warm,
           Offers(c, from, rate, warm)
    PROVE  Fits(<<c>>, from, from + c.duration, rate, warm)
<1>1. Fits(<<>>, from, from, rate, warm)
  BY FitsNone
<1>2. <<>> \in Seq(PhaseT)
  OBVIOUS
<1>3. Fits(<<>> \o <<c>>, from, from + c.duration, rate, warm)
  BY <1>1, <1>2, FitsMore, Zenon
<1>4. <<>> \o <<c>> = <<c>>
  OBVIOUS
<1> QED
  BY <1>3, <1>4

\* A base slice, if there is room for one.
LEMMA FitsGap ==
    ASSUME NEW ph \in Seq(PhaseT), NEW base \in Int, NEW len \in Nat, NEW from,
           NEW to \in Int, NEW rate, NEW warm, Fits(ph, from, to, rate, warm),
           Offers(Constant(len, base, TRUE), to, rate, warm)
    PROVE  Fits(ph \o Gap(base, len), from, to + len, rate, warm)
<1> DEFINE c == Constant(len, base, TRUE)
           q == ph \o Gap(base, len)
<1>0. len \in Int
  OBVIOUS
<1>1. c \in PhaseT /\ c.duration = len
  BY <1>0, ConstantIs, Zenon
<1>2. (len > 0 => q = ph \o <<c>>) /\ (~(len > 0) => q = ph)
  BY <1>0, GapIs, Zenon
<1> HIDE DEF c, q
<1>3. Fits(ph \o <<c>>, from, to + c.duration, rate, warm)
  BY <1>1, FitsMore, Zenon DEF c
<1>4. CASE len > 0
  BY <1>1, <1>2, <1>3, <1>4, Zenon DEF q
<1>5. CASE ~(len > 0)
  <2>1. to + len = to
    BY <1>5
  <2> QED
    BY <1>2, <1>5, <2>1, Zenon DEF q
<1> QED
  BY <1>4, <1>5

\* Spikes are on alone, from where they begin to where they end.
LEMMA SpikeOn ==
    ASSUME NEW window \in Int, NEW base \in Int, NEW spikes \in Seq(Spikes),
           InOrder(spikes, window, base), NEW k \in 1..Len(spikes),
           NEW s \in Int, spikes[k].at <= s, s < SpikeEnd(spikes, k)
    PROVE  On(spikes, s) = {k}
<1> DEFINE n == Len(spikes)
           E(j) == SpikeEnd(spikes, j)
<1>0. n \in Nat /\ DOMAIN spikes = 1..n /\ \A i \in 1..n : spikes[i] \in Spikes
  OBVIOUS
<1>1. n \in Nat /\ DOMAIN spikes = 1..n /\ \A i \in 1..n : spikes[i].at \in Int
  BY <1>0 DEF Spikes
<1>2. Ordered(spikes, window)
  BY OrderIs
<1>3. /\ \A i \in 1..n : \A j \in 0..(i - 1) : E(j) <= spikes[i].at
      /\ \A j \in 0..n : E(j) \in Int
  BY <1>2 DEF Ordered
<1>4. spikes[k].at <= s /\ s < E(k)
  OBVIOUS
<1> HIDE DEF n, E
<1>5. ASSUME NEW i \in 1..n, spikes[i].at <= s, s < E(i) PROVE i = k
  <2>0. k \in 1..n
    BY DEF n
  <2>1. CASE i < k
    <3>1. i \in 0..(k - 1) /\ i \in 0..n
      BY <1>1, <2>0, <2>1
    <3>2. E(i) <= spikes[k].at /\ E(i) \in Int /\ spikes[k].at \in Int
      BY <1>1, <1>3, <2>0, <3>1
    <3> QED
      BY <1>4, <1>5, <3>2
  <2>2. CASE k < i
    <3>1. k \in 0..(i - 1) /\ k \in 0..n
      BY <1>1, <2>0, <2>2
    <3>2. E(k) <= spikes[i].at /\ E(k) \in Int /\ spikes[i].at \in Int
      BY <1>1, <1>3, <3>1
    <3> QED
      BY <1>4, <1>5, <3>2
  <2> QED
    BY <1>1, <2>0, <2>1, <2>2
<1>6. k \in 1..n
  BY DEF n
<1> QED
  BY <1>1, <1>4, <1>5, <1>6 DEF On, E

\* No spike is on between spikes, before the first or after the last.
LEMMA NoneOn ==
    ASSUME NEW window \in Int, NEW base \in Int, NEW spikes \in Seq(Spikes),
           InOrder(spikes, window, base), NEW k \in 0..Len(spikes), NEW s \in Int,
           k > 0 => SpikeEnd(spikes, k) <= s,
           k < Len(spikes) => s < spikes[k + 1].at
    PROVE  On(spikes, s) = {}
<1> DEFINE n == Len(spikes)
           E(j) == SpikeEnd(spikes, j)
<1>1. n \in Nat /\ DOMAIN spikes = 1..n /\ \A i \in 1..n : spikes[i] \in Spikes
  OBVIOUS
<1>1a. \A i \in 1..n : spikes[i].at \in Int /\ spikes[i].duration \in Int
  BY <1>1 DEF Spikes
<1>2. Ordered(spikes, window)
  BY OrderIs
<1>3. /\ \A i \in 1..n : \A j \in 0..(i - 1) : E(j) <= spikes[i].at
      /\ \A j \in 0..n : E(j) \in Int
  BY <1>2 DEF Ordered
<1>4. /\ k \in 0..n /\ (k > 0 => E(k) <= s) /\ (k < n => s < spikes[k + 1].at)
  OBVIOUS
<1>5. \A i \in 1..n : spikes[i].at < E(i)
  <2>1. \A i \in 1..n : spikes[i].duration > 0 /\ i # 0
    BY DEF InOrder
  <2> QED
    BY <1>1a, <2>1 DEF SpikeEnd
<1> HIDE DEF n, E
<1>6. ASSUME NEW i \in 1..n, spikes[i].at <= s, s < E(i) PROVE FALSE
  <2>1. CASE i <= k
    <3>1. k > 0 /\ k \in 1..n /\ k \in 0..n /\ i \in 0..n
      BY <1>1, <1>4, <2>1
    <3>2. E(k) <= s /\ E(k) \in Int /\ E(i) \in Int
      BY <1>3, <1>4, <3>1
    <3>3. CASE i = k
      BY <1>6, <3>2, <3>3
    <3>4. CASE i # k
      <4>1. i \in 0..(k - 1)
        BY <1>1, <2>1, <3>1, <3>4
      <4>2. E(i) <= spikes[k].at /\ spikes[k].at < E(k) /\ spikes[k].at \in Int
        BY <1>1a, <1>3, <1>5, <3>1, <4>1
      <4> QED
        BY <1>6, <3>2, <4>2
    <3> QED
      BY <3>3, <3>4
  <2>2. CASE ~(i <= k)
    <3> DEFINE m == k + 1
    <3>1. k < n /\ m \in 1..n /\ m <= i /\ m \in 0..n
      BY <1>1, <1>4, <2>2
    <3>2. s < spikes[m].at
      BY <1>4, <3>1
    <3> HIDE DEF m
    <3>3. CASE i = m
      BY <1>1a, <1>6, <3>2, <3>3
    <3>4. CASE i # m
      <4>1. m \in 0..(i - 1)
        BY <1>1, <3>1, <3>4
      <4>2. /\ E(m) <= spikes[i].at /\ spikes[m].at < E(m) /\ E(m) \in Int
            /\ spikes[m].at \in Int /\ spikes[i].at \in Int
        BY <1>1a, <1>3, <1>5, <3>1, <4>1
      <4> QED
        BY <1>6, <3>2, <4>2
    <3> QED
      BY <3>3, <3>4
  <2> QED
    BY <2>1, <2>2
<1> QED
  BY <1>1, <1>6 DEF On, E

\* The rate of a spec as a function of time.
RateOf(spec) == [t \in Int |-> RateAt(spec, t)]

\* It is the base rate in the warmup and when no spike is on.
LEMMA BaseRate ==
    ASSUME NEW spec, NEW warm \in Int, NEW window, NEW p, Parts(spec, warm, window, p),
           NEW t \in Int, p.pattern \in {"Ramp", "Step"} => t - warm < 0,
           p.pattern = "Spike" => On(p.spikes, t - warm) = {}
    PROVE  RateOf(spec)[t] = PerSecond(spec.base)
<1>1. ~(t - warm >= 0 /\ p.pattern = "Ramp") /\ ~(t - warm >= 0 /\ p.pattern = "Step")
  OBVIOUS
<1>2. RateAt(spec, t) = PerSecond(spec.base)
  BY <1>1 DEF RateAt, Parts
<1> QED
  BY <1>2, Zenon DEF RateOf

\* It is the rate of the spike that is on.
LEMMA SpikeRate ==
    ASSUME NEW spec, NEW warm \in Int, NEW window, NEW p, Parts(spec, warm, window, p),
           NEW t \in Int, p.pattern = "Spike", NEW k, On(p.spikes, t - warm) = {k}
    PROVE  RateOf(spec)[t] = PerSecond(p.spikes[k].rps)
<1>1. The({k}) = k /\ {k} # {}
  BY DEF The
<1>2. RateAt(spec, t) = PerSecond(p.spikes[k].rps)
  BY <1>1 DEF RateAt, Parts
<1> QED
  BY <1>2, Zenon DEF RateOf

\* It rises or falls evenly along a Ramp.
LEMMA SlopeRate ==
    ASSUME NEW spec, NEW warm \in Int, NEW window, NEW p, Parts(spec, warm, window, p),
           NEW t \in Int, t >= warm, p.pattern = "Ramp",
           NEW length, length = MeasureLength(spec), NEW at, at = t - warm
    PROVE  RateOf(spec)[t] =
              <<spec.base * length + at * (The(p.endRPS) - spec.base), length>>
<1>1. t - warm >= 0
  OBVIOUS
<1>2. RateAt(spec, t) = <<spec.base * length + at * (The(p.endRPS) - spec.base), length>>
  BY <1>1 DEF RateAt, Parts
<1> QED
  BY <1>2, Zenon DEF RateOf

\* It is that of the plateau along a Step.
LEMMA PlateauRate ==
    ASSUME NEW spec, NEW warm \in Int, NEW window, NEW p, Parts(spec, warm, window, p),
           NEW t \in Int, t >= warm, p.pattern = "Step",
           NEW seg, seg = (t - warm) \div The(p.stepDuration)
    PROVE  RateOf(spec)[t] = PerSecond(spec.base + seg * The(p.stepRPS))
<1>1. t - warm >= 0
  OBVIOUS
<1>2. RateAt(spec, t) = PerSecond(spec.base + seg * The(p.stepRPS))
  BY <1>1 DEF RateAt, Parts
<1> QED
  BY <1>2, Zenon DEF RateOf

\* A rate that is the spikes' while one is on, and the base rate otherwise.
Follows(rate, spikes, base, warm) ==
    \A t \in Int :
        /\ On(spikes, t - warm) = {} => rate[t] = PerSecond(base)
        /\ \A k \in 1..Len(spikes) :
              On(spikes, t - warm) = {k} => rate[t] = PerSecond(spikes[k].rps)

\* The rate of a Spike profile does.
LEMMA FollowsSpikes ==
    ASSUME NEW spec, NEW warm \in Int, NEW window, NEW p, Parts(spec, warm, window, p),
           p.pattern = "Spike"
    PROVE  Follows(RateOf(spec), p.spikes, spec.base, warm)
<1>1. ASSUME NEW t \in Int, On(p.spikes, t - warm) = {}
      PROVE  RateOf(spec)[t] = PerSecond(spec.base)
  BY <1>1, BaseRate
<1>2. ASSUME NEW t \in Int, NEW k, On(p.spikes, t - warm) = {k}
      PROVE  RateOf(spec)[t] = PerSecond(p.spikes[k].rps)
  BY <1>2, SpikeRate
<1> QED
  BY <1>1, <1>2, Zenon DEF Follows

\* Slices of the base rate begin where a spike ends, at 0 or later.
LEMMA SliceBegins ==
    ASSUME NEW window \in Int, NEW base \in Int, NEW spikes \in Seq(Spikes),
           InOrder(spikes, window, base), NEW i \in 0..Len(spikes)
    PROVE  SpikeEnd(spikes, i) \in Int /\ SpikeEnd(spikes, i) >= 0
<1> DEFINE n == Len(spikes)
<1>1. n \in Nat /\ i \in 0..n
  OBVIOUS
<1>2. Ordered(spikes, window)
  BY OrderIs
<1>3. /\ \A k \in 1..n : \A j \in 0..(k - 1) : SpikeEnd(spikes, j) <= spikes[k].at
      /\ \A j \in 0..n : SpikeEnd(spikes, j) \in Int
  BY <1>2 DEF Ordered
<1>4. SpikeEnd(spikes, 0) = 0
  BY DEF SpikeEnd
<1>5. ASSUME NEW k \in 1..n
      PROVE  /\ spikes[k].at \in Int /\ spikes[k].duration \in Int
             /\ spikes[k].duration > 0
             /\ SpikeEnd(spikes, k) = spikes[k].at + spikes[k].duration
  <2>1. spikes[k] \in Spikes
    OBVIOUS
  <2>2. spikes[k].duration > 0
    BY DEF InOrder
  <2>3. k # 0
    BY <1>1
  <2> QED
    BY <2>1, <2>2, <2>3 DEF Spikes, SpikeEnd
<1> HIDE DEF n
<1>6. CASE i = 0
  BY <1>4, <1>6
<1>7. CASE i # 0
  <2>1. i \in 1..n /\ 0 \in 0..(i - 1)
    BY <1>1, <1>7
  <2>2. 0 <= spikes[i].at
    BY <1>3, <1>4, <2>1
  <2> QED
    BY <1>5, <2>1, <2>2
<1> QED
  BY <1>6, <1>7

\* The base slice after a spike, or before the first, offers the rate.
LEMMA BaseOffered ==
    ASSUME NEW window \in Int, NEW base \in Int, NEW spikes \in Seq(Spikes),
           InOrder(spikes, window, base), NEW warm \in Int, NEW rate,
           Follows(rate, spikes, base, warm),
           NEW i \in 0..Len(spikes), NEW len \in Nat,
           i < Len(spikes) => SpikeEnd(spikes, i) + len = spikes[i + 1].at
    PROVE  Offers(Constant(len, base, TRUE), warm + SpikeEnd(spikes, i), rate, warm)
<1> DEFINE d == Constant(len, base, TRUE)
           end == SpikeEnd(spikes, i)
<1>1. /\ d.duration = len /\ d.start = base /\ d.recordStats
      /\ d.pattern \notin {"Ramp", "Step"}
  BY DEF Constant
<1>2. end \in Int /\ end >= 0
  BY SliceBegins
<1> HIDE DEF d, end
<1>3. ASSUME NEW t \in (warm + end)..(warm + end + len - 1)
      PROVE  PerSecond(base) = rate[t] /\ t >= warm
  <2> DEFINE s == t - warm
  <2>1. s \in Int /\ end <= s /\ s < end + len /\ t \in Int /\ t >= warm
    BY <1>2
  <2> HIDE DEF s
  <2>2. i > 0 => SpikeEnd(spikes, i) <= s
    BY <2>1 DEF end
  <2>3. i < Len(spikes) => s < spikes[i + 1].at
    BY <2>1 DEF end
  <2>4. On(spikes, s) = {}
    BY <2>1, <2>2, <2>3, NoneOn
  <2>5. rate[t] = PerSecond(base)
    BY <2>1, <2>4 DEF Follows, s
  <2> QED
    BY <2>1, <2>5
<1>4. Offers(d, warm + end, rate, warm)
  BY <1>1, <1>3, SteadyOffers
<1> QED
  BY <1>4, Zenon DEF d, end

\* The slice of a spike offers the rate.
LEMMA SpikeOffered ==
    ASSUME NEW window \in Int, NEW base \in Int, NEW spikes \in Seq(Spikes),
           InOrder(spikes, window, base), NEW warm \in Int, NEW rate,
           Follows(rate, spikes, base, warm), NEW k \in 1..Len(spikes),
           spikes[k].at >= 0
    PROVE  Offers(Constant(spikes[k].duration, spikes[k].rps, TRUE),
                  warm + spikes[k].at, rate, warm)
<1> DEFINE at == spikes[k].at
           len == spikes[k].duration
           c == Constant(len, spikes[k].rps, TRUE)
<1>0. at \in Int /\ len \in Int /\ at >= 0 /\ SpikeEnd(spikes, k) = at + len
  <2>1. spikes[k] \in Spikes /\ k # 0
    OBVIOUS
  <2> QED
    BY <2>1 DEF Spikes, SpikeEnd
<1>1. /\ c.duration = len /\ c.start = spikes[k].rps /\ c.recordStats
      /\ c.pattern \notin {"Ramp", "Step"}
  BY Zenon DEF Constant
<1> HIDE DEF c, at, len
<1>2. ASSUME NEW t \in (warm + at)..(warm + at + len - 1)
      PROVE  rate[t] = PerSecond(spikes[k].rps) /\ t >= warm
  <2> DEFINE s == t - warm
  <2>1. s \in Int /\ at <= s /\ s < at + len /\ t \in Int /\ t >= warm
    BY <1>0
  <2> HIDE DEF s
  <2>2. spikes[k].at <= s /\ s < SpikeEnd(spikes, k)
    BY <1>0, <2>1 DEF at
  <2>3. On(spikes, s) = {k}
    BY <2>1, <2>2, SpikeOn
  <2>4. rate[t] = PerSecond(spikes[k].rps)
    BY <2>1, <2>3 DEF Follows, s
  <2> QED
    BY <2>1, <2>4
<1>3. Offers(c, warm + at, rate, warm)
  BY <1>1, <1>2, SteadyOffers, Zenon
<1> QED
  BY <1>3, Zenon DEF c, at, len

\* The loop's phases offer the rate of the spikes, whatever it has reached.
Offered(f, spikes, i, rate, warm) ==
    f[i].ok => /\ f[i].cursor = SpikeEnd(spikes, i)
               /\ Fits(f[i].phases, warm, warm + SpikeEnd(spikes, i), rate, warm)

\* One more spike.
LEMMA OfferedNext ==
    ASSUME NEW window \in Int, NEW base \in Int, NEW spikes \in Seq(Spikes),
           InOrder(spikes, window, base), NEW warm \in Int, NEW rate,
           Follows(rate, spikes, base, warm),
           NEW f, Loops(f, base, window, spikes), NEW i \in Nat,
           i + 1 <= Len(spikes), Offered(f, spikes, i, rate, warm)
    PROVE  Offered(f, spikes, i + 1, rate, warm)
<1> DEFINE k == i + 1
           sp == spikes[k]
           from == f[i]
           next == f[k]
           end == SpikeEnd(spikes, i)
           pre == sp.at - end
           b == from.phases \o Gap(base, pre)
           c == Constant(sp.duration, sp.rps, TRUE)
<1>1. k \in 1..Len(spikes) /\ i \in 0..Len(spikes) /\ k - 1 = i /\ i < Len(spikes)
      /\ k # 0
  OBVIOUS
<1>2. sp \in Spikes
  BY <1>1
<1>3. from \in Progress /\ next = Slice(base, window, from, sp)
  <2>1. from \in Progress /\ next = Slice(base, window, f[k - 1], sp)
    BY <1>1 DEF Loops
  <2> QED
    BY <1>1, <2>1
<1>4. end \in Int /\ end >= 0
  BY <1>1, SliceBegins
<1>5. SpikeEnd(spikes, k) = sp.at + sp.duration
  BY <1>1 DEF SpikeEnd
<1> HIDE DEF k, sp, next, from, end
<1>6. sp.at \in Int /\ sp.duration \in Int /\ sp.rps \in Int
  BY <1>2 DEF Spikes
<1>7. from.phases \in Seq(PhaseT)
  BY <1>3 DEF Progress
<1> SUFFICES ASSUME next.ok
             PROVE  /\ next.cursor = SpikeEnd(spikes, k)
                    /\ Fits(next.phases, warm, warm + SpikeEnd(spikes, k), rate, warm)
  BY Zenon DEF Offered, next, k
<1>8. OneSlice(base, window, from, sp, next)
  BY <1>2, <1>3, SliceIs
<1>9. from.ok /\ Admits(base, window, from.cursor, sp)
  BY <1>8 DEF OneSlice
<1>10. from.cursor = end /\ Fits(from.phases, warm, warm + end, rate, warm)
  BY <1>9, Zenon DEF Offered, from, end
<1>11. next.cursor = sp.at + sp.duration /\ next.phases = b \o <<c>>
  BY <1>8, <1>10, Zenon DEF OneSlice
<1>12. sp.at >= end
  BY <1>4, <1>6, <1>9, <1>10 DEF Admits
<1>13. pre \in Nat /\ pre \in Int /\ end + pre = sp.at /\ sp.at >= 0
  BY <1>4, <1>6, <1>12
<1> HIDE DEF pre
<1>14. b \in Seq(PhaseT)
  BY <1>7, <1>13, GapIs, Zenon
<1>15. Fits(b, warm, warm + sp.at, rate, warm)
  <2> DEFINE to == warm + end
  <2>1. to \in Int /\ to + pre = warm + sp.at
    BY <1>4, <1>6, <1>13
  <2>2. Fits(from.phases, warm, to, rate, warm)
    BY <1>10
  <2>3. SpikeEnd(spikes, i) + pre = spikes[i + 1].at
    BY <1>13 DEF end, sp, k
  <2>4. Offers(Constant(pre, base, TRUE), warm + SpikeEnd(spikes, i), rate, warm)
    BY <1>1, <1>13, <2>3, BaseOffered, Zenon
  <2>5. Offers(Constant(pre, base, TRUE), to, rate, warm)
    BY <2>4, Zenon DEF end
  <2> HIDE DEF to
  <2>6. Fits(from.phases \o Gap(base, pre), warm, to + pre, rate, warm)
    BY <1>7, <1>13, <2>1, <2>2, <2>5, FitsGap, Zenon
  <2> QED
    BY <2>1, <2>6
<1>16. c \in PhaseT /\ c.duration = sp.duration
  BY <1>6, ConstantIs, Zenon
<1>17. Offers(c, warm + sp.at, rate, warm)
  <2>1. spikes[k].at >= 0
    BY <1>13 DEF sp
  <2>2. Offers(Constant(spikes[k].duration, spikes[k].rps, TRUE),
               warm + spikes[k].at, rate, warm)
    BY <1>1, <2>1, SpikeOffered, Zenon
  <2> QED
    BY <2>2, Zenon DEF sp
<1> HIDE DEF c, b
<1>18. Fits(b \o <<c>>, warm, warm + SpikeEnd(spikes, k), rate, warm)
  <2> DEFINE to == warm + sp.at
  <2>1. to \in Int /\ to + c.duration = warm + SpikeEnd(spikes, k)
    BY <1>5, <1>6, <1>16
  <2>2. Fits(b, warm, to, rate, warm) /\ Offers(c, to, rate, warm)
    BY <1>15, <1>17
  <2> HIDE DEF to
  <2>3. Fits(b \o <<c>>, warm, to + c.duration, rate, warm)
    BY <1>14, <1>16, <2>1, <2>2, FitsMore
  <2> QED
    BY <2>1, <2>3
<1> QED
  BY <1>5, <1>11, <1>18

\* The phases of decomposeSpike offer the rate of the spikes, and fill the
\* window.
LEMMA SpikesOffered ==
    ASSUME NEW window \in Int, NEW base \in Int, NEW spikes \in Seq(Spikes),
           InOrder(spikes, window, base), NEW warm \in Int, NEW rate,
           Follows(rate, spikes, base, warm), decomposeSpike(base, window, spikes).ok
    PROVE  Fits(decomposeSpike(base, window, spikes).phases,
                warm, warm + window, rate, warm)
<1> DEFINE n == Len(spikes)
           f == Sliced(base, window, spikes)
           end == SpikeEnd(spikes, n)
           tail == window - end
           D == decomposeSpike(base, window, spikes)
           ph == f[n].phases
<1>1. Loops(f, base, window, spikes)
  BY SlicedIs
<1>2. n \in Nat /\ n \in 0..n /\ ~(n < n)
  OBVIOUS
<1>3. f[n] \in Progress /\ f[0] = AtStart
  BY <1>1, <1>2 DEF Loops
<1>4. spikes # <<>>
  BY DEF InOrder
<1>5. f[n].ok /\ D.phases = ph \o Gap(base, window - f[n].cursor)
  BY <1>4, Zenon DEF decomposeSpike, Refused, Accepted, Gap
<1> HIDE DEF f
<1>6. end \in Int /\ end >= 0 /\ end <= window
  <2>1. Ordered(spikes, window)
    BY OrderIs
  <2>2. end <= window
    BY <1>2, <2>1, Zenon DEF Ordered
  <2> QED
    BY <1>2, <2>2, SliceBegins
<1> DEFINE T == {i \in Nat : i <= n => Offered(f, spikes, i, rate, warm)}
<1>7. 0 \in T
  <2>1. f[0].cursor = 0 /\ f[0].phases = <<>>
    BY <1>3 DEF AtStart
  <2>2. SpikeEnd(spikes, 0) = 0 /\ warm + 0 = warm
    BY DEF SpikeEnd
  <2>3. Fits(<<>>, warm, warm, rate, warm)
    BY FitsNone
  <2>4. Offered(f, spikes, 0, rate, warm)
    BY <2>1, <2>2, <2>3, Zenon DEF Offered
  <2> QED
    BY <2>4
<1>8. ASSUME NEW i \in Nat, i \in T PROVE i + 1 \in T
  <2> SUFFICES ASSUME i + 1 <= n PROVE Offered(f, spikes, i + 1, rate, warm)
    OBVIOUS
  <2>1. i <= n
    BY <1>2
  <2>2. Offered(f, spikes, i, rate, warm)
    BY <1>8, <2>1, Zenon
  <2> QED
    BY <1>1, <2>2, OfferedNext
<1> HIDE DEF T
<1>9. n \in T
  BY <1>2, <1>7, <1>8, Induction
<1>10. Offered(f, spikes, n, rate, warm)
  BY <1>2, <1>9 DEF T
<1>11. f[n].cursor = end /\ Fits(ph, warm, warm + end, rate, warm)
  BY <1>5, <1>10, Zenon DEF Offered
<1>12. tail \in Nat
  BY <1>6
<1>13. ph \in Seq(PhaseT)
  BY <1>3 DEF Progress
<1>14. D.phases = ph \o Gap(base, tail)
  BY <1>5, <1>11, Zenon
<1> HIDE DEF ph, tail, D
<1>15. Fits(ph \o Gap(base, tail), warm, warm + window, rate, warm)
  <2> DEFINE to == warm + end
  <2>1. to \in Int /\ to + tail = warm + window
    BY <1>6 DEF tail
  <2>2. Offers(Constant(tail, base, TRUE), warm + SpikeEnd(spikes, n), rate, warm)
    BY <1>2, <1>12, BaseOffered, Zenon
  <2>3. Fits(ph, warm, to, rate, warm) /\ Offers(Constant(tail, base, TRUE), to, rate, warm)
    BY <1>11, <2>2, Zenon
  <2> HIDE DEF to
  <2>4. Fits(ph \o Gap(base, tail), warm, to + tail, rate, warm)
    BY <1>12, <1>13, <2>1, <2>3, FitsGap, Zenon
  <2> QED
    BY <2>1, <2>4
<1> QED
  BY <1>14, <1>15, Zenon DEF D

\* The greater and the lesser of two integers.
LEMMA OfTwo ==
    ASSUME NEW a \in Int, NEW b \in Int
    PROVE  /\ Max({a, b}) \in {a, b} /\ Max({a, b}) >= a /\ Max({a, b}) >= b
           /\ Min({a, b}) \in {a, b} /\ Min({a, b}) <= a /\ Min({a, b}) <= b
<1>1. \E x \in {a, b} : \A y \in {a, b} : x >= y
  OBVIOUS
<1>2. \E x \in {a, b} : \A y \in {a, b} : x =< y
  OBVIOUS
<1> QED
  BY <1>1, <1>2 DEF Max, Min

\* A product grows with either factor.
LEMMA Grows ==
    ASSUME NEW a \in Int, NEW b \in Int, NEW c \in Int, a <= b, c >= 0
    PROVE  a * c <= b * c
<1>1. (b - a) * c >= 0
  OBVIOUS
<1> QED
  BY <1>1

\* A ramp is never slower than the slower of its ends, so the floor of emitRamp
\* does not show in one that is valid.
LEMMA RampIs ==
    ASSUME NEW c \in PhaseT, Valid(c), c.pattern = "Ramp", NEW at \in 0..c.duration
    PROVE  rampRate(c, at) = c.start * c.duration + at * (c.end - c.start)
<1> DEFINE start == c.start
           end == c.end
           d == c.duration
           here == start * d + at * (end - start)
<1>1. /\ start \in Int /\ end \in Int /\ d \in Int /\ at \in Int
      /\ start >= 1 /\ end >= 1 /\ d > 0 /\ at >= 0 /\ at <= d
  BY DEF PhaseT, Valid
<1>2. rampRate(c, at) = Max({d, here})
  BY DEF rampRate
<1> HIDE DEF start, end, d
<1>3. 1 * (d - at) <= start * (d - at)
  BY <1>1, Grows
<1>4. 1 * at <= end * at
  BY <1>1, Grows
<1>5. here = start * (d - at) + end * at /\ here \in Int
  BY <1>1
<1> HIDE DEF here
<1>6. d <= here
  BY <1>1, <1>3, <1>4, <1>5
<1>7. Max({d, here}) \in {d, here} /\ Max({d, here}) >= here
  BY <1>1, <1>5, OfTwo
<1> DEFINE m == Max({d, here})
<1> HIDE DEF m
<1>8. m = here
  BY <1>1, <1>5, <1>6, <1>7 DEF m
<1> QED
  BY <1>2, <1>8 DEF m, here, start, end, d

\* Nor does that of emitStep.
LEMMA StepIs ==
    ASSUME NEW c \in PhaseT, Valid(c), c.pattern = "Step", NEW seg \in Nat
    PROVE  stepRate(c, seg) = c.start + seg * c.step
<1> DEFINE start == c.start
           step == c.step
           here == start + seg * step
<1>1. start \in Int /\ step \in Nat /\ start >= 1
  BY DEF PhaseT, Valid
<1>2. stepRate(c, seg) = Max({1, here})
  BY DEF stepRate
<1> HIDE DEF start, step
<1>3. seg * step \in Nat
  BY <1>1
<1>4. here \in Int /\ here >= 1
  BY <1>1, <1>3
<1> HIDE DEF here
<1> DEFINE m == Max({1, here})
<1>5. m \in {1, here} /\ m >= here
  BY <1>4, OfTwo
<1> HIDE DEF m
<1>6. m = here
  BY <1>4, <1>5
<1> QED
  BY <1>2, <1>6 DEF m, here, start, step

\* How long the profile is measured, in the terms of its window.
LEMMA LengthIs ==
    ASSUME NEW spec, NEW warm, NEW window, NEW p, Parts(spec, warm, window, p)
    PROVE  MeasureLength(spec) =
              IF p.pattern = "Ramp" /\ OrElse(p.rampDuration, 0) > 0
              THEN OrElse(p.rampDuration, 0) ELSE window
  BY Zenon DEF MeasureLength, Parts

\* The phases of a measurement window offer the rate of the profile for as long
\* as it is measured.
LEMMA MeasureOffered ==
    ASSUME NEW spec, NEW warm \in Int, NEW window \in Int, window > 0, NEW p \in Profiles,
           Parts(spec, warm, window, p), spec.base \in Int,
           Wants(spec.base, window, p)
    PROVE  /\ MeasureLength(spec) \in Int
           /\ Fits(measurePhases(spec.base, window, p).phases,
                   warm, warm + MeasureLength(spec), RateOf(spec), warm)
<1> DEFINE base == spec.base
           rate == RateOf(spec)
           length == MeasureLength(spec)
           M == measurePhases(base, window, p)
           c == [Constant(window, base, TRUE) EXCEPT !.pattern = p.pattern]
           ramp == OrElse(p.rampDuration, 0)
<1>0. length = IF p.pattern = "Ramp" /\ ramp > 0 THEN ramp ELSE window
  BY LengthIs, Zenon
<1>1. /\ p.pattern \in {"Constant", "Poisson", "Ramp", "Step", "Spike"}
      /\ p.endRPS \in Optional(Int) /\ p.rampDuration \in Optional(Int)
      /\ p.stepRPS \in Optional(Int) /\ p.stepDuration \in Optional(Int)
      /\ p.spikes \in Seq(Spikes)
  BY DEF Profiles, Patterns
<1>2. ASSUME p.pattern \in Patterns
      PROVE  /\ c \in PhaseT /\ c.pattern = p.pattern /\ c.recordStats
             /\ c.duration = window /\ c.start = base
  <2> DEFINE k == Constant(window, base, TRUE)
  <2>1. k \in PhaseT
    BY ConstantIs, Zenon
  <2>2. k.duration = window /\ k.start = base /\ k.recordStats
    BY DEF Constant
  <2>3. c = [k EXCEPT !.pattern = p.pattern]
    OBVIOUS
  <2> HIDE DEF k, c
  <2>4. c \in PhaseT
    BY <1>2, <2>1, <2>3 DEF PhaseT
  <2>5. /\ c.pattern = p.pattern /\ c.duration = window /\ c.start = base
        /\ c.recordStats
    BY <2>1, <2>2, <2>3 DEF PhaseT
  <2> QED
    BY <2>4, <2>5
<1>3. ASSUME NEW r \in PhaseT, r.duration = length, r.recordStats, length \in Int,
             \A t \in Int : t >= warm /\ t < warm + length =>
                               PhaseRate(r, t - warm) = rate[t]
      PROVE  Fits(<<r>>, warm, warm + length, rate, warm)
  <2> HIDE DEF rate, length
  <2>1. ASSUME NEW t \in warm..(warm + r.duration - 1)
        PROVE  PhaseRate(r, t - warm) = rate[t] /\ t >= warm
    <3>1. t \in Int /\ t >= warm /\ t < warm + length
      BY <1>3
    <3> QED
      BY <1>3, <3>1, Zenon
  <2>2. Offers(r, warm, rate, warm)
    BY <1>3, <2>1, Zenon DEF Offers
  <2>3. Fits(<<r>>, warm, warm + r.duration, rate, warm)
    BY <2>2, FitsOne
  <2> QED
    BY <1>3, <2>3, Zenon
<1>4. CASE p.pattern \in {"Constant", "Poisson"}
  <2>1. M.phases = <<c>>
    BY <1>4, Zenon DEF measurePhases, Accepted
  <2>2. p.pattern \in Patterns /\ p.pattern \notin {"Ramp", "Step", "Spike"}
    BY <1>4 DEF Patterns
  <2>3. /\ c \in PhaseT /\ c.pattern = p.pattern /\ c.recordStats
        /\ c.duration = window /\ c.start = base
    BY <1>2, <2>2, Zenon
  <2>4. length = window
    BY <1>0, <2>2
  <2> HIDE DEF M, c, length, ramp
  <2>5. ASSUME NEW t \in Int PROVE PhaseRate(c, t - warm) = rate[t]
    <3>1. rate[t] = PerSecond(base)
      BY <2>2, BaseRate
    <3>2. PhaseRate(c, t - warm) = PerSecond(base)
      BY <2>2, <2>3 DEF PhaseRate
    <3> QED
      BY <3>1, <3>2, Zenon
  <2>6. length \in Int
    BY <2>4
  <2> HIDE DEF rate
  <2>7. Fits(<<c>>, warm, warm + length, rate, warm)
    BY <1>3, <2>3, <2>4, <2>5, <2>6, Zenon
  <2> QED
    BY <2>1, <2>6, <2>7, Zenon DEF M, rate, length
<1>5. CASE p.pattern = "Ramp"
  <2> DEFINE e == The(p.endRPS)
             d == IF ramp > 0 THEN ramp ELSE window
             r == [c EXCEPT !.end = e, !.duration = d]
  <2>1. p.endRPS # {} /\ e > 0 /\ base > 0
    BY <1>5, Zenon DEF Wants, Positive
  <2>2. M.phases = <<r>>
    BY <1>5, <2>1 DEF measurePhases, Accepted
  <2>3. e \in Int
    BY <1>1, <2>1, OptionIs
  <2>3a. ramp \in Int
    <3>1. 0 \in Int
      OBVIOUS
    <3> QED
      BY <1>1, <3>1, OptionIs
  <2>3b. length = d
    BY <1>0, <1>5, Zenon
  <2> HIDE DEF e, ramp, M, length
  <2>4. d \in Int /\ d > 0
    BY <2>3a
  <2> HIDE DEF d, c
  <2>5. p.pattern \in Patterns
    BY <1>5 DEF Patterns
  <2>6. /\ r \in PhaseT /\ r.pattern = "Ramp" /\ r.duration = d /\ r.start = base
        /\ r.end = e /\ r.recordStats
    BY <1>2, <1>5, <2>3, <2>4, <2>5, Zenon DEF PhaseT
  <2> HIDE DEF r
  <2>7. Valid(r)
    BY <2>1, <2>4, <2>6 DEF Valid, Patterns
  <2>8. ASSUME NEW t \in Int, t >= warm, t < warm + length
        PROVE  PhaseRate(r, t - warm) = rate[t]
    <3> DEFINE at == t - warm
    <3>1. at \in 0..d
      BY <2>3b, <2>4, <2>8
    <3>2. rate[t] = <<base * length + at * (e - base), length>>
      BY <1>5, <2>8, SlopeRate DEF length, e
    <3> HIDE DEF at
    <3>3. rampRate(r, at) = base * d + at * (e - base)
      BY <2>6, <2>7, <3>1, RampIs
    <3>4. PhaseRate(r, at) = <<rampRate(r, at), d>>
      BY <2>6 DEF PhaseRate
    <3> QED
      BY <2>3b, <3>2, <3>3, <3>4, Zenon DEF at
  <2> HIDE DEF rate
  <2>9. Fits(<<r>>, warm, warm + length, rate, warm)
    BY <1>3, <2>3b, <2>4, <2>6, <2>8, Zenon
  <2> QED
    BY <2>2, <2>3b, <2>4, <2>9, Zenon DEF M, rate, length
<1>6. CASE p.pattern = "Step"
  <2> DEFINE e == The(p.stepRPS)
             d == The(p.stepDuration)
             r == [c EXCEPT !.step = e, !.every = d]
  <2>1. p.stepRPS # {} /\ p.stepDuration # {} /\ e > 0 /\ d > 0 /\ base > 0
    BY <1>6, Zenon DEF Wants, Positive
  <2>2. M.phases = <<r>>
    BY <1>6, <2>1 DEF measurePhases, Accepted
  <2>3. e \in Int /\ d \in Int
    BY <1>1, <2>1, OptionIs
  <2>4. length = window
    BY <1>0, <1>6
  <2> HIDE DEF e, d, M, c, length, ramp
  <2>5. p.pattern \in Patterns
    BY <1>6 DEF Patterns
  <2>6. /\ r \in PhaseT /\ r.pattern = "Step" /\ r.duration = window /\ r.start = base
        /\ r.step = e /\ r.every = d /\ r.recordStats
    BY <1>2, <1>6, <2>3, <2>5, Zenon DEF PhaseT
  <2> HIDE DEF r
  <2>7. Valid(r)
    BY <2>1, <2>6 DEF Valid, Patterns
  <2>8. ASSUME NEW t \in Int, t >= warm
        PROVE  PhaseRate(r, t - warm) = rate[t]
    <3> DEFINE at == t - warm
               seg == at \div d
    <3>1. seg \in Nat
      BY <2>1, <2>3, <2>8
    <3>2. rate[t] = PerSecond(base + seg * e)
      BY <1>6, <2>8, PlateauRate DEF e, d
    <3> HIDE DEF at
    <3>3. PhaseRate(r, at) = PerSecond(stepRate(r, seg))
      BY <2>6 DEF PhaseRate
    <3> HIDE DEF seg
    <3>4. stepRate(r, seg) = base + seg * e
      BY <2>6, <2>7, <3>1, StepIs
    <3> QED
      BY <3>2, <3>3, <3>4, Zenon DEF at
  <2>9. length \in Int
    BY <2>4
  <2> HIDE DEF rate
  <2>10. Fits(<<r>>, warm, warm + length, rate, warm)
    BY <1>3, <2>4, <2>6, <2>8, <2>9, Zenon
  <2> QED
    BY <2>2, <2>9, <2>10, Zenon DEF M, rate, length
<1>7. CASE p.pattern = "Spike"
  <2>1. M = decomposeSpike(base, window, p.spikes)
    BY <1>7 DEF measurePhases
  <2>2. Timely(p.spikes, window, base) /\ InOrder(p.spikes, window, base)
    BY <1>7, Zenon DEF Wants, Timely
  <2>3. M.ok
    BY <1>1, <2>1, <2>2, SpikesTaken, Zenon DEF Taken
  <2>4. Follows(rate, p.spikes, base, warm)
    BY <1>7, FollowsSpikes, Zenon
  <2> DEFINE spikes == p.spikes
             D == decomposeSpike(base, window, spikes)
  <2>5. /\ spikes \in Seq(Spikes) /\ InOrder(spikes, window, base)
        /\ Follows(rate, spikes, base, warm) /\ D.ok
    BY <1>1, <2>1, <2>2, <2>3, <2>4, Zenon
  <2> HIDE DEF spikes, rate
  <2>6. Fits(D.phases, warm, warm + window, rate, warm)
    BY <2>5, SpikesOffered
  <2>7. Fits(M.phases, warm, warm + window, rate, warm)
    BY <2>1, <2>6 DEF spikes
  <2>8. length = window
    BY <1>0, <1>7
  <2> HIDE DEF length
  <2> QED
    BY <2>7, <2>8, Zenon DEF rate, length
<1> QED
  BY <1>1, <1>4, <1>5, <1>6, <1>7, Zenon

\* Phases that fit the rate for as long as they should realise the profile.
LEMMA FitsRealise ==
    ASSUME NEW spec, NEW ph \in Seq(PhaseT), NEW to, NEW warm \in Int,
           warm = OrElse(spec.warmup, 0), Fits(ph, 0, to, RateOf(spec), warm),
           to = warm + MeasureLength(spec)
    PROVE  Realise(spec, ph, Ends(ph))
<1> DEFINE ends == Ends(ph)
           n == Len(ph)
           rate == RateOf(spec)
<1>1. EndsFit(ph, ends, to, rate, warm)
  BY FitsEnds, Zenon
<1>2. ends[n] = to
  BY <1>1, Zenon DEF EndsFit
<1>3. DOMAIN ph = 1..n
  OBVIOUS
<1>4. ASSUME NEW i \in 1..n PROVE
        /\ ends[i - 1] \in Int /\ ends[i] = ends[i - 1] + ph[i].duration
        /\ Offers(ph[i], ends[i - 1], rate, warm)
  BY <1>1, Zenon DEF EndsFit
<1> HIDE DEF ends
<1>5. ASSUME NEW i \in 1..n, NEW t \in ends[i - 1]..(ends[i] - 1)
      PROVE  /\ PhaseRate(ph[i], t - ends[i - 1]) = RateAt(spec, t)
             /\ ph[i].recordStats <=> t >= warm
  <2> DEFINE c == ph[i]
             from == ends[i - 1]
             until == ends[i]
             d == c.duration
  <2>1. c \in PhaseT
    OBVIOUS
  <2>2. d \in Int
    BY <2>1, Zenon DEF PhaseT
  <2>3. from \in Int /\ until = from + d /\ Offers(c, from, rate, warm)
    BY <1>4, Zenon
  <2>4. t \in from..(until - 1)
    BY Zenon
  <2> HIDE DEF c, from, until, d, rate, n
  <2>5. t \in Int /\ t \in from..(from + d - 1)
    BY <2>2, <2>3, <2>4
  <2>6. PhaseRate(c, t - from) = rate[t] /\ (c.recordStats <=> t >= warm)
    BY <2>3, <2>5, Zenon DEF Offers, d
  <2>7. rate[t] = RateAt(spec, t)
    BY <2>5, Zenon DEF RateOf, rate
  <2> QED
    BY <2>6, <2>7, Zenon DEF c, from
<1> HIDE DEF n
<1> QED
  BY <1>2, <1>3, <1>5, Zenon DEF Realise, n, ends

\* The phases that run realise the profile.
LEMMA Realised ==
    ASSUME NEW spec \in Specs, Start(spec).result = "Started"
    PROVE  Realise(spec, Start(spec).config.phases, Ends(Start(spec).config.phases))
<1>1. PICK warm, window, p : Parts(spec, warm, window, p)
  BY DEF Parts
<1> DEFINE base == spec.base
           rate == RateOf(spec)
           M == measurePhases(base, window, p)
           built == buildPhases(spec)
           legacy == spec.profile = {} /\ warm = 0
           ph == Start(spec).config.phases
<1>2. /\ warm \in Int /\ window \in Int /\ spec.sla \in Int /\ base \in Int
      /\ p \in Profiles /\ (spec.profile = {} => p.pattern = "Constant")
  BY <1>1, PartsTyped, Zenon
<1>3. window = spec.sla - warm /\ warm = OrElse(spec.warmup, 0)
  BY <1>1 DEF Parts
<1>4. /\ warm >= 0 /\ window > 0 /\ (warm > 0 => base > 0)
      /\ Wants(base, window, p)
  BY <1>1, ReasonableIs, ReasonableRuns
<1>5. ph = IF built.phases # <<>> THEN built.phases
           ELSE <<Constant(spec.sla, base, TRUE)>>
  BY ConfigIs, Zenon
<1> SUFFICES \E to :
      /\ ph \in Seq(PhaseT) /\ Fits(ph, 0, to, rate, warm)
      /\ to = warm + MeasureLength(spec)
  BY <1>2, <1>3, FitsRealise, Zenon
<1>6. CASE legacy
  <2> DEFINE c == Constant(spec.sla, base, TRUE)
  <2>1. ph = <<c>>
    <3>1. built = Accepted(<<>>)
      BY <1>1, <1>6, BuildCases, Zenon
    <3> HIDE DEF built
    <3>2. built.phases = <<>>
      BY <3>1 DEF Accepted
    <3> QED
      BY <1>5, <3>2
  <2>2. c \in PhaseT
    BY <1>2, ConstantIs, Zenon
  <2>3. /\ c.duration = spec.sla /\ c.start = base /\ c.recordStats
        /\ c.pattern \notin {"Ramp", "Step"}
    BY DEF Constant
  <2> HIDE DEF c, ph
  <2>4. ASSUME NEW t \in 0..(0 + spec.sla - 1) PROVE PerSecond(base) = rate[t] /\ t >= warm
    <3>1. t \in Int /\ t >= warm
      BY <1>2, <1>6
    <3>2. p.pattern \notin {"Ramp", "Step", "Spike"}
      BY <1>2, <1>6
    <3> QED
      BY <1>1, <1>2, <3>1, <3>2, BaseRate
  <2>5. Offers(c, 0, rate, warm)
    BY <2>3, <2>4, SteadyOffers
  <2>6. Fits(<<c>>, 0, 0 + c.duration, rate, warm)
    <3> HIDE DEF rate
    <3> QED
      BY <2>2, <2>5, FitsOne
  <2>7. MeasureLength(spec) = window
    BY <1>1, <1>2, <1>6, LengthIs
  <2>8. 0 + c.duration = warm + MeasureLength(spec) /\ <<c>> \in Seq(PhaseT)
    BY <1>2, <1>3, <1>6, <2>2, <2>3, <2>7
  <2> QED
    BY <2>1, <2>6, <2>8
<1>7. CASE ~legacy
  <2> DEFINE m == M.phases
             w == Constant(warm, base, FALSE)
  <2>1. M \in Built /\ Taken(M)
    BY <1>2, <1>4, MeasureTaken
  <2>2. M.ok /\ m \in Seq(PhaseT) /\ m # <<>>
    BY <2>1 DEF Built, Taken
  <2>3. built = Accepted(Warmup(warm, base) \o m)
    <3>1. ~(spec.sla <= 0 \/ warm < 0 \/ warm >= spec.sla \/ ~M.ok)
      <4> DEFINE sla == spec.sla
      <4>1. sla \in Int /\ window = sla - warm
        BY <1>2, <1>3, Zenon
      <4> HIDE DEF sla
      <4>2. ~(sla <= 0 \/ warm < 0 \/ warm >= sla)
        BY <1>2, <1>4, <4>1
      <4> QED
        BY <2>2, <4>2, Zenon DEF sla
    <3> QED
      BY <1>1, <1>7, <3>1, BuildCases, Zenon
  <2>4. Warmed(m, warm, base, Warmup(warm, base) \o m)
    BY <1>2, <2>2, WarmupIs
  <2>5. ph = Warmup(warm, base) \o m
    <3> DEFINE all == Warmup(warm, base) \o m
    <3> HIDE DEF built, all
    <3>1. built.phases = all
      BY <2>3, Zenon DEF Accepted, all
    <3>2. all # <<>>
      BY <2>4 DEF Warmed, all
    <3>3. ph = all
      BY <1>5, <3>1, <3>2
    <3> QED
      BY <3>3 DEF all
  <2> DEFINE to == warm + MeasureLength(spec)
  <2>6. MeasureLength(spec) \in Int /\ Fits(m, warm, to, rate, warm)
    BY <1>1, <1>2, <1>4, MeasureOffered, Zenon
  <2> HIDE DEF ph, M, m, to
  <2>7. ph \in Seq(PhaseT) /\ (warm > 0 => ph = <<w>> \o m) /\ (~(warm > 0) => ph = m)
    BY <2>4, <2>5, Zenon DEF Warmed
  <2>8. w \in PhaseT
    BY <1>2, ConstantIs, Zenon
  <2>9. /\ w.duration = warm /\ w.start = base /\ ~w.recordStats
        /\ w.pattern \notin {"Ramp", "Step"}
    BY DEF Constant
  <2> HIDE DEF w
  <2>10. ASSUME warm > 0 PROVE Offers(w, 0, rate, warm)
    <3>1. ASSUME NEW t \in 0..(0 + warm - 1) PROVE PerSecond(base) = rate[t] /\ ~(t >= warm)
      <4> DEFINE s == t - warm
      <4>1. t \in Int /\ s \in Int /\ s < 0 /\ ~(t >= warm)
        BY <1>2
      <4>2. p.pattern = "Spike" => On(p.spikes, s) = {}
        <5> SUFFICES ASSUME p.pattern = "Spike" PROVE On(p.spikes, s) = {}
          OBVIOUS
        <5> DEFINE spikes == p.spikes
        <5>1. InOrder(spikes, window, base)
          BY <1>4 DEF Wants, Timely
        <5>2. spikes \in Seq(Spikes)
          BY <1>2 DEF Profiles
        <5> HIDE DEF s, spikes
        <5>3. 0 \in 0..Len(spikes) /\ 1 \in 1..Len(spikes)
          BY <5>1, <5>2 DEF InOrder
        <5>4. SpikeEnd(spikes, 0) <= NextAt(spikes, window, 0)
          BY <5>1, <5>3 DEF InOrder
        <5>5. 0 <= spikes[0 + 1].at /\ spikes[0 + 1].at \in Int
          <6>1. spikes[1] \in Spikes
            BY <5>2, <5>3
          <6>2. Len(spikes) # 0
            BY <5>2, <5>3
          <6> QED
            BY <5>4, <6>1, <6>2 DEF SpikeEnd, NextAt, Spikes
        <5>6. (0 > 0 => SpikeEnd(spikes, 0) <= s) /\ (0 < Len(spikes) => s < spikes[0 + 1].at)
          BY <4>1, <5>5
        <5>7. On(spikes, s) = {}
          BY <1>2, <4>1, <5>1, <5>2, <5>3, <5>6, NoneOn
        <5> QED
          BY <5>7 DEF spikes
      <4> QED
        BY <1>1, <1>2, <4>1, <4>2, BaseRate
    <3> QED
      BY <2>9, <3>1, SteadyOffers
  <2>11. Fits(ph, 0, to, rate, warm)
    <3> HIDE DEF rate
    <3>1. CASE warm > 0
      <4>1. Fits(<<w>> \o m, 0, to, rate, warm)
        BY <2>2, <2>6, <2>8, <2>9, <2>10, <3>1, FitsAfter, Zenon
      <4> QED
        BY <2>7, <3>1, <4>1, Zenon
    <3>2. CASE ~(warm > 0)
      <4>1. warm = 0
        BY <1>2, <1>4, <3>2
      <4> QED
        BY <2>6, <2>7, <3>2, <4>1
    <3> QED
      BY <3>1, <3>2
  <2> QED
    BY <2>7, <2>11, Zenon DEF to
<1> QED
  BY <1>6, <1>7, Zenon

-----------------------------------------------------------------------------
(* The worker pool.                                                        *)

\* What starts has phases, all of them valid: Config.Validate looks at those of
\* the controller, and at the rate and duration that withDefaults makes one of.
LEMMA StartedValid ==
    ASSUME NEW spec \in Specs, Start(spec).result = "Started",
           NEW ph, ph = Start(spec).config.phases
    PROVE  ph \in Seq(PhaseT) /\ ph # <<>> /\ AllValid(ph)
<1>1. PICK warm, window, p : Parts(spec, warm, window, p)
  BY DEF Parts
<1> DEFINE base == spec.base
           M == measurePhases(base, window, p)
           m == M.phases
           built == buildPhases(spec)
           c == Constant(spec.sla, base, TRUE)
<1>2. /\ warm \in Int /\ window \in Int /\ spec.sla \in Int /\ base \in Int
      /\ p \in Profiles
  BY <1>1, PartsTyped
<1>3. ph = IF built.phases # <<>> THEN built.phases ELSE <<c>>
  BY ConfigIs, Zenon
<1>4. built.ok /\ IF built.phases = <<>> THEN base > 0 /\ spec.sla > 0
                  ELSE AllValid(built.phases)
  BY StartedIs, Zenon
<1>5. built.phases \in Seq(PhaseT)
  <2>1. warm >= 0 /\ window > 0 /\ Wants(base, window, p)
    BY <1>1, ReasonableIs, ReasonableRuns
  <2>2. M \in Built /\ Taken(M)
    BY <1>2, <2>1, MeasureTaken
  <2>3. m \in Seq(PhaseT) /\ m # <<>>
    BY <2>2 DEF Built, Taken
  <2>4. Warmed(m, warm, base, Warmup(warm, base) \o m)
    BY <1>2, <2>3, WarmupIs
  <2>5. \/ built = Accepted(<<>>) \/ built = Refused
        \/ built = Accepted(Warmup(warm, base) \o m)
    BY <1>1, BuildCases, Zenon
  <2> DEFINE all == Warmup(warm, base) \o m
  <2>6. all \in Seq(PhaseT)
    BY <2>4 DEF Warmed
  <2> HIDE DEF built, all
  <2>7. built = Accepted(<<>>) \/ built = Refused \/ built = Accepted(all)
    BY <2>5 DEF all
  <2>8. built.phases = <<>> \/ built.phases = all
    BY <2>7 DEF Accepted, Refused
  <2>9. <<>> \in Seq(PhaseT)
    OBVIOUS
  <2> QED
    BY <2>6, <2>8, <2>9, Zenon
<1> HIDE DEF built
<1>6. CASE built.phases # <<>>
  BY <1>3, <1>4, <1>5, <1>6
<1>7. CASE built.phases = <<>>
  <2>1. c \in PhaseT /\ Valid(c)
    BY <1>2, <1>4, <1>7, ConstantIs, Zenon
  <2>2. ph = <<c>>
    BY <1>3, <1>7
  <2> HIDE DEF c
  <2>3. <<c>> \in Seq(PhaseT) /\ <<c>> # <<>> /\ AllValid(<<c>>)
    BY <2>1 DEF AllValid
  <2> QED
    BY <2>2, <2>3
<1> QED
  BY <1>6, <1>7

\* A valid phase has a peak of at least one request a second (Phase.peakRPS).
LEMMA PeakIs ==
    ASSUME NEW c \in PhaseT, Valid(c)
    PROVE  peakRPS(c) \in Int /\ peakRPS(c) >= 1
<1>1. /\ c.duration \in Int /\ c.start \in Int /\ c.end \in Int
      /\ c.step \in Int /\ c.every \in Int
  BY DEF PhaseT
<1>2. c.duration > 0 /\ c.start > 0
  BY DEF Valid
<1>3. CASE c.pattern = "Ramp"
  <2> DEFINE a == c.start
             b == c.end
  <2>1. peakRPS(c) = Max({a, b}) /\ a \in Int /\ b \in Int /\ a > 0
    BY <1>1, <1>2, <1>3 DEF peakRPS
  <2> HIDE DEF a, b
  <2>2. Max({a, b}) \in {a, b} /\ Max({a, b}) >= a
    BY <2>1, OfTwo
  <2> QED
    BY <2>1, <2>2
<1>4. CASE c.pattern = "Step"
  <2> DEFINE q == c.duration \div c.every
             k == c.step
  <2>1. k \in Nat /\ c.every > 0
    BY <1>1, <1>4 DEF Valid
  <2>2. q \in Nat
    BY <1>1, <1>2, <2>1
  <2>3. peakRPS(c) = c.start + q * k
    BY <1>4 DEF peakRPS
  <2> HIDE DEF q, k
  <2>4. q * k \in Nat
    BY <2>1, <2>2
  <2> QED
    BY <1>1, <1>2, <2>3, <2>4
<1>5. CASE c.pattern # "Ramp" /\ c.pattern # "Step"
  BY <1>1, <1>2, <1>5 DEF peakRPS
<1> QED
  BY <1>3, <1>4, <1>5

\* Some phase of a list has the highest peak.
LEMMA HighestPeak ==
    ASSUME NEW ph \in Seq(PhaseT), ph # <<>>, AllValid(ph)
    PROVE  /\ Max({peakRPS(ph[i]) : i \in DOMAIN ph}) \in Int
           /\ Max({peakRPS(ph[i]) : i \in DOMAIN ph}) >= 1
           /\ \A i \in DOMAIN ph :
                 peakRPS(ph[i]) <= Max({peakRPS(ph[j]) : j \in DOMAIN ph})
<1> DEFINE n == Len(ph)
           peak == [i \in 1..n |-> peakRPS(ph[i])]
           S == {peakRPS(ph[i]) : i \in DOMAIN ph}
           Highest(k) == \E i \in 1..k : \A j \in 1..k : peak[i] >= peak[j]
           T == {k \in Nat : k + 1 <= n => Highest(k + 1)}
<1>1. n \in Nat /\ n >= 1 /\ DOMAIN ph = 1..n
  OBVIOUS
<1>2. \A i \in 1..n : peak[i] \in Int /\ peak[i] >= 1
  <2> SUFFICES ASSUME NEW i \in 1..n PROVE peakRPS(ph[i]) \in Int /\ peakRPS(ph[i]) >= 1
    OBVIOUS
  <2>1. ph[i] \in PhaseT /\ Valid(ph[i])
    BY <1>1 DEF AllValid
  <2> QED
    BY <2>1, PeakIs
<1>3. S = {peak[i] : i \in 1..n}
  BY <1>1
<1> HIDE DEF peak, n
<1>4. 0 \in T
  <2> SUFFICES ASSUME 1 <= n PROVE Highest(0 + 1)
    OBVIOUS
  <2>1. 1 \in 1..1 /\ 1 \in 1..n
    BY <1>1
  <2> QED
    BY <1>2, <2>1
<1>5. ASSUME NEW k \in Nat, k \in T PROVE k + 1 \in T
  <2> SUFFICES ASSUME (k + 1) + 1 <= n PROVE Highest((k + 1) + 1)
    OBVIOUS
  <2>1. Highest(k + 1)
    BY <1>1, <1>5
  <2>2. PICK i \in 1..(k + 1) : \A j \in 1..(k + 1) : peak[i] >= peak[j]
    BY <2>1
  <2> DEFINE z == (k + 1) + 1
  <2>3. z \in 1..z /\ i \in 1..z /\ (\A j \in 1..z : j = z \/ j \in 1..(k + 1))
    OBVIOUS
  <2>4. \A j \in 1..z : peak[j] \in Int
    BY <1>1, <1>2
  <2> HIDE DEF z
  <2>5. CASE peak[i] >= peak[z]
    BY <2>2, <2>3, <2>5, Zenon DEF z
  <2>6. CASE peak[z] >= peak[i]
    <3>1. \A j \in 1..z : peak[z] >= peak[j]
      <4> SUFFICES ASSUME NEW j \in 1..z PROVE peak[z] >= peak[j]
        OBVIOUS
      <4>1. peak[i] \in Int /\ peak[z] \in Int /\ peak[j] \in Int
        BY <2>3, <2>4, Zenon
      <4>2. j = z \/ peak[i] >= peak[j]
        BY <2>2, <2>3, Zenon
      <4> QED
        BY <2>6, <4>1, <4>2
    <3> QED
      BY <2>3, <3>1 DEF z
  <2>7. peak[i] \in Int /\ peak[z] \in Int
    BY <2>3, <2>4
  <2>8. peak[i] >= peak[z] \/ peak[z] >= peak[i]
    BY <2>7
  <2> QED
    BY <2>5, <2>6, <2>8
<1>6. \E x \in S : \A y \in S : x >= y
  <2> DEFINE k == n - 1
  <2>1. k \in Nat /\ k + 1 = n
    BY <1>1
  <2> HIDE DEF T, k
  <2>2. k \in T
    BY <1>4, <1>5, <2>1, Induction
  <2>3. Highest(k + 1)
    BY <1>1, <2>1, <2>2 DEF T
  <2>4. PICK i \in 1..n : \A j \in 1..n : peak[i] >= peak[j]
    BY <2>1, <2>3
  <2> QED
    BY <1>3, <2>4, Zenon
<1>7. Max(S) \in S /\ \A y \in S : Max(S) >= y
  <2> HIDE DEF S
  <2> QED
    BY <1>6 DEF Max
<1> DEFINE top == Max(S)
<1>8. top \in Int /\ top >= 1
  BY <1>2, <1>3, <1>7
<1>9. ASSUME NEW i \in DOMAIN ph PROVE peakRPS(ph[i]) <= top
  <2>1. peakRPS(ph[i]) \in Int
    <3>1. i \in 1..n
      BY <1>1, Zenon
    <3>2. peak[i] = peakRPS(ph[i])
      BY <3>1, Zenon DEF peak
    <3> QED
      BY <1>2, <3>1, <3>2, Zenon
  <2>2. peakRPS(ph[i]) \in S
    OBVIOUS
  <2> HIDE DEF S
  <2>3. top >= peakRPS(ph[i])
    BY <1>7, <2>2, Zenon
  <2> HIDE DEF top
  <2> QED
    BY <1>8, <2>1, <2>3
<1> QED
  BY <1>8, <1>9, Zenon

\* A generator that starts has a worker.  It has as many as the spec
\* configures, and otherwise no more than the cap of withDefaults.
THEOREM PoolSized ==
    ASSUME NEW spec \in Specs, Start(spec).result = "Started"
    PROVE  /\ Start(spec).config.concurrency \in Nat \ {0}
           /\ spec.concurrency > 0 =>
                 Start(spec).config.concurrency = spec.concurrency
           /\ ~(spec.concurrency > 0) => Start(spec).config.concurrency <= 256
<1> DEFINE config == Start(spec).config
           ph == config.phases
           asked == spec.concurrency
           m == Max({0, asked})
           peak == Max({peakRPS(ph[i]) : i \in DOMAIN ph})
<1>0. config.concurrency = IF m # 0 THEN m ELSE DefaultConcurrency(ph)
  BY ConfigIs, Zenon
<1>1. config.concurrency = IF m # 0 THEN m ELSE Min({256, peak})
  BY <1>0, Zenon DEF DefaultConcurrency
<1>2. ph \in Seq(PhaseT) /\ ph # <<>> /\ AllValid(ph)
  BY StartedValid
<1> HIDE DEF config, ph
<1>3. peak \in Int /\ peak >= 1
  BY <1>2, HighestPeak
<1>4. asked \in Int
  BY DEF Specs
<1> HIDE DEF asked
<1>5. m \in {0, asked} /\ m >= 0 /\ m >= asked
  BY <1>4, OfTwo
<1> HIDE DEF peak, m
<1>6. /\ Min({256, peak}) \in {256, peak}
      /\ Min({256, peak}) <= 256
  BY <1>3, OfTwo
<1>7. config.concurrency \in Nat \ {0}
  BY <1>1, <1>3, <1>4, <1>5, <1>6
<1>8. asked > 0 => config.concurrency = asked
  BY <1>1, <1>4, <1>5
<1>9. ~(asked > 0) => config.concurrency <= 256
  BY <1>1, <1>4, <1>5, <1>6
<1> QED
  BY <1>7, <1>8, <1>9 DEF config, asked

\* A ramp is never faster than the faster of its ends.
LEMMA RampBelow ==
    ASSUME NEW start \in Int, NEW end \in Int, NEW top \in Int,
           NEW duration \in Nat, NEW at \in 0..duration,
           start <= top, end <= top
    PROVE  start * duration + at * (end - start) <= top * duration
<1>1. start * (duration - at) <= top * (duration - at)
  BY Grows
<1>2. end * at <= top * at
  BY Grows
<1>3. start * duration + at * (end - start) = start * (duration - at) + end * at
  OBVIOUS
<1>4. top * duration = top * (duration - at) + top * at
  OBVIOUS
<1> QED
  BY <1>1, <1>2, <1>3, <1>4

\* A plateau that begins before the end is one of those that peakRPS counts.
LEMMA PlateauCounted ==
    ASSUME NEW duration \in Nat, NEW every \in Nat \ {0}, NEW seg \in Nat,
           seg * every < duration
    PROVE  seg <= duration \div every
<1> DEFINE q == duration \div every
<1>1. q \in Int /\ duration < (q + 1) * every
  OBVIOUS
<1> HIDE DEF q
<1> SUFFICES ASSUME q + 1 <= seg PROVE FALSE
  BY <1>1 DEF q
<1>2. (q + 1) * every <= seg * every
  BY <1>1, Grows
<1> QED
  BY <1>1, <1>2

\* The emitter of a phase never goes faster than so many arrivals a second,
\* wherever it is in a ramp and on whatever plateau of a step.
NoFaster(p, rate) ==
    /\ p.pattern = "Ramp" =>
          \A at \in 0..p.duration : rampRate(p, at) <= rate * p.duration
    /\ p.pattern = "Step" =>
          \A seg \in Nat : seg * p.every < p.duration => stepRate(p, seg) <= rate
    /\ p.start <= rate

\* peakRPS bounds the rate of a valid phase (emitRamp, emitStep).
LEMMA PeakBounds ==
    ASSUME NEW p \in PhaseT, Valid(p), NEW rate \in Int, peakRPS(p) <= rate
    PROVE  NoFaster(p, rate)
<1> DEFINE start == p.start
           end == p.end
           step == p.step
           every == p.every
           duration == p.duration
           q == duration \div every
<1>1. /\ start \in Nat \ {0} /\ duration \in Nat \ {0}
      /\ end \in Int /\ step \in Int /\ every \in Int
  BY DEF PhaseT, Valid
<1>2. CASE p.pattern = "Ramp"
  <2>1. peakRPS(p) = Max({start, end})
    BY <1>2 DEF peakRPS
  <2> HIDE DEF start, end, duration
  <2>2. start <= rate /\ end <= rate
    BY <1>1, <2>1, OfTwo
  <2>3. ASSUME NEW at \in 0..duration
        PROVE  Max({duration, start * duration + at * (end - start)}) <= rate * duration
    <3> DEFINE here == start * duration + at * (end - start)
    <3>1. duration \in Int /\ here \in Int /\ here <= rate * duration
      BY <1>1, <2>2, RampBelow
    <3>2. 1 * duration <= rate * duration
      BY <1>1, <2>2, Grows
    <3> HIDE DEF here
    <3>3. Max({duration, here}) \in {duration, here}
      BY <3>1, OfTwo, Zenon
    <3> QED
      BY <1>1, <3>1, <3>2, <3>3 DEF here
  <2> QED
    BY <1>2, <2>2, <2>3 DEF NoFaster, rampRate, start, end, duration
<1>3. CASE p.pattern = "Step"
  <2>1. step > 0 /\ every \in Nat \ {0}
    BY <1>1, <1>3 DEF Valid
  <2>2. peakRPS(p) = start + q * step
    BY <1>3 DEF peakRPS
  <2> HIDE DEF start, step, every, duration
  <2>3. q \in Nat
    BY <1>1, <2>1
  <2>4. ASSUME NEW seg \in Nat, seg <= q PROVE start + seg * step <= rate
    <3>1. seg * step <= q * step
      BY <1>1, <2>1, <2>3, <2>4, Grows
    <3> HIDE DEF q
    <3> QED
      BY <1>1, <2>2, <2>3, <3>1
  <2>5. start <= rate
    BY <1>1, <2>3, <2>4
  <2>6. ASSUME NEW seg \in Nat, seg * every < duration
        PROVE  Max({1, start + seg * step}) <= rate
    <3>1. start + seg * step <= rate
      BY <1>1, <2>1, <2>4, <2>6, PlateauCounted
    <3> DEFINE here == start + seg * step
    <3>2. 1 \in Int /\ here \in Int
      BY <1>1
    <3> HIDE DEF here
    <3>3. Max({1, here}) \in {1, here}
      BY <3>2, OfTwo, Zenon
    <3> QED
      BY <1>1, <2>5, <3>1, <3>3 DEF here
  <2> QED
    BY <1>3, <2>5, <2>6 DEF NoFaster, stepRate, start, step, every, duration
<1>4. CASE p.pattern \notin {"Ramp", "Step"}
  BY <1>4 DEF peakRPS, NoFaster
<1> QED
  BY <1>2, <1>3, <1>4

\* A pool that is derived and below its cap has a worker for every arrival of
\* a second at the rate at which any phase goes at any time, for every spec that
\* runs: what the peak of withDefaults is for.
THEOREM PoolMeetsPeak ==
    ASSUME NEW spec \in Specs, Start(spec).result = "Started",
           ~(spec.concurrency > 0), Start(spec).config.concurrency < 256,
           NEW i \in DOMAIN Start(spec).config.phases
    PROVE  NoFaster(Start(spec).config.phases[i], Start(spec).config.concurrency)
<1> DEFINE config == Start(spec).config
           ph == config.phases
           asked == spec.concurrency
           m == Max({0, asked})
           peak == Max({peakRPS(ph[j]) : j \in DOMAIN ph})
<1>1. config.concurrency = IF m # 0 THEN m ELSE DefaultConcurrency(ph)
  BY ConfigIs, Zenon
<1>2. config.concurrency = IF m # 0 THEN m ELSE Min({256, peak})
  BY <1>1, Zenon DEF DefaultConcurrency
<1>3. ph \in Seq(PhaseT) /\ ph # <<>> /\ AllValid(ph)
  BY StartedValid
<1>4. i \in DOMAIN ph /\ config.concurrency < 256 /\ ~(asked > 0)
  OBVIOUS
<1> HIDE DEF config, ph
<1>5. peak \in Int /\ peakRPS(ph[i]) <= peak
  BY <1>3, <1>4, HighestPeak
<1>6. asked \in Int
  BY DEF Specs
<1> HIDE DEF asked
<1>7. m \in {0, asked} /\ m >= 0 /\ m >= asked
  BY <1>6, OfTwo
<1> HIDE DEF peak, m
<1>8. Min({256, peak}) \in {256, peak}
  BY <1>5, OfTwo
<1>9. config.concurrency = peak
  BY <1>2, <1>4, <1>6, <1>7, <1>8
<1>10. ph[i] \in PhaseT /\ Valid(ph[i])
  BY <1>3, <1>4 DEF AllValid
<1>11. NoFaster(ph[i], config.concurrency)
  BY <1>5, <1>9, <1>10, PeakBounds
<1> QED
  BY <1>11 DEF ph, config

-----------------------------------------------------------------------------
(* The ScaleValidation that is there.                                      *)

\* The invariant says that its spec is one that the schema admits.
LEMMA SpecTyped == CInv => cr.spec \in Specs
  BY DEF CInv, ScaleValidations

\* A load that makes sense runs and one that does not is refused, whatever
\* spec a user writes: the checks of buildPhases and of Phase.Validate leave
\* nothing to go wrong at run time and reject nothing useful.
THEOREM ReasonableRun == Spec => []ReasonableLoadsRun
<1>1. CInv => ReasonableLoadsRun
  BY SpecTyped, ReasonableRuns DEF ReasonableLoadsRun
<1> QED
  BY <1>1, CInit, CNext, PTL DEF Spec

\* Whatever spec a user writes, the phases that run take the SLA window, or the
\* warmup and a Ramp's own length; their emitters go at the profile's rate at
\* every instant, with any number of spikes and up any ramp or steps; and they
\* measure all but the warmup (buildPhases, decomposeSpike, withDefaults,
\* emitRamp, emitStep).
THEOREM ProfileRealised == Spec => []PhasesRealiseProfile
<1>1. CInv => PhasesRealiseProfile
  BY SpecTyped, Realised DEF PhasesRealiseProfile
<1> QED
  BY <1>1, CInit, CNext, PTL DEF Spec
=============================================================================
