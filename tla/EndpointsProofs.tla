------------------------- MODULE EndpointsProofs -------------------------
(***************************************************************************)
(* The correlation of failed requests with endpoint events                 *)
(* (leakage.Correlate, drain.Correlate), for inputs of any length: the     *)
(* single forward scan over sorted instants counts exactly the errors that *)
(* lie in the window of some event; and the events of the tracker.  The    *)
(* induction over the inputs is that of Inductions.                        *)
(***************************************************************************)
EXTENDS Endpoints, Inductions, FiniteSetTheorems, SequenceTheorems

-----------------------------------------------------------------------------
(* Sorting.                                                                 *)

Instants(at, I) == I \subseteq Nat /\ IsFiniteSet(I) /\ \A i \in I : at[i] \in Int

\* s has the instants of the indices in I, ascending, each once.
Sorts(s, at, I, n) ==
    /\ n \in Nat /\ s \in [1..n -> Int]
    /\ \A k, l \in 1..n : k <= l => s[k] <= s[l]
    /\ \E p \in Bijection(1..n, I) : \A k \in 1..n : s[k] = at[p[k]]

\* Sorted puts the instants in ascending order, and each of them once.
LEMMA SortedIs ==
    ASSUME NEW at, NEW I, Instants(at, I)
    PROVE  Sorts(Sorted(at, I), at, I, Cardinality(I))
<1> I \subseteq Nat /\ IsFiniteSet(I) /\ \A i \in I : at[i] \in Int
  BY DEF Instants
<1> DEFINE n == Cardinality(I)
           s == Sorted(at, I)
           B(j, i) == at[j] < at[i] \/ (at[j] = at[i] /\ j <= i)
           R(i) == {j \in I : B(j, i)}
           rank == [i \in I |-> Cardinality(R(i))]
<1>1. n \in Nat
  BY FS_CardinalityType
<1>2. \A i \in I : IsFiniteSet(R(i)) /\ rank[i] \in Nat /\ rank[i] <= n
  BY FS_Subset, FS_CardinalityType
<1>3. \A i \in I : i \in R(i)
  OBVIOUS
<1>4. ASSUME NEW i \in I, NEW k \in I, i # k, B(i, k) PROVE rank[i] < rank[k]
  <2>1. ASSUME NEW j \in R(i) PROVE j \in R(k)
    <3>1. at[i] \in Int /\ at[j] \in Int /\ at[k] \in Int
      OBVIOUS
    <3>2. i \in Nat /\ j \in Nat /\ k \in Nat /\ B(j, i)
      OBVIOUS
    <3>3. B(j, k)
      BY <1>4, <3>1, <3>2
    <3> QED
      BY <3>3
  <2>2. k \in R(k) /\ k \notin R(i)
    BY <1>3, <1>4
  <2>3. IsFiniteSet(R(k)) /\ IsFiniteSet(R(i))
    BY <1>2
  <2> HIDE DEF R
  <2>4. Cardinality(R(i)) <= Cardinality(R(k)) /\ Cardinality(R(i)) # Cardinality(R(k))
    BY <2>1, <2>2, <2>3, FS_Subset
  <2>5. Cardinality(R(i)) \in Nat /\ Cardinality(R(k)) \in Nat
    BY <2>3, FS_CardinalityType
  <2> QED
    BY <2>4, <2>5
<1>5. \A i, k \in I : B(i, k) \/ B(k, i)
  OBVIOUS
<1>6. \A i, k \in I : rank[i] = rank[k] => i = k
  <2> SUFFICES ASSUME NEW i \in I, NEW k \in I, i # k PROVE rank[i] # rank[k]
    OBVIOUS
  <2>1. rank[i] \in Nat /\ rank[k] \in Nat
    BY <1>2
  <2>2. rank[i] < rank[k] \/ rank[k] < rank[i]
    BY <1>4, <1>5
  <2> HIDE DEF rank
  <2> QED
    BY <2>1, <2>2
<1>7. \A i \in I : rank[i] \in 1..n
  <2> SUFFICES ASSUME NEW i \in I PROVE rank[i] \in 1..n
    OBVIOUS
  <2>1. IsFiniteSet(R(i)) /\ R(i) # {}
    BY <1>2, <1>3
  <2> HIDE DEF R
  <2>2. Cardinality(R(i)) # 0
    BY <2>1, FS_EmptySet
  <2> QED
    BY <1>1, <1>2, <2>2
<1> HIDE DEF rank
<1>8. rank \in Injection(I, 1..n)
  BY <1>6, <1>7, Zenon DEF Injection, IsInjective, rank
<1>9. IsFiniteSet(1..n) /\ Cardinality(1..n) = n
  BY <1>1, FS_Interval
<1>10. rank \in Surjection(I, 1..n)
  BY <1>8, <1>9, FS_Injection
<1> DEFINE p == [k \in 1..n |-> CHOOSE i \in I : Cardinality(R(i)) = k]
<1>11. \A k \in 1..n : p[k] \in I /\ rank[p[k]] = k
  <2>1. \A k \in 1..n : \E i \in I : rank[i] = k
    BY <1>10 DEF Surjection
  <2>2. \A i \in I : rank[i] = Cardinality(R(i))
    BY DEF rank
  <2> HIDE DEF R
  <2> QED
    BY <2>1, <2>2, Zenon
<1>12. \A k \in 1..n : s[k] = at[p[k]]
  BY DEF Sorted
<1>13. s = [k \in 1..n |-> s[k]]
  BY DEF Sorted
<1> HIDE DEF p, s, B
<1>14. s \in [1..n -> Int]
  BY <1>11, <1>12, <1>13
<1>15. \A i \in I : p[rank[i]] = i
  BY <1>6, <1>7, <1>11, Zenon
<1>16. p \in Bijection(1..n, I)
  <2>1. p \in [1..n -> I]
    BY <1>11, Zenon DEF p
  <2>2. \A k, l \in 1..n : p[k] = p[l] => k = l
    BY <1>11
  <2>3. \A i \in I : \E k \in 1..n : p[k] = i
    BY <1>7, <1>15
  <2> QED
    BY <2>1, <2>2, <2>3 DEF Bijection, Injection, Surjection, IsInjective
<1>17. ASSUME NEW k \in 1..n, NEW l \in 1..n, k <= l PROVE s[k] <= s[l]
  <2> DEFINE i == p[k]
             j == p[l]
  <2>1. i \in I /\ j \in I /\ rank[i] = k /\ rank[j] = l
    BY <1>11
  <2> HIDE DEF i, j
  <2>2. at[i] \in Int /\ at[j] \in Int
    BY <2>1
  <2>3. i = j \/ B(i, j)
    BY <1>1, <1>4, <1>5, <1>17, <2>1
  <2>4. at[i] <= at[j]
    BY <2>2, <2>3 DEF B
  <2> QED
    BY <1>12, <2>4 DEF i, j
<1> QED
  BY <1>1, <1>12, <1>14, <1>16, <1>17 DEF s, Sorts

-----------------------------------------------------------------------------
(* The scan.                                                                *)

Scans == [cursor : Nat, hits : Nat]

Ascending(s) == \A i, j \in DOMAIN s : i <= j => s[i] <= s[j]

\* The instant lies in the window of one of the starts.
Hit(starts, before, after, err) ==
    \E j \in DOMAIN starts : err \in (starts[j] - before)..(starts[j] + after - 1)

\* The windows before the cursor have closed by this instant.
Passed(starts, after, cursor, err) ==
    /\ cursor \in 1..(Len(starts) + 1)
    /\ \A j \in 1..(cursor - 1) : starts[j] + after <= err

\* From scan to m, by one error.
OneStep(starts, before, after, scan, err, m) ==
    /\ m \in Scans /\ Passed(starts, after, m.cursor, err)
    /\ m.hits = scan.hits + IF Hit(starts, before, after, err) THEN 1 ELSE 0

\* One step of the scan: the windows that it skips have closed, and the window at
\* which it stops is open if any is.
LEMMA MatchIs ==
    ASSUME NEW starts \in Seq(Int), Ascending(starts), NEW before \in Nat,
           NEW after \in Nat, NEW scan \in Scans, NEW err \in Int,
           Passed(starts, after, scan.cursor, err)
    PROVE  OneStep(starts, before, after, scan, err,
                   Match(starts, before, after, scan, err))
<1> DEFINE n == Len(starts)
           open == {j \in scan.cursor..n : err < starts[j] + after}
           all == open \cup {n + 1}
           c == Min(all)
           hit == c <= n /\ err >= starts[c] - before
           m == Match(starts, before, after, scan, err)
<1>1. n \in Nat /\ DOMAIN starts = 1..n /\ \A j \in 1..n : starts[j] \in Int
  OBVIOUS
<1>2. scan.cursor \in 1..(n + 1) /\ \A j \in 1..(scan.cursor - 1) : starts[j] + after <= err
  BY DEF Passed
<1>3. all \subseteq Nat /\ all # {} /\ \A j \in all : j \in scan.cursor..n \/ j = n + 1
  BY <1>1, <1>2
<1>4. m = [cursor |-> c, hits |-> scan.hits + IF hit THEN 1 ELSE 0]
  BY DEF Match
<1>5. scan.hits \in Nat /\ scan.cursor \in Nat
  BY DEF Scans
<1> HIDE DEF all
<1>6. c \in all /\ \A j \in all : c <= j
  BY <1>3, Least, Zenon
<1> HIDE DEF c
<1>7. c \in 1..(n + 1) /\ scan.cursor <= c
  BY <1>1, <1>2, <1>3, <1>6
<1>8. ASSUME NEW j \in 1..(c - 1) PROVE starts[j] + after <= err
  <2>1. j \in 1..n
    BY <1>1, <1>7
  <2>2. CASE j < scan.cursor
    BY <1>2, <1>5, <2>2
  <2>3. CASE ~(j < scan.cursor)
    <3>1. j \in scan.cursor..n /\ ~(c <= j)
      BY <1>5, <1>7, <2>1, <2>3
    <3>2. j \notin open
      BY <1>6, <3>1 DEF all
    <3> QED
      BY <1>1, <2>1, <3>1, <3>2
  <2> QED
    BY <2>2, <2>3
<1>9. Passed(starts, after, c, err)
  BY <1>7, <1>8 DEF Passed
<1>10. hit => Hit(starts, before, after, err)
  <2> SUFFICES ASSUME hit PROVE Hit(starts, before, after, err)
    OBVIOUS
  <2>1. c \in 1..n
    BY <1>1, <1>7
  <2>2. c \in open
    BY <1>1, <1>6, <2>1 DEF all
  <2>3. starts[c] \in Int /\ err < starts[c] + after /\ err >= starts[c] - before
    BY <1>1, <2>1, <2>2
  <2>4. err \in (starts[c] - before)..(starts[c] + after - 1)
    BY <2>3
  <2> QED
    BY <1>1, <2>1, <2>4, Zenon DEF Hit
<1>11. Hit(starts, before, after, err) => hit
  <2> SUFFICES ASSUME Hit(starts, before, after, err) PROVE hit
    OBVIOUS
  <2>1. PICK j \in 1..n : err \in (starts[j] - before)..(starts[j] + after - 1)
    BY <1>1 DEF Hit
  <2>2. starts[j] \in Int /\ err >= starts[j] - before /\ ~(starts[j] + after <= err)
    BY <1>1, <2>1
  <2>3. c <= j
    BY <1>7, <1>8, <2>2
  <2>4. c \in 1..n
    BY <1>1, <1>7, <2>3
  <2>5. starts[c] <= starts[j] /\ starts[c] \in Int
    BY <1>1, <2>3, <2>4 DEF Ascending
  <2> QED
    BY <2>2, <2>4, <2>5
<1> HIDE DEF hit, m
<1>12. m.cursor = c /\ m.hits = scan.hits + IF hit THEN 1 ELSE 0
  BY <1>4
<1>13. m \in Scans
  <2> DEFINE h == scan.hits + IF hit THEN 1 ELSE 0
  <2>1. h \in Nat /\ c \in Nat
    BY <1>1, <1>5, <1>7
  <2>2. m = [cursor |-> c, hits |-> h]
    BY <1>4
  <2> HIDE DEF h
  <2> QED
    BY <2>1, <2>2 DEF Scans
<1>14. m.hits = scan.hits + IF Hit(starts, before, after, err) THEN 1 ELSE 0
  BY <1>10, <1>11, <1>12
<1> QED
  BY <1>9, <1>12, <1>13, <1>14 DEF m, OneStep

\* Counting one instant more.
LEMMA OneMoreHit ==
    ASSUME NEW P, P \subseteq Nat, NEW i \in Nat
    PROVE  LET K(n) == {k \in 1..n : k \in P}
           IN  /\ Cardinality(K(i)) \in Nat
               /\ Cardinality(K(i + 1)) =
                     Cardinality(K(i)) + IF i + 1 \in P THEN 1 ELSE 0
<1> DEFINE K(n) == {k \in 1..n : k \in P}
<1>1. IsFiniteSet(1..i)
  BY FS_Interval
<1>2. IsFiniteSet(K(i))
  BY <1>1, FS_Subset
<1>3. Cardinality(K(i)) \in Nat
  BY <1>2, FS_CardinalityType
<1>4. i + 1 \notin K(i)
  OBVIOUS
<1>5. CASE i + 1 \in P
  <2>1. K(i + 1) = K(i) \cup {i + 1}
    BY <1>5
  <2> HIDE DEF K
  <2>2. Cardinality(K(i) \cup {i + 1}) = Cardinality(K(i)) + 1
    BY <1>2, <1>4, FS_AddElement
  <2> QED
    BY <1>3, <1>5, <2>1, <2>2 DEF K
<1>6. CASE i + 1 \notin P
  <2>1. K(i + 1) = K(i)
    BY <1>6
  <2> HIDE DEF K
  <2> QED
    BY <1>3, <1>6, <2>1 DEF K
<1> QED
  BY <1>5, <1>6

\* Match maps scans to scans.
LEMMA MatchTyped ==
    ASSUME NEW starts \in Seq(Int), NEW before \in Nat, NEW after \in Nat,
           NEW scan \in Scans, NEW err \in Int
    PROVE  Match(starts, before, after, scan, err) \in Scans
<1> DEFINE n == Len(starts)
           all == {j \in scan.cursor..n : err < starts[j] + after} \cup {n + 1}
           c == Min(all)
           h == scan.hits + IF c <= n /\ err >= starts[c] - before THEN 1 ELSE 0
<1>1. Match(starts, before, after, scan, err) = [cursor |-> c, hits |-> h]
  BY DEF Match
<1>2. scan.cursor \in Nat /\ scan.hits \in Nat /\ n \in Nat
  BY DEF Scans
<1>3. all \subseteq Nat /\ all # {}
  BY <1>2
<1>4. c \in Nat
  <2> HIDE DEF all
  <2> QED
    BY <1>3, Least, Zenon
<1>5. h \in Nat
  BY <1>2
<1> HIDE DEF c, h
<1> QED
  BY <1>1, <1>4, <1>5 DEF Scans

\* The hits of the scan over these errors.
Scanned(starts, before, after, errs) ==
    LET scan[i \in 0..Len(errs)] ==
           IF i = 0 THEN [cursor |-> 1, hits |-> 0]
           ELSE Match(starts, before, after, scan[i - 1], errs[i])
    IN  scan[Len(errs)].hits

HitSet(starts, before, after, errs, I) ==
    {k \in I : Hit(starts, before, after, errs[k])}

\* The scan over ascending errors counts those that lie in a window.
LEMMA ScanCounts ==
    ASSUME NEW starts \in Seq(Int), Ascending(starts),
           NEW before \in Nat, NEW after \in Nat,
           NEW errs \in Seq(Int), Ascending(errs)
    PROVE  Scanned(starts, before, after, errs) =
              Cardinality(HitSet(starts, before, after, errs, 1..Len(errs)))
<1> DEFINE n == Len(errs)
           b == [cursor |-> 1, hits |-> 0]
           S(f) == f = [i \in 0..n |-> IF i = 0 THEN b
                                       ELSE Match(starts, before, after, f[i - 1], errs[i])]
           scan == CHOOSE f : S(f)
           P == {k \in 1..n : Hit(starts, before, after, errs[k])}
           K(i) == {k \in 1..i : k \in P}
<1>1. n \in Nat /\ DOMAIN errs = 1..n /\ \A i \in 1..n : errs[i] \in Int
  OBVIOUS
<1>2. b \in Scans /\ b.cursor = 1 /\ b.hits = 0
  BY DEF Scans
<1> HIDE DEF b, n
<1>3. \E f : S(f)
  <2> DEFINE g == [q \in Scans \X Nat |->
                     IF q[2] \in 1..n THEN Match(starts, before, after, q[1], errs[q[2]])
                     ELSE b]
  <2>1. \A q \in Scans \X Nat :
           (IF q[2] \in 1..n THEN Match(starts, before, after, q[1], errs[q[2]])
            ELSE b) \in Scans
    <3> SUFFICES ASSUME NEW s \in Scans, NEW k \in 1..n
                 PROVE  Match(starts, before, after, s, errs[k]) \in Scans
      BY <1>2
    <3> QED
      BY <1>1, MatchTyped
  <2>2. g \in Steps(Scans)
    BY <2>1 DEF Steps
  <2>3. \A s \in Scans, k \in 1..n :
           g[<<s, k>>] = Match(starts, before, after, s, errs[k])
    OBVIOUS
  <2> HIDE DEF g
  <2>4. PICK f : Iterates(f, Scans, b, n, g)
    <3>1. b \in Scans /\ n \in Nat
      BY <1>1, <1>2
    <3> QED
      BY <2>2, <3>1, Recursion
  <2>4a. f \in [0..n -> Scans] /\ f[0] = b /\ \A i \in 1..n : f[i] = g[<<f[i - 1], i>>]
    BY <2>4 DEF Iterates
  <2>5. \A i \in 1..n : f[i] = Match(starts, before, after, f[i - 1], errs[i])
    <3> SUFFICES ASSUME NEW i \in 1..n
                 PROVE  f[i] = Match(starts, before, after, f[i - 1], errs[i])
      OBVIOUS
    <3>1. f[i - 1] \in Scans
      BY <1>1, <2>4a
    <3> QED
      BY <2>3, <2>4a, <3>1, Zenon
  <2>6. \A i \in 0..n : f[i] = IF i = 0 THEN b
                               ELSE Match(starts, before, after, f[i - 1], errs[i])
    BY <1>1, <2>4a, <2>5
  <2>7. S(f)
    BY <2>4a, <2>6
  <2> HIDE DEF S
  <2> QED
    BY <2>7
<1>4. S(scan)
  BY <1>3, Zenon
<1> HIDE DEF scan
<1>5. scan[0] = b
  BY <1>1, <1>4
<1>6. ASSUME NEW i \in Nat, i < n
      PROVE  scan[i + 1] = Match(starts, before, after, scan[i], errs[i + 1])
  <2>1. i + 1 \in 0..n /\ i + 1 # 0 /\ (i + 1) - 1 = i
    BY <1>1, <1>6
  <2>2. scan[i + 1] = Match(starts, before, after, scan[(i + 1) - 1], errs[i + 1])
    BY <1>4, <2>1, Zenon
  <2> QED
    BY <2>1, <2>2
<1>7. P \subseteq Nat
  BY <1>1
<1> DEFINE Q(i) == /\ scan[i] \in Scans /\ scan[i].hits = Cardinality(K(i))
                   /\ \A e \in Int : (\A k \in 1..i : errs[k] <= e) =>
                                        Passed(starts, after, scan[i].cursor, e)
           T == {i \in Nat : i <= n => Q(i)}
<1>8. 0 \in T
  <2>1. K(0) = {}
    OBVIOUS
  <2>2. Cardinality(K(0)) = 0
    BY <2>1, FS_EmptySet
  <2>3. \A e \in Int : Passed(starts, after, 1, e)
    BY DEF Passed
  <2> HIDE DEF K
  <2> QED
    BY <1>2, <1>5, <2>2, <2>3
<1>9. ASSUME NEW i \in Nat, i \in T PROVE i + 1 \in T
  <2> SUFFICES ASSUME i + 1 <= n PROVE Q(i + 1)
    OBVIOUS
  <2>1. i < n /\ i <= n /\ i + 1 \in 1..n
    BY <1>1
  <2>2. Q(i)
    BY <1>9, <2>1
  <2> DEFINE err == errs[i + 1]
             m == scan[i + 1]
  <2>3. err \in Int /\ \A k \in 1..i : errs[k] <= err
    <3>1. err \in Int
      BY <1>1, <2>1
    <3>2. ASSUME NEW k \in 1..i PROVE errs[k] <= errs[i + 1]
      <4>1. k \in 1..n /\ i + 1 \in 1..n /\ k <= i + 1
        BY <1>1, <2>1
      <4>2. k \in DOMAIN errs /\ i + 1 \in DOMAIN errs
        BY <1>1, <4>1
      <4> QED
        BY <4>1, <4>2 DEF Ascending
    <3> QED
      BY <3>1, <3>2
  <2>4. m = Match(starts, before, after, scan[i], err)
    BY <1>6, <2>1
  <2>5. Passed(starts, after, scan[i].cursor, err)
    BY <2>2, <2>3, Zenon
  <2> HIDE DEF err, m, K
  <2>6. /\ m \in Scans /\ Passed(starts, after, m.cursor, err)
        /\ m.hits = scan[i].hits + IF Hit(starts, before, after, err) THEN 1 ELSE 0
    <3>1. scan[i] \in Scans /\ err \in Int
      BY <2>2, <2>3
    <3> DEFINE s == scan[i]
    <3> HIDE DEF s
    <3>2. m = Match(starts, before, after, s, err) /\ Passed(starts, after, s.cursor, err)
      BY <2>4, <2>5 DEF s
    <3>3. s \in Scans
      BY <3>1 DEF s
    <3>4. OneStep(starts, before, after, s, err, Match(starts, before, after, s, err))
      BY <3>1, <3>2, <3>3, MatchIs
    <3> QED
      BY <3>2, <3>4 DEF OneStep, s
  <2>7. Hit(starts, before, after, err) <=> i + 1 \in P
    BY <2>1 DEF err
  <2> HIDE DEF P
  <2>8. Cardinality(K(i + 1)) = Cardinality(K(i)) + IF i + 1 \in P THEN 1 ELSE 0
    BY <1>7, OneMoreHit, Zenon DEF K
  <2>9. m.hits = Cardinality(K(i + 1))
    BY <2>2, <2>6, <2>7, <2>8
  <2>10. ASSUME NEW e \in Int, \A k \in 1..(i + 1) : errs[k] <= e
         PROVE  Passed(starts, after, m.cursor, e)
    <3>1. err <= e
      BY <2>10 DEF err
    <3>2. m.cursor \in 1..(Len(starts) + 1)
          /\ \A j \in 1..(m.cursor - 1) : starts[j] + after <= err
      BY <2>6 DEF Passed
    <3> DEFINE c == m.cursor
    <3> HIDE DEF c
    <3>3. ASSUME NEW j \in 1..(c - 1) PROVE starts[j] + after <= e
      <4>1. starts[j] \in Int /\ starts[j] + after <= err
        BY <3>2 DEF c
      <4> QED
        BY <2>3, <3>1, <4>1
    <3> QED
      BY <3>2, <3>3 DEF Passed, c
  <2> QED
    BY <2>6, <2>9, <2>10 DEF m
<1> HIDE DEF T
<1>10. n \in T
  BY <1>1, <1>8, <1>9, Induction, Zenon
<1>11. scan[n].hits = Cardinality(K(n))
  BY <1>1, <1>10 DEF T
<1>12. K(n) = {k \in 1..n : Hit(starts, before, after, errs[k])}
  OBVIOUS
<1> QED
  BY <1>11, <1>12, Zenon DEF Scanned, HitSet, scan, b, n

\* p is one to one, and takes the subset A of 1..n to the subset B of I.
Onto(p, n, I, A, B) ==
    /\ p \in Bijection(1..n, I) /\ A \subseteq 1..n /\ B \subseteq I
    /\ \A k \in 1..n : k \in A <=> p[k] \in B

\* A bijection that maps one subset onto another keeps their size.
LEMMA SameCount ==
    ASSUME NEW n \in Nat, NEW I, NEW p, NEW A, NEW B, Onto(p, n, I, A, B)
    PROVE  Cardinality(A) = Cardinality(B)
<1> DEFINE h == [k \in A |-> p[k]]
<1>1. /\ p \in [1..n -> I] /\ \A k, l \in 1..n : p[k] = p[l] => k = l
      /\ \A i \in I : \E k \in 1..n : p[k] = i
  BY DEF Onto, Bijection, Injection, Surjection, IsInjective
<1>2. h \in [A -> B] /\ \A k, l \in A : h[k] = h[l] => k = l
  BY <1>1 DEF Onto
<1>3. \A i \in B : \E k \in A : h[k] = i
  BY <1>1 DEF Onto
<1> HIDE DEF h
<1>4. h \in Bijection(A, B)
  BY <1>2, <1>3 DEF Bijection, Injection, Surjection, IsInjective
<1>5. ExistsBijection(A, B)
  BY <1>4 DEF ExistsBijection
<1>6. IsFiniteSet(1..n)
  BY FS_Interval
<1>7. IsFiniteSet(A)
  BY <1>6, FS_Subset, Zenon DEF Onto
<1> QED
  BY <1>5, <1>7, FS_Bijection

\* The scan over the sorted errors counts those that lie in the window of a start.
LEMMA CorrelateCounts ==
    ASSUME NEW starts \in Seq(Int), Ascending(starts),
           NEW errors \in Seq(Int), NEW before \in Nat, NEW after \in Nat
    PROVE  Correlate(starts, errors, before, after) =
              Cardinality(HitSet(starts, before, after, errors, DOMAIN errors))
<1> DEFINE I == DOMAIN errors
           n == Cardinality(I)
           errs == Sorted(errors, I)
           A == {k \in 1..n : Hit(starts, before, after, errs[k])}
           B == {i \in I : Hit(starts, before, after, errors[i])}
<1>1. I \subseteq Nat /\ (\A i \in I : errors[i] \in Int)
  OBVIOUS
<1>2. IsFiniteSet(I)
  <2>1. Len(errors) \in Nat /\ I = 1..Len(errors)
    OBVIOUS
  <2> QED
    BY <2>1, FS_Interval
<1> HIDE DEF I
<1>3. /\ n \in Nat /\ errs \in [1..n -> Int]
      /\ \A k, l \in 1..n : k <= l => errs[k] <= errs[l]
      /\ \E p \in Bijection(1..n, I) : \A k \in 1..n : errs[k] = errors[p[k]]
  <2>1. Instants(errors, I)
    BY <1>1, <1>2 DEF Instants
  <2>2. Sorts(Sorted(errors, I), errors, I, Cardinality(I))
    BY <2>1, SortedIs
  <2> QED
    BY <2>2 DEF Sorts
<1> HIDE DEF n, errs
<1>4. errs \in Seq(Int) /\ Len(errs) = n /\ Ascending(errs)
  <2>1. DOMAIN errs = 1..n
    BY <1>3
  <2>2. errs \in Seq(Int) /\ Len(errs) = n
    BY <1>3
  <2> QED
    BY <1>3, <2>1, <2>2 DEF Ascending
<1>5. Correlate(starts, errors, before, after) = Cardinality(A)
  <2>1. Correlate(starts, errors, before, after) = Scanned(starts, before, after, errs)
    BY DEF Correlate, Scanned, errs, I
  <2>2. Scanned(starts, before, after, errs) =
           Cardinality(HitSet(starts, before, after, errs, 1..Len(errs)))
    BY <1>4, ScanCounts
  <2> QED
    BY <1>4, <2>1, <2>2 DEF HitSet
<1>6. PICK p \in Bijection(1..n, I) : \A k \in 1..n : errs[k] = errors[p[k]]
  BY <1>3
<1>7. A \subseteq 1..n /\ B \subseteq I /\ \A k \in 1..n : k \in A <=> p[k] \in B
  <2>1. p \in [1..n -> I]
    BY DEF Bijection, Injection
  <2> QED
    BY <1>6, <2>1
<1> HIDE DEF A, B
<1>8. Cardinality(A) = Cardinality(B)
  <2>1. n \in Nat /\ Onto(p, n, I, A, B)
    BY <1>3, <1>7 DEF Onto
  <2> QED
    BY <2>1, SameCount
<1> QED
  BY <1>5, <1>8 DEF HitSet, B, I

\* The instants of the events of this kind.
TimesOf(times, events, kind) ==
    /\ times \in Seq(Int) /\ Ascending(times)
    /\ \A before, after, err \in Int :
          Hit(times, before, after, err) <=>
          \E j \in DOMAIN events :
             /\ events[j].kind = kind
             /\ err \in (events[j].at - before)..(events[j].at + after - 1)

\* The instants of the events of one kind are ascending, and an instant lies in
\* the window of one of them exactly if it lies in that of such an event.
LEMMA TimesAre ==
    ASSUME NEW events, NEW m \in Nat, DOMAIN events = 1..m,
           \A j \in 1..m : events[j].at \in Int, NEW kind
    PROVE  TimesOf(Times(events, kind), events, kind)
<1> DEFINE at == [i \in DOMAIN events |-> events[i].at]
           I == {i \in DOMAIN events : events[i].kind = kind}
           n == Cardinality(I)
           times == Sorted(at, I)
<1>1. Times(events, kind) = times
  BY DEF Times
<1>2. I \subseteq Nat /\ I \subseteq 1..m /\ \A i \in I : at[i] \in Int
  OBVIOUS
<1>3. IsFiniteSet(I)
  <2>1. IsFiniteSet(1..m)
    BY FS_Interval
  <2> QED
    BY <1>2, <2>1, FS_Subset
<1>3a. \A i \in I : at[i] = events[i].at
  OBVIOUS
<1>3b. \A i \in DOMAIN events : i \in I <=> events[i].kind = kind
  OBVIOUS
<1> HIDE DEF I, at
<1>4. /\ n \in Nat /\ times \in [1..n -> Int]
      /\ \A k, l \in 1..n : k <= l => times[k] <= times[l]
      /\ \E p \in Bijection(1..n, I) : \A k \in 1..n : times[k] = at[p[k]]
  <2>1. Instants(at, I)
    BY <1>2, <1>3 DEF Instants
  <2>2. Sorts(Sorted(at, I), at, I, Cardinality(I))
    BY <2>1, SortedIs
  <2> QED
    BY <2>2 DEF Sorts
<1> HIDE DEF n, times
<1>5. times \in Seq(Int) /\ DOMAIN times = 1..n
  BY <1>4
<1>6. Ascending(times)
  BY <1>4, <1>5 DEF Ascending
<1>7. PICK p \in Bijection(1..n, I) : \A k \in 1..n : times[k] = at[p[k]]
  BY <1>4
<1>8. p \in [1..n -> I] /\ \A i \in I : \E k \in 1..n : p[k] = i
  BY DEF Bijection, Injection, Surjection
<1>9. /\ \A k \in 1..n : p[k] \in I /\ times[k] = events[p[k]].at
      /\ \A i \in I : \E k \in 1..n : times[k] = events[i].at
  BY <1>3a, <1>7, <1>8
<1>10. ASSUME NEW before \in Int, NEW after \in Int, NEW err \in Int
       PROVE  Hit(times, before, after, err) <=>
              \E j \in DOMAIN events :
                 /\ events[j].kind = kind
                 /\ err \in (events[j].at - before)..(events[j].at + after - 1)
  <2>1. ASSUME Hit(times, before, after, err)
        PROVE  \E j \in DOMAIN events :
                  /\ events[j].kind = kind
                  /\ err \in (events[j].at - before)..(events[j].at + after - 1)
    <3>1. PICK k \in 1..n : err \in (times[k] - before)..(times[k] + after - 1)
      BY <1>5, <2>1 DEF Hit
    <3>2. p[k] \in DOMAIN events /\ events[p[k]].kind = kind /\ times[k] = events[p[k]].at
      BY <1>2, <1>3b, <1>9, Zenon
    <3> QED
      BY <3>1, <3>2
  <2>2. ASSUME NEW j \in DOMAIN events, events[j].kind = kind,
               err \in (events[j].at - before)..(events[j].at + after - 1)
        PROVE  Hit(times, before, after, err)
    <3>1. PICK k \in 1..n : times[k] = events[j].at
      BY <1>3b, <1>9, <2>2
    <3> QED
      BY <1>5, <2>2, <3>1 DEF Hit
  <2> QED
    BY <2>1, <2>2
<1> QED
  BY <1>1, <1>5, <1>6, <1>10 DEF TimesOf

-----------------------------------------------------------------------------
(* The tracker's events.                                                    *)

\* Listed lists a finite set without repetition, so every element is in it once.
LEMMA ListedOnce ==
    ASSUME NEW S, IsFiniteSet(S)
    PROVE  /\ Listed(S) \in Seq(S)
           /\ \A x \in S : \E i \in DOMAIN Listed(S) : Listed(S)[i] = x
           /\ \A i, j \in DOMAIN Listed(S) : Listed(S)[i] = Listed(S)[j] => i = j
<1> DEFINE n == Cardinality(S)
<1>1. n \in Nat /\ ExistsBijection(1..n, S)
  BY FS_CardinalityType
<1>2. PICK f \in [1..n -> S] : IsInjective(f)
  BY <1>1 DEF ExistsBijection, Bijection, Injection
<1>3. Listed(S) \in [1..n -> S] /\ IsInjective(Listed(S))
  BY <1>2 DEF Listed
<1>4. IsFiniteSet(1..n) /\ Cardinality(1..n) = n
  BY <1>1, FS_Interval
<1>5. Listed(S) \in Surjection(1..n, S)
  BY <1>3, <1>4, FS_Injection, Zenon DEF Injection
<1>6. Listed(S) \in Seq(S)
  BY <1>1, <1>3, SeqDef
<1> QED
  BY <1>3, <1>5, <1>6 DEF Surjection, IsInjective

Events == [kind : {"Ready", "Removed"}, ip : IPs, at : Nat]

\* The latest of the first n events of an address is a Ready one.
LastReady(evs, n, ip) ==
    \E i \in 1..n :
       /\ evs[i].ip = ip /\ evs[i].kind = "Ready"
       /\ \A j \in (i + 1)..n : evs[j].ip # ip

\* The events of an address alternate, and the last says whether it is ready.
Explains(evs, ready) ==
    /\ evs \in Seq(Events) /\ ready \subseteq IPs
    /\ \A i \in DOMAIN evs :
          evs[i].kind = IF LastReady(evs, i - 1, evs[i].ip) THEN "Removed" ELSE "Ready"
    /\ \A ip \in IPs : ip \in ready <=> LastReady(evs, Len(evs), ip)

\* An event has an address, a kind and an instant.
LEMMA EventTyped ==
    ASSUME NEW evs \in Seq(Events), NEW i \in DOMAIN evs
    PROVE  evs[i].ip \in IPs /\ evs[i].at \in Nat /\ evs[i].kind \in {"Ready", "Removed"}
<1>1. evs[i] \in Events
  OBVIOUS
<1> QED
  BY <1>1 DEF Events

\* Events of other addresses say nothing of this one.
LEMMA OthersSkipped ==
    ASSUME NEW evs, NEW ip, NEW a \in Nat, NEW b \in Nat, a <= b,
           \A j \in (a + 1)..b : evs[j].ip # ip
    PROVE  LastReady(evs, b, ip) <=> LastReady(evs, a, ip)
<1>1. ASSUME LastReady(evs, b, ip) PROVE LastReady(evs, a, ip)
  <2>1. PICK i \in 1..b : /\ evs[i].ip = ip /\ evs[i].kind = "Ready"
                          /\ \A j \in (i + 1)..b : evs[j].ip # ip
    BY <1>1 DEF LastReady
  <2>2. i \in 1..a
    BY <2>1
  <2>3. \A j \in (i + 1)..a : evs[j].ip # ip
    BY <2>1
  <2> QED
    BY <2>1, <2>2, <2>3 DEF LastReady
<1>2. ASSUME LastReady(evs, a, ip) PROVE LastReady(evs, b, ip)
  <2>1. PICK i \in 1..a : /\ evs[i].ip = ip /\ evs[i].kind = "Ready"
                          /\ \A j \in (i + 1)..a : evs[j].ip # ip
    BY <1>2 DEF LastReady
  <2>2. i \in 1..b
    OBVIOUS
  <2>3. \A j \in (i + 1)..b : evs[j].ip # ip
    <3> SUFFICES ASSUME NEW j \in (i + 1)..b PROVE evs[j].ip # ip
      OBVIOUS
    <3>1. j \in (i + 1)..a \/ j \in (a + 1)..b
      OBVIOUS
    <3> QED
      BY <2>1, <3>1
  <2> QED
    BY <2>1, <2>2, <2>3 DEF LastReady
<1> QED
  BY <1>1, <1>2

\* The last event of an address decides.
LEMMA LastDecides ==
    ASSUME NEW evs, NEW ip, NEW b \in Nat, NEW c \in 1..b, evs[c].ip = ip,
           \A j \in (c + 1)..b : evs[j].ip # ip
    PROVE  LastReady(evs, b, ip) <=> evs[c].kind = "Ready"
<1>1. ASSUME LastReady(evs, b, ip) PROVE evs[c].kind = "Ready"
  <2>1. PICK i \in 1..b : /\ evs[i].ip = ip /\ evs[i].kind = "Ready"
                          /\ \A j \in (i + 1)..b : evs[j].ip # ip
    BY <1>1 DEF LastReady
  <2>2. i = c
    <3>1. ~(i < c) /\ ~(c < i)
      BY <2>1
    <3> QED
      BY <3>1
  <2> QED
    BY <2>1, <2>2
<1>2. ASSUME evs[c].kind = "Ready" PROVE LastReady(evs, b, ip)
  BY <1>2 DEF LastReady
<1> QED
  BY <1>1, <1>2

\* Only the first n events matter for what they say.
LEMMA SamePrefix ==
    ASSUME NEW evs, NEW more, NEW ip, NEW n \in Nat, \A i \in 1..n : evs[i] = more[i]
    PROVE  LastReady(evs, n, ip) <=> LastReady(more, n, ip)
<1>1. \A i \in 1..n : \A j \in (i + 1)..n : j \in 1..n
  OBVIOUS
<1> QED
  BY <1>1 DEF LastReady

\* One event for each address that is ready only before or only after.
Turns(tail, before, after) ==
    /\ tail \in Seq(Events) /\ after \subseteq IPs
    /\ \A i, j \in DOMAIN tail : tail[i].ip = tail[j].ip => i = j
    /\ \A i \in DOMAIN tail :
          tail[i].kind = IF tail[i].ip \in before THEN "Removed" ELSE "Ready"
    /\ \A ip \in IPs : (ip \in after <=> ip \in before) <=>
                           \A i \in DOMAIN tail : tail[i].ip # ip

\* Events of distinct addresses, each the opposite of what the address was, explain
\* the addresses that are ready after them.
LEMMA MoreExplained ==
    ASSUME NEW evs, NEW before, Explains(evs, before),
           NEW tail, NEW after, Turns(tail, before, after)
    PROVE  Explains(evs \o tail, after)
<1> /\ tail \in Seq(Events) /\ after \subseteq IPs
    /\ \A i, j \in DOMAIN tail : tail[i].ip = tail[j].ip => i = j
    /\ \A i \in DOMAIN tail :
          tail[i].kind = IF tail[i].ip \in before THEN "Removed" ELSE "Ready"
    /\ \A ip \in IPs : (ip \in after <=> ip \in before) <=>
                           \A i \in DOMAIN tail : tail[i].ip # ip
  BY DEF Turns
<1> DEFINE n == Len(evs)
           m == Len(tail)
           all == evs \o tail
<1>1. evs \in Seq(Events) /\ n \in Nat /\ m \in Nat /\ DOMAIN evs = 1..n /\ DOMAIN tail = 1..m
  BY DEF Explains
<1>2. /\ all \in Seq(Events) /\ Len(all) = n + m /\ DOMAIN all = 1..(n + m)
      /\ \A i \in 1..n : all[i] = evs[i]
      /\ \A j \in 1..m : all[n + j] = tail[j]
  BY <1>1
<1>5. \A j \in 1..m : tail[j].ip \in IPs /\ tail[j].kind \in {"Ready", "Removed"}
  BY <1>1, EventTyped
<1> HIDE DEF all, n, m
<1>6. ASSUME NEW ip PROVE LastReady(evs, n, ip) <=> LastReady(all, n, ip)
  BY <1>1, <1>2, SamePrefix
<1>7. ASSUME NEW ip \in IPs PROVE ip \in before <=> LastReady(all, n, ip)
  BY <1>6 DEF Explains, n
<1> DEFINE Turn(i) == all[i].kind = IF LastReady(all, i - 1, all[i].ip) THEN "Removed"
                                    ELSE "Ready"
<1>8. ASSUME NEW i \in 1..n PROVE Turn(i)
  <2>1. i - 1 \in Nat /\ \A k \in 1..(i - 1) : evs[k] = all[k]
    BY <1>1, <1>2
  <2>2. LastReady(evs, i - 1, evs[i].ip) <=> LastReady(all, i - 1, evs[i].ip)
    BY <2>1, SamePrefix
  <2>3. evs[i].kind = IF LastReady(evs, i - 1, evs[i].ip) THEN "Removed" ELSE "Ready"
    BY <1>1 DEF Explains
  <2> QED
    BY <1>2, <2>2, <2>3
<1>9. ASSUME NEW k \in (n + 1)..(n + m) PROVE Turn(k)
  <2> DEFINE ip == all[k].ip
  <2>1. k - n \in 1..m /\ k = n + (k - n) /\ k - 1 \in Nat /\ n <= k - 1
    BY <1>1
  <2>2. all[k] = tail[k - n]
    BY <1>2, <2>1
  <2>3. ASSUME NEW l \in (n + 1)..(k - 1) PROVE all[l].ip # ip
    <3>1. l - n \in 1..m /\ l = n + (l - n) /\ l - n # k - n
      BY <1>1
    <3>2. all[l] = tail[l - n]
      BY <1>2, <3>1
    <3> QED
      BY <1>1, <2>1, <2>2, <3>1, <3>2
  <2>4. /\ ip \in IPs
        /\ all[k].kind = IF ip \in before THEN "Removed" ELSE "Ready"
    BY <1>1, <1>5, <2>1, <2>2
  <2> HIDE DEF ip
  <2>5. LastReady(all, k - 1, ip) <=> LastReady(all, n, ip)
    BY <1>1, <2>1, <2>3, OthersSkipped
  <2>6. ip \in before <=> LastReady(all, n, ip)
    BY <1>7, <2>4
  <2> QED
    BY <2>4, <2>5, <2>6 DEF ip
<1>10. ASSUME NEW ip \in IPs PROVE ip \in after <=> LastReady(all, n + m, ip)
  <2>1. CASE \A i \in 1..m : tail[i].ip # ip
    <3>1. ASSUME NEW k \in (n + 1)..(n + m) PROVE all[k].ip # ip
      <4>1. k - n \in 1..m /\ k = n + (k - n)
        BY <1>1
      <4>2. all[k] = tail[k - n]
        BY <1>2, <4>1
      <4> QED
        BY <2>1, <4>1, <4>2
    <3>2. LastReady(all, n + m, ip) <=> LastReady(all, n, ip)
      BY <1>1, <3>1, OthersSkipped
    <3>3. ip \in after <=> ip \in before
      BY <1>1, <2>1
    <3> QED
      BY <1>7, <3>2, <3>3
  <2>2. CASE \E i \in 1..m : tail[i].ip = ip
    <3>1. PICK c \in 1..m : tail[c].ip = ip
      BY <2>2
    <3>2. ASSUME NEW k \in (n + c + 1)..(n + m) PROVE all[k].ip # ip
      <4>1. k - n \in 1..m /\ k = n + (k - n) /\ k - n # c
        BY <1>1
      <4>2. all[k] = tail[k - n]
        BY <1>2, <4>1
      <4> QED
        BY <1>1, <3>1, <4>1, <4>2, Zenon
    <3>3. n + c \in 1..(n + m) /\ n + m \in Nat /\ all[n + c].ip = ip
          /\ all[n + c].kind = tail[c].kind
      BY <1>1, <1>2, <3>1
    <3>4. LastReady(all, n + m, ip) <=> all[n + c].kind = "Ready"
      BY <3>2, <3>3, LastDecides
    <3>5. tail[c].kind = IF ip \in before THEN "Removed" ELSE "Ready"
      BY <1>1, <3>1
    <3>6. ~(ip \in after <=> ip \in before)
      BY <1>1, <3>1
    <3> QED
      BY <3>3, <3>4, <3>5, <3>6
  <2> QED
    BY <2>1, <2>2
<1>11. \A i \in DOMAIN all : Turn(i)
  <2> HIDE DEF Turn
  <2>1. \A i \in 1..(n + m) : i \in 1..n \/ i \in (n + 1)..(n + m)
    BY <1>1
  <2> QED
    BY <1>2, <1>8, <1>9, <2>1
<1>12. \A ip \in IPs : ip \in after <=> LastReady(all, Len(all), ip)
  BY <1>2, <1>10
<1>13. Explains(all, after)
  BY <1>2, <1>11, <1>12 DEF Explains
<1> QED
  BY <1>13 DEF all

\* One event of this kind for each of the addresses.
OneEach(L, kind, ips) ==
    /\ L \in Seq(Events)
    /\ \A i \in DOMAIN L : L[i].kind = kind /\ L[i].ip \in ips
    /\ \A i, j \in DOMAIN L : L[i].ip = L[j].ip => i = j
    /\ \A ip \in ips : \E i \in DOMAIN L : L[i].ip = ip

\* The events of one kind, listed: one for each address.
LEMMA EventsListed ==
    ASSUME NEW kind \in {"Ready", "Removed"}, NEW ips, ips \subseteq IPs, IsFiniteSet(IPs),
           NEW at \in Nat
    PROVE  OneEach(Listed(EventsOf(kind, ips, at)), kind, ips)
<1> DEFINE E(ip) == [kind |-> kind, ip |-> ip, at |-> at]
           S == EventsOf(kind, ips, at)
           L == Listed(S)
<1>1. S = {E(ip) : ip \in ips}
  BY DEF EventsOf
<1>2. IsFiniteSet(S)
  <2>1. IsFiniteSet(ips)
    BY FS_Subset
  <2> QED
    <3> DEFINE f == [ip \in ips |-> E(ip)]
    <3>1. f \in [ips -> S] /\ \A e \in S : \E ip \in ips : f[ip] = e
      BY <1>1
    <3> HIDE DEF f
    <3>2. f \in Surjection(ips, S)
      BY <3>1 DEF Surjection
    <3> QED
      BY <2>1, <3>2, FS_Surjection DEF ExistsSurjection
<1>3. \A ip \in ips : E(ip) \in Events /\ E(ip).kind = kind /\ E(ip).ip = ip
  BY DEF Events
<1> HIDE DEF E, S
<1>4. /\ L \in Seq(S)
      /\ \A x \in S : \E i \in DOMAIN L : L[i] = x
      /\ \A i, j \in DOMAIN L : L[i] = L[j] => i = j
  BY <1>2, ListedOnce
<1> HIDE DEF L
<1>5. S \subseteq Events
  BY <1>1, <1>3
<1>6. L \in Seq(Events)
  BY <1>4, <1>5
<1>7. \A i \in DOMAIN L : \E ip \in ips : L[i] = E(ip)
  BY <1>1, <1>4
<1>8. \A i \in DOMAIN L : L[i].kind = kind /\ L[i].ip \in ips /\ L[i] = E(L[i].ip)
  BY <1>3, <1>7
<1>9. \A i, j \in DOMAIN L : L[i].ip = L[j].ip => i = j
  BY <1>4, <1>8
<1>10. \A ip \in ips : \E i \in DOMAIN L : L[i].ip = ip
  BY <1>1, <1>3, <1>4
<1> QED
  BY <1>6, <1>8, <1>9, <1>10 DEF OneEach, L, S

\* The events of an applied slice explain the addresses that are ready after it.
LEMMA AppliedExplained ==
    ASSUME IsFiniteSet(IPs), NEW evs, NEW before, NEW after, NEW at \in Nat,
           Explains(evs, before.ready), after.ready \subseteq IPs
    PROVE  Explains(evs \o applyEvents(before, after, at), after.ready)
<1> DEFINE b == before.ready
           a == after.ready
           A == Listed(EventsOf("Ready", a \ b, at))
           R == Listed(EventsOf("Removed", b \ a, at))
           m == Len(A)
           n == Len(R)
           tail == A \o R
<1>1. applyEvents(before, after, at) = tail
  BY DEF applyEvents
<1>2. a \ b \subseteq IPs /\ b \ a \subseteq IPs
  BY DEF Explains
<1> HIDE DEF a, b
<1>3. /\ A \in Seq(Events)
      /\ \A i \in DOMAIN A : A[i].kind = "Ready" /\ A[i].ip \in a \ b
      /\ \A i, j \in DOMAIN A : A[i].ip = A[j].ip => i = j
      /\ \A ip \in a \ b : \E i \in DOMAIN A : A[i].ip = ip
  <2>1. OneEach(Listed(EventsOf("Ready", a \ b, at)), "Ready", a \ b)
    BY <1>2, EventsListed
  <2> QED
    BY <2>1, Zenon DEF OneEach
<1>4. /\ R \in Seq(Events)
      /\ \A i \in DOMAIN R : R[i].kind = "Removed" /\ R[i].ip \in b \ a
      /\ \A i, j \in DOMAIN R : R[i].ip = R[j].ip => i = j
      /\ \A ip \in b \ a : \E i \in DOMAIN R : R[i].ip = ip
  <2>1. OneEach(Listed(EventsOf("Removed", b \ a, at)), "Removed", b \ a)
    BY <1>2, EventsListed
  <2> QED
    BY <2>1, Zenon DEF OneEach
<1> HIDE DEF A, R
<1>5. m \in Nat /\ n \in Nat /\ DOMAIN A = 1..m /\ DOMAIN R = 1..n
  BY <1>3, <1>4
<1>6. /\ tail \in Seq(Events) /\ DOMAIN tail = 1..(m + n)
      /\ \A i \in 1..m : tail[i] = A[i]
      /\ \A j \in 1..n : tail[m + j] = R[j]
  BY <1>3, <1>4, <1>5
<1> HIDE DEF m, n, tail
<1>7. \A i \in 1..(m + n) : i \in 1..m \/ (i - m \in 1..n /\ m + (i - m) = i)
  BY <1>5
<1>8. \A i \in 1..(m + n) : i \notin 1..m => tail[i] = R[i - m] /\ i - m \in 1..n
  BY <1>6, <1>7
<1>9. \A i \in DOMAIN tail :
         \/ i \in 1..m /\ tail[i].kind = "Ready" /\ tail[i].ip \in a \ b
         \/ i \notin 1..m /\ tail[i].kind = "Removed" /\ tail[i].ip \in b \ a
  <2> SUFFICES ASSUME NEW i \in 1..(m + n)
               PROVE  \/ i \in 1..m /\ tail[i].kind = "Ready" /\ tail[i].ip \in a \ b
                      \/ i \notin 1..m /\ tail[i].kind = "Removed" /\ tail[i].ip \in b \ a
    BY <1>6
  <2>1. CASE i \in 1..m
    BY <1>3, <1>5, <1>6, <2>1
  <2>2. CASE i \notin 1..m
    <3>1. tail[i] = R[i - m] /\ i - m \in DOMAIN R
      BY <1>5, <1>8, <2>2
    <3> QED
      BY <1>4, <2>2, <3>1
  <2> QED
    BY <2>1, <2>2
<1>10. ASSUME NEW i \in DOMAIN tail, NEW j \in DOMAIN tail, tail[i].ip = tail[j].ip
       PROVE  i = j
  <2>1. i \in 1..m <=> j \in 1..m
    BY <1>9, <1>10
  <2>2. CASE i \in 1..m
    BY <1>3, <1>5, <1>6, <1>10, <2>1, <2>2
  <2>3. CASE i \notin 1..m
    <3>1. R[i - m].ip = R[j - m].ip /\ i - m \in 1..n /\ j - m \in 1..n
      BY <1>6, <1>8, <1>10, <2>1, <2>3
    <3>2. i - m = j - m
      BY <1>4, <1>5, <3>1
    <3> QED
      BY <1>5, <1>6, <3>2
  <2> QED
    BY <2>2, <2>3
<1>11. \A i \in DOMAIN tail :
          tail[i].kind = IF tail[i].ip \in b THEN "Removed" ELSE "Ready"
  BY <1>9
<1>12. ASSUME NEW ip \in IPs
       PROVE  (ip \in a <=> ip \in b) <=> \A i \in DOMAIN tail : tail[i].ip # ip
  <2>1. CASE ip \in a <=> ip \in b
    BY <1>9, <2>1
  <2>2. CASE ip \in a \ b
    <3>1. PICK i \in 1..m : A[i].ip = ip
      BY <1>3, <1>5, <2>2
    <3>2. i \in 1..(m + n) /\ tail[i].ip = ip
      BY <1>5, <1>6, <3>1
    <3> QED
      BY <1>6, <2>2, <3>2
  <2>3. CASE ip \in b \ a
    <3>1. PICK j \in 1..n : R[j].ip = ip
      BY <1>4, <1>5, <2>3
    <3>2. m + j \in 1..(m + n) /\ tail[m + j].ip = ip
      BY <1>5, <1>6, <3>1
    <3> QED
      BY <1>6, <2>3, <3>2
  <2> QED
    BY <2>1, <2>2, <2>3
<1>13. Explains(evs, b) /\ a \subseteq IPs
  BY DEF a, b
<1>14. Explains(evs \o tail, a)
  <2>1. Turns(tail, b, a)
    BY <1>6, <1>10, <1>11, <1>12, <1>13 DEF Turns
  <2> QED
    BY <1>13, <2>1, MoreExplained
<1> QED
  BY <1>1, <1>14 DEF a

-----------------------------------------------------------------------------
(* The correlation of events and errors.                                    *)

\* The errors that lie in the window of an event of this kind.
InWindows(evs, errs, kind, before, after) ==
    {i \in DOMAIN errs : \E j \in DOMAIN evs :
       /\ evs[j].kind = kind
       /\ errs[i] \in (evs[j].at - before)..(evs[j].at + after - 1)}

\* The single forward scan counts every failed request that lies in the window of
\* some endpoint event of its kind, and each only once, however the windows overlap
\* and in whatever order events and errors were recorded (leakage.Correlate,
\* drain.Correlate).
THEOREM CorrelationCounts ==
    ASSUME NEW evs \in Seq(Events), NEW errs \in Seq(Nat), NEW kind,
           NEW before \in Nat, NEW after \in Nat
    PROVE  Correlate(Times(evs, kind), errs, before, after) =
              Cardinality(InWindows(evs, errs, kind, before, after))
<1> DEFINE times == Times(evs, kind)
<1>1. Len(evs) \in Nat /\ DOMAIN evs = 1..Len(evs) /\ \A j \in 1..Len(evs) : evs[j].at \in Int
  BY EventTyped
<1>2. TimesOf(times, evs, kind)
  BY <1>1, TimesAre
<1> HIDE DEF times
<1>3. errs \in Seq(Int) /\ \A i \in DOMAIN errs : errs[i] \in Int
  OBVIOUS
<1>4. times \in Seq(Int) /\ Ascending(times)
  BY <1>2 DEF TimesOf
<1>5. Correlate(times, errs, before, after) =
         Cardinality(HitSet(times, before, after, errs, DOMAIN errs))
  BY <1>3, <1>4, CorrelateCounts
<1>6. before \in Int /\ after \in Int
  OBVIOUS
<1>7. ASSUME NEW i \in DOMAIN errs
      PROVE  Hit(times, before, after, errs[i]) <=>
             \E j \in DOMAIN evs :
                /\ evs[j].kind = kind
                /\ errs[i] \in (evs[j].at - before)..(evs[j].at + after - 1)
  BY <1>2, <1>3, <1>6, Zenon DEF TimesOf
<1>8. HitSet(times, before, after, errs, DOMAIN errs) =
         InWindows(evs, errs, kind, before, after)
  BY <1>7 DEF HitSet, InWindows
<1> QED
  BY <1>5, <1>8 DEF times
=============================================================================
