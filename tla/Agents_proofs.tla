----------------------------- MODULE Agents_proofs -----------------------------
(***************************************************************************)
(* Where the report and the agents judge the same run, for any number of   *)
(* results and any thresholds in the order the code has them: 10, 50 and   *)
(* 100 responses 429, and 5 and 10 server errors; and why the report's     *)
(* percentile and the agent's see the same tail.                           *)
(***************************************************************************)
EXTENDS Agents, FiniteSetTheorems, TLAPS

Typed == rs \in Seq(Outcomes)

\* Results come one at a time.
LEMMA AlwaysTyped == AgentsSpec => []Typed
<1>1. AgentsInit => Typed
  BY DEF AgentsInit, Typed
<1>2. Typed /\ [AgentsNext]_rs => Typed'
  BY DEF AgentsNext, AddResult, Typed
<1>3. QED
  BY <1>1, <1>2, PTL DEF AgentsSpec

-----------------------------------------------------------------------------
(* Counting.                                                               *)

\* Some of finitely many positions are a natural number of them.
LEMMA Counted ==
  ASSUME NEW n \in Nat, NEW some \in SUBSET (1..n)
  PROVE  Cardinality(some) \in Nat
<1>1. IsFiniteSet(1..n)
  BY FS_Interval
<1>2. QED
  BY <1>1, FS_Subset, FS_CardinalityType

\* A status is answered a natural number of times.
LEMMA StatusCount ==
  ASSUME Typed, NEW code
  PROVE  Status(Stats, code) \in Nat
<1> DEFINE count == CountBy("status")
<1>1. Stats.byStatus = count
  BY DEF Stats
<1>2. Len(rs) \in Nat /\ DOMAIN rs = 1..Len(rs)
  BY DEF Typed
<1>3. ASSUME NEW v \in DOMAIN count PROVE count[v] \in Nat
  <2>1. count[v] = Cardinality({i \in DOMAIN rs : rs[i]["status"] = v})
    BY DEF CountBy
  <2>2. {i \in DOMAIN rs : rs[i]["status"] = v} \in SUBSET (1..Len(rs))
    BY <1>2
  <2>3. QED
    BY <1>2, <2>1, <2>2, Counted
<1>4. QED
  BY <1>1, <1>3 DEF Status

-----------------------------------------------------------------------------
(* Sorting.  The k-th latency exists by least counterexample: of the values  *)
(* with k positions up to them the least has fewer than k below it.          *)

\* A set of natural numbers has a least member.
LEMMA Least ==
  ASSUME NEW V \in SUBSET Nat, V # {}
  PROVE  \E v \in V : \A u \in V : v <= u
<1>1. IsWellFoundedOn({ss \in Nat \X Nat : ss[1] < ss[2]}, Nat)
  BY NatLessThanWellFounded DEF OpToRel
<1>2. PICK v \in V : \A u \in V : <<u, v>> \notin {ss \in Nat \X Nat : ss[1] < ss[2]}
  BY <1>1, WFMin
<1>3. \A u \in V : <<u, v>> \in Nat \X Nat /\ u \in Nat /\ v \in Nat
  OBVIOUS
<1>4. \A u \in V : ~(u < v)
  BY <1>2, <1>3
<1>5. QED
  BY <1>3, <1>4

\* Some of the subsets of a finite set contain no other of them.
LEMMA Minimal ==
  ASSUME NEW S, IsFiniteSet(S), NEW some \in SUBSET SUBSET S, some # {}
  PROVE  \E X \in some : \A Y \in some : Y \subseteq X => Y = X
<1>1. IsWellFoundedOn(StrictSubsetOrdering(S), SUBSET S)
  BY FS_StrictSubsetOrderingWellFounded, FS_FiniteSubsetsOfFinite
<1>2. PICK X \in some : \A Y \in some : <<Y, X>> \notin StrictSubsetOrdering(S)
  BY <1>1, WFMin
<1>3. QED
  BY <1>2 DEF StrictSubsetOrdering

\* Of finitely many things with a number one has the greatest.
LEMMA Greatest ==
  ASSUME NEW S, IsFiniteSet(S), S # {}, NEW f \in [S -> Nat]
  PROVE  \E x \in S : \A y \in S : f[y] <= f[x]
<1> DEFINE Above(x) == {y \in S : f[y] > f[x]}
           above == {Above(x) : x \in S}
<1>1. PICK x \in S : \A y \in S : Above(y) \subseteq Above(x) => Above(y) = Above(x)
  <2>0. \A x \in S : Above(x) \in SUBSET S
    OBVIOUS
  <2> HIDE DEF Above
  <2>1. above \in SUBSET SUBSET S /\ above # {}
    BY <2>0
  <2>2. \E X \in above : \A Y \in above : Y \subseteq X => Y = X
    <3> HIDE DEF above
    <3>1. QED
      BY <2>1, Minimal
  <2>3. QED
    BY <2>2
<1>2. ASSUME NEW y \in S, f[y] > f[x] PROVE FALSE
  <2>1. \A z \in S : f[z] \in Nat
    OBVIOUS
  <2>2. Above(y) \subseteq Above(x) /\ y \in Above(x) /\ y \notin Above(y)
    BY <1>2, <2>1
  <2>3. QED
    BY <1>1, <2>2
<1>3. QED
  BY <1>2

\* The positions below a value, up to it and from it on.
Below(chosen, v) == {i \in chosen : rs[i].latency < v}
UpTo(chosen, v) == {i \in chosen : rs[i].latency <= v}
From(chosen, v) == {i \in chosen : rs[i].latency >= v}

\* Every result has a latency, and the good ones are finitely many.
LEMMA Measured ==
  ASSUME Typed
  PROVE  /\ \A i \in DOMAIN rs : rs[i].latency \in Nat
         /\ IsFiniteSet(DOMAIN rs)
         /\ Good \in SUBSET DOMAIN rs
<1>1. \A r \in Outcomes : r.latency \in Nat
  BY ReportAssumption DEF Outcomes, OK, Failed, Throttled
<1>2. Len(rs) \in Nat /\ DOMAIN rs = 1..Len(rs) /\ \A i \in DOMAIN rs : rs[i] \in Outcomes
  BY DEF Typed
<1>3. IsFiniteSet(1..Len(rs))
  BY <1>2, FS_Interval
<1>4. QED
  BY <1>1, <1>2, <1>3 DEF Good

\* The positions below, up to and from a value are counted, and split the lot.
LEMMA Split ==
  ASSUME Typed, NEW chosen \in SUBSET DOMAIN rs, NEW v \in Int
  PROVE  /\ IsFiniteSet(chosen) /\ Cardinality(chosen) \in Nat
         /\ Cardinality(Below(chosen, v)) \in Nat
         /\ Cardinality(UpTo(chosen, v)) \in Nat
         /\ Cardinality(From(chosen, v)) = Cardinality(chosen) - Cardinality(Below(chosen, v))
         /\ Cardinality(chosen \ UpTo(chosen, v)) = Cardinality(chosen) - Cardinality(UpTo(chosen, v))
<1>1. IsFiniteSet(chosen)
  BY Measured, FS_Subset
<1>2. Below(chosen, v) \subseteq chosen /\ UpTo(chosen, v) \subseteq chosen
  BY DEF Below, UpTo
<1>3. /\ chosen \intersect Below(chosen, v) = Below(chosen, v)
      /\ chosen \intersect UpTo(chosen, v) = UpTo(chosen, v)
  BY <1>2
<1>4. From(chosen, v) = chosen \ Below(chosen, v)
  <2>1. \A i \in chosen : rs[i].latency \in Nat
    BY Measured
  <2>2. QED
    BY <2>1 DEF From, Below
<1>5. /\ IsFiniteSet(Below(chosen, v)) /\ IsFiniteSet(UpTo(chosen, v))
  BY <1>1, <1>2, FS_Subset
<1>6. /\ Cardinality(chosen) \in Nat /\ Cardinality(Below(chosen, v)) \in Nat
      /\ Cardinality(UpTo(chosen, v)) \in Nat
  BY <1>1, <1>5, FS_CardinalityType
<1>7. /\ Cardinality(chosen \ Below(chosen, v))
           = Cardinality(chosen) - Cardinality(chosen \intersect Below(chosen, v))
      /\ Cardinality(chosen \ UpTo(chosen, v))
           = Cardinality(chosen) - Cardinality(chosen \intersect UpTo(chosen, v))
  BY <1>1, FS_Difference
<1>8. QED
  BY <1>1, <1>3, <1>4, <1>6, <1>7

\* Positions that are all among others are no more of them.
LEMMA NoMore ==
  ASSUME Typed, NEW A, NEW B \in SUBSET DOMAIN rs, A \subseteq B
  PROVE  /\ Cardinality(A) \in Nat /\ Cardinality(B) \in Nat
         /\ Cardinality(A) <= Cardinality(B)
<1>1. IsFiniteSet(B)
  BY Measured, FS_Subset
<1>2. QED
  BY <1>1, FS_Subset, FS_CardinalityType

\* Of some results one is the slowest.
LEMMA Slowest ==
  ASSUME Typed, NEW chosen \in SUBSET DOMAIN rs, chosen # {}
  PROVE  \E i \in chosen : \A j \in chosen : rs[j].latency <= rs[i].latency
<1> DEFINE f == [i \in chosen |-> rs[i].latency]
<1>1. IsFiniteSet(chosen) /\ f \in [chosen -> Nat]
  BY Measured, FS_Subset
<1>2. \E i \in chosen : \A j \in chosen : f[j] <= f[i]
  <2> HIDE DEF f
  <2>1. QED
    BY <1>1, Greatest
<1>3. QED
  BY <1>2

\* The k-th latency in order is one of them, with fewer than k positions below
\* it and at least k up to it.
LEMMA SortedSplits ==
  ASSUME Typed, NEW chosen \in SUBSET DOMAIN rs, NEW k \in 1..Cardinality(chosen)
  PROVE  LET v == Sorted(chosen)[k]
         IN  /\ v \in Nat
             /\ \E i \in chosen : v = rs[i].latency
             /\ Cardinality(Below(chosen, v)) < k
             /\ Cardinality(UpTo(chosen, v)) >= k
<1> DEFINE values == {rs[i].latency : i \in chosen}
           reached == {v \in values : Cardinality(UpTo(chosen, v)) >= k}
<1>1. /\ values \in SUBSET Nat /\ IsFiniteSet(chosen)
      /\ Cardinality(chosen) \in Nat /\ k \in Nat /\ k >= 1 /\ k <= Cardinality(chosen)
  <2>1. /\ \A i \in chosen : rs[i].latency \in Nat
        /\ IsFiniteSet(chosen) /\ Cardinality(chosen) \in Nat
    BY Measured, FS_Subset, FS_CardinalityType
  <2>2. QED
    BY <2>1
<1>2. chosen # {}
  BY <1>1, FS_EmptySet
<1>3. reached # {}
  <2>1. PICK i \in chosen : \A j \in chosen : rs[j].latency <= rs[i].latency
    BY <1>2, Slowest
  <2>2. UpTo(chosen, rs[i].latency) = chosen
    BY <2>1 DEF UpTo
  <2>3. QED
    BY <1>1, <2>2
<1>4. reached \in SUBSET Nat
  BY <1>1
<1>5. PICK v \in reached : \A u \in reached : v <= u
  <2> HIDE DEF reached
  <2>1. QED
    BY <1>3, <1>4, Least
<1>6. v \in Nat
  BY <1>4
<1>7. Cardinality(Below(chosen, v)) < k
  <2> SUFFICES ASSUME ~(Cardinality(Below(chosen, v)) < k) PROVE FALSE
    OBVIOUS
  <2>1. Below(chosen, v) \in SUBSET DOMAIN rs
    BY DEF Below
  <2>2. Cardinality(Below(chosen, v)) \in Nat /\ Cardinality(Below(chosen, v)) >= k
    BY <1>1, <2>1, NoMore
  <2>3. Below(chosen, v) # {}
    <3>1. Cardinality({}) = 0
      BY FS_EmptySet
    <3>2. k \in Nat /\ k >= 1
      BY <1>1
    <3>3. QED
      BY <2>2, <3>1, <3>2
  <2>4. PICK i \in Below(chosen, v) :
          \A j \in Below(chosen, v) : rs[j].latency <= rs[i].latency
    BY <2>1, <2>3, Slowest
  <2> DEFINE u == rs[i].latency
  <2>5. u \in values /\ u \in Nat /\ u < v
    BY <1>1 DEF Below
  <2>6. Below(chosen, v) \subseteq UpTo(chosen, u)
    BY <2>4 DEF Below, UpTo
  <2>7. Cardinality(UpTo(chosen, u)) >= k
    <3>1. UpTo(chosen, u) \in SUBSET DOMAIN rs
      BY DEF UpTo
    <3>2. /\ Cardinality(UpTo(chosen, u)) \in Nat
          /\ Cardinality(Below(chosen, v)) <= Cardinality(UpTo(chosen, u))
      BY <2>6, <3>1, NoMore
    <3>3. QED
      BY <1>1, <2>2, <3>2
  <2>8. u \in reached
    BY <2>5, <2>7
  <2>9. QED
    BY <1>5, <1>6, <2>5, <2>8
<1> DEFINE Kth(u) == /\ Cardinality({i \in chosen : rs[i].latency < u}) < k
                     /\ Cardinality({i \in chosen : rs[i].latency <= u}) >= k
<1>8. \E u \in values : Kth(u)
  BY <1>5, <1>7 DEF Below, UpTo
<1>9. Sorted(chosen)[k] = CHOOSE u \in values : Kth(u)
  BY DEF Sorted
<1>10. Sorted(chosen)[k] \in values /\ Kth(Sorted(chosen)[k])
  <2> HIDE DEF Kth, values
  <2>1. QED
    BY <1>8, <1>9
<1>11. QED
  BY <1>1, <1>10 DEF Below, UpTo

\* Sorting never puts a larger latency before a smaller one.
LEMMA SortedRises ==
  ASSUME Typed, NEW chosen \in SUBSET DOMAIN rs,
         NEW k \in 1..Cardinality(chosen), NEW l \in 1..Cardinality(chosen), k <= l
  PROVE  Sorted(chosen)[k] <= Sorted(chosen)[l]
<1> DEFINE a == Sorted(chosen)[k]
           b == Sorted(chosen)[l]
<1>1. /\ a \in Nat /\ Cardinality(Below(chosen, a)) < k
      /\ b \in Nat /\ Cardinality(UpTo(chosen, b)) >= l
  BY SortedSplits
<1> HIDE DEF a, b
<1>2. ASSUME b < a PROVE FALSE
  <2>1. UpTo(chosen, b) \subseteq Below(chosen, a)
    <3>1. \A i \in chosen : rs[i].latency \in Nat
      BY Measured
    <3>2. QED
      BY <1>1, <1>2, <3>1 DEF UpTo, Below
  <2>2. Below(chosen, a) \in SUBSET DOMAIN rs
    BY DEF Below
  <2>3. /\ Cardinality(UpTo(chosen, b)) \in Nat /\ Cardinality(Below(chosen, a)) \in Nat
        /\ Cardinality(UpTo(chosen, b)) <= Cardinality(Below(chosen, a))
    BY <2>1, <2>2, NoMore
  <2>4. k \in Int /\ l \in Int
    OBVIOUS
  <2>5. QED
    BY <1>1, <2>3, <2>4
<1>3. QED
  BY <1>1, <1>2 DEF a, b

-----------------------------------------------------------------------------
(* Percentiles.                                                            *)

\* The rank of a percentile among the chosen results, what is left of it, and
\* the latencies that percentile() interpolates between.
Rank(chosen, pct) == ((Cardinality(chosen) - 1) * pct) \div 100
Rest(chosen, pct) == ((Cardinality(chosen) - 1) * pct) % 100
After(chosen, pct) ==
  IF Rank(chosen, pct) + 1 < Cardinality(chosen) THEN Rank(chosen, pct) + 2
                                                 ELSE Cardinality(chosen)
Lower(chosen, pct) == Sorted(chosen)[Rank(chosen, pct) + 1]
Upper(chosen, pct) == Sorted(chosen)[After(chosen, pct)]

\* Products of natural numbers grow with either factor.
LEMMA Products ==
  ASSUME NEW a \in Nat, NEW b \in Nat, NEW c \in Nat, a <= b
  PROVE  /\ c * a \in Nat /\ c * b \in Nat /\ c * a <= c * b
         /\ a * c = c * a /\ b * c = c * b
<1>1. PICK d \in Nat : b = a + d
  <2>1. b - a \in Nat /\ b = a + (b - a)
    OBVIOUS
  <2>2. QED
    BY <2>1
<1>2. c * b = c * a + c * d
  BY <1>1
<1>3. c * d >= 0 /\ c * d \in Int
  OBVIOUS
<1>4. QED
  BY <1>2, <1>3

\* Division by a hundred, with rest.
LEMMA Hundredth ==
  ASSUME NEW k \in Nat, NEW m \in Nat, k <= 100 * m
  PROVE  \E d \in 0..m, r \in 0..99 : k \div 100 = d /\ k % 100 = r /\ k = 100 * d + r
<1> DEFINE d == k \div 100
           r == k % 100
<1>1. d \in Int /\ r \in Int /\ r >= 0 /\ r < 100
  OBVIOUS
<1>2. k - 100 * d = r
  OBVIOUS
<1>3. k \div 100 = d /\ k % 100 = r
  OBVIOUS
<1> HIDE DEF d, r
<1>4. d \in 0..m /\ r \in 0..99 /\ k = 100 * d + r
  BY <1>1, <1>2
<1>5. QED
  BY <1>3, <1>4

\* A rank lies within the results, and a higher percentile has no lower rank.
LEMMA Ranked ==
  ASSUME Typed, NEW chosen \in SUBSET DOMAIN rs, chosen # {}, NEW pct \in 0..99
  PROVE  /\ Cardinality(chosen) \in Nat /\ Cardinality(chosen) >= 1
         /\ Rank(chosen, pct) \in Nat /\ Rank(chosen, pct) <= Cardinality(chosen) - 1
         /\ Rest(chosen, pct) \in 0..99
         /\ (Cardinality(chosen) - 1) * pct = 100 * Rank(chosen, pct) + Rest(chosen, pct)
<1> DEFINE n == Cardinality(chosen)
           k == (n - 1) * pct
<1>1. n \in Nat /\ n # 0
  BY Measured, FS_Subset, FS_CardinalityType, FS_EmptySet
<1> HIDE DEF n
<1>2. n - 1 \in Nat /\ pct \in Nat /\ pct <= 100
  BY <1>1
<1>3. k \in Nat /\ k <= 100 * (n - 1)
  BY <1>2, Products
<1>4. Rank(chosen, pct) = k \div 100 /\ Rest(chosen, pct) = k % 100
  BY DEF Rank, Rest, n
<1> HIDE DEF k
<1>5. PICK d \in 0..(n - 1), r \in 0..99 : k \div 100 = d /\ k % 100 = r /\ k = 100 * d + r
  BY <1>2, <1>3, Hundredth
<1>6. /\ Rank(chosen, pct) \in Nat /\ Rank(chosen, pct) <= n - 1
      /\ Rest(chosen, pct) \in 0..99
      /\ k = 100 * Rank(chosen, pct) + Rest(chosen, pct)
  BY <1>2, <1>4, <1>5
<1>7. QED
  BY <1>1, <1>6 DEF k, n

\* A percentile is the latency at its rank and a part of the step to the next.
LEMMA Interpolated ==
  ASSUME Typed, NEW chosen \in SUBSET DOMAIN rs, chosen # {}, NEW pct \in 0..99
  PROVE  /\ Rank(chosen, pct) + 1 \in 1..Cardinality(chosen)
         /\ After(chosen, pct) \in 1..Cardinality(chosen)
         /\ Rank(chosen, pct) + 1 <= After(chosen, pct)
         /\ After(chosen, pct) <= Rank(chosen, pct) + 2
         /\ Lower(chosen, pct) \in Nat /\ Upper(chosen, pct) \in Nat
         /\ Lower(chosen, pct) <= Upper(chosen, pct)
         /\ Percentile(chosen, pct)
              = Lower(chosen, pct) * 100
                  + (Upper(chosen, pct) - Lower(chosen, pct)) * Rest(chosen, pct)
         /\ Percentile(chosen, pct) \in Nat
         /\ Lower(chosen, pct) * 100 <= Percentile(chosen, pct)
         /\ Percentile(chosen, pct) <= Upper(chosen, pct) * 100
<1> DEFINE n == Cardinality(chosen)
           a == Lower(chosen, pct)
           b == Upper(chosen, pct)
           r == Rest(chosen, pct)
           p == Percentile(chosen, pct)
<1>1. /\ n \in Nat /\ n >= 1 /\ r \in 0..99
      /\ Rank(chosen, pct) \in Nat /\ Rank(chosen, pct) <= n - 1
  BY Ranked
<1>2. /\ Rank(chosen, pct) + 1 \in 1..n /\ After(chosen, pct) \in 1..n
      /\ Rank(chosen, pct) + 1 <= After(chosen, pct)
      /\ After(chosen, pct) <= Rank(chosen, pct) + 2
  BY <1>1 DEF After
<1>3. a \in Nat /\ b \in Nat /\ a <= b
  BY <1>2, SortedSplits, SortedRises DEF Lower, Upper
<1>4. p = a * 100 + (b - a) * r
  <2> DEFINE s == Sorted(chosen)
             f == Rank(chosen, pct)
             c == IF f + 1 < n THEN f + 1 ELSE n - 1
  <2>1. p = s[f + 1] * 100 + (s[c + 1] - s[f + 1]) * r
    BY DEF Percentile, Rank, Rest
  <2>2. c + 1 = After(chosen, pct)
    BY <1>1 DEF After
  <2>3. QED
    BY <2>1, <2>2 DEF Lower, Upper
<1> HIDE DEF n, a, b, r, p
<1>5. (b - a) * r \in Nat /\ (b - a) * r <= (b - a) * 100
  BY <1>1, <1>3, Products
<1>6. p \in Nat /\ a * 100 <= p /\ p <= b * 100
  BY <1>3, <1>4, <1>5
<1>7. QED
  BY <1>2, <1>3, <1>4, <1>6 DEF n, a, b, r, p

\* At least the results below the rank are no larger, and those above it no
\* smaller.
LEMMA RankSplits ==
  ASSUME Typed, NEW chosen \in SUBSET DOMAIN rs, chosen # {}, NEW pct \in 0..99
  PROVE  LET p == Percentile(chosen, pct)
         IN  /\ Cardinality({i \in chosen : rs[i].latency * 100 <= p}) > Rank(chosen, pct)
             /\ Cardinality({i \in chosen : rs[i].latency * 100 >= p})
                  >= Cardinality(chosen) - 1 - Rank(chosen, pct)
<1> DEFINE p == Percentile(chosen, pct)
           n == Cardinality(chosen)
           a == Lower(chosen, pct)
           b == Upper(chosen, pct)
           upto == {i \in chosen : rs[i].latency * 100 <= p}
           from == {i \in chosen : rs[i].latency * 100 >= p}
<1>0. \A i \in chosen : rs[i].latency \in Nat
  BY Measured
<1>1. /\ a \in Nat /\ b \in Nat /\ p \in Nat /\ a * 100 <= p /\ p <= b * 100
      /\ Rank(chosen, pct) + 1 \in 1..n /\ After(chosen, pct) \in 1..n
      /\ After(chosen, pct) <= Rank(chosen, pct) + 2
      /\ n \in Nat /\ Rank(chosen, pct) \in Nat
  BY Interpolated, Ranked
<1>2. Cardinality(UpTo(chosen, a)) >= Rank(chosen, pct) + 1
  BY <1>1, SortedSplits DEF Lower
<1>3. Cardinality(From(chosen, b)) >= n + 1 - After(chosen, pct)
  <2>1. Cardinality(Below(chosen, b)) < After(chosen, pct)
    BY <1>1, SortedSplits DEF Upper
  <2>2. /\ Cardinality(Below(chosen, b)) \in Nat
        /\ Cardinality(From(chosen, b)) = n - Cardinality(Below(chosen, b))
    <3>1. b \in Int
      BY <1>1
    <3> HIDE DEF b
    <3>2. QED
      BY <3>1, Split
  <2>3. QED
    BY <1>1, <2>1, <2>2
<1> HIDE DEF p, a, b
<1>4. UpTo(chosen, a) \subseteq upto /\ From(chosen, b) \subseteq from
  BY <1>0, <1>1 DEF UpTo, From
<1>5. upto \in SUBSET DOMAIN rs /\ from \in SUBSET DOMAIN rs
  OBVIOUS
<1> HIDE DEF upto, from, n
<1>6. /\ Cardinality(UpTo(chosen, a)) <= Cardinality(upto)
      /\ Cardinality(From(chosen, b)) <= Cardinality(from)
      /\ Cardinality(UpTo(chosen, a)) \in Nat /\ Cardinality(upto) \in Nat
      /\ Cardinality(From(chosen, b)) \in Nat /\ Cardinality(from) \in Nat
  BY <1>4, <1>5, NoMore
<1>7. Cardinality(upto) > Rank(chosen, pct) /\ Cardinality(from) >= n - 1 - Rank(chosen, pct)
  BY <1>1, <1>2, <1>3, <1>6
<1>8. QED
  BY <1>7 DEF upto, from, p, n

\* A higher percentile of the same results is never below a lower one.
LEMMA PercentilesRise ==
  ASSUME Typed, NEW chosen \in SUBSET DOMAIN rs, chosen # {},
         NEW low \in 0..99, NEW high \in 0..99, low <= high
  PROVE  Percentile(chosen, low) <= Percentile(chosen, high)
<1> DEFINE n == Cardinality(chosen)
<1>1. /\ n \in Nat /\ n >= 1
      /\ Rank(chosen, low) \in Nat /\ Rank(chosen, high) \in Nat
      /\ Rest(chosen, low) \in 0..99 /\ Rest(chosen, high) \in 0..99
      /\ (n - 1) * low = 100 * Rank(chosen, low) + Rest(chosen, low)
      /\ (n - 1) * high = 100 * Rank(chosen, high) + Rest(chosen, high)
  BY Ranked
<1>2. (n - 1) * low <= (n - 1) * high
  <2> HIDE DEF n
  <2>1. n - 1 \in Nat /\ low \in Nat /\ high \in Nat
    BY <1>1
  <2>2. QED
    BY <2>1, Products
<1>3. 100 * Rank(chosen, low) + Rest(chosen, low)
        <= 100 * Rank(chosen, high) + Rest(chosen, high)
  BY <1>1, <1>2
<1>4. CASE Rank(chosen, low) = Rank(chosen, high)
  <2> DEFINE a == Lower(chosen, low)
             b == Upper(chosen, low)
  <2>1. a = Lower(chosen, high) /\ b = Upper(chosen, high)
    BY <1>4 DEF Lower, Upper, After
  <2>2. /\ a \in Nat /\ b \in Nat /\ a <= b
        /\ Percentile(chosen, low) = a * 100 + (b - a) * Rest(chosen, low)
    BY Interpolated
  <2>3. Percentile(chosen, high) = a * 100 + (b - a) * Rest(chosen, high)
    BY <2>1, Interpolated
  <2> HIDE DEF a, b
  <2>4. /\ (b - a) * Rest(chosen, low) \in Nat /\ (b - a) * Rest(chosen, high) \in Nat
        /\ (b - a) * Rest(chosen, low) <= (b - a) * Rest(chosen, high)
    <3>1. /\ b - a \in Nat /\ Rest(chosen, low) \in Nat /\ Rest(chosen, high) \in Nat
          /\ Rest(chosen, low) <= Rest(chosen, high)
      BY <1>1, <1>3, <1>4, <2>2
    <3>2. QED
      BY <3>1, Products
  <2>5. QED
    BY <2>2, <2>3, <2>4
<1>5. CASE Rank(chosen, low) < Rank(chosen, high)
  <2>1. /\ Percentile(chosen, low) <= Upper(chosen, low) * 100
        /\ Lower(chosen, high) * 100 <= Percentile(chosen, high)
        /\ Percentile(chosen, low) \in Nat /\ Percentile(chosen, high) \in Nat
        /\ Upper(chosen, low) \in Nat /\ Lower(chosen, high) \in Nat
        /\ After(chosen, low) \in 1..n /\ Rank(chosen, high) + 1 \in 1..n
        /\ After(chosen, low) <= Rank(chosen, low) + 2
    BY Interpolated
  <2>2. After(chosen, low) <= Rank(chosen, high) + 1
    BY <1>1, <1>5, <2>1
  <2>3. Upper(chosen, low) <= Lower(chosen, high)
    BY <2>1, <2>2, SortedRises DEF Upper, Lower
  <2>4. QED
    BY <2>1, <2>3
<1>6. Rank(chosen, low) = Rank(chosen, high) \/ Rank(chosen, low) < Rank(chosen, high)
  <2> DEFINE f == Rank(chosen, low)
             g == Rank(chosen, high)
  <2>1. /\ f \in Nat /\ g \in Nat /\ Rest(chosen, low) \in 0..99 /\ Rest(chosen, high) \in 0..99
        /\ 100 * f + Rest(chosen, low) <= 100 * g + Rest(chosen, high)
    BY <1>1, <1>3
  <2> HIDE DEF f, g
  <2>2. f = g \/ f < g
    BY <2>1
  <2>3. QED
    BY <2>2 DEF f, g
<1>7. QED
  BY <1>4, <1>5, <1>6

\* The report's percentiles split the latencies where they say, however many
\* results a run has and in whatever order they came, and the higher one is
\* never the smaller (generator.py:22-29 and 51-53).
THEOREM PercentilesAreRight == AgentsSpec => []PercentilesSplit
<1>1. Typed => PercentilesSplit
  <2> SUFFICES ASSUME Typed, Good # {} PROVE PercentilesSplit
    BY DEF PercentilesSplit
  <2> DEFINE stats == Stats
             splits(p, pct) ==
               LET rank == ((stats.ok - 1) * pct) \div 100
               IN  /\ Cardinality({i \in Good : rs[i].latency * 100 <= p}) > rank
                   /\ Cardinality({i \in Good : rs[i].latency * 100 >= p}) >= stats.ok - 1 - rank
  <2>1. /\ stats.ok = Cardinality(Good)
        /\ stats.p50 = Percentile(Good, 50) /\ stats.high = Percentile(Good, High)
    BY DEF Stats
  <2>2. Good \in SUBSET DOMAIN rs /\ 50 \in 0..99 /\ High \in 0..99 /\ 50 <= High
    BY Measured, ReportAssumption
  <2> HIDE DEF stats
  <2>3. ASSUME NEW pct \in 0..99 PROVE splits(Percentile(Good, pct), pct)
    <3>1. ((stats.ok - 1) * pct) \div 100 = Rank(Good, pct)
      BY <2>1 DEF Rank
    <3>2. /\ Cardinality({i \in Good : rs[i].latency * 100 <= Percentile(Good, pct)})
               > Rank(Good, pct)
          /\ Cardinality({i \in Good : rs[i].latency * 100 >= Percentile(Good, pct)})
               >= stats.ok - 1 - Rank(Good, pct)
      BY <2>1, <2>2, RankSplits
    <3>3. QED
      BY <3>1, <3>2
  <2>4. splits(stats.p50, 50)
    BY <2>1, <2>2, <2>3
  <2>5. splits(stats.high, High)
    BY <2>1, <2>2, <2>3
  <2>6. stats.p50 <= stats.high
    BY <2>1, <2>2, PercentilesRise
  <2>7. QED
    BY <2>4, <2>5, <2>6 DEF PercentilesSplit, stats
<1>2. QED
  BY <1>1, AlwaysTyped, PTL

-----------------------------------------------------------------------------
(* The tail of a run.  Of n results at most n \div q may lie beyond the high *)
(* percentile, where one in q is what the percentile leaves over.          *)

\* The results slower than the threshold.
Late(chosen) == {i \in chosen : rs[i].latency > Slow}

\* One result in so many is left beyond the high percentile: a hundred for 99.
OneIn == 100 \div (100 - High)

\* The share beyond the percentile is a whole number of results.
LEMMA TailDivides ==
  OneIn \in Nat /\ OneIn * (100 - High) = 100 /\ 100 - High \in 1..50
<1>1. 100 - High \in 1..50 /\ 100 % (100 - High) = 0
  BY ReportAssumption
<1>2. \A g \in 1..50 : 100 % g = 0 => (100 \div g) \in Nat /\ (100 \div g) * g = 100
  OBVIOUS
<1>3. QED
  BY <1>1, <1>2 DEF OneIn

\* A positive factor can be cancelled.
LEMMA Cancelled ==
  ASSUME NEW a \in Int, NEW b \in Nat, NEW g \in Nat \ {0}, a * g < b * g
  PROVE  a < b
<1>1. ASSUME b <= a PROVE FALSE
  <2>1. a \in Nat
    BY <1>1
  <2>2. b * g <= a * g /\ b * g \in Nat /\ a * g \in Nat
    BY <1>1, <2>1, Products
  <2>3. QED
    BY <2>2
<1>2. QED
  BY <1>1

\* What is late of some results is counted.
LEMMA LateCounted ==
  ASSUME Typed, NEW chosen \in SUBSET DOMAIN rs
  PROVE  /\ Cardinality(Late(chosen)) \in Nat /\ Cardinality(chosen) \in Nat
         /\ Cardinality(UpTo(chosen, Slow)) \in Nat
         /\ Cardinality(Late(chosen)) = Cardinality(chosen) - Cardinality(UpTo(chosen, Slow))
<1>1. Slow \in Int
  BY ReportAssumption
<1>2. Late(chosen) = chosen \ UpTo(chosen, Slow)
  <2>1. \A i \in chosen : rs[i].latency \in Nat
    BY Measured
  <2>2. QED
    BY <1>1, <2>1 DEF Late, UpTo
<1>3. Late(chosen) \in SUBSET DOMAIN rs
  BY DEF Late
<1>4. QED
  BY <1>1, <1>2, <1>3, Split, NoMore

\* When the k-th latency is in time, only those after it can be late.
LEMMA LateAfter ==
  ASSUME Typed, NEW chosen \in SUBSET DOMAIN rs, NEW k \in 1..Cardinality(chosen),
         Sorted(chosen)[k] <= Slow
  PROVE  Cardinality(Late(chosen)) <= Cardinality(chosen) - k
<1> DEFINE v == Sorted(chosen)[k]
<1>1. v \in Nat /\ Cardinality(UpTo(chosen, v)) >= k
  BY SortedSplits
<1>2. v <= Slow /\ Slow \in Nat
  BY ReportAssumption
<1> HIDE DEF v
<1>3. UpTo(chosen, v) \subseteq UpTo(chosen, Slow)
  <2>1. \A i \in chosen : rs[i].latency \in Nat
    BY Measured
  <2>2. QED
    BY <1>1, <1>2, <2>1 DEF UpTo
<1>4. UpTo(chosen, Slow) \in SUBSET DOMAIN rs
  BY DEF UpTo
<1>5. /\ Cardinality(UpTo(chosen, v)) \in Nat
      /\ Cardinality(UpTo(chosen, v)) <= Cardinality(UpTo(chosen, Slow))
  BY <1>3, <1>4, NoMore
<1>6. k \in Nat
  OBVIOUS
<1>7. QED
  BY <1>1, <1>5, <1>6, LateCounted

\* When the k-th latency is late, all from it on are.
LEMMA LateFrom ==
  ASSUME Typed, NEW chosen \in SUBSET DOMAIN rs, NEW k \in 1..Cardinality(chosen),
         Sorted(chosen)[k] > Slow
  PROVE  Cardinality(Late(chosen)) >= Cardinality(chosen) + 1 - k
<1> DEFINE v == Sorted(chosen)[k]
<1>1. v \in Nat /\ Cardinality(Below(chosen, v)) < k
  BY SortedSplits
<1>2. v > Slow /\ Slow \in Nat
  BY ReportAssumption
<1> HIDE DEF v
<1>3. UpTo(chosen, Slow) \subseteq Below(chosen, v)
  <2>1. \A i \in chosen : rs[i].latency \in Nat
    BY Measured
  <2>2. QED
    BY <1>1, <1>2, <2>1 DEF UpTo, Below
<1>4. Below(chosen, v) \in SUBSET DOMAIN rs
  BY DEF Below
<1>5. /\ Cardinality(Below(chosen, v)) \in Nat
      /\ Cardinality(UpTo(chosen, Slow)) <= Cardinality(Below(chosen, v))
  BY <1>3, <1>4, NoMore
<1>6. k \in Nat
  OBVIOUS
<1>7. QED
  BY <1>1, <1>5, <1>6, LateCounted

\* A run whose high percentile is late has more late results than one in OneIn
\* of the others.
LEMMA LateRun ==
  ASSUME Typed, Percentile(Good, High) > Slow * 100
  PROVE  /\ Good # {}
         /\ Cardinality(Good) - 1 < Cardinality(Late(Good)) * OneIn
<1> DEFINE n == Cardinality(Good)
           m == Cardinality(Late(Good))
           f == Rank(Good, High)
           r == Rest(Good, High)
           g == 100 - High
<1>1. Good \in SUBSET DOMAIN rs /\ High \in 0..99 /\ Slow \in Nat
  BY Measured, ReportAssumption
<1>2. Good # {}
  <2>1. Good = {} => Percentile(Good, High) = 0
    BY DEF Percentile
  <2>2. QED
    BY <1>1, <2>1
<1>3. /\ n \in Nat /\ n >= 1 /\ f \in Nat /\ r \in 0..99
      /\ (n - 1) * High = 100 * f + r
  BY <1>1, <1>2, Ranked
<1>4. m \in Nat
  BY <1>1, LateCounted
<1>5. g \in 1..50 /\ OneIn \in Nat /\ OneIn * g = 100
  BY TailDivides
<1>6. m * 100 > (n - 1) * g
  <2>1. (n - 1) * g = 100 * (n - 1) - 100 * f - r
    <3>1. (n - 1) * g = (n - 1) * 100 - (n - 1) * High
      BY <1>1, <1>3
    <3>2. QED
      BY <1>3, <3>1
  <2>2. CASE r = 0
    <3>1. Percentile(Good, High) = Lower(Good, High) * 100
      <4>1. /\ Lower(Good, High) \in Nat /\ Upper(Good, High) \in Nat
            /\ Percentile(Good, High)
                 = Lower(Good, High) * 100 + (Upper(Good, High) - Lower(Good, High)) * r
        BY <1>1, <1>2, Interpolated
      <4>2. (Upper(Good, High) - Lower(Good, High)) * r = 0
        BY <2>2, <4>1
      <4>3. QED
        BY <4>1, <4>2
    <3>2. Lower(Good, High) \in Nat /\ f + 1 \in 1..n
      BY <1>1, <1>2, Interpolated
    <3>3. Lower(Good, High) > Slow
      BY <1>1, <3>1, <3>2
    <3>4. m >= n + 1 - (f + 1)
      BY <1>1, <3>2, <3>3, LateFrom DEF Lower
    <3>5. QED
      BY <1>3, <1>4, <2>1, <2>2, <3>4
  <2>3. CASE r # 0
    <3>1. /\ Upper(Good, High) \in Nat /\ Percentile(Good, High) \in Nat
          /\ Percentile(Good, High) <= Upper(Good, High) * 100
          /\ After(Good, High) \in 1..n /\ After(Good, High) <= f + 2
      BY <1>1, <1>2, Interpolated
    <3>2. Upper(Good, High) > Slow
      BY <1>1, <3>1
    <3>3. m >= n + 1 - After(Good, High)
      BY <1>1, <3>1, <3>2, LateFrom DEF Upper
    <3>4. QED
      BY <1>3, <1>4, <2>1, <2>3, <3>1, <3>3
  <2>4. QED
    BY <2>2, <2>3
<1> HIDE DEF n, m, f, r, g
<1>7. (n - 1) * g < (m * OneIn) * g
  <2>1. (m * OneIn) * g = m * (OneIn * g)
    BY <1>4, <1>5
  <2>2. QED
    BY <1>5, <1>6, <2>1
<1>8. n - 1 < m * OneIn
  <2>1. n - 1 \in Int /\ m * OneIn \in Nat /\ g \in Nat \ {0}
    BY <1>3, <1>4, <1>5
  <2>2. QED
    BY <1>7, <2>1, Cancelled
<1>9. QED
  BY <1>2, <1>8 DEF n, m

\* The index of a target's percentile lies within its results.
LEMMA HighPlace ==
  ASSUME NEW n \in Nat, n > 1
  PROVE  \E d \in 0..(n - 1), r \in 0..99 :
           (n * High) \div 100 = d /\ n * High = 100 * d + r
<1> DEFINE k == n * High
<1>1. High \in Nat /\ High <= 99
  BY ReportAssumption
<1>2. k \in Nat /\ k <= n * 99
  BY <1>1, Products
<1>3. k <= 100 * n /\ k < 100 * n
  BY <1>2
<1> HIDE DEF k
<1>4. PICK d \in 0..n, r \in 0..99 : k \div 100 = d /\ k % 100 = r /\ k = 100 * d + r
  BY <1>2, <1>3, Hundredth
<1>5. d \in 0..(n - 1)
  BY <1>2, <1>3, <1>4
<1>6. QED
  BY <1>4, <1>5 DEF k

\* A target whose own percentile is in time has at most its share of late
\* results.
LEMMA TimelyTarget ==
  ASSUME Typed, NEW target, Answered(target) # {}, HighOf(target) <= Slow
  PROVE  Cardinality(Late(Answered(target))) * OneIn < Cardinality(Answered(target))
<1> DEFINE A == Answered(target)
           n == Cardinality(A)
           m == Cardinality(Late(A))
           g == 100 - High
           k == IF n > 1 THEN (n * High) \div 100 + 1 ELSE 1
<1>1. A \in SUBSET DOMAIN rs /\ High \in 50..99
  BY Measured, ReportAssumption DEF Answered
<1>2. n \in Nat /\ n >= 1 /\ m \in Nat
  <2>1. n \in Nat /\ m \in Nat
    BY <1>1, LateCounted
  <2>2. n # 0
    BY <1>1, Measured, FS_Subset, FS_EmptySet
  <2>3. QED
    BY <2>1, <2>2
<1>3. g \in 1..50 /\ OneIn \in Nat /\ OneIn * g = 100
  BY TailDivides
<1>4. Sorted(A)[k] <= Slow
  BY DEF HighOf
<1>5. k \in 1..n => m <= n - k
  <2> HIDE DEF k
  <2>1. QED
    BY <1>1, <1>4, LateAfter
<1> HIDE DEF m, A
<1>6. CASE n > 1
  <2> HIDE DEF n
  <2>1. PICK d \in 0..(n - 1), r \in 0..99 : /\ (n * High) \div 100 = d
                                             /\ n * High = 100 * d + r
    BY <1>2, <1>6, HighPlace
  <2>2. k = d + 1
    BY <1>6, <2>1
  <2>3. k \in 1..n
    BY <1>2, <2>2
  <2>4. m <= n - d - 1
    BY <1>2, <1>5, <2>1, <2>2, <2>3
  <2>5. n * g = 100 * n - 100 * d - r
    <3>1. n * g = n * 100 - n * High
      BY <1>1, <1>2
    <3>2. QED
      BY <1>2, <2>1, <3>1
  <2>6. m * 100 < n * g
    BY <1>2, <2>1, <2>4, <2>5
  <2> HIDE DEF g
  <2>7. (m * OneIn) * g < n * g
    <3>1. (m * OneIn) * g = m * (OneIn * g)
      BY <1>2, <1>3
    <3>2. QED
      BY <1>3, <2>6, <3>1
  <2>8. m * OneIn \in Int /\ g \in Nat \ {0}
    BY <1>2, <1>3
  <2>9. m * OneIn < n
    BY <1>2, <2>7, <2>8, Cancelled
  <2>10. QED
    BY <2>9 DEF m, n, A
<1>7. CASE ~(n > 1)
  <2> HIDE DEF n
  <2>1. n = 1 /\ k = 1
    BY <1>2, <1>7
  <2>2. m = 0
    BY <1>2, <1>5, <2>1
  <2>3. m * OneIn = 0
    BY <1>3, <2>2
  <2>4. QED
    BY <2>1, <2>3 DEF m, n, A
<1>8. QED
  BY <1>6, <1>7

\* The members of two finite sets without a common one add up.
LEMMA Disjoint ==
  ASSUME NEW A, IsFiniteSet(A), NEW B, IsFiniteSet(B), A \intersect B = {}
  PROVE  Cardinality(A \union B) = Cardinality(A) + Cardinality(B)
<1>1. Cardinality(A \union B) = Cardinality(A) + Cardinality(B) - Cardinality({})
  BY FS_Union
<1>2. Cardinality({}) = 0 /\ Cardinality(A) \in Nat /\ Cardinality(B) \in Nat
  BY FS_EmptySet, FS_CardinalityType
<1>3. QED
  BY <1>1, <1>2

\* Two groups without a common result have together what each has.
LEMMA Together ==
  ASSUME Typed, NEW A \in SUBSET DOMAIN rs, NEW B \in SUBSET DOMAIN rs, A \intersect B = {}
  PROVE  /\ Cardinality(A \union B) = Cardinality(A) + Cardinality(B)
         /\ Cardinality(Late(A \union B)) = Cardinality(Late(A)) + Cardinality(Late(B))
<1>1. IsFiniteSet(A) /\ IsFiniteSet(B)
  BY Measured, FS_Subset
<1>2. Cardinality(A \union B) = Cardinality(A) + Cardinality(B)
  BY <1>1, Disjoint
<1>3. /\ Late(A \union B) = Late(A) \union Late(B)
      /\ Late(A) \subseteq A /\ Late(B) \subseteq B /\ Late(A) \intersect Late(B) = {}
  BY DEF Late
<1>4. IsFiniteSet(Late(A)) /\ IsFiniteSet(Late(B))
  BY <1>1, <1>3, FS_Subset
<1>5. Cardinality(Late(A) \union Late(B)) = Cardinality(Late(A)) + Cardinality(Late(B))
  BY <1>3, <1>4, Disjoint
<1>6. QED
  BY <1>2, <1>3, <1>5

\* When no target's percentile is late, the run has at most its share of late
\* results: a smallest group of whole targets that has more would lose one
\* target and still have more.
LEMMA TimelyRun ==
  ASSUME Typed, Good # {},
         \A target : Answered(target) # {} => HighOf(target) <= Slow
  PROVE  Cardinality(Late(Good)) * OneIn < Cardinality(Good)
<1> DEFINE Share(G) == Cardinality(Late(G)) * OneIn < Cardinality(G)
           Whole(G) == \A i \in G : Answered(rs[i].target) \subseteq G
           bad == {G \in SUBSET Good : G # {} /\ Whole(G) /\ ~Share(G)}
<1>1. Good \in SUBSET DOMAIN rs /\ IsFiniteSet(Good) /\ OneIn \in Nat
  BY Measured, FS_Subset, TailDivides
<1>2. SUFFICES ASSUME ~Share(Good) PROVE FALSE
  OBVIOUS
<1>3. Good \in bad
  <2>1. Whole(Good)
    BY DEF Answered
  <2>2. QED
    BY <1>2, <2>1
<1>4. PICK X \in bad : \A Y \in bad : Y \subseteq X => Y = X
  <2>1. bad \in SUBSET SUBSET Good /\ bad # {}
    BY <1>3
  <2> HIDE DEF bad
  <2>2. QED
    BY <1>1, <2>1, Minimal
<1>5. X \in SUBSET Good /\ X # {} /\ Whole(X) /\ ~Share(X)
  OBVIOUS
<1>6. PICK i \in X : TRUE
  BY <1>5
<1> DEFINE A == Answered(rs[i].target)
           Y == X \ A
<1>7. i \in A /\ A \subseteq X
  BY <1>5 DEF Answered, Good
<1>8. Share(A)
  BY <1>7, TimelyTarget
<1>9. Y = {} \/ Share(Y)
  <2>1. Whole(Y)
    <3> SUFFICES ASSUME NEW j \in Y, NEW k \in Answered(rs[j].target) PROVE k \in Y
      OBVIOUS
    <3>1. k \in X /\ rs[k].target = rs[j].target
      BY <1>5 DEF Answered
    <3>2. rs[j].target # rs[i].target
      BY <1>5 DEF Answered
    <3>3. QED
      BY <3>1, <3>2 DEF Answered
  <2>2. Y \subseteq X /\ Y # X
    BY <1>7
  <2>3. Y \notin bad
    BY <1>4, <2>2
  <2>4. QED
    BY <1>5, <2>1, <2>2, <2>3
<1>10. Share(X)
  <2>1. CASE Y = {}
    <3>1. X = A
      BY <1>7, <2>1
    <3>2. QED
      BY <1>8, <3>1
  <2>2. CASE Share(Y)
    <3>1. A \in SUBSET DOMAIN rs /\ Y \in SUBSET DOMAIN rs /\ A \intersect Y = {} /\ X = A \union Y
      BY <1>1, <1>5, <1>7
    <3>2. /\ Cardinality(X) = Cardinality(A) + Cardinality(Y)
          /\ Cardinality(Late(X)) = Cardinality(Late(A)) + Cardinality(Late(Y))
      <4> HIDE DEF A, Y
      <4>1. QED
        BY <3>1, Together
    <3>3. /\ Cardinality(A) \in Nat /\ Cardinality(Late(A)) \in Nat
          /\ Cardinality(Y) \in Nat /\ Cardinality(Late(Y)) \in Nat
      BY <3>1, LateCounted
    <3> DEFINE a == Cardinality(Late(A))
               y == Cardinality(Late(Y))
    <3>4. (a + y) * OneIn = a * OneIn + y * OneIn /\ a * OneIn \in Nat /\ y * OneIn \in Nat
      <4> HIDE DEF a, y
      <4>1. a \in Nat /\ y \in Nat
        BY <3>3 DEF a, y
      <4>2. QED
        BY <1>1, <4>1
    <3>5. QED
      BY <1>8, <2>2, <3>2, <3>3, <3>4
  <2>3. QED
    BY <1>9, <2>1, <2>2
<1>11. QED
  BY <1>5, <1>10

\* The percentile of a target that answered is one of its latencies.
LEMMA HighIsLatency ==
  ASSUME Typed, NEW target, Answered(target) # {}
  PROVE  HighOf(target) \in Nat
<1> DEFINE A == Answered(target)
           n == Cardinality(A)
           k == IF n > 1 THEN (n * High) \div 100 + 1 ELSE 1
<1>1. A \in SUBSET DOMAIN rs /\ High \in 50..99
  BY Measured, ReportAssumption DEF Answered
<1>2. n \in Nat /\ n >= 1
  <2>1. n \in Nat
    BY <1>1, LateCounted
  <2>2. n # 0
    BY <1>1, Measured, FS_Subset, FS_EmptySet
  <2>3. QED
    BY <2>1, <2>2
<1>3. k \in 1..n
  <2> HIDE DEF n
  <2>1. CASE n > 1
    <3>1. PICK d \in 0..(n - 1) : (n * High) \div 100 = d
      BY <1>2, <2>1, HighPlace
    <3>2. k = d + 1
      BY <2>1, <3>1
    <3>3. QED
      BY <1>2, <3>2
  <2>2. CASE ~(n > 1)
    BY <1>2, <2>2
  <2>3. QED
    BY <2>1, <2>2
<1>4. HighOf(target) = Sorted(A)[k]
  BY DEF HighOf
<1> HIDE DEF k
<1>5. QED
  BY <1>1, <1>3, <1>4, SortedSplits

\* When the high percentile of a run is late, so is that of one of the three
\* slowest targets: the conditional agent that the slow run calls for always
\* has a target to name, though its percentile is of one target and is computed
\* by another formula (conditional_agents.py:24-42, generator.py:22-29).
THEOREM SlowRunsAreExplained == AgentsSpec => []SlowRunIsExplained
<1>1. Typed => SlowRunIsExplained
  <2> SUFFICES ASSUME Typed, "bottleneck" \in Triggered(Stats)
               PROVE  BottleneckAgent.actions # {}
    BY DEF SlowRunIsExplained
  <2>1. Percentile(Good, High) > Slow * 100
    BY DEF Triggered, Stats
  <2>2. Good # {} /\ Cardinality(Good) - 1 < Cardinality(Late(Good)) * OneIn
    BY <2>1, LateRun
  <2>3. PICK late : Answered(late) # {} /\ ~(HighOf(late) <= Slow)
    <3> SUFFICES ASSUME \A target : Answered(target) # {} => HighOf(target) <= Slow
                 PROVE  FALSE
      OBVIOUS
    <3>1. Cardinality(Late(Good)) * OneIn < Cardinality(Good)
      BY <2>2, TimelyRun
    <3>2. Cardinality(Good) \in Nat /\ Cardinality(Late(Good)) * OneIn \in Nat
      BY Measured, LateCounted, TailDivides
    <3>3. QED
      BY <2>2, <3>1, <3>2
  <2>4. PICK i \in Good : \A j \in Good : HighOf(rs[j].target) <= HighOf(rs[i].target)
    <3> DEFINE f == [j \in Good |-> HighOf(rs[j].target)]
    <3>1. \A j \in Good : HighOf(rs[j].target) \in Nat
      BY HighIsLatency DEF Answered
    <3>2. IsFiniteSet(Good) /\ f \in [Good -> Nat]
      BY <3>1, Measured, FS_Subset
    <3>3. \E x \in Good : \A y \in Good : f[y] <= f[x]
      <4> HIDE DEF f
      <4>1. QED
        BY <2>2, <3>2, Greatest
    <3>4. QED
      BY <3>3
  <2> DEFINE t == rs[i].target
             answered == {rs[j].target : j \in Good}
             slowest == {u \in answered :
                           Cardinality({w \in answered : HighOf(w) > HighOf(u)}) < 3}
  <2>5. \A u \in answered : /\ HighOf(u) \in Nat /\ HighOf(u) <= HighOf(t)
    <3>1. \A j \in Good : HighOf(rs[j].target) \in Nat
      BY HighIsLatency DEF Answered
    <3>2. QED
      BY <2>4, <3>1
  <2>6. t \in answered /\ late \in answered
    BY <2>3 DEF Answered
  <2>7. t \in slowest
    <3>1. {w \in answered : HighOf(w) > HighOf(t)} = {}
      BY <2>5, <2>6
    <3>2. Cardinality({}) = 0
      BY FS_EmptySet
    <3>3. Cardinality({w \in answered : HighOf(w) > HighOf(t)}) < 3
      <4> HIDE DEF answered
      <4>1. QED
        BY <3>1, <3>2
    <3>4. QED
      BY <2>6, <3>3
  <2>8. HighOf(t) > Slow
    <3>1. Slow \in Nat
      BY ReportAssumption
    <3>2. QED
      BY <2>3, <2>5, <2>6, <3>1
  <2>9. BottleneckAgent.actions = {u \in slowest : HighOf(u) > Slow}
    BY DEF BottleneckAgent, Verdict
  <2>10. QED
    BY <2>7, <2>8, <2>9
<1>2. QED
  BY <1>1, AlwaysTyped, PTL

-----------------------------------------------------------------------------
\* A report without a bottleneck line hides nothing that the triggers, the load
\* agent or the failure agent would complain about, whatever the results
\* (generator.py:152-170, conditional_agents.py:58-70 and 148-156,
\* basic_agents.py:28-48).
THEOREM QuietIsQuiet == AgentsSpec => []QuietReportIsQuiet
<1>1. Typed => QuietReportIsQuiet
  <2> SUFFICES ASSUME Typed, Bottlenecks(Stats) = {}
               PROVE  /\ Triggered(Stats) = {}
                      /\ AWSLoadAgent(Stats).severity = "info"
                      /\ APIFailureAgent(Stats) = Verdict("warn", {})
    BY DEF QuietReportIsQuiet
  <2> DEFINE stats == Stats
  <2>0. \A code : Status(stats, code) \in Nat
    BY StatusCount
  <2> HIDE DEF stats
  <2>1. /\ ~(stats.high > Slow * 100)
        /\ ~TooMany(stats.failed, stats)
        /\ ~(Status(stats, 429) > Many429)
        /\ ~ServerErrors(stats)
    <3>1. Bottlenecks(stats) = {}
      BY DEF stats
    <3>2. /\ "slow" \notin Bottlenecks(stats) /\ "failures" \notin Bottlenecks(stats)
          /\ "429" \notin Bottlenecks(stats) /\ "5xx" \notin Bottlenecks(stats)
      BY <3>1
    <3>3. QED
      BY <3>2 DEF Bottlenecks
  <2>2. /\ Status(stats, 429) <= Many429
        /\ Status(stats, 500) <= Many500
        /\ Status(stats, 502) = 0 /\ Status(stats, 503) = 0
    BY <2>0, <2>1, ReportAssumption DEF ServerErrors
  <2>3. /\ ~(Status(stats, 429) > Agent429) /\ ~(Status(stats, 429) > Trigger429)
        /\ ~(Status(stats, 500) > Many500)
        /\ ~(Status(stats, 500) + Status(stats, 502) + Status(stats, 503) > Agent5xx)
    <3>1. {Many429, Many500, Agent429, Trigger429, Agent5xx} \subseteq Nat
      BY ReportAssumption, AgentAssumption
    <3>2. Many429 <= Agent429 /\ Agent429 <= Trigger429 /\ Many500 <= Agent5xx
      BY AgentAssumption
    <3>3. QED
      BY <2>0, <2>2, <3>1, <3>2
  <2>4. Triggered(stats) = {}
    BY <2>1, <2>3 DEF Triggered
  <2>5. AWSLoadAgent(stats).severity = "info"
    BY <2>1, <2>3 DEF AWSLoadAgent, Verdict
  <2>6. APIFailureAgent(stats) = Verdict("warn", {})
    BY <2>3 DEF APIFailureAgent, Verdict, When
  <2>7. QED
    BY <2>4, <2>5, <2>6 DEF stats
<1>2. QED
  BY <1>1, AlwaysTyped, PTL
=============================================================================
