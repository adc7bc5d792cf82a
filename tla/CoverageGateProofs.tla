------------------------- MODULE CoverageGateProofs -------------------------
(***************************************************************************)
(* What the coverage gate decides, for every report: TLAPS proofs about    *)
(* CoverageGate.  Counters are added up over the packages of a report, so  *)
(* the first half is about sums over finite sets.  They are proved by a    *)
(* smallest counterexample: the set, or the level of the recursion, below  *)
(* which the claim still holds.                                            *)
(***************************************************************************)
EXTENDS CoverageGate, FiniteSetTheorems, WellFoundedInduction, TLAPS

-----------------------------------------------------------------------------
(* Smallest counterexamples *)

\* A set of numbers that is not empty has a least one.
LEMMA LeastNumber ==
    ASSUME NEW N \in SUBSET Nat, N # {}
    PROVE  \E n \in N : \A k \in N : n <= k
<1>1. PICK n \in N : \A k \in N : ~ (<<k, n>> \in OpToRel(<, Nat))
  BY NatLessThanWellFounded, WFMin
<1>2. \A k \in N : ~ (k < n)
  BY <1>1 DEF OpToRel
<1> QED BY <1>2

\* Of some subsets of a finite set, one leaves the others when an element is taken out.
LEMMA SmallestSet ==
    ASSUME NEW S, IsFiniteSet(S), NEW B \in SUBSET SUBSET S, B # {}
    PROVE  \E m \in B : \A x \in m : m \ {x} \notin B
<1>1. B \subseteq FiniteSubsetsOf(S)
  BY FS_FiniteSubsetsOfFinite
<1>2. PICK m \in B : \A k \in B : ~ (<<k, m>> \in StrictSubsetOrdering(S))
  BY <1>1, FS_StrictSubsetOrderingWellFounded, WFMin
<1>3. \A x \in m : m \ {x} \notin B
  BY <1>2 DEF StrictSubsetOrdering
<1> QED BY <1>3

-----------------------------------------------------------------------------
(* The recursion behind SumFunctionOnSet *)

\* The element that is taken from a set, one step, and a function that takes it
\* for every subset of S
Taken(s) == CHOOSE x \in s : TRUE
SumStep(fun, g, s) == IF s = {} THEN 0 ELSE fun[Taken(s)] + g[s \ {Taken(s)}]
Sums(g, fun, S) == g = [s \in SUBSET S |-> SumStep(fun, g, s)]

\* The same for the subsets of at most n elements only
SumsUpTo(g, fun, S, n) ==
    \A s \in SUBSET S : Cardinality(s) <= n => g[s] = SumStep(fun, g, s)

\* One more level of the recursion.
LEMMA NextLevel ==
    ASSUME NEW fun, NEW S, IsFiniteSet(S), NEW n \in Nat, NEW g, SumsUpTo(g, fun, S, n)
    PROVE  \E h : SumsUpTo(h, fun, S, n + 1)
<1> DEFINE h == [s \in SUBSET S |-> IF Cardinality(s) <= n THEN g[s] ELSE SumStep(fun, g, s)]
<1>1. ASSUME NEW s \in SUBSET S, Cardinality(s) <= n + 1
      PROVE  h[s] = SumStep(fun, h, s)
  <2>1. h[s] = SumStep(fun, g, s)
    BY DEF SumsUpTo
  <2>2. CASE s = {}
    BY <2>1, <2>2 DEF SumStep
  <2>3. CASE s # {}
    <3> DEFINE t == s \ {Taken(s)}
    <3>1. Taken(s) \in s /\ t \in SUBSET S
      BY <2>3 DEF Taken
    <3>2. IsFiniteSet(s) /\ Cardinality(s) \in Nat
      BY FS_Subset, FS_CardinalityType
    <3>3. Cardinality(t) = Cardinality(s) - 1
      BY <3>1, <3>2, FS_RemoveElement
    <3>4. h[t] = g[t]
      BY <1>1, <3>1, <3>2, <3>3
    <3> QED BY <2>1, <2>3, <3>4 DEF SumStep
  <2> QED BY <2>2, <2>3
<1>2. SumsUpTo(h, fun, S, n + 1)
  BY <1>1 DEF SumsUpTo
<1> QED BY <1>2

\* Every level is reached.
LEMMA EveryLevel ==
    ASSUME NEW fun, NEW S, IsFiniteSet(S), NEW n \in Nat
    PROVE  \E g : SumsUpTo(g, fun, S, n)
<1> DEFINE Unreached == {k \in Nat : ~ \E g : SumsUpTo(g, fun, S, k)}
<1>1. SUFFICES Unreached = {}
  OBVIOUS
<1>2. SUFFICES ASSUME Unreached # {} PROVE FALSE
  OBVIOUS
<1>3. PICK k \in Unreached : \A j \in Unreached : k <= j
  <2> HIDE DEF Unreached
  <2>1. Unreached \in SUBSET Nat
    BY DEF Unreached
  <2> QED BY <1>2, <2>1, LeastNumber
<1>4. k # 0
  <2> DEFINE g == [s \in SUBSET S |-> 0]
  <2>1. ASSUME NEW s \in SUBSET S, Cardinality(s) <= 0 PROVE g[s] = SumStep(fun, g, s)
    <3>1. IsFiniteSet(s) /\ Cardinality(s) \in Nat
      BY FS_Subset, FS_CardinalityType
    <3>2. s = {}
      BY <2>1, <3>1, FS_EmptySet
    <3> QED BY <3>2 DEF SumStep
  <2>2. SumsUpTo(g, fun, S, 0)
    BY <2>1 DEF SumsUpTo
  <2> QED BY <2>2
<1>5. k - 1 \in Nat /\ k - 1 \notin Unreached
  BY <1>3, <1>4
<1>6. PICK g : SumsUpTo(g, fun, S, k - 1)
  BY <1>5
<1>7. \E h : SumsUpTo(h, fun, S, k)
  <2>1. (k - 1) + 1 = k
    BY <1>5
  <2> QED BY <1>5, <1>6, <2>1, NextLevel
<1> QED BY <1>7

\* So the recursion has a solution, and the sum is its value.
LEMMA SumIsSolution ==
    ASSUME NEW fun, NEW S, IsFiniteSet(S)
    PROVE  \E g : Sums(g, fun, S) /\ SumFunctionOnSet(fun, S) = g[S]
<1>1. Cardinality(S) \in Nat
  BY FS_CardinalityType
<1>2. PICK g : SumsUpTo(g, fun, S, Cardinality(S))
  BY <1>1, EveryLevel
<1> DEFINE h == [s \in SUBSET S |-> g[s]]
<1>3. ASSUME NEW s \in SUBSET S PROVE g[s] = SumStep(fun, h, s)
  <2>1. g[s] = SumStep(fun, g, s)
    BY <1>2, FS_Subset DEF SumsUpTo
  <2>2. s # {} => s \ {Taken(s)} \in SUBSET S
    OBVIOUS
  <2> QED BY <2>1, <2>2 DEF SumStep
<1>4. Sums(h, fun, S)
  BY <1>3 DEF Sums
<1> QED
  BY <1>4 DEF SumFunctionOnSet, FoldFunctionOnSet, MapThenFoldSet, Sums, SumStep, Taken

\* Two solutions for functions that agree have the same sums.
LEMMA SolutionsAgree ==
    ASSUME NEW f1, NEW f2, NEW g1, NEW g2, NEW S1, NEW S2,
           Sums(g1, f1, S1), Sums(g2, f2, S2),
           NEW T \in SUBSET (S1 \cap S2), IsFiniteSet(T), \A x \in T : f1[x] = f2[x]
    PROVE  g1[T] = g2[T]
<1> DEFINE B == {t \in SUBSET T : g1[t] # g2[t]}
<1>1. SUFFICES ASSUME B # {} PROVE FALSE
  OBVIOUS
<1>2. PICK m \in B : \A x \in m : m \ {x} \notin B
  <2> HIDE DEF B
  <2>1. B \in SUBSET SUBSET T
    BY DEF B
  <2> QED BY <1>1, <2>1, SmallestSet
<1>3. m \in SUBSET S1 /\ m \in SUBSET S2
  OBVIOUS
<1>4. g1[m] = SumStep(f1, g1, m) /\ g2[m] = SumStep(f2, g2, m)
  BY <1>3 DEF Sums
<1>5. m # {}
  BY <1>4 DEF SumStep
<1>6. Taken(m) \in m
  BY <1>5 DEF Taken
<1>7. g1[m \ {Taken(m)}] = g2[m \ {Taken(m)}] /\ f1[Taken(m)] = f2[Taken(m)]
  BY <1>2, <1>6
<1> QED BY <1>4, <1>5, <1>7 DEF SumStep

-----------------------------------------------------------------------------
(* Sums over finite sets *)

\* An empty sum is 0.
LEMMA SumOfNothing ==
    ASSUME NEW fun PROVE SumFunctionOnSet(fun, {}) = 0
<1>1. PICK g : Sums(g, fun, {}) /\ SumFunctionOnSet(fun, {}) = g[{}]
  BY FS_EmptySet, SumIsSolution
<1> QED BY <1>1 DEF Sums, SumStep

\* What is not in the set does not count.
LEMMA SumOfEqual ==
    ASSUME NEW f1, NEW f2, NEW S, IsFiniteSet(S), \A x \in S : f1[x] = f2[x]
    PROVE  SumFunctionOnSet(f1, S) = SumFunctionOnSet(f2, S)
<1>1. PICK g1 : Sums(g1, f1, S) /\ SumFunctionOnSet(f1, S) = g1[S]
  BY SumIsSolution
<1>2. PICK g2 : Sums(g2, f2, S) /\ SumFunctionOnSet(f2, S) = g2[S]
  BY SumIsSolution
<1>3. S \in SUBSET (S \cap S)
  OBVIOUS
<1> QED BY <1>1, <1>2, <1>3, SolutionsAgree

\* The element that is taken first counts once.
LEMMA SumOfTaken ==
    ASSUME NEW fun, NEW S, IsFiniteSet(S), S # {}
    PROVE  /\ Taken(S) \in S
           /\ SumFunctionOnSet(fun, S)
                = fun[Taken(S)] + SumFunctionOnSet(fun, S \ {Taken(S)})
<1> DEFINE T == S \ {Taken(S)}
<1>1. Taken(S) \in S /\ T \in SUBSET S /\ IsFiniteSet(T)
  BY FS_Subset DEF Taken
<1>2. PICK g : Sums(g, fun, S) /\ SumFunctionOnSet(fun, S) = g[S]
  BY SumIsSolution
<1>3. PICK h : Sums(h, fun, T) /\ SumFunctionOnSet(fun, T) = h[T]
  BY <1>1, SumIsSolution
<1>4. g[T] = h[T]
  <2>1. T \in SUBSET (S \cap T)
    BY <1>1
  <2> QED BY <1>1, <1>2, <1>3, <2>1, SolutionsAgree
<1>5. g[S] = fun[Taken(S)] + g[T]
  BY <1>2 DEF Sums, SumStep
<1> QED BY <1>1, <1>2, <1>3, <1>4, <1>5

\* A sum of natural numbers is one.
LEMMA SumType ==
    ASSUME NEW fun, NEW S, IsFiniteSet(S), \A x \in S : fun[x] \in Nat
    PROVE  SumFunctionOnSet(fun, S) \in Nat
<1> DEFINE B == {T \in SUBSET S : SumFunctionOnSet(fun, T) \notin Nat}
<1>1. SUFFICES ASSUME B # {} PROVE FALSE
  OBVIOUS
<1>2. PICK m \in B : \A x \in m : m \ {x} \notin B
  <2> HIDE DEF B
  <2>1. B \in SUBSET SUBSET S
    BY DEF B
  <2> QED BY <1>1, <2>1, SmallestSet
<1>3. m # {}
  BY SumOfNothing
<1>4. /\ Taken(m) \in m
      /\ SumFunctionOnSet(fun, m) = fun[Taken(m)] + SumFunctionOnSet(fun, m \ {Taken(m)})
  BY <1>3, FS_Subset, SumOfTaken
<1>5. SumFunctionOnSet(fun, m \ {Taken(m)}) \in Nat
  BY <1>2, <1>4
<1> QED BY <1>4, <1>5

\* Any element may be the first.
LEMMA SumWithout ==
    ASSUME NEW fun, NEW S, IsFiniteSet(S), \A x \in S : fun[x] \in Nat, NEW e \in S
    PROVE  SumFunctionOnSet(fun, S) = fun[e] + SumFunctionOnSet(fun, S \ {e})
<1> DEFINE Sum(T) == SumFunctionOnSet(fun, T)
           B == {T \in SUBSET S : \E x \in T : Sum(T) # fun[x] + Sum(T \ {x})}
<1>1. SUFFICES ASSUME B # {} PROVE FALSE
  OBVIOUS
<1>2. PICK m \in B : \A x \in m : m \ {x} \notin B
  <2> HIDE DEF B
  <2>1. B \in SUBSET SUBSET S
    BY DEF B
  <2> QED BY <1>1, <2>1, SmallestSet
<1>3. PICK x \in m : Sum(m) # fun[x] + Sum(m \ {x})
  OBVIOUS
<1> DEFINE y == Taken(m)
<1>4. y \in m /\ Sum(m) = fun[y] + Sum(m \ {y})
  BY FS_Subset, SumOfTaken
<1>5. x # y
  BY <1>3, <1>4
<1>6. Sum(m \ {y}) = fun[x] + Sum((m \ {y}) \ {x})
  BY <1>2, <1>4, <1>5
<1>7. Sum(m \ {x}) = fun[y] + Sum((m \ {x}) \ {y})
  BY <1>2, <1>4, <1>5
<1>8. Sum((m \ {x}) \ {y}) = Sum((m \ {y}) \ {x})
  <2>1. (m \ {x}) \ {y} = (m \ {y}) \ {x}
    OBVIOUS
  <2> QED BY <2>1
<1>9. Sum((m \ {x}) \ {y}) \in Nat /\ fun[x] \in Nat /\ fun[y] \in Nat
  BY <1>4, FS_Subset, SumType
<1> HIDE DEF Sum, B, y
<1> QED BY <1>3, <1>4, <1>6, <1>7, <1>8, <1>9

\* Zeros do not count.
LEMMA SumWithoutZeros ==
    ASSUME NEW fun, NEW S, IsFiniteSet(S), \A x \in S : fun[x] \in Nat,
           NEW T \in SUBSET S, \A x \in S \ T : fun[x] = 0
    PROVE  SumFunctionOnSet(fun, S) = SumFunctionOnSet(fun, T)
<1> DEFINE Sum(U) == SumFunctionOnSet(fun, U)
           B == {U \in SUBSET S : Sum(U) # Sum(U \cap T)}
<1>1. SUFFICES ASSUME B # {} PROVE FALSE
  <2>1. S \cap T = T
    OBVIOUS
  <2> QED BY <2>1
<1>2. PICK m \in B : \A x \in m : m \ {x} \notin B
  <2> HIDE DEF B
  <2>1. B \in SUBSET SUBSET S
    BY DEF B
  <2> QED BY <1>1, <2>1, SmallestSet
<1>3. PICK x \in m : x \notin T
  <2>1. m \cap T # m
    OBVIOUS
  <2> QED BY <2>1
<1>4. Sum(m) = fun[x] + Sum(m \ {x})
  BY FS_Subset, SumWithout
<1>5. Sum(m \ {x}) = Sum((m \ {x}) \cap T) /\ (m \ {x}) \cap T = m \cap T
  BY <1>2, <1>3
<1>6. Sum(m \ {x}) \in Nat /\ fun[x] = 0
  BY <1>3, FS_Subset, SumType
<1>7. Sum(m) # Sum(m \cap T)
  OBVIOUS
<1> HIDE DEF Sum, B
<1> QED BY <1>4, <1>5, <1>6, <1>7

\* If one element only is not zero, it is the sum.
LEMMA SumOfOne ==
    ASSUME NEW fun, NEW S, IsFiniteSet(S), \A x \in S : fun[x] \in Nat,
           NEW e \in S, \A x \in S \ {e} : fun[x] = 0
    PROVE  SumFunctionOnSet(fun, S) = fun[e]
<1>1. SumFunctionOnSet(fun, S) = SumFunctionOnSet(fun, {e})
  <2>1. {e} \in SUBSET S
    OBVIOUS
  <2> QED BY <2>1, SumWithoutZeros
<1>2. SumFunctionOnSet(fun, {e}) = fun[e] + SumFunctionOnSet(fun, {e} \ {e})
  BY FS_Singleton, SumWithout
<1>3. {e} \ {e} = {}
  OBVIOUS
<1> QED BY <1>1, <1>2, <1>3, SumOfNothing

-----------------------------------------------------------------------------
(* The counters of a report *)

\* A report that was parsed
Parsed == [form : {"other", "report"}, root : Counters, packages : Seq(Package)]

\* What the package at each position contributes; 0 if it has no such counter
Contribution(r, type, field) ==
    [i \in DOMAIN r.packages |->
        IF r.packages[i].counters[type] = NoCounter THEN 0 ELSE r.packages[i].counters[type][field]]

\* There are finitely many packages, each with counters.
LEMMA PackagesOK ==
    ASSUME NEW r \in Parsed
    PROVE  /\ CriticalPackages(r) \subseteq DOMAIN r.packages
           /\ DOMAIN r.packages \subseteq Nat
           /\ IsFiniteSet(CriticalPackages(r))
           /\ \A i \in DOMAIN r.packages :
                r.packages[i] \in Package /\ r.packages[i].counters \in [CounterTypes -> Counter]
<1>1. r.packages \in Seq(Package) /\ DOMAIN r.packages = 1 .. Len(r.packages)
  BY DEF Parsed
<1>2. IsFiniteSet(DOMAIN r.packages) /\ DOMAIN r.packages \subseteq Nat
  <2>1. Len(r.packages) \in Int
    BY <1>1
  <2>2. IsFiniteSet(1 .. Len(r.packages))
    BY <2>1, FS_Interval
  <2>3. DOMAIN r.packages = 1 .. Len(r.packages)
    BY <1>1
  <2> QED BY <2>1, <2>2, <2>3
<1>3. CriticalPackages(r) \subseteq DOMAIN r.packages
  BY DEF CriticalPackages
<1>4. \A i \in DOMAIN r.packages :
        r.packages[i] \in Package /\ r.packages[i].counters \in [CounterTypes -> Counter]
  <2>1. \A i \in DOMAIN r.packages : r.packages[i] \in Package
    BY <1>1
  <2> QED BY <2>1 DEF Package, Counters
<1> QED BY <1>1, <1>2, <1>3, <1>4, FS_Subset

\* aggregate_package_counter adds up the contributions: skipping a package without
\* the counter is counting 0 for it.
LEMMA AggregateIsSum ==
    ASSUME NEW r, NEW type, NEW P \in SUBSET DOMAIN r.packages, IsFiniteSet(P),
           \A i \in P : r.packages[i].counters[type] \in Counter,
           NEW field \in {"missed", "covered"}
    PROVE  /\ aggregate_package_counter(r, P, type)[field]
                = SumFunctionOnSet(Contribution(r, type, field), P)
           /\ aggregate_package_counter(r, P, type)[field] \in Nat
<1> DEFINE counted == {i \in P : r.packages[i].counters[type] # NoCounter}
           f == [i \in counted |-> r.packages[i].counters[type][field]]
           g == Contribution(r, type, field)
<1>1. aggregate_package_counter(r, P, type)[field] = SumFunctionOnSet(f, counted)
  BY DEF aggregate_package_counter
<1>2. \A i \in P : g[i] \in Nat
  BY DEF Contribution, Counter
<1>3. IsFiniteSet(counted) /\ counted \in SUBSET P
  BY FS_Subset
<1>4. \A i \in counted : f[i] = g[i]
  BY DEF Contribution
<1>5. \A i \in P \ counted : g[i] = 0
  BY DEF Contribution
<1> HIDE DEF f, g, counted
<1>6. SumFunctionOnSet(f, counted) = SumFunctionOnSet(g, counted)
  BY <1>3, <1>4, SumOfEqual
<1>7. SumFunctionOnSet(g, P) = SumFunctionOnSet(g, counted) /\ SumFunctionOnSet(g, P) \in Nat
  BY <1>2, <1>3, <1>5, SumWithoutZeros, SumType
<1> QED BY <1>1, <1>6, <1>7 DEF g

\* An accepted report was parsed and reaches both kinds of thresholds.
LEMMA AcceptedReport ==
    ASSUME NEW r \in CoverageReports, validate_report(r)
    PROVE  r \in Parsed /\ GlobalReached(r) /\ CriticalReached(r) /\ CriticalPackages(r) # {}
BY DEF CoverageReports, validate_report, validate_report_tree, Parsed, CriticalReached

\* The thresholds hold for the sums over the critical packages, whichever of them
\* have a counter, and there is something to cover: what validate_report_tree
\* compares is not better than the build.
THEOREM ThresholdsHold ==
    ASSUME NEW r \in CoverageReports, validate_report(r), NEW type \in CounterTypes
    PROVE  LET covered == SumFunctionOnSet(Contribution(r, type, "covered"), CriticalPackages(r))
               missed == SumFunctionOnSet(Contribution(r, type, "missed"), CriticalPackages(r))
           IN /\ Total(r.root[type]) > 0
              /\ covered + missed > 0
              /\ r.root[type].covered * 100 >= GLOBAL_THRESHOLDS[type] * Total(r.root[type])
              /\ covered * 100 >= CRITICAL_THRESHOLDS[type] * (covered + missed)
<1> DEFINE critical == CriticalPackages(r)
           c == aggregate_package_counter(r, critical, type)
<1>1. r \in Parsed /\ GlobalReached(r) /\ CriticalReached(r)
  BY AcceptedReport
<1>2. /\ Total(r.root[type]) > 0
      /\ r.root[type].covered * 100 >= GLOBAL_THRESHOLDS[type] * Total(r.root[type])
  BY <1>1 DEF GlobalReached, Reaches
<1>3. /\ c.missed + c.covered > 0
      /\ c.covered * 100 >= CRITICAL_THRESHOLDS[type] * (c.missed + c.covered)
  BY <1>1 DEF CriticalReached, Reaches, Total
<1>4. /\ critical \in SUBSET DOMAIN r.packages /\ IsFiniteSet(critical)
      /\ \A i \in critical : r.packages[i].counters[type] \in Counter
  BY <1>1, PackagesOK
<1>5. /\ c["covered"] = SumFunctionOnSet(Contribution(r, type, "covered"), critical)
      /\ c["missed"] = SumFunctionOnSet(Contribution(r, type, "missed"), critical)
      /\ c["covered"] \in Nat /\ c["missed"] \in Nat
  BY <1>4, AggregateIsSum
<1>6. c.missed + c.covered = c.covered + c.missed
  BY <1>5
<1> HIDE DEF c
<1> QED BY <1>2, <1>3, <1>5, <1>6 DEF critical

-----------------------------------------------------------------------------
(* The self test *)

\* There is a first critical package.
LEMMA FirstCriticalIsCritical ==
    ASSUME NEW r \in Parsed, CriticalPackages(r) # {}
    PROVE  FirstCritical(r) \in CriticalPackages(r)
<1>1. CriticalPackages(r) \in SUBSET Nat
  BY PackagesOK
<1>2. \E i \in CriticalPackages(r) : \A j \in CriticalPackages(r) : i <= j
  BY <1>1, LeastNumber
<1> QED BY <1>2 DEF FirstCritical

\* A copy with a root counter below the threshold is turned down.
LEMMA RootCopyFails ==
    ASSUME NEW r \in Parsed, NEW type \in CounterTypes, NEW missed \in Nat, NEW covered \in Nat,
           ~ (covered * 100 >= GLOBAL_THRESHOLDS[type] * (missed + covered))
    PROVE  ~ validate_report(set_root_counter(r, type, missed, covered))
<1> DEFINE q == set_root_counter(r, type, missed, covered)
           c == [missed |-> missed, covered |-> covered]
<1>1. q.root = [r.root EXCEPT ![type] = c] /\ r.root \in [CounterTypes -> Counter]
  BY DEF Parsed, Counters, set_root_counter
<1>2. q.root[type] = c
  BY <1>1
<1>3. ~ Reaches(c, GLOBAL_THRESHOLDS[type])
  BY DEF Reaches, Total
<1> QED BY <1>2, <1>3 DEF validate_report, validate_report_tree, GlobalReached

\* The groups and the order of the packages stay, their counters are replaced.
LEMMA CriticalCopy ==
    ASSUME NEW r \in Parsed, NEW type \in CounterTypes, NEW missed \in Nat, NEW covered \in Nat,
           CriticalPackages(r) # {},
           r.packages[FirstCritical(r)].counters[type] # NoCounter
    PROVE  LET q == set_critical_counter(r, type, missed, covered) IN
           /\ DOMAIN q.packages = DOMAIN r.packages
           /\ CriticalPackages(q) = CriticalPackages(r)
           /\ q.packages[FirstCritical(r)].counters[type] = [missed |-> missed, covered |-> covered]
           /\ \A i \in CriticalPackages(r) \ {FirstCritical(r)} :
                q.packages[i].counters[type] \in {NoCounter, [missed |-> 0, covered |-> 0]}
<1> DEFINE q == set_critical_counter(r, type, missed, covered)
           first == FirstCritical(r)
           New(i) == IF i = first THEN [missed |-> missed, covered |-> covered]
                     ELSE [missed |-> 0, covered |-> 0]
           Changed(i) == LET p == r.packages[i] IN
                         IF ~is_critical_package(p) \/ p.counters[type] = NoCounter THEN p
                         ELSE [p EXCEPT !.counters[type] = New(i)]
<1>1. q.packages = [i \in DOMAIN r.packages |-> Changed(i)]
  BY DEF set_critical_counter, Parsed
<1>2. \A i \in DOMAIN r.packages : q.packages[i] = Changed(i)
  BY <1>1
<1>3. \A i \in DOMAIN r.packages :
        r.packages[i] \in Package /\ r.packages[i].counters \in [CounterTypes -> Counter]
  BY PackagesOK
<1>4. ASSUME NEW i \in DOMAIN r.packages
      PROVE  /\ q.packages[i].group = r.packages[i].group
             /\ is_critical_package(r.packages[i]) /\ r.packages[i].counters[type] # NoCounter =>
                  q.packages[i].counters[type] = New(i)
             /\ r.packages[i].counters[type] = NoCounter => q.packages[i].counters[type] = NoCounter
  <2>1. q.packages[i] = Changed(i)
    BY <1>2
  <2>2. r.packages[i] \in Package /\ r.packages[i].counters \in [CounterTypes -> Counter]
    BY <1>3
  <2> HIDE DEF q, New
  <2>3. CASE ~is_critical_package(r.packages[i]) \/ r.packages[i].counters[type] = NoCounter
    BY <2>1, <2>3
  <2>4. CASE is_critical_package(r.packages[i]) /\ r.packages[i].counters[type] # NoCounter
    <3>1. q.packages[i] = [r.packages[i] EXCEPT !.counters[type] = New(i)]
      BY <2>1, <2>4
    <3>2. /\ q.packages[i].group = r.packages[i].group
          /\ q.packages[i].counters = [r.packages[i].counters EXCEPT ![type] = New(i)]
      BY <3>1, <2>2 DEF Package
    <3>3. q.packages[i].counters[type] = New(i)
      BY <2>2, <3>2
    <3> QED BY <2>4, <3>2, <3>3
  <2> QED BY <2>3, <2>4
<1>5. DOMAIN q.packages = DOMAIN r.packages
  BY <1>1
<1> HIDE DEF q, Changed
<1>6. CriticalPackages(q) = CriticalPackages(r)
  BY <1>4, <1>5 DEF CriticalPackages, is_critical_package
<1>7. first \in CriticalPackages(r)
  BY FirstCriticalIsCritical
<1>8. q.packages[first].counters[type] = [missed |-> missed, covered |-> covered]
  BY <1>4, <1>7 DEF CriticalPackages
<1>9. \A i \in CriticalPackages(r) \ {first} :
        q.packages[i].counters[type] \in {NoCounter, [missed |-> 0, covered |-> 0]}
  BY <1>4 DEF CriticalPackages
<1> QED BY <1>5, <1>6, <1>8, <1>9 DEF q

\* A copy in which the critical packages have counters below the threshold is
\* turned down: the others are zeroed, so the sum is the first one's counter.
LEMMA CriticalCopyFails ==
    ASSUME NEW r \in Parsed, NEW type \in CounterTypes, NEW missed \in Nat, NEW covered \in Nat,
           CriticalPackages(r) # {},
           r.packages[FirstCritical(r)].counters[type] # NoCounter,
           ~ (covered * 100 >= CRITICAL_THRESHOLDS[type] * (missed + covered))
    PROVE  ~ validate_report(set_critical_counter(r, type, missed, covered))
<1> DEFINE q == set_critical_counter(r, type, missed, covered)
           critical == CriticalPackages(q)
           first == FirstCritical(r)
           c == aggregate_package_counter(q, critical, type)
           given == [missed |-> missed, covered |-> covered]
<1>1. /\ DOMAIN q.packages = DOMAIN r.packages
      /\ critical = CriticalPackages(r)
      /\ q.packages[first].counters[type] = given
      /\ \A i \in critical \ {first} :
            q.packages[i].counters[type] \in {NoCounter, [missed |-> 0, covered |-> 0]}
  BY CriticalCopy
<1>2. first \in critical /\ critical \in SUBSET DOMAIN q.packages /\ IsFiniteSet(critical)
  BY <1>1, PackagesOK, FirstCriticalIsCritical
<1>3. given \in Counter /\ given # NoCounter
  <2>1. missed # -1
    OBVIOUS
  <2> QED BY <2>1 DEF Counter, NoCounter
<1>4. \A i \in critical : q.packages[i].counters[type] \in Counter
  BY <1>1, <1>3 DEF Counter
<1> HIDE DEF q, critical
<1>5. ASSUME NEW field \in {"missed", "covered"} PROVE c[field] = given[field]
  <2> DEFINE f == Contribution(q, type, field)
  <2>1. f[first] = given[field]
    BY <1>1, <1>2, <1>3 DEF Contribution
  <2>2. \A i \in critical \ {first} : f[i] = 0
    BY <1>1, <1>2 DEF Contribution
  <2>3. \A i \in critical : f[i] \in Nat
    BY <2>1, <2>2
  <2>4. SumFunctionOnSet(f, critical) = f[first]
    <3> HIDE DEF f
    <3> QED BY <1>2, <2>2, <2>3, SumOfOne
  <2> QED BY <1>2, <1>4, <2>1, <2>4, AggregateIsSum
<1>6. c.missed = missed /\ c.covered = covered
  BY <1>5
<1> HIDE DEF c
<1>7. ~ Reaches(c, CRITICAL_THRESHOLDS[type])
  BY <1>6 DEF Reaches, Total
<1> QED
  BY <1>7 DEF c, critical, q, validate_report, validate_report_tree, CriticalReached

\* The self test finds nothing to complain about in a report that is accepted and
\* whose first critical package has both counters: no copy is accepted by mistake.
THEOREM SelfTestFailsClosed ==
    ASSUME NEW r \in CoverageReports, validate_report(r), ~ SelfTestRaises(r)
    PROVE  run_negative_self_test(r) = {}
<1>1. r \in Parsed /\ CriticalPackages(r) # {}
  BY AcceptedReport
<1>2. \A type \in CounterTypes : r.packages[FirstCritical(r)].counters[type] # NoCounter
  BY DEF SelfTestRaises
<1>3. /\ ~ validate_report(set_root_counter(r, "LINE", 21, 79))
      /\ ~ validate_report(set_root_counter(r, "BRANCH", 31, 69))
  BY <1>1, RootCopyFails DEF CounterTypes, GLOBAL_THRESHOLDS
<1>4. /\ ~ validate_report(set_critical_counter(r, "LINE", 26, 74))
      /\ ~ validate_report(set_critical_counter(r, "BRANCH", 36, 64))
  BY <1>1, <1>2, CriticalCopyFails DEF CounterTypes, CRITICAL_THRESHOLDS
<1>5. ~ validate_report(remove_critical(r))
  <2>1. remove_critical(r).packages
            = [i \in DOMAIN r.packages \ CriticalPackages(r) |-> r.packages[i]]
    BY <1>1 DEF remove_critical, Parsed
  <2>2. CriticalPackages(remove_critical(r)) = {}
    BY <2>1 DEF CriticalPackages
  <2> QED BY <2>2 DEF validate_report, validate_report_tree, CriticalReached
<1>6. ~ validate_report([r EXCEPT !.form = "malformed"])
  BY <1>1 DEF validate_report, Parsed
<1> QED BY <1>3, <1>4, <1>5, <1>6 DEF run_negative_self_test

=============================================================================
