---------------------------- MODULE CoverageGate ----------------------------
(***************************************************************************)
(* The measured part of check_emp008.py: the JaCoCo report of a build is   *)
(* held against global thresholds and against thresholds for the critical  *)
(* packages, and mutated copies of it must be turned down (--self-test).   *)
(*                                                                         *)
(* Ratios are compared without division: the quotient of two counts is     *)
(* rounded to the double nearest to it, as the thresholds are, so both     *)
(* comparisons agree for counts of any real report.                        *)
(***************************************************************************)
EXTENDS Integers, Sequences, Functions

CounterTypes == {"LINE", "BRANCH"}

\* Minimal percentages
GLOBAL_THRESHOLDS == [LINE |-> 80, BRANCH |-> 70]
CRITICAL_THRESHOLDS == [LINE |-> 75, BRANCH |-> 65]

CRITICAL_PREFIXES == {"coupon/domain", "coupon/application", "coupon/adapters/persistence",
                      "geolocation/domain", "geolocation/adapters"}

RequiredClasses == {"JdbcCouponRedemptionRepository", "TransactionalCouponRedemptionService",
                    "ServletClientIpResolver"}

\* JaCoCo writes no counter for what a package has none of.
NoCounter == [missed |-> -1, covered |-> 0]
Counter == [missed : Nat, covered : Nat] \cup {NoCounter}
Counters == [CounterTypes -> Counter]

Package == [group : STRING, counters : Counters, classes : SUBSET STRING]

\* What the build may leave: no file or an empty one, no XML, XML with another
\* root element, or a report.
CoverageReports ==
    [form : {"missing", "malformed"}] \cup
    [form : {"other", "report"}, root : Counters, packages : Seq(Package)]

Total(c) == c.missed + c.covered
Reaches(c, minimum) == c.covered * 100 >= minimum * Total(c)

is_critical_package(p) == p.group \in CRITICAL_PREFIXES

\* A list of packages is the set of their positions in the report.
CriticalPackages(r) == {i \in DOMAIN r.packages : is_critical_package(r.packages[i])}

Groups(r, packages) == {r.packages[i].group : i \in packages}

\* A package without the counter is skipped.
aggregate_package_counter(r, packages, type) ==
    LET counted == {i \in packages : r.packages[i].counters[type] # NoCounter}
        SumOf(field) ==
            SumFunctionOnSet([i \in counted |-> r.packages[i].counters[type][field]], counted)
    IN [missed |-> SumOf("missed"), covered |-> SumOf("covered")]

GlobalReached(r) ==
    \A type \in CounterTypes :
        LET c == r.root[type] IN
        c # NoCounter /\ Total(c) > 0 /\ Reaches(c, GLOBAL_THRESHOLDS[type])

\* Mutant: one critical package with the ratio is enough.
CriticalOfFirstOnly(r) ==
    /\ CriticalPackages(r) # {}
    /\ CRITICAL_PREFIXES = Groups(r, CriticalPackages(r))
    /\ \A type \in CounterTypes :
        LET first == {i \in CriticalPackages(r) : \A j \in CriticalPackages(r) : i <= j}
            c == aggregate_package_counter(r, first, type) IN
        Total(c) > 0 /\ Reaches(c, CRITICAL_THRESHOLDS[type])

CriticalReached(r) ==
    /\ CriticalPackages(r) # {}
    /\ CRITICAL_PREFIXES = Groups(r, CriticalPackages(r))
    /\ \A type \in CounterTypes :
        LET c == aggregate_package_counter(r, CriticalPackages(r), type) IN
        Total(c) > 0 /\ Reaches(c, CRITICAL_THRESHOLDS[type])

validate_report_tree(r) ==
    /\ r.form = "report"
    /\ GlobalReached(r)
    /\ CriticalReached(r)
    /\ RequiredClasses \subseteq UNION {r.packages[i].classes : i \in DOMAIN r.packages}

\* Neither of the other forms has a root element to go on with.
validate_report(r) == r.form \notin {"missing", "malformed"} /\ validate_report_tree(r)

-----------------------------------------------------------------------------
(* run_negative_self_test: mutated copies of an accepted report *)

set_root_counter(r, type, missed, covered) ==
    [r EXCEPT !.root[type] = [missed |-> missed, covered |-> covered]]

FirstCritical(r) ==
    CHOOSE i \in CriticalPackages(r) : \A j \in CriticalPackages(r) : i <= j

\* Mutant: the other critical packages keep their counters.
LowerFirstOnly(r, type, missed, covered) ==
    [r EXCEPT !.packages[FirstCritical(r)].counters[type] = [missed |-> missed, covered |-> covered]]

\* The counters of the critical packages are zeroed, those of the first replaced.
set_critical_counter(r, type, missed, covered) ==
    [r EXCEPT !.packages = [i \in DOMAIN r.packages |->
        LET p == r.packages[i] IN
        IF ~is_critical_package(p) \/ p.counters[type] = NoCounter THEN p
        ELSE [p EXCEPT !.counters[type] =
                IF i = FirstCritical(r) THEN [missed |-> missed, covered |-> covered]
                ELSE [missed |-> 0, covered |-> 0]]]]

\* The other packages keep their positions.
remove_critical(r) ==
    [r EXCEPT !.packages = [i \in DOMAIN @ \ CriticalPackages(r) |-> @[i]]]

\* next() without a default raises StopIteration if the first critical package
\* has no counter of the type.
SelfTestRaises(r) ==
    \E type \in CounterTypes : r.packages[FirstCritical(r)].counters[type] = NoCounter

\* What does not fail although it should
run_negative_self_test(r) ==
    {copy \in {set_root_counter(r, "LINE", 21, 79), set_root_counter(r, "BRANCH", 31, 69),
               set_critical_counter(r, "LINE", 26, 74), set_critical_counter(r, "BRANCH", 36, 64),
               remove_critical(r), [r EXCEPT !.form = "malformed"]} : validate_report(copy)}

\* check_emp008.py --report <r> --self-test, its static part aside
MeasuredContract(r) ==
    /\ validate_report(r)
    /\ ~SelfTestRaises(r)
    /\ run_negative_self_test(r) = {}

=============================================================================
