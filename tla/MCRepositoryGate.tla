-------------------------- MODULE MCRepositoryGate --------------------------
(* An instance of RepositoryGate for TLC. *)
EXTENDS RepositoryGate

SomeContracts ==
    {<<"hygiene", "CODEX_PROMPT.md">>, <<"links", "markdown">>, <<"EMP-002", "pom.xml">>,
     <<"EMP-003", "README.md">>, <<"EMP-004", "V2.sql">>, <<"EMP-006 privacy", "V1.sql">>,
     <<"EMP-007", "release-history.md">>, <<"EMP-008", "git index">>,
     <<"EMP-009 tests", "executor cleanup">>, <<"EMP-009 verified", "EMP-009">>,
     <<"EMP-010", "EMP-010-summary">>, <<"EMP-011 closed", "EMP-011">>}

Entry(group, line, branch, classes) ==
    [group |-> group, counters |-> [LINE |-> line, BRANCH |-> branch], classes |-> classes]
C(missed, covered) == [missed |-> missed, covered |-> covered]

\* A build's report in which the critical packages but the first have these
\* counters, and persistence, the first, has this counter of branches
Report(line, branch, firstBranch) ==
    [form |-> "report",
     root |-> [LINE |-> C(20, 80), BRANCH |-> C(3, 7)],
     packages |->
        <<Entry("coupon/adapters/persistence", C(5, 95), firstBranch, {"JdbcCouponRedemptionRepository"}),
          Entry("coupon/adapters/web", C(9, 1), NoCounter, {}),
          Entry("coupon/application", line, branch, {"TransactionalCouponRedemptionService"}),
          Entry("coupon/domain", C(0, 100), NoCounter, {}),
          Entry("geolocation/adapters", line, branch, {"ServletClientIpResolver"}),
          Entry("geolocation/domain", C(0, 100), C(0, 10), {})>>]

SomeReports ==
    {Report(C(10, 190), C(1, 19), C(1, 19)),        \* well above
     Report(C(60, 40), C(16, 24), C(3, 17)),        \* exactly 65 % of branches
     Report(C(120, 80), C(1, 19), C(1, 19)),        \* critical lines too few
     Report(C(10, 190), C(1, 19), NoCounter)}       \* persistence without branches
=============================================================================
