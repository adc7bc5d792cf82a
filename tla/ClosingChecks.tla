--------------------------- MODULE ClosingChecks ---------------------------
(***************************************************************************)
(* The check_*.py scripts of the closing tasks: coverage (EMP-008),        *)
(* concurrency evidence (EMP-009), CI and delivery (EMP-010), final review *)
(* (EMP-011).  Each task has a script about its refinement and one about   *)
(* what was made of it.                                                    *)
(***************************************************************************)
EXTENDS GovernanceChecks

(* check_emp008_refinement.py and the static part of check_emp008.py *)

\* The backlog is not looked at.
emp008_refinement(w) ==
    LET p == w.paper["EMP-008"] IN
    /\ Honours(w, "EMP-008", {"EMP-008", "EMP-008-summary", "EMP-008-review-checklist"})
    /\ p.evidence \in Measured
    /\ p.state = "DRAFT" => p.allowed = "NO"
    /\ p.state = "ACCEPTED" => p.allowed = "YES" /\ {"owner", "date"} \subseteq p.filled
    /\ validate_no_prompt_file(w)

static_contract_errors(w) ==
    /\ Honours(w, "EMP-008", {"pom.xml", "git index", ".gitignore"})
    /\ validate_no_prompt_file(w)

-----------------------------------------------------------------------------
(* check_emp009_refinement.py and check_emp009.py *)

VerifiedEvidence(w) ==
    LET p == w.paper["EMP-009"] IN
    /\ p.implementation = "DONE_AND_VERIFIED"
    /\ p.evidence = "COMPLETE"
    /\ Honours(w, "EMP-009 verified", {"EMP-009"})

emp009_refinement(w) ==
    LET p == w.paper["EMP-009"] IN
    /\ Honours(w, "EMP-009", {"EMP-009", "EMP-009-summary", "EMP-009-review-checklist",
                              "CreateCouponApiIT", "CouponRedemptionApiIT"})
    /\ p.state = "DRAFT" =>
        p.allowed = "NO" /\ w.current.active = "EMP-009" /\ w.current.refining
    /\ p.state = "ACCEPTED" =>
        /\ p.evidence \in {"PARTIAL", "COMPLETE"}
        /\ p.allowed = "YES"
        /\ {"owner", "date"} \subseteq p.filled
        /\ p.status \in Lifecycle \ {"REFINEMENT"}
        /\ p.status = "DONE_AND_VERIFIED" => VerifiedEvidence(w)
    /\ HasRow(w, "EMP-009", "EMP-009", Lifecycle)
    /\ \E r \in w.rows : r.id = "EMP-008"
    /\ validate_no_prompt_file(w)

emp009(w) ==
    /\ Honours(w, "EMP-009 tests", ConcurrencyTests \cup {"executor cleanup", "fixture"})
    /\ validate_no_prompt_file(w)

-----------------------------------------------------------------------------
(* check_emp010_refinement.py and the static part of check_emp010.py *)

DeliveryMetadata(w) ==
    LET p == w.paper["EMP-010"] IN
    /\ p.evidence \in Measured \cup {"COMPLETE"}
    /\ p.state = "DRAFT" =>
        /\ p.status = "REFINEMENT"
        /\ p.implementation = "NOT_STARTED"
        /\ p.allowed = "NO"
        /\ p.filled \cap {"owner", "date", "scope"} = {}
    /\ p.state = "ACCEPTED" =>
        /\ p.allowed = "YES"
        /\ {"owner", "date", "scope"} \subseteq p.filled
        /\ p.status = "READY" => p.implementation = "NOT_STARTED"
        /\ p.review \in {"ACCEPTED", "VERIFIED"}

\* The decisions are to be accepted in a draft as well.
DeliveryContent(w) ==
    /\ w.paper["EMP-010"].decided = "ACCEPT"
    /\ Honours(w, "EMP-010", {"EMP-010"})
    /\ w.paper["EMP-010"].state = "ACCEPTED" => "no question" \in w.paper["EMP-010"].filled

\* Tokens of the current status that are looked for anywhere in it: other tasks
\* have a line with the same words.
SomeLineAccepted(w) ==
    \E t \in {"EMP-008", "EMP-009", "EMP-010", "EMP-011"} : w.current.line[t].refinement = "ACCEPTED"
SomeLineAllows(w, answer) ==
    \E t \in {"EMP-010", "EMP-011"} : w.current.line[t].allowed = answer

DeliveryGovernance(w) ==
    LET p == w.paper["EMP-010"] IN
    IF p.state = "DRAFT"
    THEN HasRow(w, "EMP-010", "EMP-010", {"REFINEMENT"}) /\ SomeLineAllows(w, "NO")
    ELSE /\ p.status = "READY" => HasRow(w, "EMP-010", "EMP-010", {"READY"})
         /\ SomeLineAccepted(w)
         /\ SomeLineAllows(w, "YES")

validate_summary_checklist(w) ==
    Honours(w, "EMP-010", {"EMP-010-summary", "EMP-010-review-checklist"})

\* Mutant: a draft is not kept from having an implementation.
BoundaryOfReadyOnly(w) ==
    w.paper["EMP-010"].implementation = "NOT_STARTED" /\ w.paper["EMP-010"].status = "READY" =>
        w.code \cap {"ci.yml", "check_emp010.py", "prometheus", "digests",
                     "delivery in package_source.sh"} = {}

validate_preimplementation_boundary(w) ==
    w.paper["EMP-010"].implementation = "NOT_STARTED"
        /\ w.paper["EMP-010"].status \in {"REFINEMENT", "READY"} =>
        w.code \cap {"ci.yml", "check_emp010.py", "prometheus", "digests",
                     "delivery in package_source.sh"} = {}

emp010_refinement(w) ==
    /\ DeliveryMetadata(w)
    /\ DeliveryContent(w)
    /\ DeliveryGovernance(w)
    /\ validate_summary_checklist(w)
    /\ validate_preimplementation_boundary(w)
    /\ validate_no_prompt_file(w)

static_check(w) ==
    /\ {"ci.yml", "prometheus", "digests"} \subseteq w.code
    /\ Honours(w, "EMP-010", {"ci.yml", "Dockerfile", "pom.xml", "application.yml",
                              "docker-compose.yml", "RequestIdFilter", "CouponServiceMetrics",
                              "instrumented services", "domain", "tests", "openapi.yaml",
                              "package_source.py", "docker_smoke.sh", "Makefile"})
    /\ validate_no_prompt_file(w)

-----------------------------------------------------------------------------
(* check_emp011_refinement.py and check_emp011.py *)

ReviewMetadata(w) ==
    LET p == w.paper["EMP-011"] IN
    /\ p.evidence \in Measured
    /\ p.state = "DRAFT" =>
        /\ p.status = "REFINEMENT"
        /\ p.implementation = "NOT_STARTED"
        /\ p.allowed = "NO"
        /\ p.filled \cap {"owner", "date", "scope"} = {}
        /\ p.review = "DRAFT"
    /\ p.state = "ACCEPTED" =>
        /\ p.allowed = "YES"
        /\ {"owner", "date", "scope"} \subseteq p.filled
        /\ <<p.status, p.implementation, p.review>> \in
               {<<"READY", "NOT_STARTED", "ACCEPTED">>,
                <<"IN_PROGRESS", "IN_PROGRESS", "IN_PROGRESS">>,
                <<"DONE_AND_VERIFIED", "DONE_AND_VERIFIED", "PASS">>}

ReviewContent(w) ==
    /\ Honours(w, "EMP-011", {"EMP-011"})
    /\ w.paper["EMP-011"].decided = IF w.paper["EMP-011"].state = "DRAFT" THEN "PENDING" ELSE "ACCEPT"

\* Mutant: the decision log may lag behind.
GovernanceWithoutDecisions(w) ==
    LET p == w.paper["EMP-011"] IN
    IF p.state = "DRAFT"
    THEN /\ HasRow(w, "EMP-011", "EMP-011", {"REFINEMENT"})
         /\ SomeLineAllows(w, "NO")
    ELSE /\ HasRow(w, "EMP-011", "EMP-011", {p.status})
         /\ SomeLineAccepted(w)
         /\ SomeLineAllows(w, "YES")

ReviewGovernance(w) ==
    LET p == w.paper["EMP-011"] IN
    IF p.state = "DRAFT"
    THEN /\ HasRow(w, "EMP-011", "EMP-011", {"REFINEMENT"})
         /\ \E t \in {"EMP-008", "EMP-009", "EMP-010", "EMP-011"} : w.current.line[t].refinement = "DRAFT"
         /\ SomeLineAllows(w, "NO")
         /\ w.decisions = "PROPOSED"
    ELSE /\ HasRow(w, "EMP-011", "EMP-011", {p.status})
         /\ SomeLineAccepted(w)
         /\ SomeLineAllows(w, "YES")
         /\ w.decisions = "ACCEPTED"

validate_supporting_docs(w) ==
    Honours(w, "EMP-011", {"EMP-011-summary", "EMP-011-review-checklist"})

ReviewBoundary(w) ==
    w.paper["EMP-011"].implementation = "NOT_STARTED" =>
        "stale markers of the audit" \in w.code /\ "check_emp011.py" \notin w.code

emp011_refinement(w) ==
    /\ ReviewMetadata(w)
    /\ ReviewContent(w)
    /\ ReviewGovernance(w)
    /\ validate_supporting_docs(w)
    /\ ReviewBoundary(w)
    /\ validate_no_prompt_file(w)

FinalReview(w) ==
    LET p == w.paper["EMP-011"] IN
    /\ p.state = "ACCEPTED" /\ p.allowed = "YES" /\ "scope" \in p.filled
    /\ p.status = "DONE_AND_VERIFIED"
    /\ p.implementation = "DONE_AND_VERIFIED"
    /\ p.evidence = "MEASURED_AND_VERIFIED"
    /\ p.review = "PASS"
    /\ p.decided = "ACCEPT"

\* The public interface has exactly two operations, both POST.
emp011(w) ==
    /\ FinalReview(w)
    /\ "redemption in openapi.yaml" \in w.code
    /\ "stale markers of the audit" \notin w.code
    /\ HasRow(w, "EMP-011", "EMP-011", {"DONE_AND_VERIFIED"})
    /\ w.current.line["EMP-011"].gate = "verified"
    /\ Honours(w, "EMP-011", {"README.md", "api-contract.md", "overview.md", "test-strategy.md",
                              "refinements/README.md", "risk-register.md", "current-status.md",
                              "requirements-traceability.md", "openapi.yaml"})
    /\ Honours(w, "EMP-011 closed", {"EMP-011", "EMP-011-review-checklist"})
    /\ validate_no_prompt_file(w)

=============================================================================
