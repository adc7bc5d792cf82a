-------------------------- MODULE GovernanceChecks --------------------------
(***************************************************************************)
(* The check_*.py scripts of make verify: what each of their functions     *)
(* demands of a working copy w.  A script succeeds if none of its          *)
(* functions adds an error; messages and exit codes other than 0 are not   *)
(* told apart.                                                             *)
(*                                                                         *)
(* A document is what the scripts read of it: rows of the backlog, lines   *)
(* of metadata, lines of the current status.  The long lists of tokens a   *)
(* script wants in, or forbids in, a file are one contract <<task, file>>, *)
(* which the file honours or not.                                          *)
(***************************************************************************)
EXTENDS Integers

Tasks == {"EMP-000", "EMP-001", "EMP-002", "EMP-003", "EMP-004", "EMP-005",
          "EMP-006", "EMP-007", "EMP-008", "EMP-009", "EMP-010", "EMP-011"}

\* Tasks with a refinement of their own
Refined == Tasks \ {"EMP-000", "EMP-002", "EMP-005"}

ALLOWED_STATUSES == {"PLANNED", "REFINEMENT", "READY", "IN_PROGRESS", "BLOCKED",
                     "DONE", "DONE_AND_VERIFIED"}
Started == {"READY", "IN_PROGRESS", "DONE", "DONE_AND_VERIFIED"}
Lifecycle == {"REFINEMENT", "READY", "IN_PROGRESS", "DONE_AND_VERIFIED"}
Implementations == {"NOT_STARTED", "IN_PROGRESS", "DONE_AND_VERIFIED"}
Measured == {"NOT_MEASURED", "MEASURED", "MEASURED_AND_VERIFIED"}

\* A line of the table; it is whole if it has as many cells as the header.
Row == [id : Tasks, status : ALLOWED_STATUSES, refinement : Refined, whole : BOOLEAN]

\* What an acceptance fills in: who accepted, when, that the scope is frozen,
\* and that no blocking question is left
Entries == {"owner", "date", "scope", "no question"}

\* Lines at the top of docs/project/refinements/EMP-*.md; decided: the owner's
\* eight numbered decisions
Paper == [state : {"DRAFT", "ACCEPTED"}, allowed : {"YES", "NO"}, filled : SUBSET Entries,
          status : Lifecycle, implementation : Implementations,
          evidence : Measured \cup {"PARTIAL", "COMPLETE"},
          review : {"DRAFT", "READY_FOR_OWNER_REVIEW", "IN_PROGRESS", "ACCEPTED", "VERIFIED", "PASS"},
          decided : {"PENDING", "ACCEPT"}]

\* Lines of current-status.md about a task
Line == [refinement : {"DRAFT", "ACCEPTED"}, allowed : {"YES", "NO"},
         implementation : Implementations \cup {"IMPLEMENTED"}, gate : {"candidate", "verified"}]

None == "none"

\* active: the active task, or None while the next refinement is awaited;
\* refining: its line says that the task is a refinement.
Current == [active : Tasks \cup {None}, refining : BOOLEAN, dated : BOOLEAN,
            draftReady : BOOLEAN, line : [Refined -> Line]]

\* redemption in two files, the traces of EMP-010 and those of EMP-011
Features == {"redemption in openapi.yaml", "redemption in CouponController",
             "ci.yml", "check_emp010.py", "prometheus", "digests",
             "delivery in package_source.sh", "check_emp011.py",
             "stale markers of the audit"}

ConcurrencyTests == {"concurrentUsersRespectExactCapacityInThreeRounds",
                     "sameUserConcurrentRetriesProduceExactlyOneSuccessAndNineteenConflicts",
                     "twoDifferentUsersCompeteForTheLastSlotWithExactOutcomes",
                     "rowLockOnOneCouponDoesNotGloballySerializeAnotherCoupon",
                     "concurrentCaseVariantsProduceExactlyOneCreatedCoupon"}

\* The files that the scripts hold to a contract, in whatever phase of its task
BootstrapFiles == {"pom.xml", "maven-wrapper.properties", "mvnw", "V1.sql",
    "CouponServiceApplication", "DatabaseMigrationIT", "Dockerfile", ".dockerignore",
    "docker-compose.yml", "Makefile", "docker_smoke.sh", "verify.sh", "application.yml",
    "current-status.md"}
CreateFiles == {"EMP-003", "domain", "CreateCouponService", "JdbcCouponRepository",
    "CouponController", "ApiExceptionHandler", "CreateCouponServiceTest", "CreateCouponApiIT",
    "openapi.yaml", "README.md", "AUDIT.md"}
RedemptionFiles == {"EMP-004", "EMP-004-summary", "EMP-004-review-checklist", "V2.sql",
    "RedeemCouponService", "TransactionalCouponRedemptionService",
    "JdbcCouponRedemptionRepository", "RedeemCouponRequest", "UserIdTest",
    "RedeemCouponServiceTest", "CouponRedemptionApiIT", "CouponRedemptionErrorApiIT",
    "CouponRedemptionRollbackIT", "openapi.yaml", "tests"}
ClientAddressFiles == {"EMP-006", "EMP-006-summary", "EMP-006-review-checklist",
    "geolocation sources", "geolocation tests", "application.yml", "application-local.yml",
    "docker_smoke.sh", "docker-compose.yml", "pom.xml"}
OpenApiFiles == {"EMP-007", "EMP-007-summary", "EMP-007-review-checklist", "openapi.yaml",
    "pom.xml", "application.yml", ".dockerignore", "Dockerfile", "javadoc",
    "OpenApiDocumentationIT", "README.md", "release-history.md"}
CoverageFiles == {"EMP-008", "EMP-008-summary", "EMP-008-review-checklist", "pom.xml",
    "git index", ".gitignore"}
ConcurrencyFiles == {"EMP-009", "EMP-009-summary", "EMP-009-review-checklist",
    "CreateCouponApiIT", "CouponRedemptionApiIT"}
DeliveryFiles == {"EMP-010", "EMP-010-summary", "EMP-010-review-checklist", "ci.yml",
    "Dockerfile", "pom.xml", "application.yml", "docker-compose.yml", "RequestIdFilter",
    "CouponServiceMetrics", "instrumented services", "domain", "tests", "openapi.yaml",
    "package_source.py", "docker_smoke.sh", "Makefile"}
ReviewFiles == {"EMP-011", "EMP-011-summary", "EMP-011-review-checklist", "README.md",
    "api-contract.md", "overview.md", "test-strategy.md", "refinements/README.md",
    "risk-register.md", "current-status.md", "requirements-traceability.md", "openapi.yaml"}

\* The contracts <<task, file>>: of the documents, of the features, of the closing tasks
DocumentContracts ==
    {<<"hygiene", "CODEX_PROMPT.md">>, <<"links", "markdown">>, <<"text", "markdown">>,
     <<"index", "DOCUMENTATION_INDEX.md">>} \cup
    ({"unique"} \X {"decision-log.md", "risk-register.md"})
FeatureContracts ==
    ({"EMP-002"} \X BootstrapFiles) \cup ({"EMP-003"} \X CreateFiles) \cup
    ({"EMP-004"} \X RedemptionFiles) \cup
    ({"EMP-005 merged"} \X {"current-status.md", "backlog.md"}) \cup
    ({"EMP-006"} \X ClientAddressFiles) \cup ({"EMP-006 privacy"} \X {"EMP-006", "V1.sql"}) \cup
    ({"EMP-007"} \X OpenApiFiles)
ClosingContracts ==
    ({"EMP-008"} \X CoverageFiles) \cup
    ({"EMP-009"} \X ConcurrencyFiles) \cup ({"EMP-009 verified"} \X {"EMP-009"}) \cup
    ({"EMP-009 tests"} \X (ConcurrencyTests \cup {"executor cleanup", "fixture"})) \cup
    ({"EMP-010"} \X DeliveryFiles) \cup ({"EMP-011"} \X ReviewFiles) \cup
    ({"EMP-011 closed"} \X {"EMP-011", "EMP-011-review-checklist"})
AllContracts == DocumentContracts \cup FeatureContracts \cup ClosingContracts

\* decisions: status of D-061 to D-068; missing: files that are not there;
\* broken: contracts that a file does not honour
WorkingCopies == [rows : SUBSET Row, paper : [Refined -> Paper], current : Current,
                  decisions : {"PROPOSED", "ACCEPTED"}, code : SUBSET Features,
                  missing : SUBSET STRING, broken : SUBSET AllContracts]

Honours(w, task, files) ==
    /\ files \cap w.missing = {}
    /\ \A f \in files : <<task, f>> \notin w.broken

\* Does the backlog have a line for this task?  Scripts that look for its text
\* see lines that do not have all cells, too.
HasRow(w, id, refinement, statuses) ==
    \E r \in w.rows : r.id = id /\ r.refinement = refinement /\ r.status \in statuses

\* No file of the working copy is named CODEX_PROMPT.md.
validate_no_prompt_file(w) == <<"hygiene", "CODEX_PROMPT.md">> \notin w.broken

-----------------------------------------------------------------------------
(* check_documentation.py *)

REQUIRED_FILES ==
    {"README.md", "CHANGELOG.md", "PROJECT_RULES.md", "AUDIT.md", "docs/README.md",
     "DOCUMENTATION_INDEX.md", "documentation-governance.md", "refinement-process.md",
     "definition-of-ready-and-done.md", "backlog.md", "current-status.md", "decision-log.md",
     "risk-register.md", "lessons-learned.md", "release-history.md", "refinements/README.md",
     "overview.md", "data-model.md", "api-contract.md", "test-strategy.md",
     "requirements-traceability.md", "adr/README.md", "ADR-0001", "ADR-0002", "ADR-0003",
     "EMP-001-summary", "EMP-003-summary", "EMP-004-summary", "EMP-006-summary",
     "EMP-007-summary", "EMP-008-summary", "EMP-009-summary", "EMP-010-summary",
     "EMP-011-summary", "EMP-001-review-checklist", "EMP-003-review-checklist",
     "EMP-004-review-checklist", "EMP-006-review-checklist", "EMP-007-review-checklist",
     "EMP-008-review-checklist", "EMP-009-review-checklist", "EMP-010-review-checklist",
     "EMP-011-review-checklist"} \cup Refined

validate_required_files(w) == REQUIRED_FILES \cap w.missing = {}

\* A line that has not as many cells as the header is left out.
parse_markdown_table(w) == {r \in w.rows : r.whole}

validate_backlog(w) ==
    /\ parse_markdown_table(w) # {}
    /\ \A r, s \in parse_markdown_table(w) : r.id = s.id => r = s

AcceptedMetadata(p) ==
    p.state = "ACCEPTED" => {"date", "no question"} \subseteq p.filled /\ p.allowed = "YES"

validate_refinements(w) ==
    \A r \in parse_markdown_table(w) :
        /\ r.refinement \notin w.missing
        /\ AcceptedMetadata(w.paper[r.refinement])
        /\ r.status \in Started => w.paper[r.refinement].state = "ACCEPTED"

validate_current_status(w) ==
    /\ w.current.dated
    /\ w.current.active # None =>
        \E r \in parse_markdown_table(w) :
            /\ r.id = w.current.active
            /\ r.status \in {"PLANNED", "REFINEMENT", "READY", "IN_PROGRESS", "BLOCKED"}
            /\ r.status = "PLANNED" => w.current.refining

validate_links(w) == Honours(w, "links", {"markdown"})
validate_documentation_index(w) == Honours(w, "index", {"DOCUMENTATION_INDEX.md"})
validate_text_hygiene(w) == Honours(w, "text", {"markdown"})
validate_unique_register_ids(w) == Honours(w, "unique", {"decision-log.md", "risk-register.md"})

documentation(w) ==
    /\ validate_required_files(w)
    /\ validate_backlog(w)
    /\ validate_refinements(w)
    /\ validate_current_status(w)
    /\ validate_links(w)
    /\ validate_documentation_index(w)
    /\ validate_text_hygiene(w)
    /\ validate_unique_register_ids(w)

-----------------------------------------------------------------------------
(* check_bootstrap.py *)

validate_pom(w) == Honours(w, "EMP-002", {"pom.xml"})
validate_wrapper(w) == Honours(w, "EMP-002", {"maven-wrapper.properties", "mvnw"})
validate_migration(w) == Honours(w, "EMP-002", {"V1.sql"})
validate_java_contract(w) == Honours(w, "EMP-002", {"CouponServiceApplication", "DatabaseMigrationIT"})
validate_container_contract(w) ==
    Honours(w, "EMP-002", {"Dockerfile", ".dockerignore", "docker-compose.yml", "Makefile",
                           "docker_smoke.sh", "verify.sh"})
validate_runtime_configuration(w) == Honours(w, "EMP-002", {"application.yml"})

BootstrapState(w) ==
    /\ \E r \in w.rows : r.id = "EMP-002" /\ r.status = "DONE_AND_VERIFIED"
    /\ Honours(w, "EMP-002", {"current-status.md"})

bootstrap(w) ==
    /\ validate_pom(w)
    /\ validate_wrapper(w)
    /\ validate_migration(w)
    /\ validate_java_contract(w)
    /\ validate_container_contract(w)
    /\ validate_runtime_configuration(w)
    /\ BootstrapState(w)

-----------------------------------------------------------------------------
(* check_emp003.py *)

\* EMP-003 and EMP-007 have scripts that know accepted refinements only.
AcceptedOnly(w, t) ==
    /\ w.paper[t].state = "ACCEPTED"
    /\ w.paper[t].allowed = "YES"
    /\ {"scope", "no question"} \subseteq w.paper[t].filled
    /\ Honours(w, t, {t})

validate_domain_boundaries(w) == Honours(w, "EMP-003", {"domain"})
validate_application_and_persistence(w) ==
    Honours(w, "EMP-003", {"CreateCouponService", "JdbcCouponRepository"})
validate_api(w) == Honours(w, "EMP-003", {"CouponController", "ApiExceptionHandler"})
validate_tests(w) == Honours(w, "EMP-003", {"CreateCouponServiceTest", "CreateCouponApiIT"})
validate_openapi(w) == Honours(w, "EMP-003", {"openapi.yaml"})

\* A line IN_PROGRESS is looked for first; the other documents go with it.
CreateCouponState(w) ==
    IF HasRow(w, "EMP-003", "EMP-003", {"IN_PROGRESS"})
    THEN w.current.line["EMP-003"].gate = "candidate"
    ELSE /\ HasRow(w, "EMP-003", "EMP-003", {"DONE_AND_VERIFIED"})
         /\ w.current.line["EMP-003"].gate = "verified"
         /\ Honours(w, "EMP-003", {"README.md", "AUDIT.md"})

emp003(w) ==
    /\ AcceptedOnly(w, "EMP-003")
    /\ validate_domain_boundaries(w)
    /\ validate_application_and_persistence(w)
    /\ validate_api(w)
    /\ validate_tests(w)
    /\ validate_openapi(w)
    /\ CreateCouponState(w)

-----------------------------------------------------------------------------
(* check_emp004_refinement.py and check_emp004.py *)

RedemptionRefinement(w) ==
    LET p == w.paper["EMP-004"] IN
    /\ Honours(w, "EMP-004", {"EMP-004", "EMP-004-summary", "EMP-004-review-checklist"})
    /\ \/ /\ p.state = "DRAFT"
          /\ p.allowed = "NO"
          /\ p.filled \cap {"owner", "date", "scope"} = {}
          /\ p.review = "READY_FOR_OWNER_REVIEW"
       \/ /\ p.state = "ACCEPTED"
          /\ p.allowed = "YES"
          /\ p.filled = Entries
          /\ p.review = "PASS"

RedemptionState(w) ==
    /\ HasRow(w, "EMP-004", "EMP-004", {"REFINEMENT"} \cup Started)
    /\ \/ /\ w.paper["EMP-004"].state = "DRAFT"
          /\ w.current.active = "EMP-004" /\ w.current.refining
          /\ w.current.line["EMP-004"].allowed = "NO"
          /\ w.current.draftReady
       \/ /\ w.paper["EMP-004"].state = "ACCEPTED"
          /\ HasRow(w, "EMP-004", "EMP-004", Started)
          /\ w.current.line["EMP-004"].refinement = "ACCEPTED"
          /\ w.current.line["EMP-004"].allowed = "YES"
          /\ HasRow(w, "EMP-005", "EMP-004", {"DONE"})
          /\ Honours(w, "EMP-005 merged", {"current-status.md", "backlog.md"})

ClaimedStarted(w) == w.current.line["EMP-004"].implementation # "NOT_STARTED"

validate_no_premature_implementation(w) ==
    ~ClaimedStarted(w) =>
        w.code \cap {"redemption in openapi.yaml", "redemption in CouponController"} = {}

emp004_refinement(w) ==
    /\ RedemptionRefinement(w)
    /\ RedemptionState(w)
    /\ validate_no_premature_implementation(w)
    /\ validate_no_prompt_file(w)

emp004(w) ==
    /\ "redemption in openapi.yaml" \in w.code
    /\ Honours(w, "EMP-004", {"V2.sql", "RedeemCouponService", "TransactionalCouponRedemptionService",
                              "JdbcCouponRedemptionRepository", "RedeemCouponRequest", "UserIdTest",
                              "RedeemCouponServiceTest", "CouponRedemptionApiIT",
                              "CouponRedemptionErrorApiIT", "CouponRedemptionRollbackIT",
                              "openapi.yaml", "tests"})
    /\ validate_no_prompt_file(w)

-----------------------------------------------------------------------------
(* check_emp006_refinement.py, check_emp006.py and check_emp007.py *)

ClientAddressRefinement(w) ==
    LET p == w.paper["EMP-006"] IN
    /\ Honours(w, "EMP-006", {"EMP-006", "EMP-006-summary", "EMP-006-review-checklist"})
    /\ \/ /\ p.state = "DRAFT"
          /\ p.allowed = "NO"
          /\ p.filled \cap {"owner", "date", "no question"} = {}
          /\ p.review = "READY_FOR_OWNER_REVIEW"
       \/ /\ p.state = "ACCEPTED"
          /\ p.allowed = "YES"
          /\ p.filled = Entries
          /\ p.review = "PASS"

\* A draft wants EMP-004 blocked, and finds "Implementation allowed: NO" only in
\* the line about EMP-004.
ClientAddressState(w) ==
    /\ HasRow(w, "EMP-006", "EMP-006", {"REFINEMENT"} \cup Started)
    /\ \/ /\ w.paper["EMP-006"].state = "DRAFT"
          /\ \E r \in w.rows : r.id = "EMP-004" /\ r.status = "BLOCKED"
          /\ w.current.active = "EMP-006" /\ ~w.current.refining
          /\ w.current.line["EMP-004"].allowed = "NO"
          /\ w.current.draftReady
       \/ /\ w.paper["EMP-006"].state = "ACCEPTED"
          /\ HasRow(w, "EMP-006", "EMP-006", Started)
          /\ w.current.line["EMP-006"].refinement = "ACCEPTED"
          /\ w.current.line["EMP-006"].allowed = "YES"
          /\ w.current.line["EMP-006"].implementation \in Implementations

\* Three scripts have this condition.
RedemptionOnlyIfStarted(w) == "redemption in openapi.yaml" \in w.code => ClaimedStarted(w)

validate_security_contract(w) ==
    /\ Honours(w, "EMP-006 privacy", {"EMP-006", "V1.sql"})
    /\ RedemptionOnlyIfStarted(w)

emp006_refinement(w) ==
    /\ ClientAddressRefinement(w)
    /\ ClientAddressState(w)
    /\ validate_security_contract(w)
    /\ validate_no_prompt_file(w)

emp006(w) ==
    /\ Honours(w, "EMP-006", {"geolocation sources", "geolocation tests", "application.yml",
                              "application-local.yml", "docker_smoke.sh", "docker-compose.yml",
                              "pom.xml"})
    /\ RedemptionOnlyIfStarted(w)
    /\ validate_no_prompt_file(w)

PublishedContract(w) == Honours(w, "EMP-007", {"openapi.yaml"}) /\ RedemptionOnlyIfStarted(w)
validate_runtime_wiring(w) ==
    Honours(w, "EMP-007", {"pom.xml", "application.yml", ".dockerignore", "Dockerfile"})
validate_javadocs(w) == Honours(w, "EMP-007", {"javadoc"})
OpenApiTests(w) == Honours(w, "EMP-007", {"OpenApiDocumentationIT"})

OpenApiState(w) ==
    LET candidate == HasRow(w, "EMP-007", "EMP-007", {"IN_PROGRESS"})
        verified == HasRow(w, "EMP-007", "EMP-007", {"DONE_AND_VERIFIED"})
    IN /\ \/ HasRow(w, "EMP-004", "EMP-001", {"BLOCKED"})
          \/ HasRow(w, "EMP-004", "EMP-004", Lifecycle)
       /\ candidate \/ verified
       /\ w.current.line["EMP-007"].gate = IF candidate THEN "candidate" ELSE "verified"
       /\ Honours(w, "EMP-007", IF candidate THEN {"README.md"} ELSE {"README.md", "release-history.md"})
       /\ verified => HasRow(w, "EMP-006", "EMP-006", Lifecycle)

emp007(w) ==
    /\ Honours(w, "EMP-007", {"EMP-007-summary", "EMP-007-review-checklist"})
    /\ AcceptedOnly(w, "EMP-007")
    /\ PublishedContract(w)
    /\ validate_runtime_wiring(w)
    /\ validate_javadocs(w)
    /\ OpenApiTests(w)
    /\ OpenApiState(w)
    /\ validate_no_prompt_file(w)

=============================================================================
