--------------------------- MODULE RepositoryGate ---------------------------
(***************************************************************************)
(* make verify and a developer who does not wait for it.  verify.sh runs   *)
(* the check_*.py scripts one after the other, then Maven, then holds the  *)
(* coverage report of the build against its thresholds, and looks at its   *)
(* artifact; it stops at the first failure.  Each script reads the         *)
(* documents again, so an edit in mid-run is seen by some of them only.    *)
(*                                                                         *)
(* The developer moves a task through its life cycle, all its documents at *)
(* once, or forgets something: one row, line, file or contract then says   *)
(* something else.                                                         *)
(***************************************************************************)
EXTENDS ClosingChecks, CoverageGate

CONSTANTS
    Touched,    \* tasks the developer works on
    Contracts,  \* contracts <<task, file>> that may be broken
    Removable,  \* files that may be deleted
    Reports,    \* coverage reports that builds may produce
    MaxEdits    \* bound on the edits of the working copy

ASSUME ConstantsAssumption ==
    /\ Touched \subseteq Tasks
    /\ Contracts \subseteq AllContracts
    /\ Removable \subseteq STRING
    /\ Reports \subseteq CoverageReports
    /\ MaxEdits \in Nat

VARIABLES
    repo,        \* the working copy
    step,        \* the next step of verify.sh
    verdict,     \* "none", "running", "failed" or "passed"
    undisturbed, \* nothing was edited since verify.sh began
    report,      \* target/site/jacoco/jacoco.xml
    edits        \* number of edits so far

vars == <<repo, step, verdict, undisturbed, report, edits>>

\* Mutant: one script is left out of verify.sh.
ScriptsWithoutEvidence ==
    <<"check_documentation.py", "check_bootstrap.py", "check_emp003.py",
      "check_emp004_refinement.py", "check_emp004.py", "check_emp006_refinement.py",
      "check_emp006.py", "check_emp007.py", "check_emp008_refinement.py", "check_emp008.py",
      "check_emp009_refinement.py", "check_emp010_refinement.py", "check_emp010.py",
      "check_emp011_refinement.py", "check_emp011.py">>

Scripts == <<"check_documentation.py", "check_bootstrap.py", "check_emp003.py",
             "check_emp004_refinement.py", "check_emp004.py", "check_emp006_refinement.py",
             "check_emp006.py", "check_emp007.py", "check_emp008_refinement.py",
             "check_emp008.py", "check_emp009_refinement.py", "check_emp009.py",
             "check_emp010_refinement.py", "check_emp010.py", "check_emp011_refinement.py",
             "check_emp011.py">>

Succeeds(script, w) ==
    CASE script = "check_documentation.py" -> documentation(w)
      [] script = "check_bootstrap.py" -> bootstrap(w)
      [] script = "check_emp003.py" -> emp003(w)
      [] script = "check_emp004_refinement.py" -> emp004_refinement(w)
      [] script = "check_emp004.py" -> emp004(w)
      [] script = "check_emp006_refinement.py" -> emp006_refinement(w)
      [] script = "check_emp006.py" -> emp006(w)
      [] script = "check_emp007.py" -> emp007(w)
      [] script = "check_emp008_refinement.py" -> emp008_refinement(w)
      [] script = "check_emp008.py" -> static_contract_errors(w)
      [] script = "check_emp009_refinement.py" -> emp009_refinement(w)
      [] script = "check_emp009.py" -> emp009(w)
      [] script = "check_emp010_refinement.py" -> emp010_refinement(w)
      [] script = "check_emp010.py" -> "check_emp010.py" \in w.code /\ static_check(w)
      [] script = "check_emp011_refinement.py" -> emp011_refinement(w)
      [] script = "check_emp011.py" -> "check_emp011.py" \in w.code /\ emp011(w)

NoReport == [form |-> "missing"]

MavenStep == Len(Scripts) + 1
CoverageStep == Len(Scripts) + 2
ArtifactStep == Len(Scripts) + 3

-----------------------------------------------------------------------------
(* The documents of a task that is in one status of its life cycle *)

ImplementationIn(status) == IF status \in {"REFINEMENT", "READY"} THEN "NOT_STARTED" ELSE status

EvidenceIn(t, status) ==
    IF t = "EMP-009" THEN (IF status = "DONE_AND_VERIFIED" THEN "COMPLETE" ELSE "PARTIAL")
    ELSE IF status = "DONE_AND_VERIFIED" THEN "MEASURED_AND_VERIFIED" ELSE "NOT_MEASURED"

ReviewIn(t, status) ==
    CASE t = "EMP-010" /\ status # "REFINEMENT" -> "ACCEPTED"
      [] t = "EMP-011" /\ status = "REFINEMENT" -> "DRAFT"
      [] t = "EMP-011" /\ status = "READY" -> "ACCEPTED"
      [] t = "EMP-011" /\ status = "IN_PROGRESS" -> "IN_PROGRESS"
      [] t # "EMP-011" /\ status = "REFINEMENT" -> "READY_FOR_OWNER_REVIEW"
      [] OTHER -> "PASS"

PaperIn(t, status) ==
    LET draft == status = "REFINEMENT" IN
    [state |-> IF draft THEN "DRAFT" ELSE "ACCEPTED",
     allowed |-> IF draft THEN "NO" ELSE "YES",
     filled |-> IF draft THEN {} ELSE Entries,
     status |-> status,
     implementation |-> ImplementationIn(status),
     evidence |-> EvidenceIn(t, status),
     review |-> ReviewIn(t, status),
     decided |-> IF draft /\ t = "EMP-011" THEN "PENDING" ELSE "ACCEPT"]

LineIn(t, status) ==
    [refinement |-> PaperIn(t, status).state,
     allowed |-> PaperIn(t, status).allowed,
     implementation |-> ImplementationIn(status),
     gate |-> IF status = "DONE_AND_VERIFIED" THEN "verified" ELSE "candidate"]

RowIn(t, status) ==
    [id |-> t, status |-> status, refinement |-> IF t \in Refined THEN t ELSE "EMP-001", whole |-> TRUE]

\* Moving a task of its own refinement to a status; the code is left as it is.
Documented(w, t, status) ==
    [w EXCEPT !.rows = {r \in @ : r.id # t} \cup {RowIn(t, status)},
              !.paper[t] = PaperIn(t, status),
              !.decisions = IF t # "EMP-011" THEN @
                            ELSE IF status = "REFINEMENT" THEN "PROPOSED" ELSE "ACCEPTED",
              !.current = [@ EXCEPT
                  !.active = IF status = "DONE_AND_VERIFIED" THEN None ELSE t,
                  !.refining = status = "REFINEMENT" /\ t # "EMP-006",
                  !.draftReady = status = "REFINEMENT",
                  !.line[t] = LineIn(t, status)]]

-----------------------------------------------------------------------------
(* Edits that go wrong *)

\* A row is changed, or a second one for the same task left behind.
Reworded(w, r, status, whole) ==
    [w EXCEPT !.rows = (@ \ {r}) \cup {[r EXCEPT !.status = status, !.whole = whole]}]
Repeated(w, r, status) == [w EXCEPT !.rows = @ \cup {[r EXCEPT !.status = status]}]

RowSlips(w) ==
    LET touched == {r \in w.rows : r.id \in Touched} IN
    {Reworded(w, r, status, whole) :
        r \in touched, status \in ALLOWED_STATUSES, whole \in BOOLEAN} \cup
    {Repeated(w, r, status) : r \in touched, status \in {"REFINEMENT", "IN_PROGRESS"}}

PaperSlips(w) ==
    UNION {LET p == w.paper[t] IN
           {[w EXCEPT !.paper[t] = q] : q \in
               {[p EXCEPT !.state = s] : s \in {"DRAFT", "ACCEPTED"}} \cup
               {[p EXCEPT !.allowed = a] : a \in {"YES", "NO"}} \cup
               {[p EXCEPT !.filled = @ \ {e}] : e \in Entries} \cup
               {[p EXCEPT !.status = s] : s \in Lifecycle} \cup
               {[p EXCEPT !.implementation = i] : i \in Implementations} \cup
               {[p EXCEPT !.decided = d] : d \in {"PENDING", "ACCEPT"}}} :
           t \in Touched \cap Refined}

CurrentSlips(w) ==
    {[w EXCEPT !.current.active = t] : t \in Touched \cup {None}} \cup
    {[w EXCEPT !.current.dated = FALSE], [w EXCEPT !.decisions = "PROPOSED"]} \cup
    UNION {{[w EXCEPT !.current.line[t] = l] : l \in
               {[w.current.line[t] EXCEPT !.allowed = a] : a \in {"YES", "NO"}} \cup
               {[w.current.line[t] EXCEPT !.implementation = i] : i \in Implementations}} :
           t \in Touched \cap Refined}

FileSlips(w) ==
    {[w EXCEPT !.code = IF f \in @ THEN @ \ {f} ELSE @ \cup {f}] : f \in Features} \cup
    {[w EXCEPT !.missing = @ \cup {f}] : f \in Removable} \cup
    {[w EXCEPT !.broken = @ \cup {c}] : c \in Contracts}

-----------------------------------------------------------------------------
(* The repository as it is: every task is done, no task is active. *)
Closed ==
    [rows |-> {RowIn(t, "DONE_AND_VERIFIED") : t \in Tasks \ {"EMP-005"}} \cup
              {[id |-> "EMP-005", status |-> "DONE", refinement |-> "EMP-004", whole |-> TRUE]},
     paper |-> [t \in Refined |-> PaperIn(t, "DONE_AND_VERIFIED")],
     current |-> [active |-> None, refining |-> FALSE, dated |-> TRUE, draftReady |-> FALSE,
                  line |-> [t \in Refined |-> LineIn(t, "DONE_AND_VERIFIED")]],
     decisions |-> "ACCEPTED",
     code |-> Features \ {"stale markers of the audit", "delivery in package_source.sh"},
     missing |-> {},
     broken |-> {}]

Init ==
    /\ repo = Closed
    /\ step = 1
    /\ verdict = "none"
    /\ undisturbed = FALSE
    /\ report = NoReport
    /\ edits = 0

\* The report of an earlier build is deleted before it is looked for.
StartVerify ==
    /\ verdict # "running"
    /\ verdict' = "running"
    /\ step' = 1
    /\ undisturbed' = TRUE
    /\ report' = NoReport
    /\ UNCHANGED <<repo, edits>>

RunScript ==
    /\ verdict = "running"
    /\ step \in DOMAIN Scripts
    /\ IF Succeeds(Scripts[step], repo)
       THEN step' = step + 1 /\ UNCHANGED verdict
       ELSE verdict' = "failed" /\ UNCHANGED step
    /\ UNCHANGED <<repo, undisturbed, report, edits>>

\* Mutant: nobody looks whether the build has left a report.
MavenVerifyReportUnseen ==
    /\ verdict = "running"
    /\ step = MavenStep
    /\ \/ \E r \in Reports \cup {NoReport} : report' = r /\ step' = step + 1 /\ UNCHANGED verdict
       \/ verdict' = "failed" /\ UNCHANGED <<step, report>>
    /\ UNCHANGED <<repo, undisturbed, edits>>

\* mvnw clean verify; what follows wants a report that is there.  The syntax of
\* the scripts, the Makefile, Java, Docker and the Compose file come first.
MavenVerify ==
    /\ verdict = "running"
    /\ step = MavenStep
    /\ \/ \E r \in Reports : report' = r /\ step' = step + 1 /\ UNCHANGED verdict
       \/ verdict' = "failed" /\ UNCHANGED <<step, report>>
    /\ UNCHANGED <<repo, undisturbed, edits>>

\* check_emp008.py --report target/site/jacoco/jacoco.xml --self-test
CheckCoverage ==
    /\ verdict = "running"
    /\ step = CoverageStep
    /\ IF static_contract_errors(repo) /\ MeasuredContract(report)
       THEN step' = step + 1 /\ UNCHANGED verdict
       ELSE verdict' = "failed" /\ UNCHANGED step
    /\ UNCHANGED <<repo, undisturbed, report, edits>>

\* The artifact of the build, the OpenAPI document in it, the container it runs
\* in, and git diff --check: each may be found wrong.
CheckArtifact ==
    /\ verdict = "running"
    /\ step = ArtifactStep
    /\ verdict' \in {"passed", "failed"}
    /\ UNCHANGED <<repo, step, undisturbed, report, edits>>

Edited(w) ==
    /\ edits < MaxEdits
    /\ edits' = edits + 1
    /\ repo' = w
    /\ undisturbed' = FALSE
    /\ UNCHANGED <<step, verdict, report>>

MoveTask ==
    \E t \in Touched \cap Refined, status \in Lifecycle : Edited(Documented(repo, t, status))

Slip ==
    /\ edits < MaxEdits
    /\ \E w \in RowSlips(repo) \cup PaperSlips(repo) \cup CurrentSlips(repo) \cup FileSlips(repo) :
        Edited(w)

Next ==
    \/ StartVerify
    \/ RunScript
    \/ MavenVerify
    \/ CheckCoverage
    \/ CheckArtifact
    \/ MoveTask
    \/ Slip

Spec == Init /\ [][Next]_vars

-----------------------------------------------------------------------------
(* Properties *)

\* verify.sh succeeded, and what it looked at is what is there.
Passed == verdict = "passed" /\ undisturbed

\* The variables have their types, and there is a report once the build is over.
TypeOK ==
    /\ repo \in WorkingCopies
    /\ step \in 1..ArtifactStep
    /\ verdict \in {"none", "running", "failed", "passed"}
    /\ undisturbed \in BOOLEAN
    /\ report \in Reports \cup {NoReport}
    /\ step > MavenStep => report \in Reports
    /\ edits \in 0..MaxEdits

\* documentation-governance.md: "READY - there is an accepted refinement and no
\* blocker", of every row of the backlog.
ReadyAsWritten ==
    Passed => \A r \in repo.rows : r.status \in Started =>
        repo.paper[r.refinement].state = "ACCEPTED"

\* The scripts together freeze the refinements of a closed repository: those of
\* EMP-003, EMP-006, EMP-007, EMP-010 and EMP-011 cannot go back to DRAFT, as the
\* first step of an amendment has it, and those of EMP-004 and EMP-009 not both.
FrozenRefinements ==
    Passed =>
        LET drafts == {t \in Refined : repo.paper[t].state = "DRAFT"} IN
        /\ drafts \subseteq {"EMP-001", "EMP-004", "EMP-008", "EMP-009"}
        /\ ~({"EMP-004", "EMP-009"} \subseteq drafts)

\* The final review is over in every document that tells of it: the backlog, the
\* refinement, the current status and the decision log.
FinalStateAgrees ==
    Passed =>
        /\ HasRow(repo, "EMP-011", "EMP-011", {"DONE_AND_VERIFIED"})
        /\ repo.paper["EMP-011"].status = "DONE_AND_VERIFIED"
        /\ repo.paper["EMP-011"].decided = "ACCEPT"
        /\ repo.current.line["EMP-011"].gate = "verified"
        /\ repo.decisions = "ACCEPTED"
        /\ ClaimedStarted(repo)

\* If every task is closed, no contract of any script is broken: each contract is
\* looked at by a script that verify.sh does run, in the phase it is in.  What
\* EMP-009 owes to a verified task is looked at if its refinement says so, the
\* backlog alone is not enough.
ClosedMeansHonoured ==
    /\ Passed
    /\ \A r \in repo.rows : r.whole /\ r.status \in {"DONE", "DONE_AND_VERIFIED"}
    /\ repo.paper["EMP-009"].status = "DONE_AND_VERIFIED"
    => repo.broken = {}

\* The coverage of the build that passed is what is promised, and was measured:
\* whatever packages have no counter of a type, there is something to cover, in
\* the whole and in the critical packages.
CoverageHolds ==
    verdict = "passed" =>
        \A type \in CounterTypes :
            LET critical == {i \in DOMAIN report.packages : is_critical_package(report.packages[i])}
                Of(field) == [i \in DOMAIN report.packages |->
                    IF report.packages[i].counters[type] = NoCounter THEN 0
                    ELSE report.packages[i].counters[type][field]]
                covered == SumFunctionOnSet(Of("covered"), critical)
                missed == SumFunctionOnSet(Of("missed"), critical)
            IN /\ Total(report.root[type]) > 0
               /\ covered + missed > 0
               /\ report.root[type].covered * 100 >= GLOBAL_THRESHOLDS[type] * Total(report.root[type])
               /\ covered * 100 >= CRITICAL_THRESHOLDS[type] * (covered + missed)

\* A report that reaches every threshold is turned down in one case only: the
\* self test stops because the first critical package lacks a counter.
SelfTestVerdict ==
    verdict = "failed" /\ undisturbed /\ step = CoverageStep /\ validate_report(report) =>
        SelfTestRaises(report)

=============================================================================
