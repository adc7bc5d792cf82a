------------------------ MODULE RepositoryGateProofs ------------------------
(***************************************************************************)
(* What a success of make verify means, for every working copy, every set  *)
(* of edits and every number of them.  The invariant is that the scripts   *)
(* that were run since the last edit would succeed again: only an edit     *)
(* changes the working copy, and an edit ends the claim.  The rest follows *)
(* from what the scripts look at.                                          *)
(***************************************************************************)
EXTENDS RepositoryGate, CoverageGateProofs

\* A script that was run since the last edit would succeed again.
ScriptsHold ==
    verdict \in {"running", "passed"} /\ undisturbed =>
        \A k \in DOMAIN Scripts : k < step => Succeeds(Scripts[k], repo)

GateInv ==
    /\ step \in Nat
    /\ verdict = "passed" => step = ArtifactStep
    /\ ScriptsHold

\* verify.sh runs sixteen scripts before the build.
LEMMA ScriptsAre16 == Len(Scripts) = 16 /\ DOMAIN Scripts = 1..16
  BY DEF Scripts

\* The invariant holds initially: no verify.sh has been started.
LEMMA InitGateInv == Init => GateInv
  BY DEF Init, GateInv, ScriptsHold

\* It is kept: a script that succeeded is recorded, an edit drops the claim.
LEMMA NextGateInv == GateInv /\ [Next]_vars => GateInv'
  <1> SUFFICES ASSUME GateInv, [Next]_vars PROVE GateInv'
    OBVIOUS
  <1> USE ScriptsAre16 DEF GateInv, ScriptsHold
  <1>1. CASE StartVerify
    BY <1>1 DEF StartVerify
  <1>2. CASE RunScript
    <2>1. step \in 1..16 /\ verdict = "running" /\ repo' = repo /\ undisturbed' = undisturbed
      BY <1>2 DEF RunScript
    <2>2. CASE Succeeds(Scripts[step], repo)
      <3>1. step' = step + 1 /\ verdict' = verdict
        BY <1>2, <2>2 DEF RunScript
      <3>2. ASSUME undisturbed, NEW k \in DOMAIN Scripts, k < step + 1
            PROVE  Succeeds(Scripts[k], repo)
        BY <2>1, <2>2, <3>2
      <3> QED
        BY <2>1, <3>1, <3>2
    <2>3. CASE ~Succeeds(Scripts[step], repo)
      BY <1>2, <2>3 DEF RunScript
    <2> QED
      BY <2>2, <2>3
  <1>3. CASE MavenVerify
    <2>1. /\ step = 17 /\ verdict = "running" /\ repo' = repo /\ undisturbed' = undisturbed
          /\ \/ step' = step + 1 /\ verdict' = verdict
             \/ step' = step /\ verdict' = "failed"
      BY <1>3 DEF MavenVerify, MavenStep
    <2>2. undisturbed => \A k \in DOMAIN Scripts : Succeeds(Scripts[k], repo)
      BY <2>1
    <2> QED
      BY <2>1, <2>2
  <1>4. CASE CheckCoverage
    <2>1. /\ step = 18 /\ verdict = "running" /\ repo' = repo /\ undisturbed' = undisturbed
          /\ \/ step' = step + 1 /\ verdict' = verdict
             \/ step' = step /\ verdict' = "failed"
      BY <1>4 DEF CheckCoverage, CoverageStep
    <2>2. undisturbed => \A k \in DOMAIN Scripts : Succeeds(Scripts[k], repo)
      BY <2>1
    <2> QED
      BY <2>1, <2>2
  <1>9. CASE CheckArtifact
    BY <1>9 DEF CheckArtifact, ArtifactStep
  <1>5. ASSUME NEW w, Edited(w) PROVE GateInv'
    BY <1>5 DEF Edited
  <1>6. CASE MoveTask
    BY <1>5, <1>6 DEF MoveTask
  <1>7. CASE Slip
    BY <1>5, <1>7 DEF Slip
  <1>8. CASE UNCHANGED vars
    BY <1>8 DEF vars
  <1> QED
    BY <1>1, <1>2, <1>3, <1>4, <1>6, <1>7, <1>8, <1>9 DEF Next

\* The inductive invariant holds in every reachable state.
THEOREM GateInvariant == Spec => []GateInv
  BY InitGateInv, NextGateInv, PTL DEF Spec

-----------------------------------------------------------------------------
\* All sixteen scripts succeed on a working copy for which verify.sh succeeded.
LEMMA PassedAll ==
  ASSUME GateInv, Passed
  PROVE  /\ documentation(repo) /\ emp003(repo) /\ emp004_refinement(repo) /\ emp004(repo)
         /\ emp006_refinement(repo) /\ emp006(repo) /\ emp007(repo)
         /\ emp009_refinement(repo) /\ emp010_refinement(repo) /\ static_check(repo)
         /\ emp011_refinement(repo) /\ emp011(repo)
         /\ bootstrap(repo) /\ emp008_refinement(repo) /\ static_contract_errors(repo)
         /\ emp009(repo)
  <1>1. \A k \in 1..16 : Succeeds(Scripts[k], repo)
    BY ScriptsAre16 DEF GateInv, ScriptsHold, Passed, ArtifactStep
  <1>2. documentation(repo) /\ emp003(repo) /\ emp004_refinement(repo) /\ emp004(repo)
    <2>1. /\ Succeeds("check_documentation.py", repo) /\ Succeeds("check_emp003.py", repo)
          /\ Succeeds("check_emp004_refinement.py", repo) /\ Succeeds("check_emp004.py", repo)
      BY <1>1 DEF Scripts
    <2> QED
      BY <2>1 DEF Succeeds
  <1>3. emp006_refinement(repo) /\ emp006(repo) /\ emp007(repo)
    <2>1. /\ Succeeds("check_emp006_refinement.py", repo) /\ Succeeds("check_emp006.py", repo)
          /\ Succeeds("check_emp007.py", repo)
      BY <1>1 DEF Scripts
    <2> QED
      BY <2>1 DEF Succeeds
  <1>4. emp009_refinement(repo) /\ emp010_refinement(repo) /\ static_check(repo)
    <2>1. /\ Succeeds("check_emp009_refinement.py", repo)
          /\ Succeeds("check_emp010_refinement.py", repo) /\ Succeeds("check_emp010.py", repo)
      BY <1>1 DEF Scripts
    <2> QED
      BY <2>1 DEF Succeeds
  <1>5. emp011_refinement(repo) /\ emp011(repo)
    <2>1. /\ Succeeds("check_emp011_refinement.py", repo) /\ Succeeds("check_emp011.py", repo)
      BY <1>1 DEF Scripts
    <2> QED
      BY <2>1 DEF Succeeds
  <1>6. /\ bootstrap(repo) /\ emp008_refinement(repo) /\ static_contract_errors(repo)
        /\ emp009(repo)
    <2>1. /\ Succeeds("check_bootstrap.py", repo) /\ Succeeds("check_emp008_refinement.py", repo)
          /\ Succeeds("check_emp008.py", repo) /\ Succeeds("check_emp009.py", repo)
      BY <1>1 DEF Scripts
    <2> QED
      BY <2>1 DEF Succeeds
  <1> QED
    BY <1>2, <1>3, <1>4, <1>5, <1>6

\* The final review is over in every document that tells of it.
THEOREM FinalState == Spec => []FinalStateAgrees
  <1>1. ASSUME GateInv PROVE FinalStateAgrees
    <2>1. SUFFICES ASSUME Passed
                   PROVE  /\ HasRow(repo, "EMP-011", "EMP-011", {"DONE_AND_VERIFIED"})
                          /\ repo.paper["EMP-011"].status = "DONE_AND_VERIFIED"
                          /\ repo.paper["EMP-011"].decided = "ACCEPT"
                          /\ repo.current.line["EMP-011"].gate = "verified"
                          /\ repo.decisions = "ACCEPTED"
                          /\ ClaimedStarted(repo)
      BY DEF FinalStateAgrees
    <2>2. emp011(repo) /\ emp011_refinement(repo) /\ emp006(repo) /\ emp004(repo)
      BY <1>1, <2>1, PassedAll
    <2>3. FinalReview(repo) /\ ReviewGovernance(repo) /\ RedemptionOnlyIfStarted(repo)
      BY <2>2 DEF emp011, emp011_refinement, emp006
    <2>4. repo.paper["EMP-011"].state = "ACCEPTED"
      BY <2>3 DEF FinalReview
    <2>5. repo.decisions = "ACCEPTED"
      BY <2>3, <2>4 DEF ReviewGovernance
    <2> QED
      BY <2>2, <2>3, <2>5 DEF emp011, emp004, FinalReview, RedemptionOnlyIfStarted
  <1> QED
    BY <1>1, GateInvariant, PTL

-----------------------------------------------------------------------------
(* Which refinements may be a draft when verify.sh succeeds *)

\* Three of the refinements whose check wants ACCEPTED outright.
LEMMA AlwaysAccepted ==
  ASSUME GateInv, Passed
  PROVE  /\ repo.paper["EMP-003"].state = "ACCEPTED"
         /\ repo.paper["EMP-007"].state = "ACCEPTED"
         /\ repo.paper["EMP-011"].state = "ACCEPTED"
  BY PassedAll DEF emp003, emp007, emp011, AcceptedOnly, FinalReview

\* A draft of EMP-006 needs EMP-004 forbidden in the current status, so EMP-004 is
\* a draft too; but only one of them can be the active task.
LEMMA ClientAddressAccepted ==
  ASSUME GateInv, Passed
  PROVE  repo.paper["EMP-006"].state = "ACCEPTED"
  <1>1. ClientAddressState(repo) /\ RedemptionState(repo)
    BY PassedAll DEF emp006_refinement, emp004_refinement
  <1>2. ASSUME repo.paper["EMP-006"].state # "ACCEPTED" PROVE FALSE
    <2>1. repo.current.line["EMP-004"].allowed = "NO" /\ repo.current.active = "EMP-006"
      BY <1>1, <1>2 DEF ClientAddressState
    <2> QED
      BY <1>1, <2>1 DEF RedemptionState
  <1> QED
    BY <1>2

\* A draft of EMP-010 may not be implemented, but its script wants it to be.
LEMMA DeliveryAccepted ==
  ASSUME GateInv, Passed
  PROVE  repo.paper["EMP-010"].state # "DRAFT"
  <1>1. /\ DeliveryMetadata(repo) /\ validate_preimplementation_boundary(repo)
        /\ "ci.yml" \in repo.code
    BY PassedAll DEF emp010_refinement, static_check
  <1> QED
    BY <1>1 DEF DeliveryMetadata, validate_preimplementation_boundary

\* A draft of EMP-004, and one of EMP-009, must be the active task.
LEMMA OneActiveDraft ==
  ASSUME GateInv, Passed
  PROVE  ~(repo.paper["EMP-004"].state = "DRAFT" /\ repo.paper["EMP-009"].state = "DRAFT")
  <1>1. RedemptionState(repo) /\ emp009_refinement(repo)
    BY PassedAll DEF emp004_refinement
  <1> QED
    BY <1>1 DEF RedemptionState, emp009_refinement

\* The scripts together freeze the refinements of a closed repository.
THEOREM Frozen == Spec => []FrozenRefinements
  <1>1. ASSUME GateInv PROVE FrozenRefinements
    <2>1. SUFFICES ASSUME Passed
                   PROVE  LET drafts == {t \in Refined : repo.paper[t].state = "DRAFT"} IN
                          /\ drafts \subseteq {"EMP-001", "EMP-004", "EMP-008", "EMP-009"}
                          /\ ~({"EMP-004", "EMP-009"} \subseteq drafts)
      BY DEF FrozenRefinements
    <2>2. /\ repo.paper["EMP-003"].state = "ACCEPTED"
          /\ repo.paper["EMP-006"].state = "ACCEPTED"
          /\ repo.paper["EMP-007"].state = "ACCEPTED"
          /\ repo.paper["EMP-010"].state # "DRAFT"
          /\ repo.paper["EMP-011"].state = "ACCEPTED"
      BY <1>1, <2>1, AlwaysAccepted, ClientAddressAccepted, DeliveryAccepted
    <2>3. ~(repo.paper["EMP-004"].state = "DRAFT" /\ repo.paper["EMP-009"].state = "DRAFT")
      BY <1>1, <2>1, OneActiveDraft
    <2> QED
      BY <2>2, <2>3 DEF Refined, Tasks
  <1> QED
    BY <1>1, GateInvariant, PTL

-----------------------------------------------------------------------------
(* The working copy keeps its type *)

\* The documents of a task, in whatever status, are documents.
LEMMA DocumentsType ==
    ASSUME NEW t \in Refined, NEW status \in Lifecycle
    PROVE  /\ PaperIn(t, status) \in Paper
           /\ LineIn(t, status) \in Line
           /\ RowIn(t, status) \in Row
<1>1. ImplementationIn(status) \in Implementations
  BY DEF ImplementationIn, Lifecycle, Implementations
<1>2. EvidenceIn(t, status) \in Measured \cup {"PARTIAL", "COMPLETE"}
  BY DEF EvidenceIn, Measured
<1>3. ReviewIn(t, status) \in {"DRAFT", "READY_FOR_OWNER_REVIEW", "IN_PROGRESS", "ACCEPTED",
                               "VERIFIED", "PASS"}
  <2>1. \/ t = "EMP-010" /\ status # "REFINEMENT"
        \/ t = "EMP-011" /\ status = "REFINEMENT"
        \/ t = "EMP-011" /\ status = "READY"
        \/ t = "EMP-011" /\ status = "IN_PROGRESS"
        \/ t # "EMP-011" /\ status = "REFINEMENT"
        \/ t # "EMP-010" /\ t # "EMP-011" /\ status # "REFINEMENT"
        \/ t = "EMP-011" /\ status = "DONE_AND_VERIFIED"
    BY DEF Lifecycle
  <2> QED BY <2>1 DEF ReviewIn
<1>4. PaperIn(t, status) \in Paper
  BY <1>1, <1>2, <1>3 DEF PaperIn, Paper
<1>5. LineIn(t, status) \in Line
  BY <1>1, <1>4 DEF LineIn, Line, Paper
<1>6. RowIn(t, status) \in Row
  BY DEF RowIn, Row, Refined, Tasks, Lifecycle, ALLOWED_STATUSES
<1> QED BY <1>4, <1>5, <1>6

\* The repository as it is.
LEMMA ClosedType == Closed \in WorkingCopies
<1>1. "DONE_AND_VERIFIED" \in Lifecycle
  BY DEF Lifecycle
<1>2. \A t \in Refined : /\ PaperIn(t, "DONE_AND_VERIFIED") \in Paper
                         /\ LineIn(t, "DONE_AND_VERIFIED") \in Line
  BY <1>1, DocumentsType
<1>3. \A t \in Tasks : RowIn(t, "DONE_AND_VERIFIED") \in Row
  BY DEF RowIn, Row, Refined, Tasks, ALLOWED_STATUSES
<1>4. [id |-> "EMP-005", status |-> "DONE", refinement |-> "EMP-004", whole |-> TRUE] \in Row
  BY DEF Row, Refined, Tasks, ALLOWED_STATUSES
<1>5. Closed.rows \in SUBSET Row
  BY <1>3, <1>4 DEF Closed
<1>6. Closed.paper \in [Refined -> Paper] /\ Closed.current.line \in [Refined -> Line]
  BY <1>2 DEF Closed
<1>7. Closed.current \in Current
  BY <1>6 DEF Closed, Current
<1> QED BY <1>5, <1>6, <1>7 DEF Closed, WorkingCopies

\* Moving a task changes its documents only.
LEMMA DocumentedType ==
    ASSUME NEW w \in WorkingCopies, NEW t \in Refined, NEW status \in Lifecycle
    PROVE  Documented(w, t, status) \in WorkingCopies
<1>1. w.paper \in [Refined -> Paper] /\ w.current \in Current /\ w.rows \in SUBSET Row
  BY DEF WorkingCopies
<1>2. w.current.line \in [Refined -> Line] /\ LineIn(t, status) \in Line
      /\ PaperIn(t, status) \in Paper /\ RowIn(t, status) \in Row
  BY <1>1, DocumentsType DEF Current
<1> DEFINE rows == {r \in w.rows : r.id # t} \cup {RowIn(t, status)}
           paper == [w.paper EXCEPT ![t] = PaperIn(t, status)]
           decisions == IF t # "EMP-011" THEN w.decisions
                        ELSE IF status = "REFINEMENT" THEN "PROPOSED" ELSE "ACCEPTED"
           line == [w.current.line EXCEPT ![t] = LineIn(t, status)]
           current == [w.current EXCEPT
                  !.active = IF status = "DONE_AND_VERIFIED" THEN None ELSE t,
                  !.refining = status = "REFINEMENT" /\ t # "EMP-006",
                  !.draftReady = status = "REFINEMENT",
                  !.line[t] = LineIn(t, status)]
<1>3. current \in Current
  <2>1. current = [w.current EXCEPT
                  !.active = IF status = "DONE_AND_VERIFIED" THEN None ELSE t,
                  !.refining = status = "REFINEMENT" /\ t # "EMP-006",
                  !.draftReady = status = "REFINEMENT",
                  !.line = line]
    BY <1>1 DEF Current
  <2>2. line \in [Refined -> Line]
    BY <1>2
  <2>3. (IF status = "DONE_AND_VERIFIED" THEN None ELSE t) \in Tasks \cup {None}
    BY DEF Refined
  <2> HIDE DEF current, line
  <2> QED BY <1>1, <2>1, <2>2, <2>3 DEF Current
<1>4. rows \in SUBSET Row /\ paper \in [Refined -> Paper]
  BY <1>1, <1>2
<1>5. decisions \in {"PROPOSED", "ACCEPTED"}
  BY DEF WorkingCopies
<1>6. Documented(w, t, status)
        = [w EXCEPT !.rows = rows, !.paper = paper, !.decisions = decisions, !.current = current]
  BY DEF Documented, WorkingCopies
<1> HIDE DEF rows, paper, decisions, current
<1> QED BY <1>3, <1>4, <1>5, <1>6 DEF WorkingCopies

\* A slip leaves documents of the same form behind: rows,
LEMMA RowSlipType ==
    ASSUME NEW w \in WorkingCopies, NEW v \in RowSlips(w)
    PROVE  v \in WorkingCopies
<1>1. w.rows \in SUBSET Row
  BY DEF WorkingCopies
<1>2. \E rows \in SUBSET Row : v = [w EXCEPT !.rows = rows]
  <2>1. ASSUME NEW r \in w.rows, NEW status \in ALLOWED_STATUSES, NEW whole \in BOOLEAN,
               v = Reworded(w, r, status, whole)
        PROVE  \E rows \in SUBSET Row : v = [w EXCEPT !.rows = rows]
    <3> DEFINE row == [r EXCEPT !.status = status, !.whole = whole]
    <3>1. row \in Row
      BY <1>1 DEF Row
    <3>2. v = [w EXCEPT !.rows = (w.rows \ {r}) \cup {row}]
      BY <2>1 DEF Reworded
    <3> HIDE DEF row
    <3>3. (w.rows \ {r}) \cup {row} \in SUBSET Row
      BY <1>1, <3>1
    <3> QED BY <3>2, <3>3
  <2>2. ASSUME NEW r \in w.rows, NEW status \in ALLOWED_STATUSES, v = Repeated(w, r, status)
        PROVE  \E rows \in SUBSET Row : v = [w EXCEPT !.rows = rows]
    <3> DEFINE row == [r EXCEPT !.status = status]
    <3>1. row \in Row
      BY <1>1 DEF Row
    <3>2. v = [w EXCEPT !.rows = w.rows \cup {row}]
      BY <2>2 DEF Repeated
    <3> HIDE DEF row
    <3>3. w.rows \cup {row} \in SUBSET Row
      BY <1>1, <3>1
    <3> QED BY <3>2, <3>3
  <2> QED BY <2>1, <2>2 DEF RowSlips, ALLOWED_STATUSES
<1> QED BY <1>2 DEF WorkingCopies

\* refinements,
LEMMA PaperSlipType ==
    ASSUME NEW w \in WorkingCopies, NEW v \in PaperSlips(w)
    PROVE  v \in WorkingCopies
<1>1. PICK t \in Touched \cap Refined : \E q :
        /\ v = [w EXCEPT !.paper[t] = q]
        /\ q \in {[w.paper[t] EXCEPT !.state = s] : s \in {"DRAFT", "ACCEPTED"}} \cup
                 {[w.paper[t] EXCEPT !.allowed = a] : a \in {"YES", "NO"}} \cup
                 {[w.paper[t] EXCEPT !.filled = @ \ {e}] : e \in Entries} \cup
                 {[w.paper[t] EXCEPT !.status = s] : s \in Lifecycle} \cup
                 {[w.paper[t] EXCEPT !.implementation = i] : i \in Implementations} \cup
                 {[w.paper[t] EXCEPT !.decided = d] : d \in {"PENDING", "ACCEPT"}}
  BY DEF PaperSlips
<1>2. PICK q :
        /\ v = [w EXCEPT !.paper[t] = q]
        /\ q \in {[w.paper[t] EXCEPT !.state = s] : s \in {"DRAFT", "ACCEPTED"}} \cup
                 {[w.paper[t] EXCEPT !.allowed = a] : a \in {"YES", "NO"}} \cup
                 {[w.paper[t] EXCEPT !.filled = @ \ {e}] : e \in Entries} \cup
                 {[w.paper[t] EXCEPT !.status = s] : s \in Lifecycle} \cup
                 {[w.paper[t] EXCEPT !.implementation = i] : i \in Implementations} \cup
                 {[w.paper[t] EXCEPT !.decided = d] : d \in {"PENDING", "ACCEPT"}}
  BY <1>1
<1>3. w.paper \in [Refined -> Paper] /\ w.paper[t] \in Paper
  BY DEF WorkingCopies
<1>4. q \in Paper
  BY <1>2, <1>3 DEF Paper
<1>5. [w.paper EXCEPT ![t] = q] \in [Refined -> Paper]
  BY <1>3, <1>4
<1>6. v = [w EXCEPT !.paper = [w.paper EXCEPT ![t] = q]]
  BY <1>2
<1> QED BY <1>5, <1>6 DEF WorkingCopies

\* current status and decision log,
LEMMA CurrentSlipType ==
    ASSUME NEW w \in WorkingCopies, NEW v \in CurrentSlips(w)
    PROVE  v \in WorkingCopies
<1>1. w.current \in Current /\ w.current.line \in [Refined -> Line]
  BY DEF WorkingCopies, Current
<1>2. CASE \E t \in Touched \cup {None} : v = [w EXCEPT !.current.active = t]
  <2>1. PICK t \in Touched \cup {None} : v = [w EXCEPT !.current = [w.current EXCEPT !.active = t]]
    BY <1>2
  <2>2. [w.current EXCEPT !.active = t] \in Current
    BY <1>1, ConstantsAssumption DEF Current
  <2> QED BY <2>1, <2>2 DEF WorkingCopies
<1>3. CASE v = [w EXCEPT !.current.dated = FALSE]
  <2>1. v = [w EXCEPT !.current = [w.current EXCEPT !.dated = FALSE]]
    BY <1>3
  <2>2. [w.current EXCEPT !.dated = FALSE] \in Current
    BY <1>1 DEF Current
  <2> QED BY <2>1, <2>2 DEF WorkingCopies
<1>4. CASE v = [w EXCEPT !.decisions = "PROPOSED"]
  BY <1>4 DEF WorkingCopies
<1>5. CASE \E t \in Touched \cap Refined, l \in Line : v = [w EXCEPT !.current.line[t] = l]
  <2>1. PICK t \in Touched \cap Refined, l \in Line : v = [w EXCEPT !.current.line[t] = l]
    BY <1>5
  <2>2. [w.current.line EXCEPT ![t] = l] \in [Refined -> Line]
    BY <1>1
  <2>3. [w.current EXCEPT !.line = [w.current.line EXCEPT ![t] = l]] \in Current
    BY <1>1, <2>2 DEF Current
  <2>4. v = [w EXCEPT !.current = [w.current EXCEPT !.line = [w.current.line EXCEPT ![t] = l]]]
    BY <2>1
  <2> QED BY <2>3, <2>4 DEF WorkingCopies
<1>6. ASSUME NEW t \in Touched \cap Refined,
             NEW l \in {[w.current.line[t] EXCEPT !.allowed = a] : a \in {"YES", "NO"}} \cup
                       {[w.current.line[t] EXCEPT !.implementation = i] : i \in Implementations}
      PROVE  l \in Line
  BY <1>1 DEF Line
<1> QED BY <1>2, <1>3, <1>4, <1>5, <1>6 DEF CurrentSlips

\* code, files and contracts.
LEMMA FileSlipType ==
    ASSUME NEW w \in WorkingCopies, NEW v \in FileSlips(w)
    PROVE  v \in WorkingCopies
<1>1. w.code \in SUBSET Features /\ w.missing \in SUBSET STRING /\ w.broken \in SUBSET AllContracts
  BY DEF WorkingCopies
<1>2. CASE \E f \in Features : v = [w EXCEPT !.code = IF f \in @ THEN @ \ {f} ELSE @ \cup {f}]
  <2>1. PICK f \in Features : v = [w EXCEPT !.code = IF f \in @ THEN @ \ {f} ELSE @ \cup {f}]
    BY <1>2
  <2>2. \E code \in SUBSET Features : v = [w EXCEPT !.code = code]
    <3>1. CASE f \in w.code
      <4>1. w.code \ {f} \in SUBSET Features /\ v = [w EXCEPT !.code = w.code \ {f}]
        BY <1>1, <2>1, <3>1
      <4> QED BY <4>1
    <3>2. CASE f \notin w.code
      <4>1. w.code \cup {f} \in SUBSET Features /\ v = [w EXCEPT !.code = w.code \cup {f}]
        BY <1>1, <2>1, <3>2
      <4> QED BY <4>1
    <3> QED BY <3>1, <3>2
  <2> QED BY <2>2 DEF WorkingCopies
<1>3. CASE \E f \in Removable : v = [w EXCEPT !.missing = @ \cup {f}]
  <2>1. PICK f \in Removable : v = [w EXCEPT !.missing = w.missing \cup {f}]
    BY <1>3
  <2>2. w.missing \cup {f} \in SUBSET STRING
    BY <1>1, ConstantsAssumption
  <2> QED BY <2>1, <2>2 DEF WorkingCopies
<1>4. CASE \E c \in Contracts : v = [w EXCEPT !.broken = @ \cup {c}]
  <2>1. PICK c \in Contracts : v = [w EXCEPT !.broken = w.broken \cup {c}]
    BY <1>4
  <2>2. w.broken \cup {c} \in SUBSET AllContracts
    BY <1>1, ConstantsAssumption
  <2> QED BY <2>1, <2>2 DEF WorkingCopies
<1> QED BY <1>2, <1>3, <1>4 DEF FileSlips

\* Every step keeps the types: an edit by the lemmas above, a build by the reports
\* that builds may produce.
LEMMA NextType == TypeOK /\ [Next]_vars => TypeOK'
<1> SUFFICES ASSUME TypeOK, [Next]_vars PROVE TypeOK'
  OBVIOUS
<1>1. MavenStep = 17 /\ CoverageStep = 18 /\ ArtifactStep = 19
  BY ScriptsAre16 DEF MavenStep, CoverageStep, ArtifactStep
<1>2. CASE StartVerify
  BY <1>1, <1>2 DEF StartVerify, TypeOK
<1>3. CASE RunScript
  <2>1. step \in 1 .. 16
    BY <1>3, ScriptsAre16 DEF RunScript
  <2> QED BY <1>1, <1>3, <2>1 DEF RunScript, TypeOK
<1>4. CASE MavenVerify
  BY <1>1, <1>4 DEF MavenVerify, TypeOK
<1>5. CASE CheckCoverage
  BY <1>1, <1>5 DEF CheckCoverage, TypeOK
<1>10. CASE CheckArtifact
  BY <1>1, <1>10 DEF CheckArtifact, TypeOK
<1>6. ASSUME NEW w \in WorkingCopies, Edited(w) PROVE TypeOK'
  <2>1. edits < MaxEdits /\ edits \in 0 .. MaxEdits /\ MaxEdits \in Nat
    BY <1>6, ConstantsAssumption DEF Edited, TypeOK
  <2>2. edits' \in 0 .. MaxEdits
    BY <1>6, <2>1 DEF Edited
  <2> QED BY <1>6, <2>2 DEF Edited, TypeOK
<1>7. CASE MoveTask
  BY <1>6, <1>7, DocumentedType DEF MoveTask, TypeOK
<1>8. CASE Slip
  <2>1. PICK w \in RowSlips(repo) \cup PaperSlips(repo) \cup CurrentSlips(repo) \cup FileSlips(repo) :
            Edited(w)
    BY <1>8 DEF Slip
  <2>2. w \in WorkingCopies
    BY RowSlipType, PaperSlipType, CurrentSlipType, FileSlipType DEF TypeOK
  <2> QED BY <1>6, <2>1, <2>2
<1>9. CASE UNCHANGED vars
  BY <1>9 DEF vars, TypeOK
<1> QED BY <1>2, <1>3, <1>4, <1>5, <1>7, <1>8, <1>9, <1>10 DEF Next

\* Every variable keeps its type: whatever is moved or slips, what the scripts read
\* is a backlog, refinements, a current status and a decision log.
THEOREM GateTypeCorrect == Spec => []TypeOK
<1>1. Init => TypeOK
  <2>1. 1 \in 1 .. ArtifactStep /\ ~ (1 > MavenStep)
    BY ScriptsAre16 DEF ArtifactStep, MavenStep
  <2>2. 0 \in 0 .. MaxEdits
    BY ConstantsAssumption
  <2> QED BY <2>1, <2>2, ClosedType DEF Init, TypeOK
<1> QED BY <1>1, NextType, PTL DEF Spec

-----------------------------------------------------------------------------
(* The coverage of the build *)

\* What is said of the report after the coverage gate is about the report that is
\* there: the static part of the gate has held since the tenth script.
CoverageInv ==
    /\ verdict = "passed" => MeasuredContract(report)
    /\ verdict = "running" /\ step = ArtifactStep => MeasuredContract(report)
    /\ verdict = "failed" /\ undisturbed /\ step = CoverageStep => ~ MeasuredContract(report)

\* The static part of check_emp008.py holds again at the report of an
\* undisturbed run, as it has held as the tenth script.
LEMMA StaticPartHolds ==
    ASSUME GateInv, verdict = "running", undisturbed, step = CoverageStep
    PROVE  static_contract_errors(repo)
<1>1. 10 \in DOMAIN Scripts /\ 10 < step
  BY ScriptsAre16 DEF CoverageStep
<1>2. Succeeds(Scripts[10], repo)
  BY <1>1 DEF GateInv, ScriptsHold
<1>3. Scripts[10] = "check_emp008.py"
  BY DEF Scripts
<1> QED BY <1>2, <1>3 DEF Succeeds

\* No step after the coverage gate is reached without its consent, and a report is
\* replaced by the next run only.
LEMMA NextCoverageInv == GateInv /\ CoverageInv /\ [Next]_vars => CoverageInv'
<1> SUFFICES ASSUME GateInv, CoverageInv, [Next]_vars PROVE CoverageInv'
  OBVIOUS
<1>1. MavenStep = 17 /\ CoverageStep = 18 /\ ArtifactStep = 19
  BY ScriptsAre16 DEF MavenStep, CoverageStep, ArtifactStep
<1> USE DEF CoverageInv
<1>2. CASE StartVerify
  <2>1. verdict' = "running" /\ step' = 1
    BY <1>2 DEF StartVerify
  <2> QED BY <1>1, <2>1
<1>3. CASE RunScript
  <2>1. verdict = "running" /\ step \in 1 .. 16 /\ report' = report
    BY <1>3, ScriptsAre16 DEF RunScript
  <2>2. \/ verdict' = "running" /\ step' = step + 1
        \/ verdict' = "failed" /\ step' = step
    BY <1>3, <2>1 DEF RunScript
  <2> QED BY <1>1, <2>1, <2>2
<1>4. CASE MavenVerify
  <2>1. \/ verdict' = "running" /\ step' = 18
        \/ verdict' = "failed" /\ step' = 17
    BY <1>1, <1>4 DEF MavenVerify
  <2> QED BY <1>1, <2>1
<1>5. CASE CheckCoverage
  <2>1. /\ verdict = "running" /\ step = CoverageStep
        /\ report' = report /\ undisturbed' = undisturbed
        /\ IF static_contract_errors(repo) /\ MeasuredContract(report)
           THEN verdict' = "running" /\ step' = step + 1 ELSE verdict' = "failed"
    BY <1>5 DEF CheckCoverage
  <2>2. undisturbed => static_contract_errors(repo)
    BY <2>1, StaticPartHolds
  <2>3. CASE static_contract_errors(repo) /\ MeasuredContract(report)
    BY <1>1, <2>1, <2>3
  <2>4. CASE ~ (static_contract_errors(repo) /\ MeasuredContract(report))
    BY <2>1, <2>2, <2>4
  <2> QED BY <2>3, <2>4
<1>10. CASE CheckArtifact
  <2>1. verdict = "running" /\ step = 19 /\ step' = step /\ report' = report
    BY <1>1, <1>10 DEF CheckArtifact
  <2> QED BY <1>1, <2>1
<1>6. ASSUME NEW w, Edited(w) PROVE CoverageInv'
  <2>1. undisturbed' = FALSE /\ verdict' = verdict /\ report' = report /\ step' = step
    BY <1>6 DEF Edited
  <2> QED BY <2>1
<1>7. CASE MoveTask
  BY <1>6, <1>7 DEF MoveTask
<1>8. CASE Slip
  BY <1>6, <1>8 DEF Slip
<1>9. CASE UNCHANGED vars
  BY <1>9 DEF vars
<1> QED BY <1>2, <1>3, <1>4, <1>5, <1>7, <1>8, <1>9, <1>10 DEF Next

\* The verdict of that step is the coverage gate's, in every reachable state.
LEMMA CoverageInvariant == Spec => []CoverageInv
<1>1. Init => CoverageInv
  BY DEF Init, CoverageInv
<1> QED BY <1>1, NextCoverageInv, GateInvariant, PTL DEF Spec

\* An accepted report is one that a build has produced.
LEMMA AcceptedIsProduced ==
    ASSUME TypeOK, validate_report(report) PROVE report \in CoverageReports
<1>1. ~ validate_report(NoReport)
  BY DEF validate_report, NoReport
<1> QED BY <1>1, ConstantsAssumption DEF TypeOK

\* The coverage of the build that passed is what is promised, for any packages and
\* counters, whichever packages have no counter of a type; and neither the whole
\* nor the critical part is empty.
THEOREM CoverageCorrect == Spec => []CoverageHolds
<1>1. ASSUME TypeOK, CoverageInv PROVE CoverageHolds
  <2> SUFFICES ASSUME verdict = "passed", NEW type \in CounterTypes
               PROVE  LET critical == {i \in DOMAIN report.packages :
                                            is_critical_package(report.packages[i])}
                          Of(field) == [i \in DOMAIN report.packages |->
                              IF report.packages[i].counters[type] = NoCounter THEN 0
                              ELSE report.packages[i].counters[type][field]]
                          covered == SumFunctionOnSet(Of("covered"), critical)
                          missed == SumFunctionOnSet(Of("missed"), critical)
                      IN /\ Total(report.root[type]) > 0
                         /\ covered + missed > 0
                         /\ report.root[type].covered * 100
                                >= GLOBAL_THRESHOLDS[type] * Total(report.root[type])
                         /\ covered * 100 >= CRITICAL_THRESHOLDS[type] * (covered + missed)
    BY DEF CoverageHolds
  <2>1. validate_report(report) /\ report \in CoverageReports
    BY <1>1, AcceptedIsProduced DEF CoverageInv, MeasuredContract
  <2> QED BY <2>1, ThresholdsHold DEF Contribution, CriticalPackages
<1> QED BY <1>1, GateTypeCorrect, CoverageInvariant, PTL

\* A report that reaches every threshold is turned down in one case only.
THEOREM SelfTestCorrect == Spec => []SelfTestVerdict
<1>1. ASSUME TypeOK, CoverageInv PROVE SelfTestVerdict
  <2> SUFFICES ASSUME verdict = "failed", undisturbed, step = CoverageStep,
                      validate_report(report)
               PROVE  SelfTestRaises(report)
    BY DEF SelfTestVerdict
  <2>1. ~ MeasuredContract(report) /\ report \in CoverageReports
    BY <1>1, AcceptedIsProduced DEF CoverageInv
  <2> QED BY <2>1, SelfTestFailsClosed DEF MeasuredContract
<1> QED BY <1>1, GateTypeCorrect, CoverageInvariant, PTL

-----------------------------------------------------------------------------
(* A closed repository honours every contract *)

\* The backlog has no row that is not done, and the refinement of EMP-009 says so too.
AllClosed ==
    /\ \A r \in repo.rows : r.whole /\ r.status \in {"DONE", "DONE_AND_VERIFIED"}
    /\ repo.paper["EMP-009"].status = "DONE_AND_VERIFIED"

\* No task is active then, so no refinement of EMP-004 or EMP-009 is a draft, and
\* the scripts about EMP-003 and EMP-007 take the branch of a verified task.
LEMMA ClosedPhases ==
    ASSUME TypeOK, GateInv, Passed, AllClosed
    PROVE  /\ repo.paper["EMP-004"].state = "ACCEPTED"
           /\ repo.paper["EMP-009"].state = "ACCEPTED"
           /\ ~ HasRow(repo, "EMP-003", "EMP-003", {"IN_PROGRESS"})
           /\ ~ HasRow(repo, "EMP-007", "EMP-007", {"IN_PROGRESS"})
<1>1. validate_current_status(repo) /\ RedemptionState(repo) /\ emp009_refinement(repo)
  BY PassedAll DEF documentation, emp004_refinement
<1>2. repo.current.active = None
  BY <1>1 DEF AllClosed, validate_current_status, parse_markdown_table
<1>3. repo.paper["EMP-004"].state = "ACCEPTED"
  BY <1>1, <1>2 DEF RedemptionState, None
<1>4. repo.paper["EMP-009"].state \in {"DRAFT", "ACCEPTED"}
  <2>1. repo.paper["EMP-009"] \in Paper
    BY DEF TypeOK, WorkingCopies, Refined, Tasks
  <2> QED BY <2>1 DEF Paper
<1>5. repo.paper["EMP-009"].state = "ACCEPTED"
  BY <1>1, <1>2, <1>4 DEF emp009_refinement, None
<1>6. \A r \in repo.rows : r.status # "IN_PROGRESS"
  BY DEF AllClosed
<1> QED BY <1>3, <1>5, <1>6 DEF HasRow

\* What Honours says of single contracts.
LEMMA Honoured ==
    ASSUME NEW w, NEW task, NEW files, Honours(w, task, files)
    PROVE  \A c \in {task} \X files : c \notin w.broken
BY DEF Honours

\* The contracts of the documents, the bootstrap and the creation of coupons.
LEMMA FirstContracts ==
    ASSUME TypeOK, GateInv, Passed, AllClosed
    PROVE  /\ <<"hygiene", "CODEX_PROMPT.md">> \notin repo.broken
           /\ Honours(repo, "links", {"markdown"}) /\ Honours(repo, "text", {"markdown"})
           /\ Honours(repo, "index", {"DOCUMENTATION_INDEX.md"})
           /\ Honours(repo, "unique", {"decision-log.md", "risk-register.md"})
           /\ Honours(repo, "EMP-002", BootstrapFiles)
           /\ Honours(repo, "EMP-003", CreateFiles)
<1>1. <<"hygiene", "CODEX_PROMPT.md">> \notin repo.broken
  BY PassedAll DEF emp004, validate_no_prompt_file
<1>2. /\ Honours(repo, "links", {"markdown"}) /\ Honours(repo, "text", {"markdown"})
      /\ Honours(repo, "index", {"DOCUMENTATION_INDEX.md"})
      /\ Honours(repo, "unique", {"decision-log.md", "risk-register.md"})
  BY PassedAll DEF documentation, validate_links, validate_text_hygiene,
                   validate_documentation_index, validate_unique_register_ids
<1>3. Honours(repo, "EMP-002", BootstrapFiles)
  <2>1. bootstrap(repo)
    BY PassedAll
  <2> QED BY <2>1 DEF bootstrap, validate_pom, validate_wrapper, validate_migration,
                      validate_java_contract, validate_container_contract, BootstrapState,
                      validate_runtime_configuration, Honours, BootstrapFiles
<1>4. Honours(repo, "EMP-003", CreateFiles)
  <2>1. emp003(repo) /\ ~ HasRow(repo, "EMP-003", "EMP-003", {"IN_PROGRESS"})
    BY PassedAll, ClosedPhases
  <2>2. Honours(repo, "EMP-003", {"README.md", "AUDIT.md"}) /\ Honours(repo, "EMP-003", {"EMP-003"})
    BY <2>1 DEF emp003, CreateCouponState, AcceptedOnly
  <2> QED BY <2>1, <2>2 DEF emp003, validate_domain_boundaries, validate_api, validate_tests,
                 validate_application_and_persistence, validate_openapi, Honours, CreateFiles
<1> QED BY <1>1, <1>2, <1>3, <1>4

\* Those of redemption, client address and OpenAPI.
LEMMA MiddleContracts ==
    ASSUME TypeOK, GateInv, Passed, AllClosed
    PROVE  /\ Honours(repo, "EMP-004", RedemptionFiles)
           /\ Honours(repo, "EMP-005 merged", {"current-status.md", "backlog.md"})
           /\ Honours(repo, "EMP-006", ClientAddressFiles)
           /\ Honours(repo, "EMP-006 privacy", {"EMP-006", "V1.sql"})
           /\ Honours(repo, "EMP-007", OpenApiFiles)
<1>1. Honours(repo, "EMP-004", RedemptionFiles)
  BY PassedAll DEF emp004_refinement, RedemptionRefinement, emp004, Honours, RedemptionFiles
<1>2. Honours(repo, "EMP-005 merged", {"current-status.md", "backlog.md"})
  BY PassedAll, ClosedPhases DEF emp004_refinement, RedemptionState
<1>3. Honours(repo, "EMP-006", ClientAddressFiles)
  BY PassedAll DEF emp006_refinement, ClientAddressRefinement, emp006, Honours,
                   ClientAddressFiles
<1>4. Honours(repo, "EMP-006 privacy", {"EMP-006", "V1.sql"})
  BY PassedAll DEF emp006_refinement, validate_security_contract
<1>5. Honours(repo, "EMP-007", OpenApiFiles)
  <2>1. emp007(repo) /\ ~ HasRow(repo, "EMP-007", "EMP-007", {"IN_PROGRESS"})
    BY PassedAll, ClosedPhases
  <2>2. Honours(repo, "EMP-007", {"README.md", "release-history.md"})
    BY <2>1 DEF emp007, OpenApiState
  <2>3. Honours(repo, "EMP-007", {"EMP-007"})
    BY <2>1 DEF emp007, AcceptedOnly
  <2> QED BY <2>1, <2>2, <2>3 DEF emp007, PublishedContract, validate_runtime_wiring,
                 validate_javadocs, OpenApiTests, Honours, OpenApiFiles
<1> QED BY <1>1, <1>2, <1>3, <1>4, <1>5

\* Those of the coverage gate and of the closing tasks.
LEMMA LastContracts ==
    ASSUME TypeOK, GateInv, Passed, AllClosed
    PROVE  /\ Honours(repo, "EMP-008", CoverageFiles)
           /\ Honours(repo, "EMP-009", ConcurrencyFiles)
           /\ Honours(repo, "EMP-009 verified", {"EMP-009"})
           /\ Honours(repo, "EMP-009 tests", ConcurrencyTests \cup {"executor cleanup", "fixture"})
           /\ Honours(repo, "EMP-010", DeliveryFiles)
           /\ Honours(repo, "EMP-011", ReviewFiles)
           /\ Honours(repo, "EMP-011 closed", {"EMP-011", "EMP-011-review-checklist"})
<1>1. Honours(repo, "EMP-008", CoverageFiles)
  BY PassedAll DEF emp008_refinement, static_contract_errors, Honours, CoverageFiles
<1>2. Honours(repo, "EMP-009", ConcurrencyFiles) /\ Honours(repo, "EMP-009 verified", {"EMP-009"})
  BY PassedAll, ClosedPhases DEF AllClosed, emp009_refinement, VerifiedEvidence, ConcurrencyFiles
<1>3. Honours(repo, "EMP-009 tests", ConcurrencyTests \cup {"executor cleanup", "fixture"})
  BY PassedAll DEF emp009
<1>4. Honours(repo, "EMP-010", DeliveryFiles)
  BY PassedAll DEF emp010_refinement, DeliveryContent, validate_summary_checklist, static_check,
                   Honours, DeliveryFiles
<1>5. Honours(repo, "EMP-011", ReviewFiles)
  BY PassedAll DEF emp011_refinement, ReviewContent, validate_supporting_docs, emp011, Honours,
                   ReviewFiles
<1>6. Honours(repo, "EMP-011 closed", {"EMP-011", "EMP-011-review-checklist"})
  BY PassedAll DEF emp011
<1> QED BY <1>1, <1>2, <1>3, <1>4, <1>5, <1>6

\* If every task is closed, no contract of any script is broken.
THEOREM ClosedIsHonoured == Spec => []ClosedMeansHonoured
<1>1. ASSUME TypeOK, GateInv PROVE ClosedMeansHonoured
  <2> SUFFICES ASSUME Passed, AllClosed PROVE repo.broken = {}
    BY DEF ClosedMeansHonoured, AllClosed
  <2>1. repo.broken \subseteq AllContracts
    BY <1>1 DEF TypeOK, WorkingCopies
  <2>2. \A c \in DocumentContracts : c \notin repo.broken
    BY <1>1, FirstContracts DEF DocumentContracts, Honours
  <2>3. \A c \in FeatureContracts : c \notin repo.broken
    <3>1. Honours(repo, "EMP-002", BootstrapFiles) /\ Honours(repo, "EMP-003", CreateFiles)
      BY <1>1, FirstContracts
    <3> QED BY <1>1, <3>1, MiddleContracts, Honoured DEF FeatureContracts
  <2>4. \A c \in ClosingContracts : c \notin repo.broken
    BY <1>1, LastContracts, Honoured DEF ClosingContracts
  <2> QED BY <2>1, <2>2, <2>3, <2>4 DEF AllContracts
<1> QED BY <1>1, GateTypeCorrect, GateInvariant, PTL

=============================================================================
