--------------------- MODULE RedemptionRefinementProofs ---------------------
(***************************************************************************)
(* TLAPS proofs that the statements of Redemption implement the            *)
(* indivisible grants of RedemptionContract, and that races alone never    *)
(* surface as HTTP 500.                                                    *)
(***************************************************************************)
EXTENDS RedemptionProofs

\* The instance of the abstract specification counts like this module does.
LEMMA SameCardinality ==
    ASSUME NEW S PROVE Contract!Cardinality(S) = Cardinality(S)
BY DEF Contract!Cardinality, Cardinality

\* The abstract holders of a coupon are the users with a row.
LEMMA HoldersAreRows ==
    ASSUME IInv, NEW r \in Requests
    PROVE  order[r].user \in Contract!Holders(order[r].coupon) <=> HasRedeemed(r)
<1> DEFINE c0 == order[r].coupon
<1>1. ASSUME NEW q \in Contract!GrantedOn(c0), order[r].user = order[q].user
      PROVE  HasRedeemed(r)
  <2>1. PICK row \in redemptions : row.id = q
    BY DEF Contract!GrantedOn, Granted
  <2>2. row = NewRow(q)
    BY <2>1 DEF IInv, CommittedRows
  <2> QED BY <1>1, <2>1, <2>2 DEF HasRedeemed, RowsOf, NewRow, Contract!GrantedOn
<1>2. ASSUME HasRedeemed(r) PROVE order[r].user \in Contract!Holders(c0)
  <2>1. PICK row \in redemptions : row.coupon = c0 /\ row.user = order[r].user
    BY <1>2 DEF HasRedeemed, RowsOf
  <2>2. row = NewRow(row.id)
    BY <2>1 DEF IInv, CommittedRows
  <2>3. order[row.id].coupon = c0 /\ order[row.id].user = order[r].user
    BY <2>1, <2>2 DEF NewRow
  <2>4. row.id \in Contract!GrantedOn(c0)
    BY <2>1, <2>3 DEF Contract!GrantedOn, Granted
  <2> QED BY <2>3, <2>4 DEF Contract!Holders
<1> QED BY <1>1, <1>2 DEF Contract!Holders

\* There are as many abstract grants of a coupon as rows.
LEMMA GrantsAreRows ==
    ASSUME IInv, NEW c \in Coupons
    PROVE  Cardinality(Contract!GrantedOn(c)) = Cardinality(RowsOf(c))
<1> DEFINE f == [row \in RowsOf(c) |-> row.id]
<1>1. \A row \in redemptions : row = NewRow(row.id)
  BY DEF IInv, CommittedRows
<1>2. \A row \in RowsOf(c) : row.id \in Contract!GrantedOn(c)
  BY <1>1 DEF RowsOf, NewRow, Contract!GrantedOn, Granted
<1>3. \A q \in Contract!GrantedOn(c) : \E row \in RowsOf(c) : row.id = q
  BY <1>1 DEF RowsOf, NewRow, Contract!GrantedOn, Granted
<1>4. \A row1, row2 \in RowsOf(c) : row1.id = row2.id => row1 = row2
  BY <1>1 DEF RowsOf
<1>5. f \in Bijection(RowsOf(c), Contract!GrantedOn(c))
  BY <1>2, <1>3, <1>4 DEF Bijection, Injection, Surjection, IsInjective
<1>6. IsFiniteSet(RowsOf(c))
  BY FS_Subset DEF IInv, CommittedRows, RowsOf
<1> QED BY <1>5, <1>6, FS_Bijection DEF ExistsBijection

-----------------------------------------------------------------------------
(* Steps that answer, steps that grant, and steps nobody sees *)

Outcomes == Contract!Refusals \cup {"SUCCESS", "INTERNAL_ERROR"}

\* The outcomes of the code are the answers of the contract.
LEMMA OutcomesAre == Outcomes = RedemptionOutcome \cup {"INVALID_REQUEST"}
BY DEF Outcomes, Contract!Refusals, RedemptionOutcome

\* A thread that is done has given an answer the contract allows.
LEMMA AnswerIsReply ==
    ASSUME IInv, IInv', NEW r \in Requests, NEW o, Moved(r, "done", o),
           pc[r] # "done", UNCHANGED <<redemptions, order, newUses>>
    PROVE  Contract!Reply(r, o) /\ o \in Outcomes
<1>1. pc'[r] = "done" /\ outcome'[r] = o
  BY DEF Moved, IInv, TypeOK
<1>2. Granted' = Granted /\ LeftOf' = LeftOf
  BY DEF Granted, LeftOf
<1>3. AnswerOf[r] = NoOutcome /\ AnswerOf' = [AnswerOf EXCEPT ![r] = o]
  BY DEF AnswerOf, Moved, IInv, TypeOK
<1>4. o \in Outcomes
  BY <1>1, OutcomesAre DEF IInv, TypeOK, OutcomesMatchThreads
<1>5. o = "SUCCESS" => r \in Granted
  BY <1>1, <1>2 DEF IInv, OutcomesMatchThreads
<1>6. r \in Granted => o \in {"SUCCESS", "INTERNAL_ERROR"}
  <2>1. ASSUME NEW row \in redemptions, row.id = r PROVE o \in {"SUCCESS", "INTERNAL_ERROR"}
    BY <1>1, <2>1 DEF IInv, CommittedRows
  <2> QED BY <2>1 DEF Granted
<1>7. o \in Contract!Refusals => r \notin Granted
  BY <1>6 DEF Contract!Refusals
<1>8. /\ o = "ALREADY_REDEEMED" => HasRedeemed(r)
      /\ o = "EXHAUSTED" => /\ ~HasRedeemed(r)
                            /\ Cardinality(RowsOf(order[r].coupon)) = MaxUses[order[r].coupon]
  <2>1. HasRedeemed(r)' = HasRedeemed(r) /\ RowsOf(order[r].coupon)' = RowsOf(order[r].coupon)
    BY DEF HasRedeemed, RowsOf
  <2>2. RefusalJustified'
    BY DEF IInv
  <2> QED BY <1>1, <2>1, <2>2 DEF RefusalJustified
<1>9. Cardinality(Contract!GrantedOn(order[r].coupon)) = Cardinality(RowsOf(order[r].coupon))
  BY GrantsAreRows DEF IInv, TypeOK, Order
<1>10. Contract!Justified(r, o)
  BY <1>5, <1>7, <1>8, <1>9, HoldersAreRows, SameCardinality DEF Contract!Justified
<1> QED BY <1>2, <1>3, <1>4, <1>10 DEF Contract!Reply

\* A commit is the indivisible grant of the contract.
LEMMA CommitIsGrant ==
    ASSUME IInv, IInv', NEW r \in Requests, tx[r] = "committing", ApplyWrites(r),
           UNCHANGED <<order, newUses, outcome>>,
           \A q \in Requests : pc'[q] = "done" <=> pc[q] = "done"
    PROVE  Contract!Grant(r)
<1> DEFINE c0 == order[r].coupon
<1>1. /\ redemptions' = redemptions \cup {NewRow(r)} /\ NewRow(r) \notin redemptions
      /\ c0 \in Coupons /\ coupons[c0] # NoRow
      /\ ~HasRedeemed(r) /\ coupons[c0].uses < MaxUses[c0]
      /\ newUses[r] = coupons[c0].uses + 1
  BY ApplyEffect
<1>2. coupons[c0].uses = Cardinality(Contract!GrantedOn(c0))
  BY <1>1, GrantsAreRows DEF IInv, LedgerConsistent
<1>3. coupons[c0].uses \in Nat /\ MaxUses[c0] \in Nat
  BY <1>1, ConstantsOK DEF IInv, TypeOK, CouponRow
<1>4. r \notin Granted
  BY DEF IInv, CommittedRows, Granted
<1>5. Granted' = Granted \cup {r}
  <2>1. NewRow(r).id = r
    BY DEF NewRow
  <2> QED BY <1>1, <2>1 DEF Granted
<1>6. AnswerOf' = AnswerOf
  BY DEF AnswerOf
<1>7. AnswerOf[r] \in {NoOutcome, "INTERNAL_ERROR"}
  BY DEF AnswerOf, IInv, OutcomesMatchThreads
<1>8. LeftOf' = [LeftOf EXCEPT ![r] = MaxUses[c0] - newUses[r]]
  <2>1. \A q \in Requests : LeftOf'[q] = IF q = r THEN MaxUses[c0] - newUses[r] ELSE LeftOf[q]
    BY <1>5 DEF LeftOf
  <2> QED BY <2>1 DEF LeftOf
<1>9. MaxUses[c0] - newUses[r] = MaxUses[c0] - Cardinality(Contract!GrantedOn(c0)) - 1
  BY <1>1, <1>2, <1>3
<1>10. order[r].user \notin Contract!Holders(c0)
  BY <1>1, HoldersAreRows
<1> QED BY <1>1, <1>2, <1>4, <1>5, <1>6, <1>7, <1>8, <1>9, <1>10, SameCardinality DEF Contract!Grant

\* A step that commits nothing and answers nobody is a stutter of the contract.
LEMMA Unseen ==
    ASSUME UNCHANGED <<redemptions, order>>,
           \A q \in Granted : newUses'[q] = newUses[q],
           \A q \in Requests : pc'[q] = "done" <=> pc[q] = "done",
           \A q \in Requests : pc[q] = "done" => outcome'[q] = outcome[q]
    PROVE  UNCHANGED Contract!vars
<1>1. Granted' = Granted
  BY DEF Granted
<1>2. AnswerOf' = AnswerOf
  BY DEF AnswerOf
<1>3. LeftOf' = LeftOf
  BY <1>1 DEF LeftOf
<1> QED BY <1>1, <1>2, <1>3 DEF Contract!vars

\* Every step of the service is a step of the contract, or a stutter.
LEMMA StepImplements == IInv /\ IInv' /\ [Next]_vars => [Contract!Next]_(Contract!vars)
<1> SUFFICES ASSUME IInv, IInv', [Next]_vars
             PROVE  Contract!Next \/ UNCHANGED Contract!vars
  OBVIOUS
\* A step that answers
<1>1. ASSUME NEW r \in Requests, NEW o, Moved(r, "done", o), pc[r] # "done",
             UNCHANGED <<redemptions, order, newUses>>
      PROVE  Contract!Next
  BY <1>1, AnswerIsReply DEF Contract!Next, Outcomes
\* A step of thread r that nobody sees
<1>2. ASSUME NEW r \in Requests, NEW s, pc[r] # "done", s # "done",
             pc' = [pc EXCEPT ![r] = s],
             \A q \in Requests \ {r} : outcome'[q] = outcome[q] /\ newUses'[q] = newUses[q],
             newUses'[r] = newUses[r] \/ r \notin Granted,
             UNCHANGED <<redemptions, order>>
      PROVE  UNCHANGED Contract!vars
  <2>1. \A q \in Requests : pc'[q] = "done" <=> pc[q] = "done"
    BY <1>2 DEF IInv, TypeOK
  <2>2. Granted \subseteq Requests
    BY DEF Granted, IInv, TypeOK, RedemptionRow
  <2> QED BY <1>2, <2>1, <2>2, Unseen
<1>3. ASSUME NEW r \in Requests, RejectInvalid(r) PROVE Contract!Next
  BY <1>1, <1>3 DEF RejectInvalid, Moved, Goto, db
<1>4. ASSUME NEW r \in Requests, ResolutionFails(r) \/ ConnectionFails(r) PROVE Contract!Next
  BY <1>1, <1>4 DEF ResolutionFails, ConnectionFails, Finish, Moved, Goto, db
<1>5. ASSUME NEW r \in Requests, Report(r) \/ LoseConnection(r) PROVE Contract!Next
  <2>1. pc[r] # "done"
    BY <1>5 DEF Report, LoseConnection, InTransaction, Statements
  <2> QED BY <1>1, <1>5, <2>1 DEF Report, LoseConnection, Finish, Moved, Goto, db
<1>6. ASSUME NEW r \in Requests, Rollback(r) \/ CommitFails(r) PROVE Contract!Next
  BY <1>1, <1>6
  DEF Rollback, CommitFails, CommitFailure, DiscardWrites, Finish, Moved, Goto
<1>7. ASSUME NEW r \in Requests, FindSnapshot(r) PROVE Contract!Next \/ UNCHANGED Contract!vars
  <2>1. CASE coupons[order[r].coupon] = NoRow
    BY <1>1, <1>7, <2>1 DEF FindSnapshot, Finish, Moved, Goto, db
  <2>2. CASE coupons[order[r].coupon] # NoRow
    BY <1>2, <1>7, <2>2 DEF FindSnapshot, Goto, db
  <2> QED BY <2>1, <2>2
<1>8. ASSUME NEW r \in Requests, NEW k \in Countries, ResolveCountry(r, k)
      PROVE  Contract!Next \/ UNCHANGED Contract!vars
  <2>1. CASE read[r].country # k
    BY <1>1, <1>8, <2>1 DEF ResolveCountry, Finish, Moved, Goto, db
  <2>2. CASE read[r].country = k
    BY <1>2, <1>8, <2>2 DEF ResolveCountry, Goto, db
  <2> QED BY <2>1, <2>2
<1>9. ASSUME NEW r \in Requests, BeginTransaction(r) PROVE UNCHANGED Contract!vars
  BY <1>2, <1>9 DEF BeginTransaction, Goto
<1>10. ASSUME NEW r \in Requests, NEW v, NEW s \in {"exists", "insert", "increment"},
              Proceed(r, v, s), pc[r] \in Statements,
              UNCHANGED <<redemptions, order, newUses>>
       PROVE  UNCHANGED Contract!vars
  <2>1. CASE v = NoOutcome
    BY <1>2, <1>10, <2>1 DEF Proceed, Goto, Statements
  <2>2. CASE v # NoOutcome
    <3>1. \A q \in Requests \ {r} : outcome'[q] = outcome[q]
      BY <1>10, <2>2 DEF Proceed, Throw, IInv, TypeOK
    <3> QED BY <1>2, <1>10, <2>2, <3>1 DEF Proceed, Throw, Goto, Statements
  <2> QED BY <2>1, <2>2
<1>11. ASSUME NEW r \in Requests, FindForUpdate(r) \/ CheckEligibility(r) \/ InsertRedemption(r)
       PROVE  UNCHANGED Contract!vars
  BY <1>10, <1>11 DEF FindForUpdate, CheckEligibility, InsertRedemption, Statements, db
<1>12. ASSUME NEW r \in Requests, StatementFails(r) PROVE UNCHANGED Contract!vars
  <2>1. \A q \in Requests \ {r} : outcome'[q] = outcome[q]
    BY <1>12 DEF StatementFails, Throw, IInv, TypeOK
  <2> QED BY <1>2, <1>12, <2>1 DEF StatementFails, Throw, Goto, Statements, db
<1>13. ASSUME NEW r \in Requests, IncrementIfCapacity(r) PROVE UNCHANGED Contract!vars
  <2>1. pc[r] = "increment" /\ r \notin Granted
    BY <1>13 DEF IncrementIfCapacity, IInv, CommittedRows, Granted, Ended
  <2>2. /\ \A q \in Requests \ {r} : outcome'[q] = outcome[q] /\ newUses'[q] = newUses[q]
        /\ UNCHANGED <<redemptions, order>>
    BY <1>13 DEF IncrementIfCapacity, Throw, IInv, TypeOK
  <2>3. \E s \in {"commit", "rollback"} : pc' = [pc EXCEPT ![r] = s]
    BY <1>13 DEF IncrementIfCapacity, Throw, Goto
  <2> QED BY <1>2, <2>1, <2>2, <2>3
<1>14. ASSUME NEW r \in Requests, Commit(r) \/ ServerCommit(r) PROVE Contract!Next
  <2>1. tx[r] = "committing" /\ ApplyWrites(r) /\ UNCHANGED <<order, newUses, outcome>>
    BY <1>14 DEF Commit, ServerCommit, threads, IInv, TransactionsMatchThreads
  <2>2. \A q \in Requests : pc'[q] = "done" <=> pc[q] = "done"
    BY <1>14 DEF Commit, ServerCommit, Goto, threads, IInv, TypeOK
  <2> QED BY <2>1, <2>2, CommitIsGrant DEF Contract!Next
<1>15. ASSUME NEW r \in Requests, ServerRollback(r) PROVE UNCHANGED Contract!vars
  BY <1>15, Unseen DEF ServerRollback, DiscardWrites, threads
<1>16. ASSUME NEW i \in Instances, Crash(i) PROVE UNCHANGED Contract!vars
  <2>1. \A q \in Requests : pc'[q] = "done" <=> pc[q] = "done"
    BY <1>16 DEF Crash, Ended
  <2> QED BY <1>16, <2>1, Unseen DEF Crash, db
<1>17. ASSUME NEW c \in Coupons, Edit(c) PROVE UNCHANGED Contract!vars
  BY <1>17, Unseen DEF Edit, DeleteCoupon, CreateCoupon, ChangeCountry, threads
<1>18. CASE Terminating \/ UNCHANGED vars
  BY <1>18, Unseen DEF Terminating, vars
<1> QED
  BY <1>3, <1>4, <1>5, <1>6, <1>7, <1>8, <1>9, <1>11, <1>12, <1>13, <1>14, <1>15, <1>16,
     <1>17, <1>18
  DEF Next, Progress, Failure

\* Redemption implements RedemptionContract: whatever the interleaving, every
\* commit is an indivisible grant, every answer is justified by the grants, and
\* all else is invisible to the callers.
THEOREM Implementation == Spec => ImplementsContract
<1>1. Init => Contract!Init
  BY DEF Init, Contract!Init, Granted, AnswerOf, LeftOf
<1> QED
  BY <1>1, StepImplements, Invariance, PTL DEF Spec, ImplementsContract, Contract!Spec

-----------------------------------------------------------------------------
(* Races alone *)

\* Without faults and with a connection for every request, the service never
\* answers INTERNAL_ERROR: its defences in depth (the translated unique
\* violation, the conditional UPDATE) are never what decides a race.
THEOREM RacesCorrect ==
    ASSUME ~DatabaseFaults, Cardinality(Requests) <= PoolSize
    PROVE  Spec => []RacesAreBusinessAnswers
<1>1. Init => RacesAreBusinessAnswers
  BY NoOutcomeOK DEF Init, RacesAreBusinessAnswers, RedemptionOutcome
<1>2. IInv /\ RacesAreBusinessAnswers /\ [Next]_vars => RacesAreBusinessAnswers'
  <2> SUFFICES ASSUME IInv, RacesAreBusinessAnswers, [Next]_vars
               PROVE  RacesAreBusinessAnswers'
    OBVIOUS
  <2>1. ASSUME NEW r \in Requests, NEW o, o # "INTERNAL_ERROR",
               outcome' = [outcome EXCEPT ![r] = o]
        PROVE  RacesAreBusinessAnswers'
    BY <2>1 DEF RacesAreBusinessAnswers, IInv, TypeOK
  <2>2. ASSUME UNCHANGED outcome PROVE RacesAreBusinessAnswers'
    BY <2>2 DEF RacesAreBusinessAnswers
  <2>3. ASSUME NEW r \in Requests, pc[r] \notin InTransaction PROVE PoolFree(r)
    <3> DEFINE holding == HoldingConnection(order[r].instance)
    <3>1. holding \subseteq Requests \ {r}
      BY <2>3 DEF HoldingConnection
    <3>2. /\ IsFiniteSet(Requests) /\ IsFiniteSet(Requests \ {r})
          /\ Cardinality(Requests \ {r}) = Cardinality(Requests) - 1
      BY ConstantsOK, FS_RemoveElement
    <3>3. Cardinality(holding) <= Cardinality(Requests \ {r})
      BY <3>1, <3>2, FS_Subset
    <3>4. /\ Cardinality(holding) \in Nat /\ Cardinality(Requests) \in Nat
          /\ PoolSize \in Nat
      BY <3>1, <3>2, FS_Subset, FS_CardinalityType, ConstantsOK
    <3> QED BY <3>2, <3>3, <3>4 DEF PoolFree
  <2>4. ASSUME NEW r \in Requests, ConnectionFails(r) PROVE FALSE
    BY <2>3, <2>4 DEF ConnectionFails, InTransaction, Statements
  <2>5. ASSUME NEW r \in Requests, NEW v, NEW s, v # "INTERNAL_ERROR", Proceed(r, v, s)
        PROVE  RacesAreBusinessAnswers'
    BY <2>1, <2>2, <2>5 DEF Proceed, Throw
  <2>6. ASSUME NEW r \in Requests
        PROVE  /\ LockVerdict(r) # "INTERNAL_ERROR" /\ EligibilityVerdict(r) # "INTERNAL_ERROR"
               /\ InsertVerdict(r) # "INTERNAL_ERROR"
    BY NoOutcomeOK DEF LockVerdict, EligibilityVerdict, InsertVerdict, RedemptionOutcome
  <2>7. ASSUME NEW r \in Requests, Progress(r) PROVE RacesAreBusinessAnswers'
    <3>1. CASE RejectInvalid(r) \/ ResolutionFails(r)
      BY <2>1, <3>1 DEF RejectInvalid, ResolutionFails, Finish
    <3>2. CASE FindSnapshot(r) \/ (\E k \in Countries : ResolveCountry(r, k))
      BY <2>1, <2>2, <3>2 DEF FindSnapshot, ResolveCountry, Finish
    <3>3. CASE BeginTransaction(r) \/ Commit(r)
      BY <2>2, <3>3 DEF BeginTransaction, Commit
    <3>4. CASE FindForUpdate(r) \/ CheckEligibility(r) \/ InsertRedemption(r)
      BY <2>5, <2>6, <3>4 DEF FindForUpdate, CheckEligibility, InsertRedemption
    <3>5. CASE IncrementIfCapacity(r)
      <4>1. pc[r] = "increment"
        BY <3>5 DEF IncrementIfCapacity
      <4>2. IncrementVerdict(r) = NoOutcome
        BY <4>1, LockedRow DEF IncrementVerdict, IInv, ReadsAreCurrent, Locked
      <4> QED BY <2>1, <3>5, <4>2 DEF IncrementIfCapacity
    <3>6. CASE Report(r) \/ Rollback(r)
      BY <2>1, <3>6 DEF Report, Rollback, Finish, RacesAreBusinessAnswers
    <3> QED BY <2>4, <2>7, <3>1, <3>2, <3>3, <3>4, <3>5, <3>6 DEF Progress
  <2>8. ASSUME NEW r \in Requests, Failure(r) \/ ServerRollback(r) PROVE RacesAreBusinessAnswers'
    BY <2>2, <2>8 DEF Failure, StatementFails, CommitFails, LoseConnection, ServerCommit,
                      ServerRollback, threads
  <2>9. ASSUME NEW i \in Instances, Crash(i) PROVE RacesAreBusinessAnswers'
    BY <2>2, <2>9 DEF Crash
  <2>10. ASSUME NEW c \in Coupons, Edit(c) PROVE RacesAreBusinessAnswers'
    BY <2>2, <2>10 DEF Edit, DeleteCoupon, CreateCoupon, ChangeCountry, threads
  <2>11. CASE Terminating \/ UNCHANGED vars
    BY <2>2, <2>11 DEF Terminating, vars
  <2> QED BY <2>7, <2>8, <2>9, <2>10, <2>11 DEF Next
<1> QED BY <1>1, <1>2, Invariance, PTL DEF Spec

=============================================================================
