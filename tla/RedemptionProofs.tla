-------------------------- MODULE RedemptionProofs --------------------------
(***************************************************************************)
(* TLAPS proofs about Redemption, for any number of coupons, users,        *)
(* requests, instances and connections.                                    *)
(***************************************************************************)
EXTENDS RedemptionInvariant, FiniteSetTheorems, TLAPS

-----------------------------------------------------------------------------
(* Types *)

OutcomeType == RedemptionOutcome \cup {"INVALID_REQUEST", NoOutcome}

\* Answering a request (Finish) keeps outcome, the counter and pc in their types.
LEMMA FinishType ==
    ASSUME TypeOK, NEW r \in Requests, NEW o \in RedemptionOutcome, Finish(r, o)
    PROVE  /\ outcome' \in [Requests -> OutcomeType]
           /\ redemptionCounter' \in [Instances -> [RedemptionOutcome -> Nat]]
           /\ pc' \in [Requests -> Steps]
<1>1. order[r].instance \in Instances
  BY DEF TypeOK, Order
<1>2. redemptionCounter[order[r].instance] \in [RedemptionOutcome -> Nat]
  BY <1>1 DEF TypeOK
<1>3. redemptionCounter' \in [Instances -> [RedemptionOutcome -> Nat]]
  BY <1>1, <1>2 DEF TypeOK, Finish
<1> QED BY <1>3 DEF TypeOK, Finish, Goto, Steps, Ended, OutcomeType

\* Stopping the transaction timer keeps it in its type.
LEMMA StopTransactionTimerType ==
    ASSUME TypeOK, NEW r \in Requests, NEW o \in RedemptionOutcome \ {"GEOLOCATION_UNAVAILABLE"},
           StopTransactionTimer(r, o)
    PROVE  transactionTimer' \in [Instances -> [TransactionOutcome -> Nat]]
<1> DEFINE t == IF o = "INTERNAL_ERROR" THEN "DATABASE_ERROR" ELSE o
<1>1. order[r].instance \in Instances
  BY DEF TypeOK, Order
<1>2. transactionTimer[order[r].instance] \in [TransactionOutcome -> Nat]
  BY <1>1 DEF TypeOK
<1>3. t \in TransactionOutcome
  BY DEF RedemptionOutcome, TransactionOutcome
<1>4. transactionTimer' = [transactionTimer EXCEPT ![order[r].instance][t] = @ + 1]
  BY DEF StopTransactionTimer
<1> HIDE DEF t
<1> QED BY <1>1, <1>2, <1>3, <1>4 DEF TypeOK

\* The verdicts on a statement
Verdicts == RedemptionOutcome \ {"GEOLOCATION_UNAVAILABLE", "SUCCESS"}

\* An exception out of the transactional method keeps outcome, timer and pc in their types.
LEMMA ThrowType ==
    ASSUME TypeOK, NEW r \in Requests, NEW o \in Verdicts, Throw(r, o)
    PROVE  /\ outcome' \in [Requests -> OutcomeType]
           /\ transactionTimer' \in [Instances -> [TransactionOutcome -> Nat]]
           /\ pc' \in [Requests -> Steps]
<1>1. transactionTimer' \in [Instances -> [TransactionOutcome -> Nat]]
  BY StopTransactionTimerType DEF Throw, Verdicts
<1> QED
  BY <1>1 DEF TypeOK, Throw, Goto, Steps, InTransaction, Verdicts, OutcomeType

\* So does going on to the next statement, whatever the verdict on this one.
LEMMA ProceedType ==
    ASSUME TypeOK, NEW r \in Requests, NEW v \in Verdicts \cup {NoOutcome}, NEW s \in Steps,
           Proceed(r, v, s)
    PROVE  /\ outcome' \in [Requests -> OutcomeType]
           /\ transactionTimer' \in [Instances -> [TransactionOutcome -> Nat]]
           /\ pc' \in [Requests -> Steps]
<1>1. CASE v = NoOutcome
  BY <1>1 DEF TypeOK, Proceed, Goto, OutcomeType
<1>2. CASE v # NoOutcome
  BY <1>2, ThrowType DEF Proceed
<1> QED BY <1>1, <1>2

\* The verdicts on the four statements are outcomes that can be thrown, or none.
LEMMA VerdictType ==
    ASSUME NEW r
    PROVE  /\ LockVerdict(r) \in Verdicts \cup {NoOutcome}
           /\ EligibilityVerdict(r) \in Verdicts \cup {NoOutcome}
           /\ InsertVerdict(r) \in Verdicts \cup {NoOutcome}
           /\ IncrementVerdict(r) \in Verdicts \cup {NoOutcome}
BY DEF LockVerdict, EligibilityVerdict, InsertVerdict, IncrementVerdict, Verdicts,
       RedemptionOutcome

\* The row a request inserts is a row of coupon_redemptions.
LEMMA NewRowType ==
    ASSUME TypeOK, NEW r \in Requests, country[r] \in Countries
    PROVE  NewRow(r) \in RedemptionRow
BY DEF TypeOK, NewRow, RedemptionRow, Order

\* The row a thread has locked is there.
LEMMA LockedRow ==
    ASSUME TypeOK, LocksMatchTransactions, NEW r \in Requests,
           lock[order[r].coupon] = r \/ pc[r] \in Locked
    PROVE  /\ order[r].coupon \in Coupons
           /\ lock[order[r].coupon] = r
           /\ coupons[order[r].coupon] # NoRow
           /\ coupons[order[r].coupon] \in CouponRow
<1>1. order[r].coupon \in Coupons
  BY DEF TypeOK, Order
<1>2. lock[order[r].coupon] = r /\ r # Free
  BY ConstantsOK DEF LocksMatchTransactions
<1> QED BY <1>1, <1>2 DEF LocksMatchTransactions, TypeOK

\* A commit keeps current_uses within max_uses.
LEMMA ApplyWritesType ==
    ASSUME TypeOK, LocksMatchTransactions, PendingWrites,
           NEW r \in Requests, tx[r] = "committing", ApplyWrites(r)
    PROVE  /\ coupons' \in [Coupons -> {NoRow} \cup CouponRow]
           /\ \A c \in Coupons : coupons'[c] # NoRow => coupons'[c].uses <= MaxUses[c]
           /\ redemptions' \subseteq RedemptionRow
           /\ pending' \subseteq RedemptionRow
           /\ lock' \in [Coupons -> {Free} \cup Requests]
           /\ tx' \in [Requests -> {"none", "open", "committing"}]
<1> DEFINE c0 == order[r].coupon
<1>1. c0 \in Coupons
  BY DEF TypeOK, Order
<1>2. coupons[c0] # NoRow /\ newUses[r] <= MaxUses[c0] /\ newUses[r] \in Nat
  <2>2. coupons[c0] # NoRow /\ coupons[c0] \in CouponRow
    BY LockedRow DEF PendingWrites
  <2>3. MaxUses[c0] \in Nat
    BY <1>1, ConstantsOK
  <2> QED BY <2>2, <2>3 DEF PendingWrites, TypeOK, CouponRow
<1>3. coupons[c0] \in CouponRow
  BY <1>1, <1>2 DEF TypeOK
<1>4. coupons' = [coupons EXCEPT ![c0].uses = newUses[r]]
  BY DEF ApplyWrites
<1>5. [coupons[c0] EXCEPT !.uses = newUses[r]] \in CouponRow
  BY <1>2, <1>3 DEF CouponRow
<1>6. coupons' \in [Coupons -> {NoRow} \cup CouponRow]
  BY <1>1, <1>4, <1>5 DEF TypeOK
<1>7. coupons'[c0].uses = newUses[r]
  BY <1>1, <1>3, <1>4 DEF TypeOK, CouponRow
<1>8. \A c \in Coupons : coupons'[c] # NoRow => coupons'[c].uses <= MaxUses[c]
  BY <1>1, <1>2, <1>4, <1>7 DEF TypeOK
<1>9. /\ redemptions' \subseteq RedemptionRow
      /\ pending' \subseteq RedemptionRow
      /\ lock' \in [Coupons -> {Free} \cup Requests]
      /\ tx' \in [Requests -> {"none", "open", "committing"}]
  BY DEF TypeOK, ApplyWrites, EndTransaction
<1> QED BY <1>6, <1>8, <1>9

\* A rollback keeps the database in its type.
LEMMA DiscardWritesType ==
    ASSUME TypeOK, NEW r \in Requests, DiscardWrites(r)
    PROVE  /\ coupons' = coupons
           /\ redemptions' = redemptions
           /\ pending' \subseteq RedemptionRow
           /\ lock' \in [Coupons -> {Free} \cup Requests]
           /\ tx' \in [Requests -> {"none", "open", "committing"}]
BY DEF TypeOK, DiscardWrites, EndTransaction


\* Every step keeps every variable in its type.
LEMMA TypeStep == IInv /\ Next => TypeOK'
<1> SUFFICES ASSUME IInv, Next PROVE TypeOK'
  OBVIOUS
<1> USE DEF IInv
<1>1. ASSUME NEW r \in Requests, RejectInvalid(r) PROVE TypeOK'
  BY <1>1 DEF TypeOK, RejectInvalid, Goto, Steps, Ended, db, metrics
<1>2. ASSUME NEW r \in Requests, FindSnapshot(r) PROVE TypeOK'
  <2>1. CASE coupons[order[r].coupon] = NoRow
    BY <1>2, <2>1, FinishType DEF TypeOK, FindSnapshot, RedemptionOutcome, db, OutcomeType
  <2>2. CASE coupons[order[r].coupon] # NoRow
    BY <1>2, <2>2 DEF TypeOK, FindSnapshot, Goto, Steps, Order, db
  <2> QED BY <2>1, <2>2
<1>3. ASSUME NEW r \in Requests, NEW k \in Countries, ResolveCountry(r, k) PROVE TypeOK'
  <2>1. CASE read[r].country # k
    BY <1>3, <2>1, FinishType DEF TypeOK, ResolveCountry, RedemptionOutcome, db, OutcomeType
  <2>2. CASE read[r].country = k
    BY <1>3, <2>2 DEF TypeOK, ResolveCountry, Goto, Steps, db
  <2> QED BY <2>1, <2>2
<1>4. ASSUME NEW r \in Requests, ResolutionFails(r) PROVE TypeOK'
  BY <1>4, FinishType DEF TypeOK, ResolutionFails, RedemptionOutcome, db, OutcomeType
<1>5. ASSUME NEW r \in Requests, ConnectionFails(r) PROVE TypeOK'
  BY <1>5, FinishType DEF TypeOK, ConnectionFails, RedemptionOutcome, db, OutcomeType
<1>6. ASSUME NEW r \in Requests, BeginTransaction(r) PROVE TypeOK'
  BY <1>6 DEF TypeOK, BeginTransaction, Goto, Steps, InTransaction, Statements, metrics
<1>7. ASSUME NEW r \in Requests, FindForUpdate(r) PROVE TypeOK'
  <2>1. "exists" \in Steps
    BY DEF Steps, InTransaction, Statements
  <2> QED
    BY <1>7, <2>1, VerdictType, ProceedType
    DEF TypeOK, FindForUpdate, AcquireRow, Order, OutcomeType
<1>8. ASSUME NEW r \in Requests, CheckEligibility(r) PROVE TypeOK'
  <2>1. "insert" \in Steps
    BY DEF Steps, InTransaction, Statements
  <2> QED
    BY <1>8, <2>1, VerdictType, ProceedType DEF TypeOK, CheckEligibility, OutcomeType, db
<1>9. ASSUME NEW r \in Requests, InsertRedemption(r) PROVE TypeOK'
  <2>1. "increment" \in Steps
    BY DEF Steps, InTransaction, Statements
  <2>2. NewRow(r) \in RedemptionRow
    BY <1>9, NewRowType DEF InsertRedemption, OutcomesMatchThreads
  <2> QED
    BY <1>9, <2>1, <2>2, VerdictType, ProceedType DEF TypeOK, InsertRedemption, OutcomeType
<1>10. ASSUME NEW r \in Requests, IncrementIfCapacity(r) PROVE TypeOK'
  <2>1. CASE IncrementVerdict(r) = NoOutcome
    <3>1. newUses' \in [Requests -> Nat]
      <4>1. coupons[order[r].coupon] \in CouponRow
        BY <1>10, LockedRow DEF IncrementIfCapacity, Locked
      <4>2. ReturnedUses(r) \in Nat
        BY <4>1 DEF ReturnedUses, CouponRow
      <4> QED BY <1>10, <2>1, <4>2 DEF TypeOK, IncrementIfCapacity
    <3>2. transactionTimer' \in [Instances -> [TransactionOutcome -> Nat]]
      BY <1>10, <2>1, StopTransactionTimerType DEF IncrementIfCapacity, RedemptionOutcome
    <3>3. lock' \in [Coupons -> {Free} \cup Requests]
      BY <1>10, <2>1 DEF TypeOK, IncrementIfCapacity, AcquireRow
    <3>4. /\ outcome' \in [Requests -> OutcomeType]
          /\ tx' \in [Requests -> {"none", "open", "committing"}]
          /\ pc' \in [Requests -> Steps]
      BY <1>10, <2>1 DEF TypeOK, IncrementIfCapacity, Goto, Steps, InTransaction,
                        RedemptionOutcome, OutcomeType
    <3>5. UNCHANGED <<coupons, redemptions, pending, order, read, country, redemptionCounter>>
      BY <1>10 DEF IncrementIfCapacity
    <3> QED
      BY <3>1, <3>2, <3>3, <3>4, <3>5 DEF TypeOK, OutcomeType
  <2>2. CASE IncrementVerdict(r) # NoOutcome
    BY <1>10, <2>2, VerdictType, ThrowType DEF TypeOK, IncrementIfCapacity, OutcomeType
  <2> QED BY <2>1, <2>2
<1>11. ASSUME NEW r \in Requests, Commit(r) PROVE TypeOK'
  BY <1>11, ApplyWritesType
  DEF TypeOK, Commit, Goto, Steps, metrics, TransactionsMatchThreads
<1>12. ASSUME NEW r \in Requests, Report(r) PROVE TypeOK'
  BY <1>12, FinishType DEF TypeOK, Report, OutcomesMatchThreads, RedemptionOutcome, db, OutcomeType
<1>13. ASSUME NEW r \in Requests, Rollback(r) PROVE TypeOK'
  BY <1>13, FinishType, DiscardWritesType DEF TypeOK, Rollback, OutcomesMatchThreads, OutcomeType
<1>14. ASSUME NEW r \in Requests, StatementFails(r) PROVE TypeOK'
  BY <1>14, ThrowType DEF TypeOK, StatementFails, Verdicts, RedemptionOutcome, db, OutcomeType
<1>15. ASSUME NEW r \in Requests, CommitFails(r) PROVE TypeOK'
  BY <1>15, FinishType, DiscardWritesType
  DEF TypeOK, CommitFails, CommitFailure, RedemptionOutcome, OutcomeType
<1>16. ASSUME NEW r \in Requests, LoseConnection(r) PROVE TypeOK'
  <2>1. transactionTimer' \in [Instances -> [TransactionOutcome -> Nat]]
    BY <1>16, StopTransactionTimerType DEF LoseConnection, RedemptionOutcome, TypeOK
  <2> QED
    BY <1>16, <2>1, FinishType DEF TypeOK, LoseConnection, RedemptionOutcome, db, OutcomeType
<1>17. ASSUME NEW r \in Requests, ServerRollback(r) PROVE TypeOK'
  BY <1>17, DiscardWritesType DEF TypeOK, ServerRollback, threads, metrics
<1>18. ASSUME NEW r \in Requests, ServerCommit(r) PROVE TypeOK'
  BY <1>18, ApplyWritesType DEF TypeOK, ServerCommit, threads, metrics
<1>19. ASSUME NEW i \in Instances, Crash(i) PROVE TypeOK'
  BY <1>19 DEF TypeOK, Crash, Steps, Ended, db
<1>20. ASSUME NEW c \in Coupons, Edit(c) PROVE TypeOK'
  <2>1. CASE DeleteCoupon(c)
    BY <2>1 DEF TypeOK, DeleteCoupon, threads, metrics
  <2>2. ASSUME NEW k \in Countries, CreateCoupon(c, k) PROVE TypeOK'
    <3>1. [uses |-> 0, country |-> k] \in CouponRow
      BY <2>2 DEF CouponRow
    <3>2. coupons' = [coupons EXCEPT ![c] = [uses |-> 0, country |-> k]]
      BY <2>2 DEF CreateCoupon
    <3>3. coupons' \in [Coupons -> {NoRow} \cup CouponRow]
      BY <3>1, <3>2 DEF TypeOK
    <3>4. ASSUME NEW d \in Coupons, coupons'[d] # NoRow PROVE coupons'[d].uses <= MaxUses[d]
      <4>1. CASE d = c
        <5>1. coupons'[d].uses = 0
          BY <3>2, <4>1 DEF TypeOK
        <5>2. MaxUses[d] \in Nat
          BY ConstantsOK
        <5> QED BY <5>1, <5>2
      <4>2. CASE d # c
        BY <3>2, <3>4, <4>2 DEF TypeOK
      <4> QED BY <4>1, <4>2
    <3>5. UNCHANGED <<redemptions, pending, lock, tx, order, pc, read, country, newUses,
                      outcome, redemptionCounter, transactionTimer>>
      BY <2>2 DEF CreateCoupon, threads, metrics
    <3> QED BY <3>3, <3>4, <3>5 DEF TypeOK
  <2>3. ASSUME NEW k \in Countries, ChangeCountry(c, k) PROVE TypeOK'
    BY <2>3 DEF TypeOK, ChangeCountry, CouponRow, threads, metrics
  <2> QED BY <1>20, <2>1, <2>2, <2>3 DEF Edit
<1>21. CASE Terminating
  BY <1>21 DEF TypeOK, Terminating, vars
<1> QED
  BY <1>1, <1>2, <1>3, <1>4, <1>5, <1>6, <1>7, <1>8, <1>9, <1>10, <1>11, <1>12, <1>13,
     <1>14, <1>15, <1>16, <1>17, <1>18, <1>19, <1>20, <1>21
  DEF Next, Progress, Failure

-----------------------------------------------------------------------------
(* Frames: steps that leave the tables alone *)

\* Thread r goes to step s with outcome o.
Moved(r, s, o) ==
    /\ pc' = [pc EXCEPT ![r] = s]
    /\ outcome' = [outcome EXCEPT ![r] = o]

\* The tables agree as long as neither changes.
LEMMA LedgerFrame ==
    ASSUME LedgerConsistent, UNCHANGED <<coupons, redemptions>>
    PROVE  LedgerConsistent'
BY DEF LedgerConsistent, RowsOf

\* What RETURNING gave to the committed redemptions stays as it was.
LEMMA RemainingFrame ==
    ASSUME RemainingUsesCountDown, redemptions' = redemptions,
           \A row \in redemptions : newUses'[row.id] = newUses[row.id]
    PROVE  RemainingUsesCountDown'
<1>1. ASSUME NEW c \in Coupons
      PROVE  /\ RowsOf(c)' = RowsOf(c)
             /\ {MaxUses[c] - newUses[row.id] : row \in RowsOf(c)}'
                  = {MaxUses[c] - newUses[row.id] : row \in RowsOf(c)}
  BY DEF RowsOf
<1> QED BY <1>1 DEF RemainingUsesCountDown

\* A refusal given by this step must be true now; earlier ones stay true.
TrueRefusal(r, o) ==
    /\ o = "ALREADY_REDEEMED" => HasRedeemed(r)
    /\ o = "EXHAUSTED" =>
          /\ ~HasRedeemed(r)
          /\ Cardinality(RowsOf(order[r].coupon)) = MaxUses[order[r].coupon]

\* A thread that decides a true refusal, or none, leaves all refusals justified.
LEMMA RefusalFrame ==
    ASSUME TypeOK, RefusalJustified, UNCHANGED <<redemptions, order>>,
           NEW r \in Requests, NEW o, outcome' = [outcome EXCEPT ![r] = o],
           TrueRefusal(r, o)
    PROVE  RefusalJustified'
<1>1. ASSUME NEW q \in Requests
      PROVE  /\ HasRedeemed(q)' = HasRedeemed(q)
             /\ RowsOf(order[q].coupon)' = RowsOf(order[q].coupon)
  BY DEF HasRedeemed, RowsOf
<1>2. \A q \in Requests : outcome'[q] = IF q = r THEN o ELSE outcome[q]
  BY DEF TypeOK
<1>3. TypeOK
  OBVIOUS
<1> QED BY <1>1, <1>2, Zenon DEF RefusalJustified, TrueRefusal

\* Refusals stay justified while no outcome and no committed row changes.
LEMMA RefusalFrameSame ==
    ASSUME RefusalJustified, UNCHANGED <<redemptions, order, outcome>>
    PROVE  RefusalJustified'
BY DEF RefusalJustified, HasRedeemed, RowsOf

\* What a request outside the transaction, or leaving it by an exception, may
\* become.
MayBecome(r, s, o) ==
    /\ s \in {"resolve", "begin", "rollback", "done"}
    /\ s \in {"resolve", "begin"} => o = NoOutcome /\ tx[r] = "none"
    /\ s = "rollback" => tx[r] = "open" /\ o \in RedemptionOutcome \ {"SUCCESS"}
    /\ s = "done" =>
          /\ o # NoOutcome
          /\ o = "SUCCESS" => r \in Granted
          /\ tx[r] # "none" => o = "INTERNAL_ERROR"
    /\ r \in Granted => s = "done" /\ o \in {"SUCCESS", "INTERNAL_ERROR"}
    /\ TrueRefusal(r, o)

\* A step of a thread that leaves the database alone and ends outside of the
\* part of the transaction that works under the lock.
LEMMA LocalStep ==
    ASSUME IInv, TypeOK', NEW r \in Requests, NEW s, NEW o,
           Moved(r, s, o), MayBecome(r, s, o),
           UNCHANGED <<coupons, redemptions, pending, lock, tx, order, newUses>>,
           \A q \in Requests \ {r} : read'[q] = read[q] /\ country'[q] = country[q],
           country'[r] = country[r] \/ (tx[r] = "none" /\ r \notin Granted),
           s \in {"begin", "rollback"} => country'[r] \in Countries
    PROVE  IInv'
<1> USE DEF IInv
<1>1. \A q \in Requests : /\ pc'[q] = IF q = r THEN s ELSE pc[q]
                          /\ outcome'[q] = IF q = r THEN o ELSE outcome[q]
  BY DEF Moved, TypeOK
<1>2. \A q \in Requests : /\ HasRedeemed(q)' = HasRedeemed(q)
                          /\ (q \in Granted)' = (q \in Granted)
  BY DEF HasRedeemed, RowsOf, Granted
<1>3. \A row \in redemptions \cup pending : row.id \in Requests /\ row.coupon \in Coupons
  BY DEF TypeOK, RedemptionRow
<1>4. \A row \in redemptions \cup pending : NewRow(row.id)' = NewRow(row.id)
  <2>1. ASSUME NEW row \in pending PROVE tx[row.id] # "none"
    BY <1>3, ConstantsOK DEF PendingWrites, LocksMatchTransactions
  <2>2. ASSUME NEW row \in redemptions PROVE row.id \in Granted
    BY DEF Granted
  <2> QED BY <1>3, <2>1, <2>2 DEF NewRow
<1>5. TransactionsMatchThreads'
  BY <1>1 DEF TransactionsMatchThreads, MayBecome, Statements, InTransaction, Ended
<1>6. LocksMatchTransactions'
  BY <1>1 DEF LocksMatchTransactions, MayBecome, Locked
<1>7. ReadsAreCurrent'
  BY <1>1, <1>2 DEF ReadsAreCurrent, MayBecome
<1>8. PendingWrites'
  <2>1. \A row \in pending : row = NewRow(row.id)' /\ lock[row.coupon] = row.id
    BY <1>4 DEF PendingWrites
  <2>2. ASSUME NEW q \in Requests, tx[q] = "committing" \/ pc'[q] = "increment"
        PROVE  NewRow(q)' \in pending /\ country'[q] = country[q]
    <3>1. q # r \/ tx[r] = "committing"
      BY <1>1, <2>2 DEF MayBecome
    <3>2. NewRow(q) \in pending
      BY <1>1, <2>2, <3>1 DEF PendingWrites, MayBecome
    <3> QED BY <3>1, <3>2 DEF NewRow
  <2>3. ASSUME NEW q \in Requests, tx[q] = "committing"
        PROVE  outcome'[q] \in {"SUCCESS", "INTERNAL_ERROR"}
    BY <1>1, <2>3 DEF PendingWrites, MayBecome
  <2> QED BY <1>2, <2>1, <2>2, <2>3 DEF PendingWrites
<1>9. CommittedRows'
  <2>1. ASSUME NEW row \in redemptions PROVE row.id \in Granted
    BY DEF Granted
  <2> QED BY <1>1, <1>3, <1>4, <2>1 DEF CommittedRows, MayBecome, Ended
<1>10. OutcomesMatchThreads'
  BY <1>1, <1>2 DEF OutcomesMatchThreads, MayBecome, Statements
<1>11. LedgerConsistent' /\ RefusalJustified' /\ RemainingUsesCountDown'
  BY LedgerFrame, RemainingFrame, RefusalFrame DEF Moved, MayBecome
<1> QED BY <1>5, <1>6, <1>7, <1>8, <1>9, <1>10, <1>11

\* A thread that has not reached its transaction has none, and has written nothing.
LEMMA BeforeTransaction ==
    ASSUME TransactionsMatchThreads, CommittedRows, NEW r \in Requests,
           pc[r] \in {"findSnapshot", "resolve", "begin"}
    PROVE  tx[r] = "none" /\ r \notin Granted
<1>1. pc[r] \notin InTransaction \cup Ended \cup {"committed"}
  BY DEF InTransaction, Statements, Ended
<1>2. tx[r] = "none"
  BY <1>1 DEF TransactionsMatchThreads
<1>3. r \notin Granted
  BY <1>1 DEF CommittedRows, Granted
<1> QED BY <1>2, <1>3

\* The actions of a thread that write nothing to the database keep the invariant.
LEMMA LocalActions ==
    ASSUME IInv, TypeOK', NEW r \in Requests,
           \/ RejectInvalid(r)
           \/ FindSnapshot(r)
           \/ \E k \in Countries : ResolveCountry(r, k)
           \/ ResolutionFails(r)
           \/ ConnectionFails(r)
           \/ Report(r)
           \/ StatementFails(r)
           \/ LoseConnection(r)
    PROVE  IInv'
<1> USE DEF IInv
<1>1. pc[r] \in {"findSnapshot", "resolve", "begin"} => tx[r] = "none" /\ r \notin Granted
  BY BeforeTransaction
<1>2. "INTERNAL_ERROR" # NoOutcome /\ "INVALID_REQUEST" # NoOutcome
      /\ "NOT_FOUND" # NoOutcome /\ "COUNTRY_NOT_ALLOWED" # NoOutcome
      /\ "GEOLOCATION_UNAVAILABLE" # NoOutcome /\ "SUCCESS" # NoOutcome
      /\ "ALREADY_REDEEMED" # NoOutcome /\ "EXHAUSTED" # NoOutcome
  BY NoOutcomeOK DEF RedemptionOutcome
<1>3. CASE RejectInvalid(r)
  <2>1. Moved(r, "done", "INVALID_REQUEST") /\ MayBecome(r, "done", "INVALID_REQUEST")
    BY <1>1, <1>2, <1>3 DEF RejectInvalid, Goto, Moved, MayBecome, TrueRefusal
  <2> QED BY <1>3, <2>1, LocalStep DEF RejectInvalid, db
<1>4. CASE FindSnapshot(r)
  <2>1. CASE coupons[order[r].coupon] = NoRow
    <3>1. Moved(r, "done", "NOT_FOUND") /\ MayBecome(r, "done", "NOT_FOUND")
      BY <1>1, <1>2, <1>4, <2>1 DEF FindSnapshot, Finish, Goto, Moved, MayBecome, TrueRefusal
    <3> QED BY <1>4, <2>1, <3>1, LocalStep DEF FindSnapshot, db
  <2>2. CASE coupons[order[r].coupon] # NoRow
    <3>1. outcome[r] = NoOutcome
      BY <1>4 DEF FindSnapshot, OutcomesMatchThreads
    <3>2. outcome' = [outcome EXCEPT ![r] = NoOutcome]
      BY <1>4, <2>2, <3>1 DEF FindSnapshot, TypeOK
    <3>3. Moved(r, "resolve", NoOutcome) /\ MayBecome(r, "resolve", NoOutcome)
      BY <1>1, <1>2, <1>4, <2>2, <3>2 DEF FindSnapshot, Goto, Moved, MayBecome, TrueRefusal
    <3>4. \A q \in Requests \ {r} : read'[q] = read[q]
      BY <1>4, <2>2 DEF FindSnapshot, TypeOK
    <3> QED BY <1>4, <2>2, <3>3, <3>4, LocalStep DEF FindSnapshot, db
  <2> QED BY <2>1, <2>2
<1>5. ASSUME NEW k \in Countries, ResolveCountry(r, k) PROVE IInv'
  <2>1. /\ \A q \in Requests \ {r} : country'[q] = country[q]
        /\ country'[r] = k
        /\ tx[r] = "none" /\ r \notin Granted
    BY <1>1, <1>5 DEF ResolveCountry, TypeOK
  <2>2. CASE read[r].country = k
    <3>1. outcome[r] = NoOutcome
      BY <1>5 DEF ResolveCountry, OutcomesMatchThreads
    <3>2. outcome' = [outcome EXCEPT ![r] = NoOutcome]
      BY <1>5, <2>2, <3>1 DEF ResolveCountry, TypeOK
    <3>3. Moved(r, "begin", NoOutcome) /\ MayBecome(r, "begin", NoOutcome)
      BY <1>1, <1>2, <1>5, <2>2, <3>2 DEF ResolveCountry, Goto, Moved, MayBecome, TrueRefusal
    <3> QED BY <1>5, <2>1, <3>3, LocalStep DEF ResolveCountry, db
  <2>3. CASE read[r].country # k
    <3>1. Moved(r, "done", "COUNTRY_NOT_ALLOWED") /\ MayBecome(r, "done", "COUNTRY_NOT_ALLOWED")
      BY <1>1, <1>2, <1>5, <2>3
      DEF ResolveCountry, Finish, Goto, Moved, MayBecome, TrueRefusal
    <3> QED BY <1>5, <2>1, <3>1, LocalStep DEF ResolveCountry, db
  <2> QED BY <2>2, <2>3
<1>6. CASE ResolutionFails(r)
  <2>1. Moved(r, "done", "GEOLOCATION_UNAVAILABLE") /\ MayBecome(r, "done", "GEOLOCATION_UNAVAILABLE")
    BY <1>1, <1>2, <1>6 DEF ResolutionFails, Finish, Goto, Moved, MayBecome, TrueRefusal
  <2> QED BY <1>6, <2>1, LocalStep DEF ResolutionFails, db
<1>7. CASE ConnectionFails(r)
  <2>1. Moved(r, "done", "INTERNAL_ERROR") /\ MayBecome(r, "done", "INTERNAL_ERROR")
    BY <1>1, <1>2, <1>7 DEF ConnectionFails, Finish, Goto, Moved, MayBecome, TrueRefusal
  <2> QED BY <1>7, <2>1, LocalStep DEF ConnectionFails, db
<1>8. CASE Report(r)
  <2>1. outcome[r] = "SUCCESS" /\ r \in Granted /\ tx[r] = "none"
    BY <1>8 DEF Report, OutcomesMatchThreads, TransactionsMatchThreads, InTransaction,
                Statements, Ended, TypeOK
  <2>2. Moved(r, "done", "SUCCESS") /\ MayBecome(r, "done", "SUCCESS")
    BY <1>2, <1>8, <2>1 DEF Report, Finish, Goto, Moved, MayBecome, TrueRefusal
  <2> QED BY <1>8, <2>2, LocalStep DEF Report, db
<1>9. CASE StatementFails(r)
  <2>1. tx[r] = "open" /\ r \notin Granted /\ country[r] \in Countries
    BY <1>9 DEF StatementFails, TransactionsMatchThreads, CommittedRows, Granted,
                OutcomesMatchThreads, Statements, Ended
  <2>2. Moved(r, "rollback", "INTERNAL_ERROR") /\ MayBecome(r, "rollback", "INTERNAL_ERROR")
    BY <1>2, <1>9, <2>1
    DEF StatementFails, Throw, Goto, Moved, MayBecome, TrueRefusal, RedemptionOutcome
  <2> QED BY <1>9, <2>1, <2>2, LocalStep DEF StatementFails, db
<1>10. CASE LoseConnection(r)
  <2>1. Moved(r, "done", "INTERNAL_ERROR") /\ MayBecome(r, "done", "INTERNAL_ERROR")
    BY <1>2, <1>10 DEF LoseConnection, Finish, Goto, Moved, MayBecome, TrueRefusal
  <2> QED BY <1>10, <2>1, LocalStep DEF LoseConnection, db
<1> QED BY <1>3, <1>4, <1>5, <1>6, <1>7, <1>8, <1>9, <1>10

\* A killed instance loses its threads; their transactions stay for the server.
LEMMA CrashStep ==
    ASSUME IInv, TypeOK', NEW i \in Instances, Crash(i)
    PROVE  IInv'
<1> USE DEF IInv
<1>1. /\ UNCHANGED <<coupons, redemptions, pending, lock, tx, order, read, country, newUses, outcome>>
      /\ \A q \in Requests : \/ pc'[q] = pc[q]
                             \/ pc'[q] = "lost" /\ pc[q] # "findSnapshot"
  BY DEF Crash, db
<1>2. TransactionsMatchThreads'
  BY <1>1 DEF TransactionsMatchThreads, Statements, InTransaction, Ended
<1>3. LocksMatchTransactions'
  BY <1>1 DEF LocksMatchTransactions, Locked
<1>4. ReadsAreCurrent'
  BY <1>1 DEF ReadsAreCurrent, HasRedeemed, RowsOf
<1>5. PendingWrites'
  BY <1>1 DEF PendingWrites, HasRedeemed, RowsOf, NewRow
<1>6. CommittedRows'
  BY <1>1 DEF CommittedRows, NewRow, Ended, TypeOK, RedemptionRow
<1>7. OutcomesMatchThreads'
  BY <1>1 DEF OutcomesMatchThreads, Granted, Statements
<1>8. LedgerConsistent' /\ RefusalJustified' /\ RemainingUsesCountDown'
  BY <1>1, LedgerFrame, RemainingFrame, RefusalFrameSame
<1> QED BY <1>2, <1>3, <1>4, <1>5, <1>6, <1>7, <1>8

-----------------------------------------------------------------------------
(* Statements of the transaction *)

\* Opening a transaction keeps the invariant.
LEMMA BeginTransactionStep ==
    ASSUME IInv, TypeOK', NEW r \in Requests, BeginTransaction(r)
    PROVE  IInv'
<1> USE DEF IInv
<1>1. /\ UNCHANGED <<coupons, redemptions, pending, lock, order, read, country, newUses, outcome>>
      /\ pc[r] = "begin" /\ outcome[r] = NoOutcome
      /\ \A q \in Requests : /\ pc'[q] = IF q = r THEN "findForUpdate" ELSE pc[q]
                             /\ tx'[q] = IF q = r THEN "open" ELSE tx[q]
  BY DEF BeginTransaction, Goto, TypeOK, OutcomesMatchThreads
<1>2. r \notin Granted
  BY <1>1 DEF CommittedRows, Granted, Ended
<1>3. TransactionsMatchThreads'
  BY <1>1 DEF TransactionsMatchThreads, Statements, InTransaction, Ended
<1>4. LocksMatchTransactions'
  BY <1>1 DEF LocksMatchTransactions, Locked, TypeOK
<1>5. ReadsAreCurrent'
  BY <1>1 DEF ReadsAreCurrent, HasRedeemed, RowsOf
<1>6. PendingWrites'
  BY <1>1 DEF PendingWrites, HasRedeemed, RowsOf, NewRow
<1>7. CommittedRows'
  BY <1>1, <1>2 DEF CommittedRows, NewRow, Ended, TypeOK, RedemptionRow, Granted
<1>8. OutcomesMatchThreads'
  BY <1>1 DEF OutcomesMatchThreads, Granted, Statements
<1>9. LedgerConsistent' /\ RefusalJustified' /\ RemainingUsesCountDown'
  BY <1>1, LedgerFrame, RemainingFrame, RefusalFrameSame
<1> QED BY <1>3, <1>4, <1>5, <1>6, <1>7, <1>8, <1>9

\* What a statement that holds the row lock may lead to.
MayContinue(r, s, o) ==
    LET row == coupons[order[r].coupon]
    IN  /\ s \in {"exists", "insert", "increment", "rollback"}
        /\ s # "rollback" => o = NoOutcome /\ read'[r] = row /\ row.country = country[r]
        /\ s = "rollback" => o \in RedemptionOutcome \ {"SUCCESS"}
        /\ s \in {"insert", "increment"} => ~HasRedeemed(r) /\ row.uses < MaxUses[order[r].coupon]
        /\ s = "increment" => NewRow(r) \in pending'
        /\ TrueRefusal(r, o)

\* A statement of an open transaction that has the row lock, or gets it.
LEMMA StatementStep ==
    ASSUME IInv, TypeOK', NEW r \in Requests, NEW s, NEW o,
           pc[r] \in Statements, Moved(r, s, o), MayContinue(r, s, o),
           coupons[order[r].coupon] # NoRow,
           lock[order[r].coupon] \in {Free, r},
           lock' = [lock EXCEPT ![order[r].coupon] = r],
           pending \subseteq pending', pending' \subseteq pending \cup {NewRow(r)},
           UNCHANGED <<coupons, redemptions, tx, order, country, newUses>>,
           \A q \in Requests \ {r} : read'[q] = read[q]
    PROVE  IInv'
<1> USE DEF IInv
<1> DEFINE c0 == order[r].coupon
<1>1. \A q \in Requests : /\ pc'[q] = IF q = r THEN s ELSE pc[q]
                          /\ outcome'[q] = IF q = r THEN o ELSE outcome[q]
  BY DEF Moved, TypeOK
<1>2. \A q \in Requests : /\ HasRedeemed(q)' = HasRedeemed(q)
                          /\ (q \in Granted)' = (q \in Granted)
                          /\ NewRow(q)' = NewRow(q)
  BY DEF HasRedeemed, RowsOf, Granted, NewRow
<1>3. /\ c0 \in Coupons /\ r # Free
      /\ \A c \in Coupons : lock'[c] = IF c = c0 THEN r ELSE lock[c]
  BY ConstantsOK DEF TypeOK, Order
<1>4. tx[r] = "open" /\ r \notin Granted /\ country[r] \in Countries
  BY DEF TransactionsMatchThreads, CommittedRows, Granted, OutcomesMatchThreads,
         Statements, Ended
<1>5. \A row \in redemptions \cup pending' : row.id \in Requests /\ row.coupon \in Coupons
  BY DEF TypeOK, RedemptionRow
<1>6. TransactionsMatchThreads'
  BY <1>1, <1>4 DEF TransactionsMatchThreads, MayContinue, Statements, InTransaction
<1>7. LocksMatchTransactions'
  <2>1. ASSUME NEW c \in Coupons, lock'[c] # Free
        PROVE  tx[lock'[c]] # "none" /\ order[lock'[c]].coupon = c /\ coupons[c] # NoRow
    BY <1>3, <1>4, <2>1 DEF LocksMatchTransactions
  <2>2. ASSUME NEW q \in Requests, pc'[q] \in Locked PROVE lock'[order[q].coupon] = q
    <3>1. CASE q = r
      BY <1>3, <3>1
    <3>2. CASE q # r
      <4>1. lock[order[q].coupon] = q /\ order[q].coupon \in Coupons /\ q # Free
        BY <1>1, <2>2, <3>2, ConstantsOK DEF LocksMatchTransactions, TypeOK, Order
      <4> QED BY <1>3, <3>2, <4>1
    <3> QED BY <3>1, <3>2
  <2> QED BY <2>1, <2>2 DEF LocksMatchTransactions
<1>8. ReadsAreCurrent'
  BY <1>1, <1>2 DEF ReadsAreCurrent, MayContinue
<1>9. PendingWrites'
  <2>1. ASSUME NEW row \in pending' PROVE row = NewRow(row.id) /\ lock'[row.coupon] = row.id
    <3>1. CASE row \in pending
      <4>1. row = NewRow(row.id) /\ lock[row.coupon] = row.id
        BY <3>1 DEF PendingWrites
      <4>2. row.id # Free /\ row.coupon \in Coupons
        BY <1>5, <3>1, ConstantsOK
      <4> QED BY <1>3, <4>1, <4>2
    <3>2. CASE row = NewRow(r)
      BY <1>3, <3>2 DEF NewRow
    <3> QED BY <3>1, <3>2
  <2>2. ASSUME NEW q \in Requests, pc'[q] = "increment" PROVE NewRow(q) \in pending'
    BY <1>1, <2>2 DEF PendingWrites, MayContinue
  <2>3. ASSUME NEW q \in Requests, tx[q] = "committing"
        PROVE  q # r /\ lock'[order[q].coupon] = q /\ outcome'[q] = outcome[q]
    <3>1. q # r /\ q # Free /\ lock[order[q].coupon] = q /\ order[q].coupon \in Coupons
      BY <1>4, <2>3, ConstantsOK DEF PendingWrites, TypeOK, Order
    <3> QED BY <1>1, <1>3, <3>1
  <2>4. ASSUME NEW q \in Requests, tx[q] = "committing"
        PROVE  /\ NewRow(q) \in pending'
               /\ coupons[order[q].coupon].country = country[q]
               /\ coupons[order[q].coupon].uses < MaxUses[order[q].coupon]
               /\ newUses[q] = coupons[order[q].coupon].uses + 1
               /\ ~HasRedeemed(q)
               /\ outcome[q] \in {"SUCCESS", "INTERNAL_ERROR"}
    BY <2>4 DEF PendingWrites
  <2>5. /\ \A row \in pending' : row = NewRow(row.id)' /\ lock'[row.coupon] = row.id
        /\ \A q \in Requests : pc'[q] = "increment" => NewRow(q)' \in pending'
    BY <1>2, <1>5, <2>1, <2>2
  <2>6. ASSUME NEW q \in Requests, tx'[q] = "committing"
        PROVE  /\ NewRow(q)' \in pending'
               /\ lock'[order'[q].coupon] = q
               /\ coupons'[order'[q].coupon].country = country'[q]
               /\ coupons'[order'[q].coupon].uses < MaxUses[order'[q].coupon]
               /\ newUses'[q] = coupons'[order'[q].coupon].uses + 1
               /\ ~HasRedeemed(q)'
               /\ outcome'[q] \in {"SUCCESS", "INTERNAL_ERROR"}
    BY <1>2, <2>3, <2>4, <2>6
  <2> QED BY <2>5, <2>6 DEF PendingWrites
<1>10. CommittedRows'
  <2>1. ASSUME NEW row \in redemptions PROVE row.id \in Granted
    BY DEF Granted
  <2> QED BY <1>1, <1>2, <1>4, <1>5, <2>1 DEF CommittedRows
<1>11. OutcomesMatchThreads'
  BY <1>1, <1>2, <1>4 DEF OutcomesMatchThreads, MayContinue, Statements
<1>12. LedgerConsistent' /\ RefusalJustified' /\ RemainingUsesCountDown'
  BY LedgerFrame, RemainingFrame, RefusalFrame DEF Moved, MayContinue
<1> QED BY <1>6, <1>7, <1>8, <1>9, <1>10, <1>11, <1>12

\* SELECT FOR UPDATE, the eligibility checks and the INSERT keep the invariant.
LEMMA StatementActions ==
    ASSUME IInv, TypeOK', NEW r \in Requests,
           FindForUpdate(r) \/ CheckEligibility(r) \/ InsertRedemption(r)
    PROVE  IInv'
<1> USE DEF IInv
<1> DEFINE c0 == order[r].coupon
<1>1. "NOT_FOUND" # NoOutcome /\ "COUNTRY_NOT_ALLOWED" # NoOutcome
      /\ "ALREADY_REDEEMED" # NoOutcome /\ "EXHAUSTED" # NoOutcome
  BY NoOutcomeOK DEF RedemptionOutcome
<1>2. /\ pc[r] \in Statements
      /\ outcome[r] = NoOutcome /\ tx[r] = "open" /\ r \notin Granted
      /\ country[r] \in Countries /\ c0 \in Coupons
  <2>1. pc[r] \in {"findForUpdate", "exists", "insert"}
    BY DEF FindForUpdate, CheckEligibility, InsertRedemption
  <2>2. outcome[r] = NoOutcome /\ tx[r] = "open" /\ country[r] \in Countries
    BY <2>1 DEF OutcomesMatchThreads, TransactionsMatchThreads, Statements
  <2>3. r \notin Granted
    BY <2>1 DEF CommittedRows, Granted, Ended
  <2>4. c0 \in Coupons
    BY DEF TypeOK, Order
  <2> QED BY <2>1, <2>2, <2>3, <2>4 DEF Statements
<1>3. TrueRefusal(r, NoOutcome)
  BY <1>1 DEF TrueRefusal
<1>4. outcome = [outcome EXCEPT ![r] = NoOutcome]
  BY <1>2 DEF TypeOK
<1>5. CASE FindForUpdate(r)
  <2>1. /\ UNCHANGED <<coupons, redemptions, pending, tx, order, country, newUses>>
        /\ \A q \in Requests \ {r} : read'[q] = read[q]
        /\ read'[r] = coupons[c0]
        /\ lock[c0] = Free
    BY <1>5 DEF FindForUpdate, RowFree, TypeOK
  <2>2. CASE coupons[c0] = NoRow
    <3>1. lock' = lock
      BY <1>2, <1>5, <2>2 DEF FindForUpdate, AcquireRow, TypeOK
    <3>2. Moved(r, "rollback", "NOT_FOUND")
      BY <1>1, <1>5, <2>2 DEF FindForUpdate, LockVerdict, Proceed, Throw, Goto, Moved
    <3>3. MayBecome(r, "rollback", "NOT_FOUND")
      BY <1>2 DEF MayBecome, TrueRefusal, RedemptionOutcome
    <3> QED BY <1>2, <2>1, <3>1, <3>2, <3>3, LocalStep
  <2>3. CASE coupons[c0] # NoRow
    <3>1. lock' = [lock EXCEPT ![c0] = r]
      BY <1>5, <2>3 DEF FindForUpdate, AcquireRow
    <3>2. CASE coupons[c0].country # country[r]
      <4>1. Moved(r, "rollback", "COUNTRY_NOT_ALLOWED")
        BY <1>1, <1>5, <2>3, <3>2 DEF FindForUpdate, LockVerdict, Proceed, Throw, Goto, Moved
      <4>2. MayContinue(r, "rollback", "COUNTRY_NOT_ALLOWED")
        BY DEF MayContinue, TrueRefusal, RedemptionOutcome
      <4> QED BY <1>2, <2>1, <2>3, <3>1, <4>1, <4>2, StatementStep
    <3>3. CASE coupons[c0].country = country[r]
      <4>1. Moved(r, "exists", NoOutcome)
        BY <1>4, <1>5, <2>3, <3>3 DEF FindForUpdate, LockVerdict, Proceed, Goto, Moved
      <4>2. MayContinue(r, "exists", NoOutcome)
        BY <1>3, <2>1, <3>3 DEF MayContinue
      <4> QED BY <1>2, <2>1, <2>3, <3>1, <4>1, <4>2, StatementStep
    <3> QED BY <3>2, <3>3
  <2> QED BY <2>2, <2>3
<1>6. CASE CheckEligibility(r)
  <2>1. UNCHANGED <<coupons, redemptions, pending, lock, tx, order, read, country, newUses>>
    BY <1>6 DEF CheckEligibility, db
  <2>2. /\ coupons[c0] # NoRow /\ coupons[c0] \in CouponRow /\ lock[c0] = r
        /\ read[r] = coupons[c0] /\ read[r].country = country[r]
    BY <1>6, LockedRow DEF CheckEligibility, ReadsAreCurrent, Locked
  <2>3. lock' = [lock EXCEPT ![c0] = r]
    BY <2>1, <2>2 DEF TypeOK
  <2>4. /\ MaxUses[c0] \in Nat /\ coupons[c0].uses \in Nat
        /\ coupons[c0].uses <= MaxUses[c0]
        /\ coupons[c0].uses = Cardinality(RowsOf(c0))
    BY <1>2, <2>2, ConstantsOK DEF TypeOK, CouponRow, LedgerConsistent
  <2>5. CASE HasRedeemed(r)
    <3>1. Moved(r, "rollback", "ALREADY_REDEEMED")
      BY <1>1, <1>6, <2>5
      DEF CheckEligibility, EligibilityVerdict, Proceed, Throw, Goto, Moved
    <3>2. MayContinue(r, "rollback", "ALREADY_REDEEMED")
      BY <2>5 DEF MayContinue, TrueRefusal, RedemptionOutcome
    <3> QED BY <1>2, <2>1, <2>2, <2>3, <3>1, <3>2, StatementStep
  <2>6. CASE ~HasRedeemed(r) /\ read[r].uses >= MaxUses[c0]
    <3>1. Moved(r, "rollback", "EXHAUSTED")
      BY <1>1, <1>6, <2>6
      DEF CheckEligibility, EligibilityVerdict, Proceed, Throw, Goto, Moved
    <3>2. Cardinality(RowsOf(c0)) = MaxUses[c0]
      BY <2>2, <2>4, <2>6
    <3>3. MayContinue(r, "rollback", "EXHAUSTED")
      BY <2>6, <3>2 DEF MayContinue, TrueRefusal, RedemptionOutcome
    <3> QED BY <1>2, <2>1, <2>2, <2>3, <3>1, <3>3, StatementStep
  <2>7. CASE ~HasRedeemed(r) /\ ~(read[r].uses >= MaxUses[c0])
    <3>1. Moved(r, "insert", NoOutcome)
      BY <1>4, <1>6, <2>7 DEF CheckEligibility, EligibilityVerdict, Proceed, Goto, Moved
    <3>2. MayContinue(r, "insert", NoOutcome)
      BY <1>3, <2>1, <2>2, <2>4, <2>7 DEF MayContinue
    <3> QED BY <1>2, <2>1, <2>2, <2>3, <3>1, <3>2, StatementStep
  <2> QED BY <2>5, <2>6, <2>7
<1>7. CASE InsertRedemption(r)
  <2>1. /\ coupons[c0] # NoRow /\ lock[c0] = r
        /\ read[r] = coupons[c0] /\ read[r].country = country[r]
        /\ ~HasRedeemed(r) /\ read[r].uses < MaxUses[c0]
    BY <1>7, LockedRow DEF InsertRedemption, ReadsAreCurrent, Locked
  <2>2. /\ UNCHANGED <<coupons, redemptions, lock, tx, order, read, country, newUses>>
        /\ pending' = pending \cup {NewRow(r)}
    BY <1>7, <2>1 DEF InsertRedemption, InsertVerdict
  <2>3. lock' = [lock EXCEPT ![c0] = r]
    BY <1>2, <2>1, <2>2 DEF TypeOK
  <2>4. Moved(r, "increment", NoOutcome)
    BY <1>4, <1>7, <2>1 DEF InsertRedemption, InsertVerdict, Proceed, Goto, Moved
  <2>5. MayContinue(r, "increment", NoOutcome)
    BY <1>3, <2>1, <2>2 DEF MayContinue
  <2> QED BY <1>2, <2>1, <2>2, <2>3, <2>4, <2>5, StatementStep
<1> QED BY <1>5, <1>6, <1>7

\* The conditional UPDATE keeps the invariant; under the lock it always finds capacity.
LEMMA IncrementStep ==
    ASSUME IInv, TypeOK', NEW r \in Requests, IncrementIfCapacity(r)
    PROVE  IInv'
<1> USE DEF IInv
<1> DEFINE c0 == order[r].coupon
<1>1. /\ c0 \in Coupons /\ lock[c0] = r /\ coupons[c0] # NoRow
      /\ ~HasRedeemed(r) /\ coupons[c0].uses < MaxUses[c0]
      /\ coupons[c0].country = country[r]
      /\ NewRow(r) \in pending
      /\ pc[r] = "increment" /\ tx[r] = "open" /\ r \notin Granted
      /\ country[r] \in Countries
  <2>1. pc[r] = "increment"
    BY DEF IncrementIfCapacity
  <2>2. r \notin Granted
    BY <2>1 DEF CommittedRows, Granted, Ended
  <2>3. tx[r] = "open" /\ country[r] \in Countries
    BY <2>1 DEF TransactionsMatchThreads, OutcomesMatchThreads, Statements
  <2> QED
    BY <2>1, <2>2, <2>3, LockedRow DEF ReadsAreCurrent, PendingWrites, Locked
<1>2. /\ UNCHANGED <<coupons, redemptions, pending, lock, order, read, country>>
      /\ newUses' = [newUses EXCEPT ![r] = coupons[c0].uses + 1]
      /\ tx' = [tx EXCEPT ![r] = "committing"]
      /\ Moved(r, "commit", "SUCCESS")
  <2>1. IncrementVerdict(r) = NoOutcome
    BY <1>1 DEF IncrementVerdict
  <2>2. lock' = lock
    BY <1>1, <2>1 DEF IncrementIfCapacity, AcquireRow, TypeOK
  <2> QED BY <2>1, <2>2 DEF IncrementIfCapacity, ReturnedUses, Moved, Goto
<1>3. \A q \in Requests : /\ pc'[q] = IF q = r THEN "commit" ELSE pc[q]
                          /\ outcome'[q] = IF q = r THEN "SUCCESS" ELSE outcome[q]
                          /\ tx'[q] = IF q = r THEN "committing" ELSE tx[q]
                          /\ newUses'[q] = IF q = r THEN coupons[c0].uses + 1 ELSE newUses[q]
  BY <1>2 DEF Moved, TypeOK
<1>4. \A q \in Requests : /\ HasRedeemed(q)' = HasRedeemed(q)
                          /\ (q \in Granted)' = (q \in Granted)
                          /\ NewRow(q)' = NewRow(q)
  BY <1>2 DEF HasRedeemed, RowsOf, Granted, NewRow
<1>5. \A row \in redemptions : row.id \in Requests /\ row.id # r
  BY <1>1 DEF TypeOK, RedemptionRow, Granted
<1>6. TransactionsMatchThreads'
  BY <1>3 DEF TransactionsMatchThreads, Statements, InTransaction
<1>7. LocksMatchTransactions'
  BY <1>1, <1>2, <1>3 DEF LocksMatchTransactions, Locked, TypeOK
<1>8. ReadsAreCurrent'
  BY <1>2, <1>3, <1>4 DEF ReadsAreCurrent
<1>9. PendingWrites'
  <2>1. /\ \A row \in pending' : row = NewRow(row.id)' /\ lock'[row.coupon] = row.id
        /\ \A q \in Requests : pc'[q] = "increment" => NewRow(q)' \in pending'
    BY <1>2, <1>3, <1>4 DEF PendingWrites, TypeOK, RedemptionRow
  <2>2. ASSUME NEW q \in Requests, tx'[q] = "committing"
        PROVE  /\ NewRow(q)' \in pending'
               /\ lock'[order'[q].coupon] = q
               /\ coupons'[order'[q].coupon].country = country'[q]
               /\ coupons'[order'[q].coupon].uses < MaxUses[order'[q].coupon]
               /\ newUses'[q] = coupons'[order'[q].coupon].uses + 1
               /\ ~HasRedeemed(q)'
               /\ outcome'[q] \in {"SUCCESS", "INTERNAL_ERROR"}
    <3>1. CASE q = r
      BY <1>1, <1>2, <1>3, <1>4, <3>1
    <3>2. CASE q # r
      BY <1>2, <1>3, <1>4, <2>2, <3>2 DEF PendingWrites
    <3> QED BY <3>1, <3>2
  <2> QED BY <2>1, <2>2 DEF PendingWrites
<1>10. CommittedRows'
  BY <1>2, <1>3, <1>4, <1>5 DEF CommittedRows
<1>11. OutcomesMatchThreads'
  BY <1>1, <1>2, <1>3, <1>4 DEF OutcomesMatchThreads, Statements
<1>12. RefusalJustified'
  <2>1. TrueRefusal(r, "SUCCESS")
    BY DEF TrueRefusal
  <2> QED BY <1>2, <2>1, RefusalFrame DEF Moved
<1>13. LedgerConsistent' /\ RemainingUsesCountDown'
  BY <1>2, <1>3, <1>5, LedgerFrame, RemainingFrame
<1> QED BY <1>6, <1>7, <1>8, <1>9, <1>10, <1>11, <1>12, <1>13

\* The end of a transaction releases its lock and forgets its rows.
LEMMA EndTransactionEffect ==
    ASSUME IInv, NEW r \in Requests, EndTransaction(r)
    PROVE  /\ \A q \in Requests : tx'[q] = IF q = r THEN "none" ELSE tx[q]
           /\ \A c \in Coupons : lock'[c] = IF lock[c] = r THEN Free ELSE lock[c]
           /\ \A row \in pending' : row \in pending /\ row.id # r
           /\ \A q \in Requests \ {r} : NewRow(q) \in pending => NewRow(q) \in pending'
           /\ r # Free
BY ConstantsOK DEF IInv, EndTransaction, TypeOK, NewRow

\* A transaction that ends without effect leaves the tables as they were.
LEMMA DiscardStep ==
    ASSUME IInv, TypeOK', NEW r \in Requests, NEW s, NEW o,
           DiscardWrites(r), tx[r] # "none", Moved(r, s, o),
           UNCHANGED <<order, read, country, newUses>>,
           s \in Ended, s = "done" => o \notin {NoOutcome, "SUCCESS"},
           TrueRefusal(r, o)
    PROVE  IInv'
<1> USE DEF IInv
<1>1. /\ UNCHANGED <<coupons, redemptions>>
      /\ \A q \in Requests : tx'[q] = IF q = r THEN "none" ELSE tx[q]
      /\ \A c \in Coupons : lock'[c] = IF lock[c] = r THEN Free ELSE lock[c]
      /\ \A row \in pending' : row \in pending /\ row.id # r
      /\ \A q \in Requests \ {r} : NewRow(q) \in pending => NewRow(q) \in pending'
      /\ r # Free
  BY EndTransactionEffect DEF DiscardWrites
<1>2. \A q \in Requests : /\ pc'[q] = IF q = r THEN s ELSE pc[q]
                          /\ outcome'[q] = IF q = r THEN o ELSE outcome[q]
  BY DEF Moved, TypeOK
<1>3. \A q \in Requests : /\ HasRedeemed(q)' = HasRedeemed(q)
                          /\ (q \in Granted)' = (q \in Granted)
                          /\ NewRow(q)' = NewRow(q)
                          /\ order[q].coupon \in Coupons
                          /\ q # Free
  BY <1>1, ConstantsOK DEF HasRedeemed, RowsOf, Granted, NewRow, TypeOK, Order
<1>4. \A row \in redemptions : row.id \in Requests /\ row.id # r
  BY DEF TypeOK, RedemptionRow, CommittedRows
<1>5. TransactionsMatchThreads'
  BY <1>1, <1>2 DEF TransactionsMatchThreads, Statements, InTransaction, Ended
<1>6. LocksMatchTransactions'
  BY <1>1, <1>2, <1>3 DEF LocksMatchTransactions, Locked, TypeOK, Ended
<1>7. ReadsAreCurrent'
  BY <1>1, <1>2, <1>3 DEF ReadsAreCurrent, Ended
<1>8. PendingWrites'
  <2>1. /\ \A row \in pending' : row = NewRow(row.id)' /\ lock'[row.coupon] = row.id
        /\ \A q \in Requests : pc'[q] = "increment" => NewRow(q)' \in pending'
    BY <1>1, <1>2, <1>3 DEF PendingWrites, TypeOK, RedemptionRow, Ended
  <2>2. ASSUME NEW q \in Requests, tx'[q] = "committing"
        PROVE  /\ NewRow(q)' \in pending'
               /\ lock'[order'[q].coupon] = q
               /\ coupons'[order'[q].coupon].country = country'[q]
               /\ coupons'[order'[q].coupon].uses < MaxUses[order'[q].coupon]
               /\ newUses'[q] = coupons'[order'[q].coupon].uses + 1
               /\ ~HasRedeemed(q)'
               /\ outcome'[q] \in {"SUCCESS", "INTERNAL_ERROR"}
    <3>1. q # r /\ tx[q] = "committing"
      BY <1>1, <2>2
    <3> QED BY <1>1, <1>2, <1>3, <3>1 DEF PendingWrites
  <2> QED BY <2>1, <2>2 DEF PendingWrites
<1>9. CommittedRows'
  BY <1>1, <1>2, <1>3, <1>4 DEF CommittedRows
<1>10. OutcomesMatchThreads'
  BY <1>1, <1>2, <1>3 DEF OutcomesMatchThreads, Statements, Ended
<1>11. LedgerConsistent' /\ RefusalJustified' /\ RemainingUsesCountDown'
  BY <1>1, LedgerFrame, RemainingFrame, RefusalFrame DEF Moved
<1> QED BY <1>5, <1>6, <1>7, <1>8, <1>9, <1>10, <1>11

\* Each way for a transaction to end without effect keeps the invariant.
LEMMA DiscardActions ==
    ASSUME IInv, TypeOK', NEW r \in Requests,
           Rollback(r) \/ CommitFails(r) \/ ServerRollback(r)
    PROVE  IInv'
<1> USE DEF IInv
<1>1. CASE Rollback(r)
  <2>1. /\ tx[r] # "none" /\ outcome[r] \in RedemptionOutcome \ {"SUCCESS"}
        /\ Moved(r, "done", outcome[r])
    BY <1>1 DEF Rollback, Finish, Goto, Moved, TransactionsMatchThreads, OutcomesMatchThreads
  <2>2. TrueRefusal(r, outcome[r])
    BY DEF TrueRefusal, RefusalJustified
  <2>3. DiscardWrites(r) /\ UNCHANGED <<order, read, country, newUses>>
    BY <1>1 DEF Rollback
  <2> QED BY <2>1, <2>2, <2>3, NoOutcomeOK, DiscardStep DEF Ended
<1>2. CASE CommitFails(r)
  <2>1. tx[r] # "none" /\ Moved(r, "done", "INTERNAL_ERROR")
    BY <1>2 DEF CommitFails, CommitFailure, Finish, Goto, Moved, TransactionsMatchThreads
  <2>2. TrueRefusal(r, "INTERNAL_ERROR") /\ "INTERNAL_ERROR" # NoOutcome
    BY NoOutcomeOK DEF TrueRefusal, RedemptionOutcome
  <2>3. DiscardWrites(r) /\ UNCHANGED <<order, read, country, newUses>>
    BY <1>2 DEF CommitFails
  <2> QED BY <2>1, <2>2, <2>3, DiscardStep DEF Ended
<1>3. CASE ServerRollback(r)
  <2>1. /\ DiscardWrites(r) /\ tx[r] # "none" /\ pc[r] \in Ended
        /\ UNCHANGED <<order, read, country, newUses, pc, outcome>>
    BY <1>3 DEF ServerRollback, threads
  <2>2. Moved(r, pc[r], outcome[r])
    BY <2>1 DEF Moved, TypeOK
  <2>3. pc[r] = "done" => outcome[r] = "INTERNAL_ERROR"
    BY <2>1 DEF OutcomesMatchThreads
  <2>4. TrueRefusal(r, outcome[r])
    BY DEF TrueRefusal, RefusalJustified
  <2>5. "INTERNAL_ERROR" # NoOutcome
    BY NoOutcomeOK DEF RedemptionOutcome
  <2> QED BY <2>1, <2>2, <2>3, <2>4, <2>5, DiscardStep
<1> QED BY <1>1, <1>2, <1>3

\* What a commit does to the tables: one row more, and one use more.
LEMMA ApplyEffect ==
    ASSUME IInv, NEW r \in Requests, tx[r] = "committing", ApplyWrites(r)
    PROVE  LET c0 == order[r].coupon IN
           /\ redemptions' = redemptions \cup {NewRow(r)}
           /\ NewRow(r) \notin redemptions
           /\ c0 \in Coupons /\ coupons[c0] # NoRow
           /\ coupons'[c0] # NoRow
           /\ coupons'[c0].uses = coupons[c0].uses + 1
           /\ coupons'[c0].country = coupons[c0].country
           /\ \A c \in Coupons \ {c0} : coupons'[c] = coupons[c]
           /\ ~HasRedeemed(r)
           /\ coupons[c0].uses < MaxUses[c0]
           /\ newUses[r] = coupons[c0].uses + 1
           /\ lock[c0] = r
<1> USE DEF IInv
<1> DEFINE c0 == order[r].coupon
<1>1. /\ NewRow(r) \in pending /\ lock[c0] = r
      /\ coupons[c0].uses < MaxUses[c0]
      /\ newUses[r] = coupons[c0].uses + 1
      /\ ~HasRedeemed(r)
  BY DEF PendingWrites
<1>2. c0 \in Coupons /\ coupons[c0] # NoRow /\ coupons[c0] \in CouponRow
  BY <1>1, LockedRow
<1>3. {row \in pending : row.id = r} = {NewRow(r)}
  BY <1>1 DEF PendingWrites, NewRow
<1>4. redemptions' = redemptions \cup {NewRow(r)}
  BY <1>3 DEF ApplyWrites
<1>5. NewRow(r) \notin redemptions
  BY <1>1 DEF HasRedeemed, RowsOf, NewRow
<1>6. coupons' = [coupons EXCEPT ![c0].uses = newUses[r]]
  BY DEF ApplyWrites
<1>7. coupons'[c0] = [coupons[c0] EXCEPT !.uses = newUses[r]]
  BY <1>2, <1>6 DEF TypeOK
<1>8. /\ coupons'[c0].uses = coupons[c0].uses + 1
      /\ coupons'[c0].country = coupons[c0].country
      /\ coupons'[c0] \in CouponRow
  BY <1>1, <1>2, <1>7 DEF CouponRow
<1>9. coupons'[c0] # NoRow
  BY <1>8, ConstantsOK DEF CouponRow
<1>10. \A c \in Coupons \ {c0} : coupons'[c] = coupons[c]
  BY <1>6 DEF TypeOK
<1> QED BY <1>1, <1>2, <1>4, <1>5, <1>8, <1>9, <1>10

\* The tables still agree after a commit.
LEMMA ApplyLedger ==
    ASSUME IInv, NEW r \in Requests, tx[r] = "committing", ApplyWrites(r),
           UNCHANGED <<newUses, order, outcome>>
    PROVE  /\ LedgerConsistent' /\ RemainingUsesCountDown' /\ RefusalJustified'
           /\ IsFiniteSet(redemptions')
           /\ \A c \in Coupons : RowsOf(c)' = IF c = order[r].coupon
                                              THEN RowsOf(c) \cup {NewRow(r)} ELSE RowsOf(c)
<1> USE DEF IInv
<1> DEFINE c0 == order[r].coupon
<1>1. /\ redemptions' = redemptions \cup {NewRow(r)}
      /\ NewRow(r) \notin redemptions
      /\ c0 \in Coupons /\ coupons[c0] # NoRow
      /\ coupons'[c0] # NoRow
      /\ coupons'[c0].uses = coupons[c0].uses + 1
      /\ \A c \in Coupons \ {c0} : coupons'[c] = coupons[c]
      /\ ~HasRedeemed(r)
      /\ coupons[c0].uses < MaxUses[c0]
      /\ newUses[r] = coupons[c0].uses + 1
  BY ApplyEffect
<1>2. NewRow(r).coupon = c0 /\ NewRow(r).user = order[r].user /\ NewRow(r).id = r
  BY DEF NewRow
<1>3. IsFiniteSet(redemptions')
  BY <1>1, FS_AddElement DEF CommittedRows
<1>4. \A c \in Coupons : RowsOf(c)' = IF c = c0 THEN RowsOf(c) \cup {NewRow(r)} ELSE RowsOf(c)
  BY <1>1, <1>2 DEF RowsOf
<1>5. \A c \in Coupons : IsFiniteSet(RowsOf(c)) /\ Cardinality(RowsOf(c)) \in Nat
  BY FS_Subset, FS_CardinalityType DEF CommittedRows, RowsOf
<1>6. Cardinality(RowsOf(c0) \cup {NewRow(r)}) = Cardinality(RowsOf(c0)) + 1
  BY <1>1, <1>5, FS_AddElement DEF RowsOf
<1>7. coupons[c0].uses = Cardinality(RowsOf(c0))
  BY <1>1 DEF LedgerConsistent
<1>8. LedgerConsistent'
  <2>1. ASSUME NEW c \in Coupons
        PROVE  IF coupons'[c] = NoRow THEN RowsOf(c)' = {}
               ELSE coupons'[c].uses = Cardinality(RowsOf(c)')
    BY <1>1, <1>4, <1>6, <1>7 DEF LedgerConsistent
  <2>2. ASSUME NEW row1 \in redemptions', NEW row2 \in redemptions',
               row1.coupon = row2.coupon, row1.user = row2.user
        PROVE  row1 = row2
    <3>1. ASSUME NEW row \in redemptions
          PROVE  ~(row.coupon = c0 /\ row.user = order[r].user)
      BY <1>1, <3>1 DEF HasRedeemed, RowsOf
    <3> QED BY <1>1, <1>2, <2>2, <3>1 DEF LedgerConsistent
  <2> QED BY <2>1, <2>2 DEF LedgerConsistent
<1>9. RemainingUsesCountDown'
  <2> DEFINE n == Cardinality(RowsOf(c0))
             m == MaxUses[c0]
             L(c) == {MaxUses[c] - newUses[row.id] : row \in RowsOf(c)}
  <2>1. \A c \in Coupons :
           L(c)' = IF c = c0 THEN L(c) \cup {m - (n + 1)} ELSE L(c)
    BY <1>1, <1>2, <1>4, <1>7
  <2>2. \A c \in Coupons : L(c) = (MaxUses[c] - Cardinality(RowsOf(c))) .. (MaxUses[c] - 1)
    BY DEF RemainingUsesCountDown
  <2>3. n \in Nat /\ m \in Nat /\ n < m
    BY <1>1, <1>5, <1>7, ConstantsOK
  <2>4. ((m - n) .. (m - 1)) \cup {m - (n + 1)} = (m - (n + 1)) .. (m - 1)
    BY <2>3
  <2>5. L(c0)' = (m - (n + 1)) .. (m - 1)
    BY <1>1, <2>1, <2>2, <2>4
  <2>6. Cardinality(RowsOf(c0)') = n + 1
    BY <1>1, <1>4, <1>6
  <2>7. ASSUME NEW c \in Coupons
        PROVE  L(c)' = (MaxUses[c] - Cardinality(RowsOf(c)')) .. (MaxUses[c] - 1)
    BY <1>4, <2>1, <2>2, <2>5, <2>6
  <2> QED BY <2>7 DEF RemainingUsesCountDown
<1>10. RefusalJustified'
  <2>1. ASSUME NEW q \in Requests, HasRedeemed(q) PROVE HasRedeemed(q)'
    BY <1>1, <2>1 DEF HasRedeemed, RowsOf
  <2>2. ASSUME NEW q \in Requests, outcome[q] = "EXHAUSTED"
        PROVE  /\ ~HasRedeemed(q)'
               /\ Cardinality(RowsOf(order[q].coupon)') = MaxUses[order[q].coupon]
    <3>1. ~HasRedeemed(q) /\ Cardinality(RowsOf(order[q].coupon)) = MaxUses[order[q].coupon]
      BY <2>2 DEF RefusalJustified
    <3>2. order[q].coupon \in Coupons \ {c0}
      BY <1>1, <1>5, <1>7, <3>1, ConstantsOK DEF TypeOK, Order
    <3>3. RowsOf(order[q].coupon)' = RowsOf(order[q].coupon)
      BY <1>4, <3>2
    <3>4. HasRedeemed(q)' = HasRedeemed(q)
      BY <3>3 DEF HasRedeemed
    <3> QED BY <3>1, <3>3, <3>4
  <2>3. ASSUME NEW q \in Requests
        PROVE  /\ outcome'[q] = "ALREADY_REDEEMED" => HasRedeemed(q)'
               /\ outcome'[q] = "EXHAUSTED" =>
                     /\ ~HasRedeemed(q)'
                     /\ (Cardinality(RowsOf(order[q].coupon)) = MaxUses[order[q].coupon])'
    BY <2>1, <2>2 DEF RefusalJustified
  <2> QED BY <2>3 DEF RefusalJustified
<1> QED BY <1>3, <1>4, <1>8, <1>9, <1>10

\* A commit, whether the thread sees it or not, keeps the invariant.
LEMMA ApplyStep ==
    ASSUME IInv, TypeOK', NEW r \in Requests, NEW s,
           tx[r] = "committing", ApplyWrites(r),
           pc' = [pc EXCEPT ![r] = s], s \in {"committed"} \cup Ended,
           s = "done" => pc[r] = "done", s = "committed" => pc[r] = "commit",
           UNCHANGED <<order, read, country, newUses, outcome>>
    PROVE  IInv'
<1> USE DEF IInv
<1> DEFINE c0 == order[r].coupon
<1>1. /\ redemptions' = redemptions \cup {NewRow(r)}
      /\ c0 \in Coupons /\ coupons[c0] # NoRow /\ coupons'[c0] # NoRow
      /\ \A c \in Coupons \ {c0} : coupons'[c] = coupons[c]
      /\ lock[c0] = r
  BY ApplyEffect
<1>2. /\ \A q \in Requests : tx'[q] = IF q = r THEN "none" ELSE tx[q]
      /\ \A c \in Coupons : lock'[c] = IF lock[c] = r THEN Free ELSE lock[c]
      /\ \A row \in pending' : row \in pending /\ row.id # r
      /\ \A q \in Requests \ {r} : NewRow(q) \in pending => NewRow(q) \in pending'
      /\ r # Free
  BY EndTransactionEffect DEF ApplyWrites
<1>3. \A q \in Requests : pc'[q] = IF q = r THEN s ELSE pc[q]
  BY DEF TypeOK
<1>4. \A q \in Requests : NewRow(q)' = NewRow(q) /\ order[q].coupon \in Coupons /\ q # Free
  BY ConstantsOK DEF NewRow, TypeOK, Order
<1>5. /\ LedgerConsistent' /\ RemainingUsesCountDown' /\ RefusalJustified'
      /\ IsFiniteSet(redemptions')
      /\ \A c \in Coupons : RowsOf(c)' = IF c = c0 THEN RowsOf(c) \cup {NewRow(r)} ELSE RowsOf(c)
  BY ApplyLedger
\* Another thread that holds a lock works on another coupon, which is untouched.
<1>6. ASSUME NEW q \in Requests, lock[order[q].coupon] = q, q # r
      PROVE  /\ coupons'[order[q].coupon] = coupons[order[q].coupon]
             /\ HasRedeemed(q)' = HasRedeemed(q)
             /\ lock'[order[q].coupon] = q
  <2>1. order[q].coupon \in Coupons \ {c0}
    BY <1>1, <1>4, <1>6
  <2>2. HasRedeemed(q)' = HasRedeemed(q)
    BY <1>5, <2>1 DEF HasRedeemed
  <2> QED BY <1>1, <1>2, <1>6, <2>1, <2>2
<1>7. TransactionsMatchThreads'
  BY <1>2, <1>3 DEF TransactionsMatchThreads, Statements, InTransaction, Ended
<1>8. LocksMatchTransactions'
  <2>1. ASSUME NEW c \in Coupons, lock'[c] # Free
        PROVE  tx'[lock'[c]] # "none" /\ order[lock'[c]].coupon = c /\ coupons'[c] # NoRow
    BY <1>1, <1>2, <2>1 DEF LocksMatchTransactions, TypeOK
  <2>2. ASSUME NEW q \in Requests, pc'[q] \in Locked PROVE lock'[order[q].coupon] = q
    BY <1>3, <1>6, <2>2 DEF LocksMatchTransactions, Locked, Ended
  <2> QED BY <2>1, <2>2 DEF LocksMatchTransactions
<1>9. ReadsAreCurrent'
  <2>1. ASSUME NEW q \in Requests, pc'[q] \in {"exists", "insert", "increment"}
        PROVE  /\ pc[q] = pc'[q]
               /\ coupons'[order[q].coupon] = coupons[order[q].coupon]
               /\ HasRedeemed(q)' = HasRedeemed(q)
    <3>1. q # r /\ pc[q] = pc'[q]
      BY <1>3, <2>1 DEF Ended
    <3>2. lock[order[q].coupon] = q
      BY <2>1, <3>1 DEF LocksMatchTransactions, Locked
    <3> QED BY <1>6, <3>1, <3>2
  <2> QED BY <2>1 DEF ReadsAreCurrent
<1>10. PendingWrites'
  <2>1. ASSUME NEW row \in pending' PROVE row = NewRow(row.id)' /\ lock'[row.coupon] = row.id
    <3>1. row \in pending /\ row.id # r /\ row.id \in Requests /\ row.coupon \in Coupons
      BY <1>2 DEF TypeOK, RedemptionRow
    <3> QED BY <1>2, <1>4, <3>1 DEF PendingWrites
  <2>2. ASSUME NEW q \in Requests, pc'[q] = "increment" PROVE NewRow(q)' \in pending'
    BY <1>2, <1>3, <1>4, <2>2 DEF PendingWrites, Ended
  <2>3. ASSUME NEW q \in Requests, tx'[q] = "committing"
        PROVE  /\ NewRow(q)' \in pending'
               /\ lock'[order'[q].coupon] = q
               /\ coupons'[order'[q].coupon].country = country'[q]
               /\ coupons'[order'[q].coupon].uses < MaxUses[order'[q].coupon]
               /\ newUses'[q] = coupons'[order'[q].coupon].uses + 1
               /\ ~HasRedeemed(q)'
               /\ outcome'[q] \in {"SUCCESS", "INTERNAL_ERROR"}
    <3>1. q # r /\ tx[q] = "committing"
      BY <1>2, <2>3
    <3>2. lock[order[q].coupon] = q
      BY <3>1 DEF PendingWrites
    <3> QED BY <1>2, <1>4, <1>6, <3>1, <3>2 DEF PendingWrites
  <2> QED BY <2>1, <2>2, <2>3 DEF PendingWrites
<1>11. CommittedRows'
  <2>1. ASSUME NEW row \in redemptions'
        PROVE  /\ row = NewRow(row.id)' /\ pc'[row.id] \in {"committed"} \cup Ended
               /\ tx'[row.id] = "none" /\ outcome'[row.id] \in {"SUCCESS", "INTERNAL_ERROR"}
    <3>1. CASE row = NewRow(r)
      <4>1. row.id = r /\ outcome[r] \in {"SUCCESS", "INTERNAL_ERROR"}
        BY <3>1 DEF NewRow, PendingWrites
      <4> QED BY <1>2, <1>3, <1>4, <3>1, <4>1
    <3>2. CASE row \in redemptions
      <4>1. row.id \in Requests /\ row.id # r
        BY <3>2 DEF TypeOK, RedemptionRow, CommittedRows
      <4> QED BY <1>2, <1>3, <1>4, <3>2, <4>1 DEF CommittedRows
    <3> QED BY <1>1, <3>1, <3>2
  <2> QED BY <1>5, <2>1 DEF CommittedRows
<1>12. OutcomesMatchThreads'
  <2>1. NewRow(r) \in redemptions' /\ NewRow(r).id = r /\ redemptions \subseteq redemptions'
    BY <1>1 DEF NewRow
  <2>2. r \in Granted'
    BY <2>1 DEF Granted
  <2>3. \A q \in Granted : q \in Granted'
    BY <2>1 DEF Granted
  <2> QED BY <1>2, <1>3, <2>2, <2>3 DEF OutcomesMatchThreads, Statements, Ended
<1> QED BY <1>5, <1>7, <1>8, <1>9, <1>10, <1>11, <1>12

\* Commit and ServerCommit are such commits.
LEMMA ApplyActions ==
    ASSUME IInv, TypeOK', NEW r \in Requests, Commit(r) \/ ServerCommit(r)
    PROVE  IInv'
<1> USE DEF IInv
<1>1. CASE Commit(r)
  <2>1. tx[r] = "committing"
    BY <1>1 DEF Commit, TransactionsMatchThreads
  <2> QED BY <1>1, <2>1, ApplyStep DEF Commit, Goto, Ended
<1>2. CASE ServerCommit(r)
  <2>1. pc' = [pc EXCEPT ![r] = pc[r]]
    BY <1>2 DEF ServerCommit, threads, TypeOK
  <2>2. UNCHANGED <<order, read, country, newUses, outcome>> /\ ApplyWrites(r)
        /\ tx[r] = "committing" /\ pc[r] \in Ended
    BY <1>2 DEF ServerCommit, threads
  <2>3. pc[r] # "committed"
    BY <2>2 DEF Ended
  <2> QED BY <2>1, <2>2, <2>3, ApplyStep
<1> QED BY <1>1, <1>2

-----------------------------------------------------------------------------
(* The other writers of table coupons *)

EditEffect(c) ==
    /\ UNCHANGED <<redemptions, pending, lock, tx, order, pc, read, country, newUses, outcome>>
    /\ lock[c] = Free
    /\ \A d \in Coupons \ {c} : coupons'[d] = coupons[d]
    /\ IF coupons'[c] = NoRow THEN RowsOf(c) = {}
       ELSE coupons'[c].uses = Cardinality(RowsOf(c))

\* They wait for the row lock, so no thread works on the row they change.
LEMMA EditStep ==
    ASSUME IInv, TypeOK', NEW c \in Coupons, Edit(c)
    PROVE  IInv'
<1> USE DEF IInv
<1>1. EditEffect(c)
  <2>1. CASE DeleteCoupon(c)
    BY <2>1 DEF DeleteCoupon, threads, TypeOK, RowsOf, EditEffect
  <2>2. ASSUME NEW k \in Countries, CreateCoupon(c, k) PROVE EditEffect(c)
    <3>1. lock[c] = Free
      BY <2>2 DEF CreateCoupon, LocksMatchTransactions
    <3>2. coupons'[c].uses = 0 /\ coupons'[c] # NoRow
      BY <2>2, ConstantsOK DEF CreateCoupon, TypeOK
    <3>3. RowsOf(c) = {}
      BY <2>2 DEF CreateCoupon, LedgerConsistent
    <3> QED BY <2>2, <3>1, <3>2, <3>3, FS_EmptySet DEF CreateCoupon, threads, TypeOK, EditEffect
  <2>3. ASSUME NEW k \in Countries, ChangeCountry(c, k) PROVE EditEffect(c)
    <3>1. coupons[c] \in CouponRow /\ coupons'[c] = [coupons[c] EXCEPT !.country = k]
      BY <2>3 DEF ChangeCountry, TypeOK
    <3>2. coupons'[c].uses = coupons[c].uses /\ coupons'[c] # NoRow
      BY <3>1, ConstantsOK DEF CouponRow
    <3>3. coupons[c].uses = Cardinality(RowsOf(c))
      BY <2>3 DEF ChangeCountry, LedgerConsistent
    <3>4. \A d \in Coupons \ {c} : coupons'[d] = coupons[d]
      BY <2>3 DEF ChangeCountry, TypeOK
    <3>5. /\ lock[c] = Free
          /\ UNCHANGED <<redemptions, pending, lock, tx, order, pc, read, country, newUses, outcome>>
      BY <2>3 DEF ChangeCountry, threads
    <3> QED BY <3>2, <3>3, <3>4, <3>5 DEF EditEffect
  <2> QED BY <2>1, <2>2, <2>3 DEF Edit
<1>2. \A q \in Requests : lock[order[q].coupon] = q => order[q].coupon \in Coupons \ {c}
  BY <1>1, ConstantsOK DEF EditEffect, TypeOK, Order
<1>3. /\ \A q \in Requests : HasRedeemed(q)' = HasRedeemed(q) /\ NewRow(q)' = NewRow(q)
      /\ \A d \in Coupons : RowsOf(d)' = RowsOf(d)
      /\ Granted' = Granted
  BY <1>1 DEF EditEffect, HasRedeemed, RowsOf, NewRow, Granted
<1>4. TransactionsMatchThreads'
  BY <1>1 DEF EditEffect, TransactionsMatchThreads
<1>5. LocksMatchTransactions'
  BY <1>1 DEF EditEffect, LocksMatchTransactions
<1>6. ReadsAreCurrent'
  BY <1>1, <1>2, <1>3 DEF EditEffect, ReadsAreCurrent, LocksMatchTransactions, Locked
<1>7. PendingWrites'
  BY <1>1, <1>2, <1>3 DEF EditEffect, PendingWrites, TypeOK, RedemptionRow
<1>8. CommittedRows'
  BY <1>1, <1>3 DEF EditEffect, CommittedRows, TypeOK, RedemptionRow
<1>9. OutcomesMatchThreads'
  BY <1>1, <1>3 DEF EditEffect, OutcomesMatchThreads
<1>10. LedgerConsistent'
  BY <1>1, <1>3 DEF EditEffect, LedgerConsistent
<1>11. RefusalJustified' /\ RemainingUsesCountDown'
  BY <1>1, RefusalFrameSame, RemainingFrame DEF EditEffect
<1> QED BY <1>4, <1>5, <1>6, <1>7, <1>8, <1>9, <1>10, <1>11

-----------------------------------------------------------------------------
(* The invariant, and what follows from it *)

\* The invariant holds before the first request.
LEMMA InitIInv == Init => IInv
<1> SUFFICES ASSUME Init PROVE IInv
  OBVIOUS
<1>1. \A c \in Coupons : RowsOf(c) = {}
  BY DEF Init, RowsOf
<1>2. /\ IsFiniteSet({}) /\ Cardinality({}) = 0
  BY FS_EmptySet
<1>3. NoOutcome \notin {"SUCCESS", "ALREADY_REDEEMED", "EXHAUSTED", "INTERNAL_ERROR"}
  BY NoOutcomeOK DEF RedemptionOutcome
<1>4. /\ coupons \in [Coupons -> {NoRow} \cup CouponRow]
      /\ \A c \in Coupons : coupons[c] # NoRow => coupons[c].uses = 0
  BY DEF Init, CouponRow
<1>5. TypeOK
  <2>1. \A c \in Coupons : coupons[c] # NoRow => coupons[c].uses <= MaxUses[c]
    BY <1>4, ConstantsOK
  <2> QED BY <1>4, <2>1 DEF Init, TypeOK, Steps
<1>6. LedgerConsistent
  BY <1>1, <1>2, <1>4 DEF Init, LedgerConsistent
<1>7. RefusalJustified
  BY <1>3 DEF Init, RefusalJustified
<1>8. RemainingUsesCountDown
  <2>1. ASSUME NEW c \in Coupons
        PROVE  {MaxUses[c] - newUses[row.id] : row \in RowsOf(c)}
                  = (MaxUses[c] - Cardinality(RowsOf(c))) .. (MaxUses[c] - 1)
    <3>1. MaxUses[c] \in Nat /\ Cardinality(RowsOf(c)) = 0
      BY <1>1, <1>2, ConstantsOK
    <3>2. (MaxUses[c] - Cardinality(RowsOf(c))) .. (MaxUses[c] - 1) = {}
      BY <3>1
    <3> QED BY <1>1, <3>2
  <2> QED BY <2>1 DEF RemainingUsesCountDown
<1>9. CommittedRows /\ PendingWrites
  BY <1>2 DEF Init, CommittedRows, PendingWrites
<1>10. TransactionsMatchThreads /\ LocksMatchTransactions /\ ReadsAreCurrent
  BY DEF Init, TransactionsMatchThreads, LocksMatchTransactions, ReadsAreCurrent,
         Statements, Locked
<1>11. OutcomesMatchThreads
  BY DEF Init, OutcomesMatchThreads, Statements
<1> QED BY <1>5, <1>6, <1>7, <1>8, <1>9, <1>10, <1>11 DEF IInv

\* Stuttering keeps the invariant.
LEMMA UnchangedIInv == IInv /\ UNCHANGED vars => IInv'
<1> SUFFICES ASSUME IInv, UNCHANGED vars PROVE IInv'
  OBVIOUS
<1> USE DEF IInv
<1>1. UNCHANGED <<coupons, redemptions, pending, lock, tx, order, pc, read, country, newUses,
                  outcome, redemptionCounter, transactionTimer>>
  BY DEF vars
<1>2. TypeOK' /\ TransactionsMatchThreads' /\ LocksMatchTransactions'
  BY <1>1 DEF TypeOK, TransactionsMatchThreads, LocksMatchTransactions
<1>3. ReadsAreCurrent' /\ OutcomesMatchThreads'
  BY <1>1 DEF ReadsAreCurrent, OutcomesMatchThreads, HasRedeemed, RowsOf, Granted
<1>4. PendingWrites'
  BY <1>1 DEF PendingWrites, HasRedeemed, RowsOf, NewRow
<1>5. CommittedRows'
  BY <1>1 DEF CommittedRows, NewRow
<1>6. LedgerConsistent' /\ RefusalJustified' /\ RemainingUsesCountDown'
  BY <1>1, LedgerFrame, RefusalFrameSame, RemainingFrame
<1> QED BY <1>2, <1>3, <1>4, <1>5, <1>6

\* Every step keeps the invariant: one case per action.
LEMMA StepIInv == IInv /\ [Next]_vars => IInv'
<1> SUFFICES ASSUME IInv, [Next]_vars PROVE IInv'
  OBVIOUS
<1>1. CASE Next
  <2> TypeOK'
    BY <1>1, TypeStep
  <2>1. ASSUME NEW r \in Requests, Progress(r) PROVE IInv'
    BY <2>1, LocalActions, BeginTransactionStep, StatementActions, IncrementStep,
       DiscardActions, ApplyActions DEF Progress
  <2>2. ASSUME NEW r \in Requests, Failure(r) PROVE IInv'
    BY <2>2, LocalActions, DiscardActions, ApplyActions DEF Failure
  <2>3. ASSUME NEW r \in Requests, ServerRollback(r) PROVE IInv'
    BY <2>3, DiscardActions
  <2>4. CASE Terminating
    <3>1. vars' = vars
      BY <2>4 DEF Terminating
    <3> QED BY <3>1, UnchangedIInv
  <2> QED BY <1>1, <2>1, <2>2, <2>3, <2>4, CrashStep, EditStep DEF Next
<1>2. CASE UNCHANGED vars
  BY <1>2, UnchangedIInv
<1> QED BY <1>1, <1>2

\* The inductive invariant holds in every state of every run.
THEOREM Invariance == Spec => []IInv
BY InitIInv, StepIInv, PTL DEF Spec

\* Every variable keeps its type, and current_uses its bounds.
THEOREM TypeCorrect == Spec => []TypeOK
<1>1. IInv => TypeOK
  BY DEF IInv
<1> QED BY <1>1, Invariance, PTL

\* Whatever fails and however requests interleave, current_uses counts the
\* redemptions, stays within max_uses, and nobody redeems a coupon twice.
THEOREM LedgerCorrect == Spec => []LedgerConsistent
<1>1. IInv => LedgerConsistent
  BY DEF IInv
<1> QED BY <1>1, Invariance, PTL

\* 201 means durable, and a refusal means that nothing was or will be written.
THEOREM AnswersCorrect == Spec => []AnswerMatchesCommit
<1>1. IInv => AnswerMatchesCommit
  <2> SUFFICES ASSUME IInv, NEW r \in Requests, pc[r] = "done"
               PROVE  /\ outcome[r] = "SUCCESS" => r \in Granted
                      /\ outcome[r] \notin {"SUCCESS", "INTERNAL_ERROR"} =>
                            r \notin Granted /\ tx[r] = "none"
    BY DEF AnswerMatchesCommit
  <2>1. outcome[r] = "SUCCESS" => r \in Granted
    BY DEF IInv, OutcomesMatchThreads
  <2>2. tx[r] # "none" => outcome[r] = "INTERNAL_ERROR"
    BY DEF IInv, OutcomesMatchThreads
  <2>3. r \in Granted => outcome[r] \in {"SUCCESS", "INTERNAL_ERROR"}
    BY DEF IInv, CommittedRows, Granted
  <2> QED BY <2>1, <2>2, <2>3
<1> QED BY <1>1, Invariance, PTL

\* ALREADY_REDEEMED and EXHAUSTED are true when they are told, in that order of
\* precedence, and stay true.
THEOREM RefusalsCorrect == Spec => []RefusalJustified
<1>1. IInv => RefusalJustified
  BY DEF IInv
<1> QED BY <1>1, Invariance, PTL

\* The remaining uses told for one coupon are max_uses - 1, max_uses - 2, ...
THEOREM RemainingUsesCorrect == Spec => []RemainingUsesCountDown
<1>1. IInv => RemainingUsesCountDown
  BY DEF IInv
<1> QED BY <1>1, Invariance, PTL

\* Only a commit adds a row.
LEMMA RowsGrowByCommits ==
    ASSUME Next
    PROVE  \/ redemptions' = redemptions
           \/ \E r \in Requests : ApplyWrites(r) /\ (Commit(r) \/ ServerCommit(r))
<1>1. ASSUME NEW r \in Requests, Progress(r) \/ Failure(r) \/ ServerRollback(r), ~Commit(r), ~ServerCommit(r)
      PROVE  redemptions' = redemptions
  BY <1>1 DEF Progress, Failure, RejectInvalid, FindSnapshot, ResolveCountry, ResolutionFails,
     ConnectionFails, BeginTransaction, FindForUpdate, CheckEligibility, InsertRedemption,
     IncrementIfCapacity, Report, Rollback, StatementFails, CommitFails, LoseConnection,
     ServerRollback, DiscardWrites, db
<1>2. ASSUME NEW r \in Requests, Commit(r) \/ ServerCommit(r) PROVE ApplyWrites(r)
  BY <1>2 DEF Commit, ServerCommit
<1>3. ASSUME NEW i \in Instances, Crash(i) PROVE redemptions' = redemptions
  BY <1>3 DEF Crash, db
<1>4. ASSUME NEW c \in Coupons, Edit(c) PROVE redemptions' = redemptions
  BY <1>4 DEF Edit, DeleteCoupon, CreateCoupon, ChangeCountry
<1>5. CASE Terminating
  BY <1>5 DEF Terminating, vars
<1> QED BY <1>1, <1>2, <1>3, <1>4, <1>5 DEF Next

\* A redemption commits only while the coupon is valid in the client's country.
THEOREM CountryCorrect == Spec => CountryAtCommit
<1>1. IInv /\ [Next]_vars =>
        [\A row \in redemptions' \ redemptions : coupons[row.coupon].country = row.country]_vars
  <2> SUFFICES ASSUME IInv, Next, NEW row \in redemptions', row \notin redemptions
               PROVE  coupons[row.coupon].country = row.country
    OBVIOUS
  <2>1. PICK r \in Requests : ApplyWrites(r) /\ (Commit(r) \/ ServerCommit(r))
    BY RowsGrowByCommits
  <2>2. tx[r] = "committing"
    BY <2>1 DEF Commit, ServerCommit, IInv, TransactionsMatchThreads
  <2>3. row = NewRow(r)
    BY <2>1, <2>2, ApplyEffect
  <2>4. coupons[order[r].coupon].country = country[r]
    BY <2>2 DEF IInv, PendingWrites
  <2> QED BY <2>3, <2>4 DEF NewRow
<1> QED BY <1>1, Invariance, PTL DEF Spec, CountryAtCommit

-----------------------------------------------------------------------------
(* Nobody waits with a row lock in its hands. *)

\* A transaction that is about to lock its row has locked none yet.
NoLockYet == \A r \in Requests : pc[r] = "findForUpdate" => \A c \in Coupons : lock[c] # r

\* Only BeginTransaction leads to findForUpdate, and who gets a lock is past it.
LEMMA NoLockYetStep == IInv /\ NoLockYet /\ [Next]_vars => NoLockYet'
<1> SUFFICES ASSUME IInv, NoLockYet, [Next]_vars PROVE NoLockYet'
  OBVIOUS
<1> USE DEF IInv
\* Thread q leaves findForUpdate or was never there; locks are its own, or given back.
<1>1. ASSUME NEW q \in Requests, pc'[q] # "findForUpdate",
             \A r \in Requests \ {q} : pc'[r] = pc[r],
             \A c \in Coupons : lock'[c] \in {lock[c], q, Free}
      PROVE  NoLockYet'
  BY <1>1, ConstantsOK DEF NoLockYet
<1>2. ASSUME NEW q \in Requests, NEW s, Goto(q, s), s # "findForUpdate",
             \A c \in Coupons : lock'[c] \in {lock[c], q, Free}
      PROVE  NoLockYet'
  BY <1>1, <1>2 DEF Goto, TypeOK
<1>3. ASSUME NEW q \in Requests,
             \/ RejectInvalid(q) \/ FindSnapshot(q) \/ ResolutionFails(q) \/ ConnectionFails(q)
             \/ Report(q) \/ StatementFails(q) \/ LoseConnection(q)
             \/ \E k \in Countries : ResolveCountry(q, k)
      PROVE  NoLockYet'
  BY <1>2, <1>3 DEF RejectInvalid, FindSnapshot, ResolutionFails, ConnectionFails, Report,
     StatementFails, LoseConnection, ResolveCountry, Finish, Throw, db
<1>4. ASSUME NEW q \in Requests, BeginTransaction(q) PROVE NoLockYet'
  <2>1. tx[q] = "none"
    BY <1>4 DEF BeginTransaction, TransactionsMatchThreads, InTransaction, Statements, Ended
  <2>2. \A c \in Coupons : lock[c] # q
    BY <2>1, ConstantsOK DEF LocksMatchTransactions
  <2> QED BY <1>4, <2>2 DEF BeginTransaction, Goto, NoLockYet, TypeOK
<1>5. ASSUME NEW q \in Requests,
             FindForUpdate(q) \/ CheckEligibility(q) \/ InsertRedemption(q) \/ IncrementIfCapacity(q)
      PROVE  NoLockYet'
  <2>1. \A c \in Coupons : lock'[c] \in {lock[c], q, Free}
    BY <1>5 DEF FindForUpdate, CheckEligibility, InsertRedemption, IncrementIfCapacity,
                AcquireRow, db, TypeOK
  <2> QED BY <1>2, <1>5, <2>1 DEF FindForUpdate, CheckEligibility, InsertRedemption,
             IncrementIfCapacity, Proceed, Throw
<1>6. ASSUME NEW q \in Requests, Commit(q) \/ Rollback(q) \/ CommitFails(q) PROVE NoLockYet'
  <2>1. EndTransaction(q)
    BY <1>6 DEF Commit, Rollback, CommitFails, ApplyWrites, DiscardWrites
  <2>2. \A c \in Coupons : lock'[c] \in {lock[c], q, Free}
    BY <2>1 DEF EndTransaction
  <2> QED BY <1>2, <1>6, <2>2 DEF Commit, Rollback, CommitFails, CommitFailure, Finish
<1>7. ASSUME NEW q \in Requests, ServerCommit(q) \/ ServerRollback(q) PROVE NoLockYet'
  <2>1. EndTransaction(q) /\ pc' = pc
    BY <1>7 DEF ServerCommit, ServerRollback, ApplyWrites, DiscardWrites, threads
  <2> QED BY <2>1, ConstantsOK DEF EndTransaction, NoLockYet
<1>8. ASSUME NEW i \in Instances, Crash(i) PROVE NoLockYet'
  BY <1>8 DEF Crash, NoLockYet, db
<1>9. ASSUME NEW c \in Coupons, Edit(c) PROVE NoLockYet'
  BY <1>9 DEF Edit, DeleteCoupon, CreateCoupon, ChangeCountry, threads, NoLockYet
<1>10. CASE Terminating \/ UNCHANGED vars
  BY <1>10 DEF Terminating, vars, NoLockYet
<1> QED
  BY <1>3, <1>4, <1>5, <1>6, <1>7, <1>8, <1>9, <1>10 DEF Next, Progress, Failure

\* Whoever waits holds no row lock, and who holds one does not wait: the row lock
\* also keeps every uncommitted row of the same coupon, hence the unique key, away.
THEOREM NoHoldAndWait == Spec => []WaitersHoldNoLock
<1>1. Init => NoLockYet
  BY DEF Init, NoLockYet
<1>2. ASSUME IInv, NoLockYet, NEW r \in Requests
      PROVE  /\ pc[r] \in {"findSnapshot", "begin", "findForUpdate"} =>
                    \A c \in Coupons : lock[c] # r
             /\ pc[r] = "insert" => UniqueKeyFree(r)
             /\ pc[r] = "increment" => lock[order[r].coupon] \in {Free, r}
  <2>1. ASSUME pc[r] \in {"findSnapshot", "begin"}, NEW c \in Coupons PROVE lock[c] # r
    <3>1. tx[r] = "none"
      BY <1>2, <2>1 DEF IInv, TransactionsMatchThreads, InTransaction, Statements, Ended, TypeOK
    <3> QED BY <1>2, <3>1, ConstantsOK DEF IInv, LocksMatchTransactions
  <2>2. pc[r] = "findForUpdate" => \A c \in Coupons : lock[c] # r
    BY <1>2 DEF NoLockYet
  <2>3. pc[r] \in {"insert", "increment"} => lock[order[r].coupon] = r
    BY <1>2 DEF IInv, LocksMatchTransactions, Locked
  <2>4. pc[r] = "insert" => UniqueKeyFree(r)
    BY <1>2, <2>3 DEF IInv, PendingWrites, UniqueKeyFree
  <2> QED BY <2>1, <2>2, <2>3, <2>4
<1>3. IInv /\ NoLockYet => WaitersHoldNoLock
  BY <1>2 DEF WaitersHoldNoLock
<1> QED BY <1>1, <1>3, NoLockYetStep, Invariance, PTL DEF Spec

-----------------------------------------------------------------------------
(* The success counter of an instance stays behind the durable redemptions, *)
(* whatever fails and whichever instance is killed.                         *)

\* The requests that were told 201 by instance i
Told(i) == {r \in Requests : order[r].instance = i /\ pc[r] = "done" /\ outcome[r] = "SUCCESS"}

\* A killed instance counts from zero again, hence no equality.
CountsTold == \A i \in Instances : redemptionCounter[i]["SUCCESS"] <= Cardinality(Told(i))

\* There are finitely many of them.
LEMMA ToldFinite ==
    ASSUME NEW i PROVE IsFiniteSet(Told(i)) /\ Cardinality(Told(i)) \in Nat
BY ConstantsOK, FS_Subset, FS_CardinalityType DEF Told

\* What was told stays told: the counters keep their bound when they do not grow.
LEMMA CounterFrame ==
    ASSUME IInv, IInv', CountsTold, order' = order,
           \A r \in Requests : pc[r] = "done" => pc'[r] = "done" /\ outcome'[r] = outcome[r],
           \A i \in Instances : redemptionCounter'[i]["SUCCESS"] = redemptionCounter[i]["SUCCESS"]
                                \/ redemptionCounter'[i]["SUCCESS"] = 0
    PROVE  CountsTold'
<1> SUFFICES ASSUME NEW i \in Instances
             PROVE  redemptionCounter'[i]["SUCCESS"] <= Cardinality(Told(i)')
  BY DEF CountsTold
<1>1. Told(i) \subseteq Told(i)'
  BY DEF Told
<1>2. IsFiniteSet(Told(i)')
  BY ConstantsOK, FS_Subset DEF Told
<1>3. Cardinality(Told(i)) <= Cardinality(Told(i)') /\ Cardinality(Told(i)') \in Nat
  BY <1>1, <1>2, FS_Subset, FS_CardinalityType
<1>4. redemptionCounter[i]["SUCCESS"] \in Nat
  BY DEF IInv, TypeOK, RedemptionOutcome
<1> QED BY <1>3, <1>4, ToldFinite DEF CountsTold

\* recordRedemption: the request is told what is counted, for the first time.
LEMMA FinishCounts ==
    ASSUME IInv, IInv', CountsTold, NEW r \in Requests, NEW o \in RedemptionOutcome,
           pc[r] # "done", Finish(r, o), order' = order
    PROVE  CountsTold'
<1> DEFINE i0 == order[r].instance
<1>1. i0 \in Instances
  BY DEF IInv, TypeOK, Order
<1>2. /\ pc' = [pc EXCEPT ![r] = "done"] /\ outcome' = [outcome EXCEPT ![r] = o]
      /\ redemptionCounter' = [redemptionCounter EXCEPT ![i0][o] = @ + 1]
  BY DEF Finish, Goto
<1>3. \A q \in Requests : pc[q] = "done" => pc'[q] = "done" /\ outcome'[q] = outcome[q]
  BY <1>2 DEF IInv, TypeOK
<1>4. \A i \in Instances : redemptionCounter[i] \in [RedemptionOutcome -> Nat]
  BY DEF IInv, TypeOK
<1>5. CASE o # "SUCCESS"
  <2>1. \A i \in Instances : redemptionCounter'[i]["SUCCESS"] = redemptionCounter[i]["SUCCESS"]
    BY <1>1, <1>2, <1>4, <1>5 DEF IInv, TypeOK, RedemptionOutcome
  <2> QED BY <1>3, <2>1, CounterFrame
<1>6. CASE o = "SUCCESS"
  <2> SUFFICES ASSUME NEW i \in Instances
               PROVE  redemptionCounter'[i]["SUCCESS"] <= Cardinality(Told(i)')
    BY DEF CountsTold
  <2>1. redemptionCounter[i]["SUCCESS"] <= Cardinality(Told(i))
    BY DEF CountsTold
  <2>2. redemptionCounter[i]["SUCCESS"] \in Nat
    BY <1>4 DEF RedemptionOutcome
  <2>3. CASE i = i0
    <3>1. redemptionCounter'[i]["SUCCESS"] = redemptionCounter[i]["SUCCESS"] + 1
      BY <1>1, <1>2, <1>4, <1>6, <2>3 DEF IInv, TypeOK, RedemptionOutcome
    <3>2. Told(i)' = Told(i) \cup {r} /\ r \notin Told(i)
      BY <1>2, <1>6, <2>3 DEF Told, IInv, TypeOK
    <3>3. Cardinality(Told(i)') = Cardinality(Told(i)) + 1
      BY <3>2, ToldFinite, FS_AddElement
    <3> QED BY <2>1, <2>2, <3>1, <3>3, ToldFinite
  <2>4. CASE i # i0
    <3>1. redemptionCounter'[i]["SUCCESS"] = redemptionCounter[i]["SUCCESS"]
      BY <1>1, <1>2, <1>4, <2>4 DEF IInv, TypeOK
    <3>2. Told(i)' = Told(i)
      BY <1>2, <2>4 DEF Told, IInv, TypeOK
    <3> QED BY <2>1, <3>1, <3>2
  <2> QED BY <2>3, <2>4
<1> QED BY <1>5, <1>6

\* Every step keeps the counters behind what was told.
LEMMA CountsToldStep == IInv /\ IInv' /\ CountsTold /\ [Next]_vars => CountsTold'
<1> SUFFICES ASSUME IInv, IInv', CountsTold, [Next]_vars PROVE CountsTold'
  OBVIOUS
\* A step of thread r, not at its end, that counts nothing
<1>1. ASSUME NEW r \in Requests, pc[r] # "done",
             \A q \in Requests \ {r} : pc'[q] = pc[q] /\ outcome'[q] = outcome[q],
             UNCHANGED <<order, redemptionCounter>>
      PROVE  CountsTold'
  BY <1>1, CounterFrame
<1>2. ASSUME NEW r \in Requests, RejectInvalid(r) PROVE CountsTold'
  BY <1>1, <1>2 DEF RejectInvalid, Goto, metrics, IInv, TypeOK
<1>3. ASSUME NEW r \in Requests, ResolutionFails(r) \/ ConnectionFails(r) \/ LoseConnection(r)
      PROVE  CountsTold'
  BY <1>3, FinishCounts
  DEF ResolutionFails, ConnectionFails, LoseConnection, RedemptionOutcome, InTransaction,
      Statements
<1>4. ASSUME NEW r \in Requests, Report(r) \/ Rollback(r) PROVE CountsTold'
  <2>1. outcome[r] \in RedemptionOutcome
    BY <1>4 DEF Report, Rollback, IInv, OutcomesMatchThreads, RedemptionOutcome
  <2> QED BY <1>4, <2>1, FinishCounts DEF Report, Rollback
<1>5. ASSUME NEW r \in Requests, CommitFails(r) PROVE CountsTold'
  BY <1>5, FinishCounts DEF CommitFails, CommitFailure, RedemptionOutcome
<1>6. ASSUME NEW r \in Requests, FindSnapshot(r) PROVE CountsTold'
  <2>1. CASE Finish(r, "NOT_FOUND")
    BY <1>6, <2>1, FinishCounts DEF FindSnapshot, RedemptionOutcome
  <2>2. CASE Goto(r, "resolve") /\ UNCHANGED <<outcome, redemptionCounter>>
    BY <1>1, <1>6, <2>2 DEF FindSnapshot, Goto, IInv, TypeOK
  <2> QED BY <1>6, <2>1, <2>2 DEF FindSnapshot
<1>7. ASSUME NEW r \in Requests, NEW k \in Countries, ResolveCountry(r, k) PROVE CountsTold'
  <2>1. CASE Finish(r, "COUNTRY_NOT_ALLOWED")
    BY <1>7, <2>1, FinishCounts DEF ResolveCountry, RedemptionOutcome
  <2>2. CASE Goto(r, "begin") /\ UNCHANGED <<outcome, redemptionCounter>>
    BY <1>1, <1>7, <2>2 DEF ResolveCountry, Goto, IInv, TypeOK
  <2> QED BY <1>7, <2>1, <2>2 DEF ResolveCountry
<1>8. ASSUME NEW r \in Requests, BeginTransaction(r) \/ Commit(r) PROVE CountsTold'
  BY <1>1, <1>8 DEF BeginTransaction, Commit, Goto, metrics, IInv, TypeOK
<1>9. ASSUME NEW r \in Requests, NEW v, NEW s, Proceed(r, v, s), pc[r] \in Statements,
             UNCHANGED <<order, redemptionCounter>>
      PROVE  CountsTold'
  BY <1>1, <1>9 DEF Proceed, Throw, Goto, Statements, IInv, TypeOK
<1>10. ASSUME NEW r \in Requests, FindForUpdate(r) \/ CheckEligibility(r) \/ InsertRedemption(r)
       PROVE  CountsTold'
  BY <1>9, <1>10 DEF FindForUpdate, CheckEligibility, InsertRedemption, Statements
<1>11. ASSUME NEW r \in Requests, IncrementIfCapacity(r) \/ StatementFails(r) PROVE CountsTold'
  BY <1>1, <1>11
  DEF IncrementIfCapacity, StatementFails, Throw, Goto, Statements, IInv, TypeOK
<1>12. ASSUME NEW r \in Requests, ServerCommit(r) \/ ServerRollback(r) PROVE CountsTold'
  BY <1>12, CounterFrame DEF ServerCommit, ServerRollback, threads, metrics
<1>13. ASSUME NEW i \in Instances, Crash(i) PROVE CountsTold'
  <2>1. \A j \in Instances : redemptionCounter'[j]["SUCCESS"] = redemptionCounter[j]["SUCCESS"]
                             \/ redemptionCounter'[j]["SUCCESS"] = 0
    BY <1>13 DEF Crash, IInv, TypeOK, RedemptionOutcome
  <2>2. \A r \in Requests : pc[r] = "done" => pc'[r] = "done" /\ outcome'[r] = outcome[r]
    BY <1>13 DEF Crash, Ended
  <2> QED BY <1>13, <2>1, <2>2, CounterFrame DEF Crash
<1>14. ASSUME NEW c \in Coupons, Edit(c) PROVE CountsTold'
  BY <1>14, CounterFrame DEF Edit, DeleteCoupon, CreateCoupon, ChangeCountry, threads, metrics
<1>15. CASE Terminating \/ UNCHANGED vars
  BY <1>15, CounterFrame DEF Terminating, vars
<1> QED
  BY <1>2, <1>3, <1>4, <1>5, <1>6, <1>7, <1>8, <1>10, <1>11, <1>12, <1>13, <1>14, <1>15
  DEF Next, Progress, Failure

\* The success counter of an instance never exceeds its durable redemptions.
THEOREM SuccessCounterCorrect == Spec => []SuccessCounterNeverOverstates
<1>1. Init => CountsTold
  <2> SUFFICES ASSUME Init, NEW i \in Instances
               PROVE  redemptionCounter[i]["SUCCESS"] <= Cardinality(Told(i))
    BY DEF CountsTold
  <2>1. redemptionCounter[i]["SUCCESS"] = 0
    BY DEF Init, RedemptionOutcome
  <2> QED BY <2>1, ToldFinite
<1>2. IInv /\ CountsTold => SuccessCounterNeverOverstates
  <2> SUFFICES ASSUME IInv, CountsTold, NEW i \in Instances
               PROVE  redemptionCounter[i]["SUCCESS"] <= Cardinality(MadeBy(i))
    BY DEF SuccessCounterNeverOverstates
  <2> DEFINE f == [r \in Told(i) |-> NewRow(r)]
  <2>1. \A r \in Told(i) : NewRow(r) \in MadeBy(i) /\ NewRow(r).id = r
    <3> SUFFICES ASSUME NEW r \in Told(i) PROVE NewRow(r) \in MadeBy(i) /\ NewRow(r).id = r
      OBVIOUS
    <3>1. r \in Granted
      BY DEF Told, IInv, OutcomesMatchThreads
    <3>2. NewRow(r) \in redemptions
      BY <3>1 DEF Granted, IInv, CommittedRows
    <3> QED BY <3>2 DEF MadeBy, NewRow, Told
  <2>2. f \in Injection(Told(i), MadeBy(i))
    BY <2>1 DEF Injection, IsInjective
  <2>3. IsFiniteSet(MadeBy(i))
    BY FS_Subset DEF IInv, CommittedRows, MadeBy
  <2>4. Cardinality(Told(i)) <= Cardinality(MadeBy(i)) /\ Cardinality(MadeBy(i)) \in Nat
    BY <2>2, <2>3, FS_Injection, FS_CardinalityType
  <2>5. redemptionCounter[i]["SUCCESS"] \in Nat
    BY DEF IInv, TypeOK, RedemptionOutcome
  <2> QED BY <2>4, <2>5, ToldFinite DEF CountsTold
<1> QED BY <1>1, <1>2, CountsToldStep, Invariance, PTL DEF Spec

=============================================================================
