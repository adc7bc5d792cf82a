------------------------- MODULE CreateCouponProofs -------------------------
(***************************************************************************)
(* TLAPS proofs about CreateCoupon, for any number of codes, requests,     *)
(* instances and connections.                                              *)
(***************************************************************************)
EXTENDS CreateCoupon, FiniteSetTheorems, TLAPS

-----------------------------------------------------------------------------
(* Types *)

\* Counting a creation keeps the counters in their type.
LEMMA RecordCreateType ==
    ASSUME TypeOK, NEW r \in Requests, NEW o \in CreateOutcome, RecordCreate(r, o)
    PROVE  createCounter' \in [Instances -> [CreateOutcome -> Nat]]
<1>1. order[r].instance \in Instances
  BY DEF TypeOK
<1>2. createCounter[order[r].instance] \in [CreateOutcome -> Nat]
  BY <1>1 DEF TypeOK
<1> QED BY <1>1, <1>2 DEF TypeOK, RecordCreate

\* The row a request inserts is a row of coupons, with its code and its key.
LEMMA NewRowType ==
    ASSUME TypeOK, NEW r \in Requests
    PROVE  /\ NewRow(r).id = r
           /\ NewRow(r).key = NormalizedValue[order[r].code]
           /\ NormalizedValue[order[r].code] # Malformed => NewRow(r) \in Row
BY ConstantsOK DEF TypeOK, NewRow, Row

\* Every step keeps every variable in its type.
LEMMA TypeStep == TypeOK /\ Next => TypeOK'
<1> SUFFICES ASSUME TypeOK, Next PROVE TypeOK'
  OBVIOUS
<1>1. ASSUME NEW r \in Requests, BeginTransaction(r) PROVE TypeOK'
  BY <1>1 DEF TypeOK, BeginTransaction, Goto, InTransaction
<1>2. ASSUME NEW r \in Requests,
             ConnectionFails(r) \/ RejectInvalid(r) \/ StatementFails(r) \/ LoseConnection(r)
      PROVE  TypeOK'
  BY <1>2 DEF TypeOK, ConnectionFails, RejectInvalid, StatementFails, LoseConnection, Decide,
              Goto, Answers, InTransaction, Ended, db
<1>3. ASSUME NEW r \in Requests, Insert(r) PROVE TypeOK'
  <2>1. createCounter' \in [Instances -> [CreateOutcome -> Nat]]
    BY <1>3, RecordCreateType DEF Insert, CreateOutcome
  <2>2. pending' \subseteq Row
    BY <1>3, NewRowType DEF Insert, TypeOK
  <2> QED
    BY <1>3, <2>1, <2>2
    DEF TypeOK, Insert, Decide, Goto, Answers, CreateOutcome, InTransaction
<1>4. ASSUME NEW r \in Requests, Commit(r) \/ Return(r) \/ Rollback(r) \/ CommitFails(r)
      PROVE  TypeOK'
  BY <1>4 DEF TypeOK, Commit, Return, Rollback, CommitFails, CommitFailure, ApplyWrites,
              DiscardWrites, EndTransaction, Decide, Goto, Answers, Ended, db
<1>5. ASSUME NEW r \in Requests, ServerRollback(r) \/ ServerCommit(r) PROVE TypeOK'
  BY <1>5 DEF TypeOK, ServerRollback, ServerCommit, ApplyWrites, DiscardWrites, EndTransaction
<1>6. ASSUME NEW i \in Instances, Crash(i) PROVE TypeOK'
  <2>1. createCounter' \in [Instances -> [CreateOutcome -> Nat]]
    BY <1>6 DEF TypeOK, Crash
  <2> QED BY <1>6, <2>1 DEF TypeOK, Crash, Ended, db
<1>7. CASE Terminating
  BY <1>7 DEF TypeOK, Terminating, vars
<1> QED
  BY <1>1, <1>2, <1>3, <1>4, <1>5, <1>6, <1>7 DEF Next, Progress, Failure

-----------------------------------------------------------------------------
(* The inductive invariant *)

\* Nothing is registered and nobody has begun: the invariant holds.
LEMMA InitIInv == Init => IInv
<1> SUFFICES ASSUME Init PROVE IInv
  OBVIOUS
<1>1. TypeOK
  BY DEF Init, TypeOK
<1>2. CommittedRows /\ PendingRows /\ KeysUnique
  BY DEF Init, CommittedRows, PendingRows, KeysUnique
<1>3. ThreadsMatchTransactions /\ RefusalsMatchRows
  BY NoOutcomeOK DEF Init, ThreadsMatchTransactions, RefusalsMatchRows, Answers, CreateOutcome
<1> QED BY <1>1, <1>2, <1>3 DEF IInv

\* A step of a thread that leaves the tables alone.
LEMMA LocalStep ==
    ASSUME IInv, NEW r \in Requests,
           BeginTransaction(r) \/ ConnectionFails(r) \/ RejectInvalid(r) \/ Return(r)
           \/ StatementFails(r) \/ LoseConnection(r),
           TypeOK'
    PROVE  IInv'
<1>1. UNCHANGED <<coupons, pending, order>>
  BY DEF BeginTransaction, ConnectionFails, RejectInvalid, Return, StatementFails,
         LoseConnection, db
<1>2. \A q \in Requests : NewRow(q)' = NewRow(q)
  BY <1>1 DEF NewRow
<1>3. CommittedRows' /\ PendingRows'
  BY <1>1, <1>2
  DEF IInv, TypeOK, Row, CommittedRows, PendingRows, ThreadsMatchTransactions,
      BeginTransaction, ConnectionFails, RejectInvalid, Return, StatementFails, LoseConnection,
      Goto, Decide, InTransaction, Ended, db
<1>4. KeysUnique'
  BY <1>1 DEF IInv, KeysUnique
<1>5. ThreadsMatchTransactions'
  <2>1. ASSUME NEW q \in Requests, q # r
        PROVE  pc'[q] = pc[q] /\ tx'[q] = tx[q] /\ outcome'[q] = outcome[q]
    BY <2>1
    DEF IInv, TypeOK, BeginTransaction, ConnectionFails, RejectInvalid, Return, StatementFails,
        LoseConnection, Goto, Decide, db
  <2>2. CASE BeginTransaction(r)
    BY <1>1, <1>2, <2>1, <2>2
    DEF IInv, TypeOK, ThreadsMatchTransactions, BeginTransaction, Goto
  <2>3. CASE ConnectionFails(r) \/ LoseConnection(r)
    BY <1>1, <1>2, <2>1, <2>3, NoOutcomeOK
    DEF IInv, TypeOK, ThreadsMatchTransactions, ConnectionFails, LoseConnection, Goto, Decide,
        Answers, db
  <2>4. CASE RejectInvalid(r) \/ StatementFails(r)
    BY <1>1, <1>2, <2>1, <2>4
    DEF IInv, TypeOK, ThreadsMatchTransactions, RejectInvalid, StatementFails, Goto, Decide, db
  <2>5. CASE Return(r)
    <3>1. tx[r] = "none"
      BY <2>5, NewRowType DEF IInv, ThreadsMatchTransactions, CommittedRows, Return
    <3> QED
      BY <1>1, <1>2, <2>1, <2>5, <3>1, NoOutcomeOK
      DEF IInv, TypeOK, ThreadsMatchTransactions, Return, Goto, Answers, CreateOutcome, db
  <2> QED BY <2>2, <2>3, <2>4, <2>5
<1>6. RefusalsMatchRows'
  BY <1>1
  DEF IInv, TypeOK, RefusalsMatchRows, SameCode,
      BeginTransaction, ConnectionFails, RejectInvalid, Return, StatementFails, LoseConnection,
      Decide, db
<1> QED BY <1>3, <1>4, <1>5, <1>6 DEF IInv

\* The INSERT: the unique index lets in one row of a key, or none.
LEMMA InsertStep ==
    ASSUME IInv, NEW r \in Requests, Insert(r), TypeOK'
    PROVE  IInv'
<1> DEFINE taken == \E row \in coupons : SameCode(r, row)
<1>1. \A q \in Requests : NewRow(q)' = NewRow(q)
  BY DEF Insert, NewRow
<1>2. pc[r] = "insert" /\ tx[r] = "open" /\ UNCHANGED <<coupons, order>>
  BY DEF Insert, IInv, ThreadsMatchTransactions
<1>3. \A row \in coupons \cup pending : row.id \in Requests /\ row.id # r
  BY <1>2 DEF IInv, TypeOK, Row, CommittedRows, PendingRows, Ended
<1>4. CASE taken
  <2>1. /\ UNCHANGED <<pending, tx>>
        /\ pc' = [pc EXCEPT ![r] = "rollback"] /\ outcome' = [outcome EXCEPT ![r] = "CONFLICT"]
    BY <1>4 DEF Insert, Decide, Goto
  <2>2. CommittedRows' /\ PendingRows' /\ KeysUnique'
    BY <1>1, <1>2, <1>3, <2>1 DEF IInv, TypeOK, CommittedRows, PendingRows, KeysUnique
  <2>3. ThreadsMatchTransactions'
    BY <1>1, <1>2, <2>1 DEF IInv, TypeOK, ThreadsMatchTransactions
  <2>4. RefusalsMatchRows'
    <3>1. PICK row \in coupons : SameCode(r, row)
      BY <1>4
    <3>2. row \in coupons' /\ row.id # r /\ SameCode(r, row)'
      BY <1>2, <1>3, <3>1 DEF SameCode
    <3>3. ASSUME NEW q \in Requests, q # r
          PROVE  outcome'[q] = outcome[q] /\ order'[q] = order[q]
      BY <1>2, <2>1, <3>3 DEF IInv, TypeOK
    <3>4. outcome'[r] = "CONFLICT"
      BY <2>1 DEF IInv, TypeOK
    <3>5. \A q \in Requests : \A other : SameCode(q, other)' = SameCode(q, other)
      BY <1>2 DEF SameCode
    <3> QED BY <1>2, <3>2, <3>3, <3>4, <3>5 DEF IInv, RefusalsMatchRows
  <2> QED BY <2>2, <2>3, <2>4 DEF IInv
<1>5. CASE ~taken
  <2>1. /\ pending' = pending \cup {NewRow(r)} /\ tx' = [tx EXCEPT ![r] = "committing"]
        /\ pc' = [pc EXCEPT ![r] = "commit"] /\ outcome' = [outcome EXCEPT ![r] = "SUCCESS"]
    BY <1>5 DEF Insert, Decide, Goto
  <2>2. NewRow(r).id = r /\ NewRow(r).key = NormalizedValue[order[r].code]
    BY NewRowType DEF IInv
  <2>3. CommittedRows' /\ PendingRows'
    BY <1>1, <1>2, <1>3, <2>1, <2>2 DEF IInv, TypeOK, CommittedRows, PendingRows
  <2>4. \A row \in coupons \cup pending : row.key # NewRow(r).key
    BY <1>3, <1>5, <2>2 DEF Insert, UniqueKeyFree, SameCode
  <2>5. KeysUnique'
    BY <1>2, <2>1, <2>4 DEF IInv, KeysUnique
  <2>6. ThreadsMatchTransactions'
    BY <1>1, <1>2, <2>1 DEF IInv, TypeOK, ThreadsMatchTransactions
  <2>7. RefusalsMatchRows'
    BY <1>2, <2>1 DEF IInv, TypeOK, RefusalsMatchRows, SameCode
  <2> QED BY <2>3, <2>5, <2>6, <2>7 DEF IInv
<1> QED BY <1>4, <1>5

\* A commit makes the row of its transaction, and no other, a committed one.
LEMMA ApplyEffect ==
    ASSUME IInv, NEW r \in Requests, tx[r] = "committing", ApplyWrites(r)
    PROVE  /\ coupons' = coupons \cup {NewRow(r)}
           /\ pending' = pending \ {NewRow(r)}
           /\ tx' = [tx EXCEPT ![r] = "none"]
<1>1. \A row \in pending : row.id = r <=> row = NewRow(r)
  BY NewRowType DEF IInv, PendingRows
<1>2. NewRow(r) \in pending
  BY DEF IInv, PendingRows
<1>3. {row \in pending : row.id = r} = {NewRow(r)}
  BY <1>1, <1>2
<1> QED BY <1>1, <1>3 DEF ApplyWrites, EndTransaction

\* The commit, by the thread or by the server after the thread has gone.
LEMMA CommitStep ==
    ASSUME IInv, NEW r \in Requests, Commit(r) \/ ServerCommit(r), TypeOK'
    PROVE  IInv'
<1>1. /\ tx[r] = "committing" /\ ApplyWrites(r) /\ UNCHANGED <<order, outcome>>
      /\ \A q \in Requests \ {r} : pc'[q] = pc[q]
      /\ \/ pc[r] = "commit" /\ pc'[r] = "committed"
         \/ pc[r] \in Ended /\ pc'[r] = pc[r]
  <2>1. CASE Commit(r)
    BY <2>1 DEF Commit, Goto, IInv, TypeOK, ThreadsMatchTransactions
  <2>2. CASE ServerCommit(r)
    BY <2>2 DEF ServerCommit
  <2> QED BY <2>1, <2>2
<1>2. /\ coupons' = coupons \cup {NewRow(r)}
      /\ pending' = pending \ {NewRow(r)}
      /\ tx' = [tx EXCEPT ![r] = "none"]
  BY <1>1, ApplyEffect
<1>3. \A q \in Requests : NewRow(q)' = NewRow(q)
  BY <1>1 DEF NewRow
<1>4. NewRow(r) \in pending
  BY <1>1 DEF IInv, PendingRows
<1>5. \A q \in Requests : NewRow(q).id = q
  BY NewRowType DEF IInv
<1>6. CommittedRows'
  <2>1. ASSUME NEW row \in coupons
        PROVE  /\ row.id \in Requests /\ row = NewRow(row.id)' /\ tx'[row.id] = "none"
               /\ pc'[row.id] = pc[row.id]
    BY <1>1, <1>2, <1>3, <2>1 DEF IInv, TypeOK, Row, CommittedRows
  <2>2. pc'[r] = "done" => outcome[r] = "INTERNAL_ERROR"
    BY <1>1 DEF IInv, ThreadsMatchTransactions
  <2>3. tx'[r] = "none"
    BY <1>2 DEF IInv, TypeOK
  <2>4. pc'[r] \in {"committed"} \cup Ended
    BY <1>1 DEF Ended
  <2>5. outcome' = outcome
    BY <1>1
  <2>6. ASSUME NEW row \in coupons
        PROVE  /\ pc'[row.id] \in {"committed"} \cup Ended
               /\ pc'[row.id] = "done" => outcome'[row.id] \in {"SUCCESS", "INTERNAL_ERROR"}
    BY <2>1, <2>5 DEF IInv, CommittedRows
  <2>7. ASSUME NEW row, row = NewRow(r)
        PROVE  /\ row = NewRow(row.id)' /\ tx'[row.id] = "none"
               /\ pc'[row.id] \in {"committed"} \cup Ended
               /\ pc'[row.id] = "done" => outcome'[row.id] \in {"SUCCESS", "INTERNAL_ERROR"}
    <3>1. row.id = r
      BY <1>5, <2>7
    <3>2. NewRow(row.id)' = row
      BY <1>1, <2>7, <3>1 DEF NewRow
    <3> QED BY <2>2, <2>3, <2>4, <2>5, <2>7, <3>1, <3>2
  <2> QED BY <1>2, <2>1, <2>6, <2>7 DEF CommittedRows
<1>7. PendingRows'
  BY <1>2, <1>3, <1>5 DEF IInv, TypeOK, Row, PendingRows
<1>8. KeysUnique'
  BY <1>2, <1>4 DEF IInv, KeysUnique
<1>9. ThreadsMatchTransactions'
  BY <1>1, <1>2, <1>3 DEF IInv, TypeOK, ThreadsMatchTransactions, Ended
<1>10. RefusalsMatchRows'
  BY <1>1, <1>2 DEF IInv, RefusalsMatchRows, SameCode
<1> QED BY <1>6, <1>7, <1>8, <1>9, <1>10 DEF IInv

\* A rollback, for whatever reason: the row of the transaction, if there is one, is gone.
LEMMA RollbackStep ==
    ASSUME IInv, NEW r \in Requests, Rollback(r) \/ CommitFails(r) \/ ServerRollback(r), TypeOK'
    PROVE  IInv'
<1>1. /\ coupons' = coupons /\ order' = order
      /\ pending' = {row \in pending : row.id # r}
      /\ tx' = [tx EXCEPT ![r] = "none"] /\ tx[r] # "none"
      /\ \/ pc[r] \in {"rollback", "commit"} /\ pc' = [pc EXCEPT ![r] = "done"]
         \/ pc[r] \in Ended /\ pc' = pc
  <2>1. CASE Rollback(r) \/ CommitFails(r)
    BY <2>1
    DEF Rollback, CommitFails, DiscardWrites, EndTransaction, Goto, IInv, ThreadsMatchTransactions
  <2>2. CASE ServerRollback(r)
    BY <2>2 DEF ServerRollback, DiscardWrites, EndTransaction
  <2> QED BY <2>1, <2>2
<1>2. \/ outcome' = outcome /\ pc[r] # "commit"
      \/ outcome' = [outcome EXCEPT ![r] = "INTERNAL_ERROR"] /\ pc'[r] = "done"
  BY DEF Rollback, CommitFails, CommitFailure, ServerRollback, Decide, Goto, Ended, IInv, TypeOK
<1>3. \A q \in Requests : NewRow(q)' = NewRow(q) /\ NewRow(q).id = q
  BY <1>1, NewRowType DEF NewRow, IInv
<1>4. \A row \in coupons : row.id \in Requests \ {r}
  BY <1>1 DEF IInv, TypeOK, Row, CommittedRows
<1>5. CommittedRows'
  BY <1>1, <1>2, <1>3, <1>4 DEF IInv, TypeOK, CommittedRows
<1>6. PendingRows'
  BY <1>1, <1>3 DEF IInv, TypeOK, Row, PendingRows
<1>7. KeysUnique'
  BY <1>1 DEF IInv, KeysUnique
<1>8. ThreadsMatchTransactions'
  BY <1>1, <1>2, <1>3, NoOutcomeOK
  DEF IInv, TypeOK, ThreadsMatchTransactions, Ended, Answers, CreateOutcome
<1>9. RefusalsMatchRows'
  BY <1>1, <1>2 DEF IInv, TypeOK, RefusalsMatchRows, SameCode
<1> QED BY <1>5, <1>6, <1>7, <1>8, <1>9 DEF IInv

\* A killed instance answers nobody, and what it has sent to the server stays.
LEMMA CrashStep ==
    ASSUME IInv, NEW i \in Instances, Crash(i), TypeOK'
    PROVE  IInv'
<1>1. /\ UNCHANGED <<coupons, pending, tx, order, outcome>>
      /\ \A q \in Requests : \/ pc'[q] = pc[q]
                             \/ pc'[q] = "lost" /\ pc[q] \notin {"begin"} \cup Ended
  BY DEF Crash, db
<1>2. \A q \in Requests : NewRow(q)' = NewRow(q)
  BY <1>1 DEF NewRow
<1>3. CommittedRows' /\ PendingRows'
  BY <1>1, <1>2 DEF IInv, TypeOK, Row, CommittedRows, PendingRows, Ended
<1>4. KeysUnique'
  BY <1>1 DEF IInv, KeysUnique
<1>5. ThreadsMatchTransactions'
  BY <1>1, <1>2 DEF IInv, ThreadsMatchTransactions
<1>6. RefusalsMatchRows'
  BY <1>1 DEF IInv, RefusalsMatchRows, SameCode
<1> QED BY <1>3, <1>4, <1>5, <1>6 DEF IInv

\* Every step keeps the invariant: one case per action.
LEMMA StepIInv == IInv /\ [Next]_vars => IInv'
<1> SUFFICES ASSUME IInv, [Next]_vars PROVE IInv'
  OBVIOUS
<1>1. CASE UNCHANGED vars
  BY <1>1
  DEF vars, IInv, TypeOK, CommittedRows, PendingRows, KeysUnique, ThreadsMatchTransactions,
      RefusalsMatchRows, SameCode, NewRow
<1>2. CASE Next
  <2>1. TypeOK'
    BY <1>2, TypeStep DEF IInv
  <2>2. ASSUME NEW r \in Requests, Progress(r) PROVE IInv'
    BY <2>1, <2>2, LocalStep, InsertStep, CommitStep, RollbackStep DEF Progress
  <2>3. ASSUME NEW r \in Requests, Failure(r) \/ ServerRollback(r) PROVE IInv'
    BY <2>1, <2>3, LocalStep, CommitStep, RollbackStep DEF Failure
  <2>4. CASE Terminating
    BY <1>1, <2>4 DEF Terminating
  <2> QED BY <1>2, <2>1, <2>2, <2>3, <2>4, CrashStep DEF Next
<1> QED BY <1>1, <1>2

\* The inductive invariant holds in every state of every run.
THEOREM CreateInvariance == Spec => []IInv
BY InitIInv, StepIInv, PTL DEF Spec

\* Every variable keeps its type.
THEOREM CreateTypeCorrect == Spec => []TypeOK
<1>1. IInv => TypeOK
  BY DEF IInv
<1> QED BY <1>1, CreateInvariance, PTL

\* Of the requests for one code that all have a definite answer, exactly one is told 201.
THEOREM OneWinner == Spec => []ExactlyOneWinner
<1>1. IInv => ExactlyOneWinner
  <2> SUFFICES ASSUME IInv, NEW k \in Keys,
                      NEW rivals, rivals = {r \in Requests : NormalizedValue[order[r].code] = k},
                      rivals # {},
                      \A r \in rivals : pc[r] = "done" /\ outcome[r] # "INTERNAL_ERROR"
               PROVE  Cardinality({r \in rivals : outcome[r] = "SUCCESS"}) = 1
    BY DEF ExactlyOneWinner
  <2>1. \A row \in coupons : row = NewRow(row.id) /\ row.id \in Requests
    BY DEF IInv, TypeOK, Row, CommittedRows
  <2>2. \A row \in coupons : row.key = k => row.id \in rivals /\ outcome[row.id] = "SUCCESS"
    BY <2>1, NewRowType DEF IInv, CommittedRows
  <2>3. \A r \in rivals : NewRow(r).key = k /\ NewRow(r).id = r
    BY NewRowType DEF IInv
  <2>4. PICK w \in rivals : outcome[w] = "SUCCESS"
    <3>1. PICK r \in rivals : TRUE
      OBVIOUS
    <3>2. outcome[r] \in {"SUCCESS", "CONFLICT", "INVALID_REQUEST"}
      BY <3>1 DEF IInv, TypeOK, ThreadsMatchTransactions, Answers, CreateOutcome
    <3>3. outcome[r] # "INVALID_REQUEST"
      BY <3>1, ConstantsOK DEF IInv, RefusalsMatchRows
    <3>4. CASE outcome[r] = "CONFLICT"
      <4>1. PICK row \in coupons : SameCode(r, row)
        BY <3>1, <3>4 DEF IInv, RefusalsMatchRows
      <4>2. row.key = k
        BY <3>1, <4>1 DEF SameCode
      <4> QED BY <2>2, <4>2
    <3> QED BY <3>1, <3>2, <3>3, <3>4
  <2>5. \A r \in rivals : outcome[r] = "SUCCESS" => r = w
    <3>1. \A r \in rivals : outcome[r] = "SUCCESS" => NewRow(r) \in coupons
      BY DEF IInv, ThreadsMatchTransactions
    <3> QED BY <2>3, <2>4, <3>1 DEF IInv, KeysUnique
  <2>6. {r \in rivals : outcome[r] = "SUCCESS"} = {w}
    BY <2>4, <2>5
  <2> QED BY <2>6, FS_Singleton
<1> QED BY <1>1, CreateInvariance, PTL

-----------------------------------------------------------------------------
(* Refinement: the statements of a creation and the registry *)

\* In a table whose keys are unique, the owner of a key is the request that has
\* inserted its row.
LEMMA OwnerOfRow ==
    ASSUME NEW rows, \A row, other \in rows : row.key = other.key => row = other
    PROVE  /\ \A row \in rows : row.key \in Keys => OwnerIn(rows)[row.key] = row.id
           /\ \A k \in Keys : (\A row \in rows : row.key # k) => OwnerIn(rows)[k] = Nobody
<1>1. ASSUME NEW row \in rows, row.key \in Keys PROVE OwnerIn(rows)[row.key] = row.id
  <2>1. (CHOOSE other \in rows : other.key = row.key) = row
    OBVIOUS
  <2> QED BY <1>1, <2>1 DEF OwnerIn
<1>2. ASSUME NEW k \in Keys, \A row \in rows : row.key # k PROVE OwnerIn(rows)[k] = Nobody
  BY <1>2 DEF OwnerIn
<1> QED BY <1>1, <1>2

\* The owner in the registry of the rows of coupons.
LEMMA OwnerOfCommittedRow ==
    ASSUME IInv, NEW r \in Requests
    PROVE  /\ NewRow(r) \in coupons =>
                 Registry!KeyOf(r) # Malformed /\ Owner[Registry!KeyOf(r)] = r
           /\ \A row \in coupons : SameCode(r, row) =>
                 Registry!KeyOf(r) # Malformed /\ Owner[Registry!KeyOf(r)] = row.id
<1>1. \A row \in coupons : row.key \in Keys /\ Owner[row.key] = row.id
  BY OwnerOfRow DEF IInv, TypeOK, Row, KeysUnique, Owner
<1>2. NewRow(r).id = r /\ SameCode(r, NewRow(r))
  BY NewRowType DEF IInv, SameCode
<1> QED BY <1>1, <1>2, ConstantsOK DEF SameCode, Registry!KeyOf

\* The commit of a creation is its registration.
LEMMA CommitRegisters ==
    ASSUME IInv, IInv', NEW r \in Requests, Commit(r) \/ ServerCommit(r)
    PROVE  Registry!Register(r)
<1> DEFINE k == Registry!KeyOf(r)
<1>1. /\ tx[r] = "committing" /\ ApplyWrites(r) /\ UNCHANGED <<order, outcome>>
      /\ pc' = pc \/ (pc[r] = "commit" /\ pc' = [pc EXCEPT ![r] = "committed"])
      /\ pc[r] = "commit" \/ pc[r] = "lost" \/ (pc[r] = "done" /\ outcome[r] = "INTERNAL_ERROR")
  <2>1. CASE Commit(r)
    BY <2>1 DEF Commit, Goto, IInv, ThreadsMatchTransactions
  <2>2. CASE ServerCommit(r)
    BY <2>2 DEF ServerCommit, Ended, IInv, ThreadsMatchTransactions
  <2> QED BY <2>1, <2>2
<1>2. coupons' = coupons \cup {NewRow(r)} /\ NewRow(r) \in pending
  BY <1>1, ApplyEffect DEF IInv, PendingRows
<1>3. NewRow(r).id = r /\ NewRow(r).key = k /\ k \in Keys
  BY <1>2, NewRowType DEF IInv, TypeOK, Row, Registry!KeyOf
<1>4. \A row \in coupons : row.key # k
  <2>1. ASSUME NEW row \in coupons, row.key = k PROVE FALSE
    <3>1. row = NewRow(r)
      BY <1>2, <1>3, <2>1 DEF IInv, KeysUnique
    <3>2. tx[r] = "none"
      BY <1>3, <3>1 DEF IInv, CommittedRows
    <3> QED BY <1>1, <3>2
  <2> QED BY <2>1
<1>5. Owner[k] = Nobody
  BY <1>3, <1>4, OwnerOfRow DEF IInv, KeysUnique, Owner
<1>6. Owner' = [Owner EXCEPT ![k] = r]
  <2>1. \A row, other \in coupons' : row.key = other.key => row = other
    BY DEF IInv, KeysUnique
  <2>2. OwnerIn(coupons')[k] = r
    BY <1>2, <1>3, <2>1, OwnerOfRow
  <2>3. ASSUME NEW j \in Keys, j # k PROVE OwnerIn(coupons')[j] = OwnerIn(coupons)[j]
    <3>1. \A row : row \in coupons' /\ row.key = j <=> row \in coupons /\ row.key = j
      BY <1>2, <1>3, <2>3
    <3>2. \A row, other \in coupons : row.key = other.key => row = other
      BY DEF IInv, KeysUnique
    <3>3. CASE \E row \in coupons : row.key = j
      BY <2>1, <3>1, <3>2, <3>3, OwnerOfRow
    <3>4. CASE ~ \E row \in coupons : row.key = j
      BY <2>1, <3>1, <3>2, <3>4, OwnerOfRow
    <3> QED BY <3>3, <3>4
  <2>4. Owner' = OwnerIn(coupons') /\ Owner = OwnerIn(coupons)
    BY DEF Owner, OwnerIn
  <2>5. OwnerIn(coupons') = [OwnerIn(coupons) EXCEPT ![k] = r]
    <3>1. OwnerIn(coupons') = [j \in Keys |-> OwnerIn(coupons')[j]]
      BY DEF OwnerIn
    <3>2. OwnerIn(coupons) = [j \in Keys |-> OwnerIn(coupons)[j]]
      BY DEF OwnerIn
    <3> HIDE DEF k
    <3> QED BY <1>3, <2>2, <2>3, <3>1, <3>2
  <2> QED BY <2>4, <2>5
<1>7. AnswerOf[r] \in {NoOutcome, "INTERNAL_ERROR"}
  BY <1>1 DEF AnswerOf
<1>8. AnswerOf' = AnswerOf
  BY <1>1 DEF AnswerOf, IInv, TypeOK
<1>9. k # Malformed
  BY <1>3, ConstantsOK
<1> QED BY <1>1, <1>5, <1>6, <1>7, <1>8, <1>9 DEF Registry!Register

\* A thread that ends answers as the registry allows.
LEMMA EndReplies ==
    ASSUME IInv, IInv', NEW r \in Requests, pc[r] # "done", pc' = [pc EXCEPT ![r] = "done"],
           \A q \in Requests \ {r} : outcome'[q] = outcome[q],
           UNCHANGED <<coupons, order>>
    PROVE  \E o \in {"SUCCESS", "CONFLICT", "INVALID_REQUEST", "INTERNAL_ERROR"} :
              Registry!Reply(r, o)
<1> DEFINE o == outcome'[r]
<1>1. pc'[r] = "done"
  BY DEF IInv, TypeOK
<1>2. o \in {"SUCCESS", "CONFLICT", "INVALID_REQUEST", "INTERNAL_ERROR"}
  BY <1>1 DEF IInv, TypeOK, ThreadsMatchTransactions, Answers, CreateOutcome
<1>3. Owner' = Owner
  BY DEF Owner, OwnerIn
<1>4. AnswerOf[r] = NoOutcome /\ AnswerOf' = [AnswerOf EXCEPT ![r] = o]
  BY DEF AnswerOf, IInv, TypeOK
<1>5. NewRow(r)' = NewRow(r)
  BY DEF NewRow
<1>6. o = "SUCCESS" => NewRow(r) \in coupons
  BY <1>1, <1>5 DEF IInv, ThreadsMatchTransactions
<1>7. o = "CONFLICT" => \E row \in coupons : row.id # r /\ SameCode(r, row)
  BY DEF IInv, RefusalsMatchRows, SameCode
<1>8. o = "INVALID_REQUEST" => Registry!KeyOf(r) = Malformed
  BY DEF IInv, RefusalsMatchRows, Registry!KeyOf
<1>9. \A row \in coupons : row.id # Nobody
  BY ConstantsOK DEF IInv, TypeOK, Row
<1>10. Registry!Justified(r, o)
  <2>1. CASE o = "SUCCESS"
    BY <1>6, <2>1, OwnerOfCommittedRow DEF Registry!Justified
  <2>2. CASE o = "CONFLICT"
    BY <1>7, <1>9, <2>2, OwnerOfCommittedRow DEF Registry!Justified
  <2>3. CASE o \in {"INVALID_REQUEST", "INTERNAL_ERROR"}
    BY <1>8, <2>3 DEF Registry!Justified
  <2> QED BY <1>2, <2>1, <2>2, <2>3
<1> QED BY <1>2, <1>3, <1>4, <1>10 DEF Registry!Reply

\* A step that commits nothing and ends no thread is a stutter of the registry.
LEMMA Unseen ==
    ASSUME UNCHANGED <<coupons, order>>,
           \A q \in Requests : pc'[q] = "done" <=> pc[q] = "done",
           \A q \in Requests : pc[q] = "done" => outcome'[q] = outcome[q]
    PROVE  UNCHANGED Registry!vars
<1>1. AnswerOf' = AnswerOf
  BY DEF AnswerOf
<1>2. Owner' = Owner
  BY DEF Owner, OwnerIn
<1> QED BY <1>1, <1>2 DEF Registry!vars

\* Every step of the service is a step of the registry, or a stutter.
LEMMA StepImplements == IInv /\ IInv' /\ [Next]_vars => [Registry!Next]_(Registry!vars)
<1> SUFFICES ASSUME IInv, IInv', [Next]_vars
             PROVE  Registry!Next \/ UNCHANGED Registry!vars
  OBVIOUS
<1>1. ASSUME NEW r \in Requests, Commit(r) \/ ServerCommit(r) PROVE Registry!Next
  BY <1>1, CommitRegisters DEF Registry!Next
<1>2. ASSUME NEW r \in Requests,
             ConnectionFails(r) \/ Return(r) \/ Rollback(r) \/ CommitFails(r) \/ LoseConnection(r)
      PROVE  Registry!Next
  <2>1. /\ pc[r] # "done" /\ pc' = [pc EXCEPT ![r] = "done"]
        /\ \A q \in Requests \ {r} : outcome'[q] = outcome[q]
        /\ UNCHANGED <<coupons, order>>
    BY <1>2
    DEF ConnectionFails, Return, Rollback, CommitFails, CommitFailure, LoseConnection,
        DiscardWrites, Decide, Goto, InTransaction, IInv, TypeOK, db
  <2> QED BY <2>1, EndReplies DEF Registry!Next
<1>3. ASSUME NEW r \in Requests,
             BeginTransaction(r) \/ RejectInvalid(r) \/ Insert(r) \/ StatementFails(r)
      PROVE  UNCHANGED Registry!vars
  <2>1. /\ pc[r] # "done" /\ \E s \in {"insert", "rollback", "commit"} : pc' = [pc EXCEPT ![r] = s]
        /\ \A q \in Requests \ {r} : outcome'[q] = outcome[q]
        /\ UNCHANGED <<coupons, order>>
    BY <1>3
    DEF BeginTransaction, RejectInvalid, Insert, StatementFails, Decide, Goto,
        IInv, TypeOK, db
  <2> QED BY <2>1, Unseen DEF IInv, TypeOK
<1>4. ASSUME NEW r \in Requests, ServerRollback(r) PROVE UNCHANGED Registry!vars
  BY <1>4, Unseen DEF ServerRollback, DiscardWrites
<1>5. ASSUME NEW i \in Instances, Crash(i) PROVE UNCHANGED Registry!vars
  <2>1. \A q \in Requests : pc'[q] = "done" <=> pc[q] = "done"
    BY <1>5 DEF Crash, Ended
  <2> QED BY <1>5, <2>1, Unseen DEF Crash, db
<1>6. CASE Terminating \/ UNCHANGED vars
  BY <1>6, Unseen DEF Terminating, vars
<1> QED BY <1>1, <1>2, <1>3, <1>4, <1>5, <1>6 DEF Next, Progress, Failure

\* CreateCoupon implements CouponRegistry: whatever the interleaving and the
\* failures, a commit is an indivisible registration, and 201 and 409 agree with it.
THEOREM RegistryImplemented == Spec => ImplementsRegistry
<1>1. Init => Registry!Init
  BY DEF Init, Registry!Init, Owner, OwnerIn, AnswerOf
<1> QED
  BY <1>1, StepImplements, CreateInvariance, PTL DEF Spec, ImplementsRegistry, Registry!Spec

=============================================================================
