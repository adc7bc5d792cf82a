---------------------------- MODULE CreateCoupon ----------------------------
(***************************************************************************)
(* Creating coupons: CreateCouponService.create, a transactional method    *)
(* around one INSERT (JdbcCouponRepository) into table coupons, whose      *)
(* unique index on normalized_code decides every race.                     *)
(***************************************************************************)
EXTENDS Naturals, FiniteSets

CONSTANTS
    Codes,            \* codes as clients write them
    Keys,             \* values of coupons.normalized_code
    NormalizedValue,  \* CouponCode.of(code).normalizedValue(), or Malformed
    Malformed,        \* CouponCode.of, CountryCode.of or Coupon.create throws
    Nobody,           \* no coupon has this key
    NoOutcome,        \* the request has neither thrown nor returned
    Requests,         \* POST /coupons requests, each handled by one thread
    Instances,        \* JVMs of the service, one HikariCP pool each
    PoolSize,         \* spring.datasource.hikari.maximum-pool-size
    DatabaseFaults,   \* statements, connections and commits may fail
    Crashes           \* instances may be killed

ASSUME ConstantsOK ==
    /\ IsFiniteSet(Requests)
    /\ NormalizedValue \in [Codes -> Keys \cup {Malformed}]
    /\ Malformed \notin Keys
    /\ Nobody \notin Requests
    /\ PoolSize \in Nat \ {0}
    /\ {DatabaseFaults, Crashes} \subseteq BOOLEAN

CreateOutcome == {"SUCCESS", "CONFLICT"}
Answers == CreateOutcome \cup {"INVALID_REQUEST", "INTERNAL_ERROR"}

ASSUME NoOutcomeOK == NoOutcome \notin Answers

VARIABLES
    coupons,       \* committed rows of table coupons
    pending,       \* rows inserted by transactions that have not ended
    tx,            \* the transaction of a request: "none", "open", "committing"
    order,         \* the code a request brings, and the instance it reached
    pc,            \* what a request does next
    outcome,       \* what the use case has decided: thrown or returned
    createCounter  \* coupon.create of each instance

db == <<coupons, pending, tx>>
vars == <<coupons, pending, tx, order, pc, outcome, createCounter>>

Row == [id : Requests, code : Codes, key : Keys]
InTransaction == {"insert", "commit", "rollback"}
Ended == {"done", "lost"}

HoldingConnection(i) ==
    {r \in Requests : pc[r] \in InTransaction /\ order[r].instance = i}

PoolFree(r) == Cardinality(HoldingConnection(order[r].instance)) < PoolSize

-----------------------------------------------------------------------------
(* The table *)

\* Mutant: UNIQUE (code) instead of UNIQUE (normalized_code).
SameCodeAsWritten(r, row) == row.code = order[r].code

\* uq_coupons_normalized_code
SameCode(r, row) == row.key = NormalizedValue[order[r].code]

\* Mutant: an INSERT does not see rows that are not committed.
PendingRowsUnseen(r) == TRUE

\* An INSERT waits for the transaction that has inserted the same key.
UniqueKeyFree(r) == ~ \E row \in pending : row.id # r /\ SameCode(r, row)

\* Mutant: the row lock on the index entry is never released.
EndTransactionKeepingRow(r) ==
    /\ tx' = [tx EXCEPT ![r] = "none"]
    /\ UNCHANGED pending

EndTransaction(r) ==
    /\ tx' = [tx EXCEPT ![r] = "none"]
    /\ pending' = {row \in pending : row.id # r}

ApplyWrites(r) ==
    /\ coupons' = coupons \cup {row \in pending : row.id = r}
    /\ EndTransaction(r)

DiscardWrites(r) ==
    /\ EndTransaction(r)
    /\ UNCHANGED coupons

-----------------------------------------------------------------------------
(* CreateCouponService.create, inside the transactional proxy *)

Goto(r, step) == pc' = [pc EXCEPT ![r] = step]

Decide(r, o) == outcome' = [outcome EXCEPT ![r] = o]

RecordCreate(r, o) ==
    createCounter' = [createCounter EXCEPT ![order[r].instance][o] = @ + 1]

BeginTransaction(r) ==
    /\ pc[r] = "begin"
    /\ PoolFree(r)
    /\ tx' = [tx EXCEPT ![r] = "open"]
    /\ Goto(r, "insert")
    /\ UNCHANGED <<coupons, pending, order, outcome, createCounter>>

\* No connection within connection-timeout, or the database is unreachable.
ConnectionFails(r) ==
    /\ pc[r] = "begin"
    /\ DatabaseFaults \/ ~PoolFree(r)
    /\ Decide(r, "INTERNAL_ERROR")
    /\ Goto(r, "done")
    /\ UNCHANGED <<db, order, createCounter>>

\* The command is validated with the connection already taken.
RejectInvalid(r) ==
    /\ pc[r] = "insert"
    /\ NormalizedValue[order[r].code] = Malformed
    /\ Decide(r, "INVALID_REQUEST")
    /\ Goto(r, "rollback")
    /\ UNCHANGED <<db, order, createCounter>>

\* Mutant: the code is stored as it was written, in both columns.
NewRowAsWritten(r) == [id |-> r, code |-> order[r].code, key |-> order[r].code]

NewRow(r) == [id |-> r, code |-> order[r].code, key |-> NormalizedValue[order[r].code]]

\* The INSERT, and the counter: before the proxy commits or rolls back.
Insert(r) ==
    /\ pc[r] = "insert"
    /\ NormalizedValue[order[r].code] # Malformed
    /\ UniqueKeyFree(r)
    /\ IF \E row \in coupons : SameCode(r, row)
       THEN /\ Decide(r, "CONFLICT")
            /\ RecordCreate(r, "CONFLICT")
            /\ Goto(r, "rollback")
            /\ UNCHANGED <<pending, tx>>
       ELSE /\ pending' = pending \cup {NewRow(r)}
            /\ Decide(r, "SUCCESS")
            /\ RecordCreate(r, "SUCCESS")
            /\ tx' = [tx EXCEPT ![r] = "committing"]
            /\ Goto(r, "commit")
    /\ UNCHANGED <<coupons, order>>

Commit(r) ==
    /\ pc[r] = "commit"
    /\ ApplyWrites(r)
    /\ Goto(r, "committed")
    /\ UNCHANGED <<order, outcome, createCounter>>

\* The proxy has returned: HTTP 201.
Return(r) ==
    /\ pc[r] = "committed"
    /\ Goto(r, "done")
    /\ UNCHANGED <<db, order, outcome, createCounter>>

Rollback(r) ==
    /\ pc[r] = "rollback"
    /\ DiscardWrites(r)
    /\ Goto(r, "done")
    /\ UNCHANGED <<order, outcome, createCounter>>

-----------------------------------------------------------------------------
(* Failures *)

\* Any failure but SQLState 23505: rethrown, and counted nowhere.
StatementFails(r) ==
    /\ DatabaseFaults
    /\ pc[r] = "insert"
    /\ Decide(r, "INTERNAL_ERROR")
    /\ Goto(r, "rollback")
    /\ UNCHANGED <<db, order, createCounter>>

\* Mutant: the failure of the commit is swallowed.
CommitFailureIgnored(r) == UNCHANGED outcome

CommitFailure(r) == Decide(r, "INTERNAL_ERROR")

CommitFails(r) ==
    /\ DatabaseFaults
    /\ pc[r] = "commit"
    /\ DiscardWrites(r)
    /\ CommitFailure(r)
    /\ Goto(r, "done")
    /\ UNCHANGED <<order, createCounter>>

\* The thread gets an exception at once; the server ends the transaction later,
\* and may have received the COMMIT.
LoseConnection(r) ==
    /\ DatabaseFaults
    /\ pc[r] \in InTransaction
    /\ Decide(r, "INTERNAL_ERROR")
    /\ Goto(r, "done")
    /\ UNCHANGED <<db, order, createCounter>>

ServerRollback(r) ==
    /\ pc[r] \in Ended /\ tx[r] # "none"
    /\ DiscardWrites(r)
    /\ UNCHANGED <<order, pc, outcome, createCounter>>

ServerCommit(r) ==
    /\ pc[r] \in Ended /\ tx[r] = "committing"
    /\ ApplyWrites(r)
    /\ UNCHANGED <<order, pc, outcome, createCounter>>

\* The instance is killed: its threads and meters are gone.  A request that is
\* still at "begin" is one that arrives after the restart.
Crash(i) ==
    LET running == {r \in Requests : /\ order[r].instance = i
                                     /\ pc[r] \notin {"begin"} \cup Ended}
    IN  /\ Crashes
        /\ running # {}
        /\ pc' = [r \in Requests |-> IF r \in running THEN "lost" ELSE pc[r]]
        /\ createCounter' = [createCounter EXCEPT ![i] = [o \in CreateOutcome |-> 0]]
        /\ UNCHANGED <<db, order, outcome>>

-----------------------------------------------------------------------------

Init ==
    /\ coupons = {}
    /\ pending = {}
    /\ tx = [r \in Requests |-> "none"]
    /\ order \in [Requests -> [code : Codes, instance : Instances]]
    /\ pc = [r \in Requests |-> "begin"]
    /\ outcome = [r \in Requests |-> NoOutcome]
    /\ createCounter = [i \in Instances |-> [o \in CreateOutcome |-> 0]]

\* What the thread of a request does by itself.
Progress(r) ==
    \/ BeginTransaction(r)
    \/ ConnectionFails(r)
    \/ RejectInvalid(r)
    \/ Insert(r)
    \/ Commit(r)
    \/ Return(r)
    \/ Rollback(r)

Failure(r) ==
    \/ StatementFails(r)
    \/ CommitFails(r)
    \/ LoseConnection(r)
    \/ ServerCommit(r)

\* Every request has ended and the server has ended its transaction.
Terminating ==
    /\ \A r \in Requests : pc[r] \in Ended /\ tx[r] = "none"
    /\ UNCHANGED vars

Next ==
    \/ \E r \in Requests : Progress(r) \/ Failure(r) \/ ServerRollback(r)
    \/ \E i \in Instances : Crash(i)
    \/ Terminating

Spec == Init /\ [][Next]_vars

\* A thread that can run does run, and the server notices a broken connection.
Fairness == \A r \in Requests : WF_vars(Progress(r)) /\ WF_vars(ServerRollback(r))

FairSpec == Spec /\ Fairness

-----------------------------------------------------------------------------
(* Properties *)

\* Every variable has its type.
TypeOK ==
    /\ coupons \subseteq Row
    /\ pending \subseteq Row
    /\ tx \in [Requests -> {"none", "open", "committing"}]
    /\ order \in [Requests -> [code : Codes, instance : Instances]]
    /\ pc \in [Requests -> {"begin", "committed"} \cup InTransaction \cup Ended]
    /\ outcome \in [Requests -> Answers \cup {NoOutcome}]
    /\ createCounter \in [Instances -> [CreateOutcome -> Nat]]

\* Of the requests for one code, however it is written, exactly one is told 201,
\* as long as each of them was told something definite: the losers of the race
\* do not all lose to a transaction that is rolled back in the end.
ExactlyOneWinner ==
    \A k \in Keys :
        LET rivals == {r \in Requests : NormalizedValue[order[r].code] = k}
        IN  /\ rivals # {}
            /\ \A r \in rivals : pc[r] = "done" /\ outcome[r] # "INTERNAL_ERROR"
            => Cardinality({r \in rivals : outcome[r] = "SUCCESS"}) = 1

\* Every request is answered, or its instance was killed, and no transaction is
\* left to make later requests for the same code wait.
EveryRequestSettles ==
    \A r \in Requests :
        <>[](pc[r] \in Ended /\ tx[r] = "none" /\ \A row \in pending : row.id # r)

\* What the callers see of it all.  The registry gives a key to one request only,
\* so a second coupon with the same key is not expressible in it.
OwnerIn(rows) == [k \in Keys |-> IF \E row \in rows : row.key = k
                                 THEN (CHOOSE row \in rows : row.key = k).id ELSE Nobody]
Owner == OwnerIn(coupons)
AnswerOf == [r \in Requests |-> IF pc[r] = "done" THEN outcome[r] ELSE NoOutcome]

Registry == INSTANCE CouponRegistry WITH owner <- Owner, answer <- AnswerOf

\* The inserts, commits and failures of the service implement the indivisible
\* registrations of CouponRegistry: 201 means the code belongs to this request
\* for good, 409 that it belongs to another one.
ImplementsRegistry == Registry!Spec

-----------------------------------------------------------------------------
(* The inductive invariant *)

\* A committed row belongs to a request that has no transaction any more, and
\* that was told, or is about to be told, 201 or 500 if anything.
CommittedRows ==
    \A row \in coupons :
        /\ row = NewRow(row.id) /\ tx[row.id] = "none"
        /\ pc[row.id] \in {"committed"} \cup Ended
        /\ pc[row.id] = "done" => outcome[row.id] \in {"SUCCESS", "INTERNAL_ERROR"}

\* The rows that wait for their commit are those of the transactions that have
\* inserted one.
PendingRows ==
    /\ \A row \in pending : row = NewRow(row.id) /\ tx[row.id] = "committing"
    /\ \A r \in Requests : tx[r] = "committing" => NewRow(r) \in pending

\* The unique index, over the rows of all transactions.
KeysUnique ==
    \A row, other \in coupons \cup pending : row.key = other.key => row = other

\* What a thread has decided and what its transaction has done go with its place.
ThreadsMatchTransactions ==
    \A r \in Requests :
        /\ pc[r] = "begin" => tx[r] = "none" /\ outcome[r] = NoOutcome
        /\ pc[r] = "insert" => tx[r] = "open" /\ outcome[r] = NoOutcome
        /\ pc[r] = "commit" => tx[r] = "committing" /\ outcome[r] = "SUCCESS"
        /\ pc[r] = "rollback" =>
              tx[r] = "open" /\ outcome[r] \in {"CONFLICT", "INVALID_REQUEST", "INTERNAL_ERROR"}
        /\ pc[r] = "committed" => outcome[r] = "SUCCESS" /\ NewRow(r) \in coupons
        /\ pc[r] = "done" => /\ outcome[r] # NoOutcome
                             /\ outcome[r] = "SUCCESS" => NewRow(r) \in coupons
                             /\ tx[r] # "none" => outcome[r] = "INTERNAL_ERROR"

\* A refusal has its reason, and the reason stays.
RefusalsMatchRows ==
    \A r \in Requests :
        /\ outcome[r] = "CONFLICT" => \E row \in coupons : row.id # r /\ SameCode(r, row)
        /\ outcome[r] = "INVALID_REQUEST" => NormalizedValue[order[r].code] = Malformed

\* The inductive invariant: in every state the unique index, the transactions in
\* flight, the threads and the answers tell one story.
IInv ==
    /\ TypeOK
    /\ CommittedRows
    /\ PendingRows
    /\ KeysUnique
    /\ ThreadsMatchTransactions
    /\ RefusalsMatchRows

=============================================================================
