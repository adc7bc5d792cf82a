----------------------------- MODULE Redemption -----------------------------
(***************************************************************************)
(* Redeeming a coupon, statement by statement: the orchestrator            *)
(* RedeemCouponService, the proxied bean                                   *)
(* TransactionalCouponRedemptionService, JdbcCouponRedemptionRepository    *)
(* and the PostgreSQL tables of V1__create_coupon_tables.sql, shared by    *)
(* several instances of the service.  One action is one database           *)
(* statement, or one network call, with the code up to the next one.       *)
(***************************************************************************)
EXTENDS Naturals, FiniteSets

CONSTANTS
    Coupons, Users, Countries,
    Requests,        \* POST .../redemptions requests, each handled by one thread
    Instances,       \* JVMs of the service, one HikariCP pool each
    MaxUses,         \* coupons.max_uses
    PoolSize,        \* spring.datasource.hikari.maximum-pool-size
    NoRow,           \* no row of coupons has this code
    Free,            \* a row nobody has locked
    NoOutcome,       \* the request has neither thrown nor returned
    DatabaseFaults,  \* statements, connections and commits may fail
    Crashes,         \* instances may be killed
    OperatorEdits    \* coupons are created, and edited by hand, meanwhile

ASSUME ConstantsOK ==
    /\ IsFiniteSet(Requests)
    /\ MaxUses \in [Coupons -> Nat \ {0}]
    /\ PoolSize \in Nat \ {0}
    /\ Free \notin Requests
    /\ NoRow \notin [uses : Nat, country : Countries]
    /\ {DatabaseFaults, Crashes, OperatorEdits} \subseteq BOOLEAN

RedemptionOutcome == {"SUCCESS", "NOT_FOUND", "COUNTRY_NOT_ALLOWED",
                      "ALREADY_REDEEMED", "EXHAUSTED",
                      "GEOLOCATION_UNAVAILABLE", "INTERNAL_ERROR"}

TransactionOutcome == {"SUCCESS", "NOT_FOUND", "COUNTRY_NOT_ALLOWED",
                       "ALREADY_REDEEMED", "EXHAUSTED", "DATABASE_ERROR"}

ASSUME NoOutcomeOK == NoOutcome \notin RedemptionOutcome \cup {"INVALID_REQUEST"}

VARIABLES
    \* PostgreSQL
    coupons,      \* table coupons, by normalized_code
    redemptions,  \* committed rows of table coupon_redemptions
    pending,      \* rows inserted by transactions that have not ended
    lock,         \* which request's transaction holds the row lock
    tx,           \* the transaction of a request: "none", "open", "committing"
    \* the threads
    order,        \* what a request asks for, and the instance it reached
    pc,           \* the statement a request executes next
    read,         \* the Coupon object built from the last SELECT
    country,      \* resolvedCountry
    newUses,      \* what UPDATE ... RETURNING current_uses returned
    outcome,      \* what the use case has decided: thrown or returned
    \* Micrometer
    redemptionCounter, transactionTimer

db == <<coupons, redemptions, pending, lock, tx>>
threads == <<order, pc, read, country, newUses, outcome>>
metrics == <<redemptionCounter, transactionTimer>>
vars == <<coupons, redemptions, pending, lock, tx,
          order, pc, read, country, newUses, outcome,
          redemptionCounter, transactionTimer>>

CouponRow == [uses : Nat, country : Countries]
RedemptionRow == [id : Requests, coupon : Coupons, user : Users, country : Countries]
Order == [coupon : Coupons, user : Users, instance : Instances]

Statements == {"findForUpdate", "exists", "insert", "increment"}
InTransaction == Statements \cup {"commit", "rollback"}
Ended == {"done", "lost"}
Steps == {"findSnapshot", "resolve", "begin", "committed"} \cup InTransaction \cup Ended

-----------------------------------------------------------------------------
(* The database *)

RowsOf(c) == {row \in redemptions : row.coupon = c}

\* SELECT COUNT(*) ... WHERE coupon_id = ... AND user_id = ..., READ COMMITTED
HasRedeemed(r) ==
    \E row \in RowsOf(order[r].coupon) : row.user = order[r].user

\* UNIQUE (coupon_id, user_id): an insert waits for the transaction that has
\* inserted the same key and has not ended.
UniqueKeyFree(r) ==
    ~ \E row \in pending : /\ row.id # r
                           /\ row.coupon = order[r].coupon
                           /\ row.user = order[r].user

\* Mutant: one lock for the table instead of one per row.
RowFreeTableLock(r) == \A c \in Coupons : lock[c] = Free

RowFree(r) == lock[order[r].coupon] = Free

\* Mutant: SELECT without FOR UPDATE.
AcquireRowUnlocked(r) == UNCHANGED lock

AcquireRow(r) ==
    lock' = [lock EXCEPT ![order[r].coupon] = IF coupons[order[r].coupon] = NoRow
                                              THEN @ ELSE r]

\* Mutant: the lock outlives the transaction.
EndTransactionKeepingLocks(r) ==
    /\ tx' = [tx EXCEPT ![r] = "none"]
    /\ pending' = {row \in pending : row.id # r}
    /\ UNCHANGED lock

EndTransaction(r) ==
    /\ tx' = [tx EXCEPT ![r] = "none"]
    /\ pending' = {row \in pending : row.id # r}
    /\ lock' = [c \in Coupons |-> IF lock[c] = r THEN Free ELSE lock[c]]

\* Both writes of the transaction become visible at once.
ApplyWrites(r) ==
    /\ redemptions' = redemptions \cup {row \in pending : row.id = r}
    /\ coupons' = [coupons EXCEPT ![order[r].coupon].uses = newUses[r]]
    /\ EndTransaction(r)

\* Mutant: the INSERT was committed on its own (no surrounding transaction).
DiscardCounterOnly(r) ==
    /\ redemptions' = redemptions \cup {row \in pending : row.id = r}
    /\ EndTransaction(r)
    /\ UNCHANGED coupons

DiscardWrites(r) ==
    /\ EndTransaction(r)
    /\ UNCHANGED <<coupons, redemptions>>

-----------------------------------------------------------------------------
(* The threads *)

HoldingConnection(i) ==
    {r \in Requests : pc[r] \in InTransaction /\ order[r].instance = i}

PoolFree(r) == Cardinality(HoldingConnection(order[r].instance)) < PoolSize

Goto(r, step) == pc' = [pc EXCEPT ![r] = step]

\* metrics.recordRedemption, and the answer to the caller
Finish(r, o) ==
    /\ outcome' = [outcome EXCEPT ![r] = o]
    /\ redemptionCounter' = [redemptionCounter EXCEPT ![order[r].instance][o] = @ + 1]
    /\ Goto(r, "done")

\* The finally block: it runs inside the proxy, before commit or rollback.
StopTransactionTimer(r, o) ==
    LET t == IF o = "INTERNAL_ERROR" THEN "DATABASE_ERROR" ELSE o
    IN  transactionTimer' = [transactionTimer EXCEPT ![order[r].instance][t] = @ + 1]

\* An exception leaves the transactional method: the proxy will roll back.
Throw(r, o) ==
    /\ outcome' = [outcome EXCEPT ![r] = o]
    /\ StopTransactionTimer(r, o)
    /\ Goto(r, "rollback")

\* Go on to the next statement, unless the verdict on this one is an exception.
Proceed(r, verdict, next) ==
    IF verdict = NoOutcome
    THEN Goto(r, next) /\ UNCHANGED <<outcome, transactionTimer>>
    ELSE Throw(r, verdict)

-----------------------------------------------------------------------------
(* Before the transaction *)

\* CouponCode.of or UserId.of throws, outside the try block: HTTP 400.
RejectInvalid(r) ==
    /\ pc[r] = "findSnapshot"
    /\ outcome' = [outcome EXCEPT ![r] = "INVALID_REQUEST"]
    /\ Goto(r, "done")
    /\ UNCHANGED <<db, metrics, order, read, country, newUses>>

\* findSnapshot takes a connection for one statement and gives it back.
FindSnapshot(r) ==
    /\ pc[r] = "findSnapshot"
    /\ PoolFree(r)
    /\ LET row == coupons[order[r].coupon]
       IN  \/ /\ row = NoRow
              /\ Finish(r, "NOT_FOUND")
              /\ UNCHANGED read
           \/ /\ row # NoRow
              /\ read' = [read EXCEPT ![r] = row]
              /\ Goto(r, "resolve")
              /\ UNCHANGED <<outcome, redemptionCounter>>
    /\ UNCHANGED <<db, order, country, newUses, transactionTimer>>

\* The client address is in country k; the snapshot may be stale by now.
ResolveCountry(r, k) ==
    /\ pc[r] = "resolve"
    /\ country' = [country EXCEPT ![r] = k]
    /\ \/ /\ read[r].country = k
          /\ Goto(r, "begin")
          /\ UNCHANGED <<outcome, redemptionCounter>>
       \/ /\ read[r].country # k
          /\ Finish(r, "COUNTRY_NOT_ALLOWED")
    /\ UNCHANGED <<db, order, read, newUses, transactionTimer>>

ResolutionFails(r) ==
    /\ pc[r] = "resolve"
    /\ Finish(r, "GEOLOCATION_UNAVAILABLE")
    /\ UNCHANGED <<db, order, read, country, newUses, transactionTimer>>

\* No connection within connection-timeout, or the database is unreachable.
ConnectionFails(r) ==
    /\ pc[r] \in {"findSnapshot", "begin"}
    /\ DatabaseFaults \/ ~PoolFree(r)
    /\ Finish(r, "INTERNAL_ERROR")
    /\ UNCHANGED <<db, order, read, country, newUses, transactionTimer>>

-----------------------------------------------------------------------------
(* The transaction *)

BeginTransaction(r) ==
    /\ pc[r] = "begin"
    /\ PoolFree(r)
    /\ tx' = [tx EXCEPT ![r] = "open"]
    /\ Goto(r, "findForUpdate")
    /\ UNCHANGED <<coupons, redemptions, pending, lock,
                   order, read, country, newUses, outcome, metrics>>

\* Mutant: the country is not checked again under the lock.
LockVerdictSnapshotOnly(r) ==
    IF coupons[order[r].coupon] = NoRow THEN "NOT_FOUND" ELSE NoOutcome

LockVerdict(r) ==
    LET row == coupons[order[r].coupon]
    IN  IF row = NoRow THEN "NOT_FOUND"
        ELSE IF row.country # country[r] THEN "COUNTRY_NOT_ALLOWED"
        ELSE NoOutcome

\* SELECT ... FOR UPDATE waits for the row and then reads its latest version.
FindForUpdate(r) ==
    /\ pc[r] = "findForUpdate"
    /\ RowFree(r)
    /\ AcquireRow(r)
    /\ read' = [read EXCEPT ![r] = coupons[order[r].coupon]]
    /\ Proceed(r, LockVerdict(r), "exists")
    /\ UNCHANGED <<coupons, redemptions, pending, tx,
                   order, country, newUses, redemptionCounter>>

\* Mutant: capacity is checked before earlier use.
EligibilityVerdictSwapped(r) ==
    IF read[r].uses >= MaxUses[order[r].coupon] THEN "EXHAUSTED"
    ELSE IF HasRedeemed(r) THEN "ALREADY_REDEEMED"
    ELSE NoOutcome

EligibilityVerdict(r) ==
    IF HasRedeemed(r) THEN "ALREADY_REDEEMED"
    ELSE IF read[r].uses >= MaxUses[order[r].coupon] THEN "EXHAUSTED"
    ELSE NoOutcome

CheckEligibility(r) ==
    /\ pc[r] = "exists"
    /\ Proceed(r, EligibilityVerdict(r), "insert")
    /\ UNCHANGED <<db, order, read, country, newUses, redemptionCounter>>

\* Only a violation of uq_coupon_redemptions_coupon_user is translated.
InsertVerdict(r) == IF HasRedeemed(r) THEN "ALREADY_REDEEMED" ELSE NoOutcome

NewRow(r) == [id |-> r, coupon |-> order[r].coupon, user |-> order[r].user,
              country |-> country[r]]

InsertRedemption(r) ==
    /\ pc[r] = "insert"
    /\ UniqueKeyFree(r)
    /\ Proceed(r, InsertVerdict(r), "increment")
    /\ pending' = IF InsertVerdict(r) = NoOutcome THEN pending \cup {NewRow(r)}
                                                  ELSE pending
    /\ UNCHANGED <<coupons, redemptions, lock, tx,
                   order, read, country, newUses, redemptionCounter>>

\* UPDATE ... WHERE current_uses < max_uses; no row: IllegalStateException.
IncrementVerdict(r) ==
    LET row == coupons[order[r].coupon]
    IN  IF row # NoRow /\ row.uses < MaxUses[order[r].coupon]
        THEN NoOutcome ELSE "INTERNAL_ERROR"

\* Mutant: the value before the update is returned, and counted on.
ReturnedUsesStale(r) == coupons[order[r].coupon].uses

\* Mutant: the use is counted twice.
ReturnedUsesTwice(r) == coupons[order[r].coupon].uses + 2

ReturnedUses(r) == coupons[order[r].coupon].uses + 1

IncrementIfCapacity(r) ==
    /\ pc[r] = "increment"
    /\ lock[order[r].coupon] \in {Free, r}
    /\ IF IncrementVerdict(r) = NoOutcome
       THEN /\ AcquireRow(r)
            /\ newUses' = [newUses EXCEPT ![r] = ReturnedUses(r)]
            /\ outcome' = [outcome EXCEPT ![r] = "SUCCESS"]
            /\ StopTransactionTimer(r, "SUCCESS")
            /\ tx' = [tx EXCEPT ![r] = "committing"]
            /\ Goto(r, "commit")
       ELSE /\ Throw(r, IncrementVerdict(r))
            /\ UNCHANGED <<lock, newUses, tx>>
    /\ UNCHANGED <<coupons, redemptions, pending, order, read, country, redemptionCounter>>

Commit(r) ==
    /\ pc[r] = "commit"
    /\ ApplyWrites(r)
    /\ Goto(r, "committed")
    /\ UNCHANGED <<order, read, country, newUses, outcome, metrics>>

\* The proxy has returned: recordRedemption(SUCCESS), HTTP 201.
Report(r) ==
    /\ pc[r] = "committed"
    /\ Finish(r, outcome[r])
    /\ UNCHANGED <<db, order, read, country, newUses, transactionTimer>>

Rollback(r) ==
    /\ pc[r] = "rollback"
    /\ DiscardWrites(r)
    /\ Finish(r, outcome[r])
    /\ UNCHANGED <<order, read, country, newUses, transactionTimer>>

-----------------------------------------------------------------------------
(* Failures *)

StatementFails(r) ==
    /\ DatabaseFaults
    /\ pc[r] \in Statements
    /\ Throw(r, "INTERNAL_ERROR")
    /\ UNCHANGED <<db, order, read, country, newUses, redemptionCounter>>

\* Mutant: the failure of the commit is swallowed.
CommitFailureIgnored(r) == Finish(r, outcome[r])

CommitFailure(r) == Finish(r, "INTERNAL_ERROR")

CommitFails(r) ==
    /\ DatabaseFaults
    /\ pc[r] = "commit"
    /\ DiscardWrites(r)
    /\ CommitFailure(r)
    /\ UNCHANGED <<order, read, country, newUses, transactionTimer>>

\* The connection breaks: the thread gets an exception at once, the server
\* ends the transaction later, and may have received the COMMIT.
LoseConnection(r) ==
    /\ DatabaseFaults
    /\ pc[r] \in InTransaction
    /\ Finish(r, "INTERNAL_ERROR")
    /\ IF pc[r] \in Statements THEN StopTransactionTimer(r, "INTERNAL_ERROR")
                               ELSE UNCHANGED transactionTimer
    /\ UNCHANGED <<db, order, read, country, newUses>>

ServerRollback(r) ==
    /\ pc[r] \in Ended /\ tx[r] # "none"
    /\ DiscardWrites(r)
    /\ UNCHANGED <<threads, metrics>>

ServerCommit(r) ==
    /\ pc[r] \in Ended /\ tx[r] = "committing"
    /\ ApplyWrites(r)
    /\ UNCHANGED <<threads, metrics>>

\* The instance is killed: its threads and meters are gone.  A request that is
\* still at "findSnapshot" is one that arrives after the restart.
Crash(i) ==
    LET running == {r \in Requests : /\ order[r].instance = i
                                     /\ pc[r] \notin {"findSnapshot"} \cup Ended}
    IN  /\ Crashes
        /\ running # {}
        /\ pc' = [r \in Requests |-> IF r \in running THEN "lost" ELSE pc[r]]
        /\ redemptionCounter' = [redemptionCounter EXCEPT ![i] = [o \in RedemptionOutcome |-> 0]]
        /\ transactionTimer' = [transactionTimer EXCEPT ![i] = [o \in TransactionOutcome |-> 0]]
        /\ UNCHANGED <<db, order, read, country, newUses, outcome>>

-----------------------------------------------------------------------------
(* Other writers of table coupons *)

CreateCoupon(c, k) ==
    /\ OperatorEdits
    /\ coupons[c] = NoRow
    /\ coupons' = [coupons EXCEPT ![c] = [uses |-> 0, country |-> k]]
    /\ UNCHANGED <<redemptions, pending, lock, tx, threads, metrics>>

\* ON DELETE RESTRICT: not while a redemption refers to the coupon.
DeleteCoupon(c) ==
    /\ OperatorEdits
    /\ coupons[c] # NoRow
    /\ lock[c] = Free
    /\ ~ \E row \in redemptions \cup pending : row.coupon = c
    /\ coupons' = [coupons EXCEPT ![c] = NoRow]
    /\ UNCHANGED <<redemptions, pending, lock, tx, threads, metrics>>

ChangeCountry(c, k) ==
    /\ OperatorEdits
    /\ coupons[c] # NoRow
    /\ lock[c] = Free
    /\ coupons' = [coupons EXCEPT ![c].country = k]
    /\ UNCHANGED <<redemptions, pending, lock, tx, threads, metrics>>

-----------------------------------------------------------------------------

Init ==
    /\ coupons \in [Coupons -> {NoRow} \cup [uses : {0}, country : Countries]]
    /\ redemptions = {}
    /\ pending = {}
    /\ lock = [c \in Coupons |-> Free]
    /\ tx = [r \in Requests |-> "none"]
    /\ order \in [Requests -> Order]
    /\ pc = [r \in Requests |-> "findSnapshot"]
    /\ read = [r \in Requests |-> NoRow]
    /\ country = [r \in Requests |-> NoOutcome]
    /\ newUses = [r \in Requests |-> 0]
    /\ outcome = [r \in Requests |-> NoOutcome]
    /\ redemptionCounter = [i \in Instances |-> [o \in RedemptionOutcome |-> 0]]
    /\ transactionTimer = [i \in Instances |-> [o \in TransactionOutcome |-> 0]]

\* What the thread of a request does by itself.
Progress(r) ==
    \/ RejectInvalid(r)
    \/ FindSnapshot(r)
    \/ \E k \in Countries : ResolveCountry(r, k)
    \/ ResolutionFails(r)
    \/ ConnectionFails(r)
    \/ BeginTransaction(r)
    \/ FindForUpdate(r)
    \/ CheckEligibility(r)
    \/ InsertRedemption(r)
    \/ IncrementIfCapacity(r)
    \/ Commit(r)
    \/ Report(r)
    \/ Rollback(r)

Failure(r) ==
    \/ StatementFails(r)
    \/ CommitFails(r)
    \/ LoseConnection(r)
    \/ ServerCommit(r)

Edit(c) ==
    \/ DeleteCoupon(c)
    \/ \E k \in Countries : CreateCoupon(c, k) \/ ChangeCountry(c, k)

\* Every request has ended and the server has ended its transaction.
Terminating ==
    /\ \A r \in Requests : pc[r] \in Ended /\ tx[r] = "none"
    /\ UNCHANGED vars

Next ==
    \/ \E r \in Requests : Progress(r) \/ Failure(r) \/ ServerRollback(r)
    \/ \E i \in Instances : Crash(i)
    \/ \E c \in Coupons : Edit(c)
    \/ Terminating

Spec == Init /\ [][Next]_vars

\* A thread that waits for the GeoIP provider: nothing bounds the time in which
\* the body of the response arrives.
AwaitingProvider(r) == pc[r] = "resolve"

\* Any other thread that can run does run, and the server notices a broken
\* connection.  Failures, crashes and edits need not happen.
Fairness == \A r \in Requests :
                /\ WF_vars(Progress(r) /\ ~AwaitingProvider(r))
                /\ WF_vars(ServerRollback(r))

FairSpec == Spec /\ Fairness

-----------------------------------------------------------------------------
(* Properties *)

Granted == {row.id : row \in redemptions}

\* Every variable has its type, and current_uses respects the CHECK constraint.
TypeOK ==
    /\ coupons \in [Coupons -> {NoRow} \cup CouponRow]
    /\ \A c \in Coupons : coupons[c] # NoRow => coupons[c].uses <= MaxUses[c]
    /\ redemptions \subseteq RedemptionRow
    /\ pending \subseteq RedemptionRow
    /\ lock \in [Coupons -> {Free} \cup Requests]
    /\ tx \in [Requests -> {"none", "open", "committing"}]
    /\ order \in [Requests -> Order]
    /\ pc \in [Requests -> Steps]
    /\ read \in [Requests -> {NoRow} \cup CouponRow]
    /\ country \in [Requests -> {NoOutcome} \cup Countries]
    /\ newUses \in [Requests -> Nat]
    /\ outcome \in [Requests -> RedemptionOutcome \cup {"INVALID_REQUEST", NoOutcome}]
    /\ redemptionCounter \in [Instances -> [RedemptionOutcome -> Nat]]
    /\ transactionTimer \in [Instances -> [TransactionOutcome -> Nat]]

\* The two tables agree whatever transactions do: current_uses counts exactly
\* the rows of coupon_redemptions, a user has at most one of them per coupon,
\* and no row refers to a coupon that is not there.
LedgerConsistent ==
    /\ \A c \in Coupons :
          IF coupons[c] = NoRow THEN RowsOf(c) = {}
          ELSE coupons[c].uses = Cardinality(RowsOf(c))
    /\ \A row1, row2 \in redemptions :
          row1.coupon = row2.coupon /\ row1.user = row2.user => row1 = row2

\* A caller told 201 has a durable redemption; a caller told that the coupon was
\* refused has none, and will not get one from a transaction still under way.
\* (After 500 the caller may have one: the COMMIT may have arrived.)
AnswerMatchesCommit ==
    \A r \in Requests : pc[r] = "done" =>
        /\ outcome[r] = "SUCCESS" => r \in Granted
        /\ outcome[r] \notin {"SUCCESS", "INTERNAL_ERROR"} =>
              r \notin Granted /\ tx[r] = "none"

\* ADR-0002: a user who has used the coupon is told ALREADY_REDEEMED, even when
\* the coupon has been exhausted since; EXHAUSTED is told only to a user without
\* a use, and only when all uses are taken.
RefusalJustified ==
    \A r \in Requests :
        /\ outcome[r] = "ALREADY_REDEEMED" => HasRedeemed(r)
        /\ outcome[r] = "EXHAUSTED" =>
              /\ ~HasRedeemed(r)
              /\ Cardinality(RowsOf(order[r].coupon)) = MaxUses[order[r].coupon]

\* The remainingUses of the 201 answers count down from max_uses - 1 with no gap
\* and no number told twice, although each was computed before its commit.
RemainingUsesCountDown ==
    \A c \in Coupons :
        {MaxUses[c] - newUses[row.id] : row \in RowsOf(c)}
            = (MaxUses[c] - Cardinality(RowsOf(c))) .. (MaxUses[c] - 1)

\* A redemption commits only while the coupon is valid in the country the client
\* was found in, although the country was resolved, and first compared with a
\* snapshot, long before the row was locked.
CountryAtCommit ==
    [][\A row \in redemptions' \ redemptions :
          coupons[row.coupon].country = row.country]_vars

\* The redemptions made through instance i
MadeBy(i) == {row \in redemptions : order[row.id].instance = i}

\* coupon.redemption{outcome=success} of an instance never exceeds the durable
\* redemptions made through it: nothing is counted before its commit, nor twice.
SuccessCounterNeverOverstates ==
    \A i \in Instances : redemptionCounter[i]["SUCCESS"] <= Cardinality(MadeBy(i))

\* Without faults, and with a connection for every request, no interleaving of
\* redemptions surfaces as HTTP 500: a lost race is always a business answer.
RacesAreBusinessAnswers == \A r \in Requests : outcome[r] # "INTERNAL_ERROR"

\* The transaction of r waits for a row that another transaction has locked.
WaitsForRow(r) == pc[r] = "findForUpdate" /\ ~RowFree(r)

\* ADR-0002:66 says that concurrent uses of different coupons do not block each
\* other: a request for a coupon that exists and that nobody has locked would
\* never find each connection of its instance held by a request that waits for
\* the row of another coupon.
DifferentCouponsDoNotBlock ==
    \A r \in Requests :
        /\ pc[r] \in {"findSnapshot", "begin"}
        /\ coupons[order[r].coupon] # NoRow
        /\ RowFree(r)
        /\ ~PoolFree(r)
        => \E q \in HoldingConnection(order[r].instance) :
              order[q].coupon = order[r].coupon \/ ~WaitsForRow(q)

\* No deadlock between row locks, the unique key and the connection pool: a
\* thread that waits for a connection, or for the row of its coupon, has locked no
\* row, and once it has the row each of its statements runs without waiting,
\* whatever dead threads have left behind.
WaitersHoldNoLock ==
    \A r \in Requests :
        /\ pc[r] \in {"findSnapshot", "begin", "findForUpdate"} => \A c \in Coupons : lock[c] # r
        /\ pc[r] = "insert" => UniqueKeyFree(r)
        /\ pc[r] = "increment" => lock[order[r].coupon] \in {Free, r}

\* Every request is answered, or its instance was killed, and no transaction and
\* no row lock is left behind.  A request for which the GeoIP provider never
\* answers waits for nothing else, and holds nothing others wait for.
EveryRequestSettles ==
    \A r \in Requests :
        <>[](/\ pc[r] \in Ended \/ AwaitingProvider(r)
             /\ tx[r] = "none"
             /\ \A c \in Coupons : lock[c] # r)

\* What the callers see of it all
AnswerOf == [r \in Requests |-> IF pc[r] = "done" THEN outcome[r] ELSE NoOutcome]
LeftOf == [r \in Requests |-> IF r \in Granted
                              THEN MaxUses[order[r].coupon] - newUses[r] ELSE 0]

Contract == INSTANCE RedemptionContract WITH
    granted <- Granted, answer <- AnswerOf, left <- LeftOf

\* The statements, transactions and failures of the service implement the
\* indivisible grants of RedemptionContract.
ImplementsContract == Contract!Spec

=============================================================================
