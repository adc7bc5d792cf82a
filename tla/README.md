# coupon-service: a TLA+ model

Specifications, model-checking runs and machine-checked proofs for
coupon-service, a Spring Boot application that creates discount coupons and lets
users redeem them, and for the scripts that guard and deliver its repository.
Java paths below are relative to `src/main/java/pl/radoslawpiatek/couponservice/`,
scripts are those of `scripts/`.

## 1. The system

| component | state it keeps | operations | works with |
|---|---|---|---|
| Redeem orchestration, `coupon/application/RedeemCouponService` | none of its own; per request: snapshot, resolved country, outcome | `redeem` | snapshot read, client address, GeoIP, redemption transaction, metrics |
| Redemption transaction, `coupon/application/TransactionalCouponRedemptionService` | a database transaction, the row lock of a coupon | `redeem` under `@Transactional` (READ COMMITTED) | redemption repository, clock, UUIDs, metrics |
| Redemption repository, `coupon/adapters/persistence/JdbcCouponRedemptionRepository` | tables `coupons`, `coupon_redemptions` | snapshot, `SELECT ... FOR UPDATE`, exists, insert, conditional update | PostgreSQL |
| Coupon creation, `coupon/application/CreateCouponService` and `JdbcCouponRepository` | table `coupons` and its unique key `normalized_code` | `create` under `@Transactional`, one `INSERT` | PostgreSQL, metrics |
| Metrics, `observability/CouponServiceMetrics` | counters and timers of one JVM, lost with it | record an outcome, start and stop a timer | every use case |
| Domain values, `coupon/domain` | immutable | canonicalise and validate codes, countries, users, capacities | every use case, the CHECK constraints of the tables |
| GeoIP, `geolocation/adapters/IpWhoisGeoLocationResolver` and the stub | none; an HTTP exchange with timeouts and a bounded body | `resolve` | provider, address policy, metrics |
| Client address, `geolocation/adapters/ServletClientIpResolver`, `ForwardedHeaderParser`, `XForwardedForParser`, `CidrBlock` | none; configured trusted proxies and limits | `resolve` | servlet request |
| Web, `coupon/adapters/web`, `observability/web/RequestIdFilter` | the MDC of a pooled worker thread | two POST endpoints, exception mapping, request identifier | use cases |
| Connection pool (`application.yml`) | connections in use, limit 10, timeout 2 s | take, give back, time out | every database access |
| Source delivery, `generate_checksums.py`, `package_source.py`, `check_emp010.py` | checksum manifest, ZIP and its printed digest; per process: the HEAD it resolved, the entries it read | write the manifest, export the tracked source, prove an export reproducible | Git's working tree, index and commits, which a developer changes meanwhile |
| Repository gate, `verify.sh` and sixteen `check_*.py` | none; per run: the step it is at | hold documents, files and the build against their contracts | backlog, refinements, current status, decision log, the code, Maven |
| Coverage gate, `check_emp008.py --report` | none | thresholds on the JaCoCo report, self test with mutated copies | the report of the build |
| Container and build files | none | - | - |

Several instances of the service run against one database. A redemption is, in
order: validation, a snapshot read, client address and country (network), a
comparison with the snapshot, and only then a short transaction that locks the
coupon's row, looks at everything again, inserts the redemption and increments
the counter. The proxy of the transactional bean commits; the orchestrator then
counts the outcome and answers.

What is hard, and what the properties are about:

* *interleaving*: requests of one user and of many users for the last use, on
  several instances; two creations of one code in different case;
* *stale reads*: coupon and country are first compared before a network call;
* *two writes*: redemption row and counter must stand or fall together, and
  the number of remaining uses is computed before the commit;
* *failure*: statements, connections and commits fail; a COMMIT may arrive
  although the client saw an error; instances are killed anywhere;
* *order of side effects*: meters are updated before or after the commit;
* *bounded resources*: a waiting redemption keeps a connection of a finite pool;
* *a repository in motion*: an export reads HEAD, the index and the status of the
  tree one after the other, `make verify` runs sixteen scripts that each read the
  documents anew, and somebody edits, stages, commits and resets meanwhile;
* *rules told more than once*: which paths are left out (four lists), and in which
  state a task is (four documents, checked by different scripts).

`PROJECT.json` lists each hazard at its line with the properties that cover it.

## 2. The modules

| module | role |
|---|---|
| `RedemptionContract` | what a redemption promises its callers: indivisible grants, answers that never contradict them |
| `Redemption` | the service and the database, statement by statement, and its properties |
| `RedemptionInvariant` | the inductive invariant `IInv` |
| `RedemptionProofs` | `Spec => []IInv`, and the safety properties from it; nobody waits with a row lock in hand; the success counter never overstates |
| `RedemptionRefinementProofs` | `Redemption` implements `RedemptionContract`; races on a healthy database never end in 500 |
| `MCRedemption` | constants for the runs, and the specification of a stalled coupon |
| `CouponRegistry` | what a creation promises: a code is registered once, 409 only when another request has registered it |
| `CreateCoupon` | `create`, statement by statement, and its properties |
| `CreateCouponProofs` | its inductive invariant, the one winner, and that it implements `CouponRegistry` |
| `MCCreateCoupon` | constants for its runs: a code in two cases, a malformed one |
| `GeoLookup` | the remote GeoIP resolver: one exchange, step by step, against any provider |
| `GeoLookupProofs` | its inductive invariant, and the safety properties from it |
| `ClientAddress`, `MCClientAddress` | which address is the client's: the algorithm as operators, over all small requests |
| `ClientAddressProofs` | the choice of the address, for headers of any length |
| `SourceDelivery` | manifest, export, delivery check and candidate check, step by step, with the developer's operations and kills between the steps |
| `SourceDeliveryProofs` | the invariant of the exports, and the safety properties from it |
| `MCSourceDelivery` | four paths that differ in which list names them; two symbolic links, one to a file and one to nothing |
| `GovernanceChecks`, `ClosingChecks` | what each function of each check script demands of a working copy, as operators |
| `CoverageGate` | the measured part of `check_emp008.py`, as operators on reports |
| `CoverageGateProofs` | sums over packages; what an accepted report reaches, and when the self test stops |
| `RepositoryGate` | composes the three: `verify.sh` as a process, and a developer who moves tasks and makes mistakes |
| `RepositoryGateProofs` | its types, and what a passing run shows of working copy and build |
| `MCRepositoryGate` | contracts and coverage reports for its runs |

### Redemption and the code

A request is handled by one thread; `pc[r]` is the statement it executes next.
One action is one statement or network call with the Java code up to the next.

| `pc` | action | code |
|---|---|---|
| findSnapshot | `RejectInvalid`, `FindSnapshot`, `ConnectionFails` | `RedeemCouponService` 57-60, catches 66-84 |
| resolve | `ResolveCountry`, `ResolutionFails` | 61-62, 69-80 |
| begin | `BeginTransaction`, `ConnectionFails` | 63, `@Transactional` at `TransactionalCouponRedemptionService` 51 |
| findForUpdate | `FindForUpdate` | 56-57, `JdbcCouponRedemptionRepository.find` |
| exists | `CheckEligibility` | 58-59 |
| insert | `InsertRedemption` | 60-61, repository 58-70 |
| increment | `IncrementIfCapacity` | 62-64 and the `finally` block 77-79 |
| commit, rollback | `Commit`, `CommitFails`, `Rollback` | the transactional proxy |
| committed | `Report` | `RedeemCouponService` 64-65 |

The database is four variables. `coupons` and `redemptions` are the committed
tables; `pending` holds inserted rows of open transactions; `lock` the row locks.
The new value of `current_uses` stays in `newUses` until the commit publishes it
together with the row (`ApplyWrites`). `exists` is a plain READ COMMITTED read, so
it sees committed rows only; an insert waits for an uncommitted row with the same
key. The checks that the row lock makes superfluous - the unique violation, the
`WHERE current_uses < max_uses` of the update - are in the model, and it is a theorem
(`RacesCorrect`) that they decide nothing.

Failures: `StatementFails` (a statement throws, the proxy rolls back), `CommitFails`,
`LoseConnection` (the thread gets an exception at once, the server ends the
transaction later by `ServerRollback` or, if COMMIT was sent, `ServerCommit`), and
`Crash` (all running threads and meters of an instance are gone). The application has
no endpoint that edits or deletes coupons; `DeleteCoupon` and `ChangeCountry` are
edits by hand, which the code re-checks for under the lock, and `CreateCoupon` is
the other use case, seen from here.

### CreateCoupon and the code

`@Transactional` takes the connection before the method runs, so `BeginTransaction`
comes first and even a malformed command (`RejectInvalid`) has a transaction to roll
back. `Insert` is the INSERT, the translation of SQLState 23505 and the counter.
The failures are those of `Redemption`. `CouponCode.of` is the constant
`NormalizedValue`, from codes as written to keys or `Malformed`; the runs give
it two ways to write one code. `CreateCoupon.Owner` is the refinement mapping.

### GeoLookup and the code

A call of `IpWhoisGeoLocationResolver.resolve` is at `start`, `sent` (the request is
out), `reading` (headers accepted, in `readBounded` or `parseCountry`), `closing` (the
country is known, the body is closed) or `done`. The body comes in pieces, of which
`Limit` are allowed; a document is a country, `success=false` or malformed.
`End` is the `finally` block with its two meters. `HeaderVerdict` keeps the order of
lines 94-106, also that a Content-Length that is no number makes `firstValueAsLong`
throw before the status is compared with 2xx. The address policy's verdict
is part of the call's input.

### ClientAddress and the code

`Resolve(q)` is `ServletClientIpResolver.resolve` as a function of the request: mode,
peer, and the field-lines of both headers as lists of elements. An element that
the parsers refuse is `Bad`; `Parses` holds what the two parsers have in common.
The model has one step, and its states are all requests within the bounds.

### SourceDelivery and the code

A snapshot is what a working tree, the index or a commit holds: the content of each
path, and the manifest. A content stands for its SHA-256, and a manifest is the
listing it was computed from, so a manifest matches if both are the same function.
A content may be a symbolic link (`Links`). Git, the index and commits have the link;
`generate_checksums.py` and `shutil.copytree` open what it points to (`Followed`), and
`package_source.py` refuses it (`Ordinary`).

| action | code |
|---|---|
| `ListFiles`, `HashFile` (one file at a time, in the order of the paths), `WriteManifest`, `InterruptManifest` | `generate_checksums.py` 38-41 |
| `Resolve` | `package_source.py` 122-126: `git rev-parse HEAD` |
| `ReadIndex` | 128, `tracked_entries`: `git ls-files --stage` |
| `VerifySource` | `verify_source` 96-118: `git status`, lists, manifest, digests |
| `OpenArchive`, `FinishArchive`, `Announce` | 130-156 |
| `StartDelivery`, `AwaitExport`, `Compare`, `MutateClone` | `check_emp010.py` 195-245 |
| `CandidateCheck` | 248-260, in a repository nobody else works on: one step |

`Verdict` keeps the order of the refusals. `Ignored`, `Excluded`, `Forbidden`,
`Unhygienic` and `Uncopied` are the lists of `.gitignore`, the generator, the exporter, the
archive check and the copy for the candidate; the run gives four paths that are on
different ones. `undisturbed` records whether index and HEAD stayed while an export
was between its first and its last look at Git. A process may be killed between
any two steps; the archive is then left as it is. Each export has a directory of
its own, as those of the delivery check have.

### RepositoryGate and the code

A working copy is what the scripts read of it: rows of the backlog, lines at the top
of each refinement, lines of the current status, the status of the last decisions, a
few features of the code the scripts ask for, files that are missing, and broken contracts.
A contract is a pair of task and file: everything a script wants to find, or not to
find, in that file; `AllContracts` are those that some script knows in some phase. There is one operator for each function of the scripts, with the
function's name where no two scripts share it; `emp003` to `emp011` are the scripts' `main`.
`HasRow` is a search in the text of the backlog, as most scripts make it, and so sees
rows that `parse_markdown_table` leaves out; `SomeLineAccepted` and `SomeLineAllows` are
searches in the current status that another task's line satisfies as well.

`RunScript` is one script of `verify.sh`; `MavenVerify` the build with the checks before it, which may
fail or leave any of the reports; `CheckCoverage` the measured contract; `CheckArtifact` what comes after
it (207-232: the artifact, the OpenAPI document in it, the container, `git diff --check`), any of which may fail. The developer's `MoveTask` puts a task
into a status of its life cycle in all documents at once (`refinement-process.md`);
`Slip` changes one line, row, file or contract only. Both happen at any time, also while
a run is under way.

In `CoverageGate` a counter is missed and covered; a list of packages is the set of their
positions in the report, and `aggregate_package_counter` adds up what the packages at
these positions have. `Reaches` compares by multiplication
what the code compares as quotients. `SelfTestRaises` is `next` without a default, at
line 284: the self test ends with an exception if the first critical package has no
counter of a type.

## 3. The runs

| run | question | bounds |
|---|---|---|
| `redemption_race` | is a race on a healthy database always a business answer, are refusals true and remaining uses gap-free; can a stalled redemption of one coupon keep those of another from ending | 3 requests, 3 users, 2 coupons with capacities 1 and 2, a connection each |
| `redemption_faults` | do tables, answers, success counter and the country at commit survive failures, crashes and edited coupons; does nobody wait with a row lock in hand; is the contract implemented; does `IInv` hold | 3 requests, 2 users, 2 countries, 2 connections, capacity 1 |
| `redemption_liveness` | does everybody end, is every lock released, even if the provider never answers | 3 requests, 2 instances with 1 connection each, failures, crashes |
| `create_race` | does exactly one request get a code, are answers true, does every creation end and leave nothing behind; does `IInv` hold | 3 requests, 2 instances, 2 connections each, failures, crashes |
| `geo_calls` | is each call counted once, under the outcome it ended with; does `IInv` hold; does every call end except after headers whose body stalls | 2 calls, 2 countries, limit of 2 pieces |
| `client_address` | is the client vouched for by trusted hops, and immune to what is left of it | 2 trusted, 2 other addresses, 0-2 lines of 0-3 elements, 2 hops allowed |
| `delivery` | does an announced archive match its manifest, when is it the commit in its name, what does a delivery check that succeeds show, when does a fresh manifest pass, does the candidate check predict, does the delivery check end | 4 paths, 2 contents and 2 links, 2 exports, 2 commits, 5 operations of the developer |
| `verify_gate` | after a run that passed, do the documents agree, which refinements are frozen, is every contract looked at; is the coverage what is promised, when is a good report turned down | 7 of the 12 tasks, 12 contracts, 4 reports, 2 edits |

The bounds let the interesting things happen. Three requests give a user's double
request, or one user too many for two uses. Capacity 1 with three requests
makes the last use contended while a transaction is lost. A second instance
matters where one is killed while requests of the other wait for its lock, which is what
`redemption_liveness` has it for. Two countries suffice, as only equality is compared. A
second coupon matters only where independence is the question, since no statement
touches two coupons. Symmetry over requests and users is used in safety runs only.
Counters are bounded by the number of requests; no other variable grows. A limit of
two pieces has bodies below, at and above it, with and without a declared length;
three elements with two hops allowed give a line that is too long. Each request waits
for at most one lock.

In `delivery` five operations are an edit, a manifest, `git add` and a commit, and one
more that disturbs an export (writing the manifest is a step of its own and does not
count); one new commit is enough to tell the commit in the name from the one archived.
README.md takes two contents and a link to a file, the ignored path one content and a link
to nothing, the other paths one content; the order of the paths puts an ignored one
before README.md, so that a manifest may be read from a tree that changes in between. In
`verify_gate` two edits are a move of a task and a slip, a slip and its repair, or two
slips of different documents; the tasks left out have checks of the same kind as
those touched. Of the reports, one reaches every threshold, one just reaches that for
critical branches, one misses that for lines, and one lacks a counter.

Four runs end with a violation and document that a text and the code disagree:

* `redemption_pool`: ADR-0002 line 66 says redemptions of different coupons do not
  block each other; they share a finite pool in which every waiter for a hot
  coupon holds a connection. In the trace a request on one instance has locked the row
  of a coupon, two on the other wait for it and hold both connections there, and a fourth,
  for a coupon that exists and that nobody has locked, waits for one of these. The run
  has four requests, two instances with two connections each, no faults. With a connection
  for each thread the sentence is true (`CouponsAreIndependent`).
* `geo_bounded`: `GeolocationProperties` 21 describes `responseTimeout` as the bounded
  time for one remote response; it ends with the headers, and the body is read
  without a bound in time (`IpWhoisGeoLocationResolver` 107). `geo_calls` shows that
  this is the only place where a call may stay.
* `delivery_label`: `package_source.py` 2 promises a ZIP "from immutable blobs of a clean Git
  commit". HEAD is resolved at 124, the index read at 128, the tree found clean at 97:
  with a commit in between, the archive has the first commit in its name and the
  files of the second. `UndisturbedIsCommit` says when the sentence is true,
  `DeliveryProvesReproduction` that one undisturbed export of two is enough.
* `gate_malformed_row`: `documentation-governance.md` 19 says that a READY task has an accepted
  refinement. A row that lacks a cell is dropped without an error
  (`check_documentation.py` 117) and may say what it likes.

Three more observations are in the models without a run of their own: the transaction
timer is stopped with outcome SUCCESS before the commit (`TransactionalCouponRedemptionService`
77, `StopTransactionTimer` before `Commit`), although `CouponServiceMetrics` 87 says
"Transaction committed."; and a creation is counted before its commit (`CreateCouponService`
68, `Insert`), although `CouponServiceMetrics` 23 says "Coupon was persisted.". A
commit that fails is a success in both. The redemption counter does this right:
`SuccessCounterNeverOverstates` holds for each instance. A third one is in
`ClosedMeansHonoured`: `check_emp009_refinement.py` 91 asks for the evidence of a verified
EMP-009 only if the refinement itself says `DONE_AND_VERIFIED`. A backlog that says so
alone passes every script, and then no script looks at that evidence; hence the
property's third condition.

Each property of a passing run has a mutant, an alternative definition placed
before the real one and marked `Mutant:`, that breaks it as a plausible bug would:
no `FOR UPDATE`, no second country check, checks swapped, an insert outside the
transaction, a swallowed commit failure, uniqueness of the code as written; a manifest
that may list more than is tracked, an export announced while it is written, no look at
the working tree, a script left out of `verify.sh`, a build whose report nobody looks for,
thresholds on one package only.

### Fairness

`Progress(r)` is weakly fair except at `resolve`: a servlet thread that can run does
run, PostgreSQL grants a free lock, and a thread that waits for a connection ends by
getting one or by the timeout (`ConnectionFails` is part of `Progress`). A thread that
waits for the GeoIP provider has no fairness: the response timeout covers the
headers, the body is read after it (`IpWhoisGeoLocationResolver` 92, 107).
`EveryRequestSettles` therefore says that a request ends or waits there for ever, in
both cases without a transaction or a lock. `ServerRollback(r)` is weakly
fair: PostgreSQL notices a broken connection (TCP keep-alive) and ends its
transaction. Failures, crashes, `ServerCommit` and edits have no fairness. Weak
fairness is enough for the row lock because finitely many requests contend for it.
`StalledCouponSpec` takes fairness away from requests for one coupon: they may stop
with the row locked; the provider answers the others.

In `GeoLookup` the code's own steps, among them the timeout while it runs and the
parsing of a complete body, are weakly fair; nothing is assumed of the provider.
`ClientAddress` needs no fairness.

In `SourceDelivery` a process that runs takes its next step, and the delivery check starts the
export whose turn it is. Nobody has to start a delivery check, kills need not
happen, and nothing is assumed of the developer. `DeliveryEnds` holds under that, also
for exports that fail or are killed. `RepositoryGate` states safety only: nothing obliges
anybody to run `make verify`.

## 4. The proofs

Assumed are `ConstantsOK` and `NoOutcomeOK` of `Redemption`: finitely many requests,
positive capacities, sentinels that are no values. Nothing bounds users, coupons,
instances, capacities or the pool; failures, crashes and edits are allowed.

`IInv` is needed because no safety property is inductive alone. Its argument is:

1. `TransactionsMatchThreads`: a transaction is open exactly while its thread is in
   the method, or has lost it.
2. `LocksMatchTransactions`: a row lock belongs to an open transaction on this coupon,
   and a thread past `findForUpdate` has it.
3. `ReadsAreCurrent`: so the coupon object such a thread works with is the row, its
   country the resolved one and, past the checks, the user has no redemption and
   there is capacity. This is why what was read once may be used later.
4. `PendingWrites`: uncommitted rows belong to lock holders, so there is at most one
   per coupon, and the counter value to be published is one above the current one.
5. `CommittedRows`, `OutcomesMatchThreads`: a row stems from a request whose
   transaction has ended, and outcomes fit the place where a thread is.

With these a commit adds one row of a new user and one use below the capacity, which
keeps `LedgerConsistent`, `RefusalJustified` and `RemainingUsesCountDown`, the last parts.
`RedemptionProofs` groups the actions by what they do to the database (nothing, a
statement, an end without effect, a commit, an edit), proves one step lemma for
each group and concludes `Invariance`. From it follow `TypeCorrect`, `LedgerCorrect`,
`AnswersCorrect`, `RefusalsCorrect`, `RemainingUsesCorrect` and the action property
`CountryCorrect`. `RedemptionRefinementProofs` shows that a commit is `Grant`, an
answer is `Reply`, and every other step a stutter (`Implementation`), and that without
faults and with a connection per request no 500 occurs (`RacesCorrect`).

Two more facts are proved beside `IInv`. `NoHoldAndWait`: whoever waits for a connection or for
the row of a coupon has locked no row (`NoLockYet`: only `BeginTransaction` leads to
`findForUpdate`, and a new transaction has no lock), and the row lock, which every
uncommitted row of that coupon needs (`PendingWrites`), keeps the unique key free for
its holder; so nobody waits in a circle, also with dead threads whose transactions the
server has not ended. And `SuccessCounterCorrect`: the counter of an instance is at
most the number of its requests that were told SUCCESS (`CountsTold`), each step that counts
one tells one (`FinishCounts`), a kill resets the counter, and by `IInv` each request
told SUCCESS has a row of its own in the table.

`CreateCouponProofs` assumes the same kind of constants for creations: finitely many
requests, any codes, keys, instances and pool size. Its `IInv` says that committed rows
belong to ended transactions (`CommittedRows`), that rows in progress are exactly
those of transactions that have inserted (`PendingRows`), that no two rows, in progress or
not, have one key (`KeysUnique`), that the outcome fits the place of the thread
(`ThreadsMatchTransactions`), and that a 409 has a committed row of another request
behind it (`RefusalsMatchRows`). The last is why `OneWinner` holds: where everybody was told
something definite, a loser points at a committed row, and that row's request was told
201. There is one lemma for each kind of step - local to a thread, INSERT, commit,
rollback, kill - and `RegistryImplemented` shows that a commit is `Register`, an ending thread
`Reply`, all else a stutter.

`GeoLookupProofs` assumes finitely many calls and a positive limit. Its `IInv` contains the
types, relates place, outcome and country of a call, and makes the meters the tally of the ended calls:
every action either ends one call and counts it under what it ended with
(`CountedEnd`), or ends none and counts nothing. From it follow `CountedOnce`,
`SuccessIsCountry`, for any provider.

`ClientAddressProofs` needs no induction over steps. `LastUntrusted` says what the search from the
right finds, `Decided` when the headers decide, and `LeftPartUnseen` that the last untrusted
position keeps its distance from the right end under any left part. `VouchedFor` and
`LeftPartDecidesNothing` hold for every bound on the elements of a field-line and on hops.

`SourceDeliveryProofs` is for any paths, contents, lists, commits and exports; assumed are
`ConstantsOK` (sentinels are no contents, the two exports of the delivery check
differ) and `NoArchive` (nor listings nor archives). `ExportInv` follows an export: while
nobody has touched index or HEAD, the commit it has resolved is the last one and what
it has read is the index; so at `VerifySource`, where a clean tree makes the index equal to the
last commit, both agree, and later commits are only appended. `CheckInv` says what the
delivery check has waited for and compared. Neither is implied by the properties, as
these speak of ended exports only. There is one lemma per action, over two lemmas for
all steps of the developer and of one export; `TypeCorrect`, `AnnouncedMatches` (through
`OkMeansMatch`: a verdict of ok makes manifest and files one function), `Undisturbed`, `Reproduced`
and `FreshVerdict` follow. `FreshVerdict` is the exact condition on which a commit with
a fresh manifest is accepted: no link, no forbidden and no excluded file is tracked, and
no ignored file was digested. `CandidatePrediction` needs a third invariant: since a candidate check
passed, nothing has been written, so its verdict is still about the files that are
there (`CandidateInv`); if they are committed unchanged, with a manifest of them, and no
tracked file is ignored or left out of the copy, then the files of the commit with links
followed are those of the snapshot the check has committed for itself
(`CandidateIsHead`); so the export passes exactly if none of them is a link. A tree
with a link passes the candidate check, and its commit is refused.

`CoverageGateProofs` is about reports with any number of packages. `SumFunctionOnSet` is a fold,
defined by recursion over sets, and its value is proved without induction over sets:
a solution of its equation exists for the subsets of at most n elements, hence for all
(`NextLevel`, `EveryLevel`), and two solutions that differ would differ on a smallest set
(`SmallestSet`, `SolutionsAgree`). From this: elements may be added one by one (`SumWithout`), zeros left
out (`SumWithoutZeros`), and a single element is the sum (`SumOfOne`). `ThresholdsHold` says that
skipping packages without a counter is the same as counting them as zero, and that an
empty sum is turned down.
`SelfTestFailsClosed` follows the mutated copies: each misses one threshold, or a group or
the root element, provided the first critical package has the counter that is replaced.

`RepositoryGateProofs` is for any tasks touched, contracts, reports and number of edits. Assumed is
`ConstantsAssumption`: the contracts that may break are among `AllContracts`, the reports
are reports. `GateTypeCorrect` shows that every slip leads to a working copy again. The
invariant is that every script before the next step would succeed on a working copy
that was not edited since the run began (`ScriptsHold`): each step adds one script,
an edit ends the claim. It is a means, no result: `verify.sh` notices no edit. A passed run has
all of them (`PassedAll`), and `FinalStateAgrees` and `FrozenRefinements` are what the scripts say together. For the last
one no single script is enough: a draft of EMP-006 is refused because it wants EMP-004
blocked while another script wants it started, a draft of EMP-010 because it must not
have what `check_emp010.py` looks for, and drafts of EMP-004 and EMP-009 each want to be
the active task. The first step of the documented amendment
(`refinement-process.md` 25) therefore cannot pass `make verify` for five of the tasks. `CoverageInv`, the verdict of the last
step is that of the coverage gate on the report that is there, gives `CoverageCorrect` and
`SelfTestCorrect` from the two theorems above (the verdict outlasts the checks of the artifact); it needs that the static part of
`check_emp008.py`, which the coverage step repeats, has held as the tenth script
(`StaticPartHolds`). `ClosedIsHonoured` is a walk through all scripts: if every task is closed,
none is active, so the refinements of EMP-004 and EMP-009 are no drafts and every script
takes the branch of a verified task (`ClosedPhases`); then each contract is one that a
script has found honoured (`FirstContracts`, `MiddleContracts`, `LastContracts`).

Only model-checked: the liveness properties `EveryRequestSettles` (of both use cases),
`EndsUnlessBodyStalls` and `DeliveryEnds`, and `CouponsAreIndependent`, as liveness under fairness is
beyond the prover; and the four runs that end with a violation. Every invariant and action
property of a passing run is proved. That a ratio compared by multiplication is the
quotient compared as a double (`Reaches`) is an argument of the module's comment, not a proof.

## 5. What is abstracted or left out

* Identifiers and timestamps: a redemption's identifier is its request; `redeemedAt`
  is left out. The upper limit 1000000 of capacities and its check are data.
* The Coupon constructor's validation of rows read back: the CHECK constraints of the
  tables are at least as strict for rows the service has written.
* Client address and GeoIP, in `Redemption`: any country, or unavailability, at any time.
* Inside one element of a forwarding header, and the limit on a header's characters: an
  element is an address or `Bad`. The bits of `CidrBlock` and the table of special-purpose
  ranges: an address is trusted or not, public or not.
* The stub resolver and the validation of configuration at startup.
* HTTP: an answer is its outcome; the mapping to statuses is a table.
* PostgreSQL itself: only row locks, unique keys, READ COMMITTED and commit are used.
* Retries: the service makes none; a client's retry is another request.
* The request identifier filter: `MDC.put`, the chain and `MDC.remove` in a `finally` block, on
  one thread; nothing is shared between requests.
* In the scripts: which tokens a contract consists of, the wording of messages, exit codes
  other than zero and not zero, digests and the bytes of a ZIP (fixed times and order
  make them a function of commit and files), links and indices of documents. Markdown
  is rows and lines; a line that occurs twice is not modelled, a row is.
* `verify.sh` beyond scripts, Maven and coverage: the checks of syntax, Makefile, Java, Docker and
  Compose file before the build, and those of artifact and container after it (207-232), are steps
  that may fail for any reason.
* Edits in the middle of a `make verify` happen in the model, but its properties speak of runs
  without one: `verify.sh` does not notice them, so it promises nothing about them.
* In source delivery, the listing of the files for a manifest is one step (the digests are not), a
  line of the manifest torn by a kill makes it `Garbled`, and a link points to a file outside
  the modelled paths that stays as it is, or to nothing.
* Two exports that share one directory, and a ZIP left behind by a kill after it was
  announced by an earlier run.
* Container and build files: no behaviour.

## 6. Plan

Done: the redemption with its contract, invariant and proofs; creation and its
registry, with the proof of the refinement; the GeoIP exchange and the choice of the
client address with theirs; source delivery; the repository and coverage gates; a proof of every safety property
that a run checks. Next,
most important first:

1. Composition: creation and redemption on one table; a coupon answered with 201 can be
   redeemed. The order of `redeemedAt` with a clock per instance.
2. `ForwardedElement`: the parsers' treatment of quotes, separators and brackets as
   functions over a small alphabet, against the grammar of EMP-006, 7.3; `CidrBlock`
   against the arithmetic definition of a prefix.
3. `Canonical`: codes, countries, users and capacities against the CHECK constraints;
   canonicalisation is a fixed point.
4. Exports that share a directory, with what a kill leaves in it.
