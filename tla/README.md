# Verification of go-ewallet-backend

TLA+ models of the e-wallet backend, checked with TLC and proved about with
TLAPS. The models are translations of the Go code and of the SQL it sends;
where a comment or the repository's README says something else, the code wins and the
difference is reported below.

Run a check with `tlc -config <file>.cfg <module>` and the proofs with
`tlapm <module>_proofs.tla`.

## The system

One Go process (Gin) in front of PostgreSQL (READ COMMITTED, the default of
`BeginTx(ctx, nil)`) and Redis. Every HTTP request is a goroutine; each process
also runs one outbox worker.

| Component | State | Operations | Talks to |
|---|---|---|---|
| Transfers (`service/wallet.go`, `repository/wallet.go`) | `wallets.balance`, `transfers` | `TransferWithIdempotency` | idempotency, ledger, outbox insert, inside one transaction |
| Top ups (`service/wallet.go`, `repository/topup.go`) | `top_up_orders`, `wallets.balance` | `CreateTopUp`, `ConfirmTopUp` | the same |
| Idempotency (`service/idempotency.go`, `repository/idempotency.go`) | `idempotency_keys` | `Reserve`, `Complete`, `Fail`, `resolveExisting*` | called by the three above |
| Ledger (`repository/ledger.go`) | `ledger_entries` | `CreateTx` | called by transfer and confirmation |
| Outbox insert (`publishEventTx`, `OutboxRepository.CreateTx`) | `outbox_events` | insert | called by transfer and confirmation |
| Outbox publisher (`service/outbox_publisher.go`, `repository/outbox.go`) | `outbox_events`, Redis stream `notification:events` | `Start`, `publishBatch`, `GetPendingForPublish`, `MarkPublished`, `RecordRetry` | PostgreSQL and Redis, without a common transaction |
| Balance arithmetic | none | `validateAndApplyTopUp`, `validateAndApplyTransfer`, the inline checks of `TransferWithMetadataTx` | |
| Sessions (`service/auth.go`, `repository/refresh_token.go`) | `refresh_tokens` | `Login`, `Refresh`, `Logout`, `RevokeDevice` | PostgreSQL in separate statements, no transaction; Redis on logout |
| Access tokens (`handler/middleware.go`, `database/redis.go`) | blacklist keys in Redis | `JWTMiddleware`, `BlacklistToken` | Redis, fail-open |
| Rate limiter (`handler/ratelimit.go`) | counters in Redis | one Lua script | Redis, fail-open |
| Registration (`AuthService.Register`) | `users`, `wallets` | insert both in one transaction | |
| Histories (`History`, `TransferHistory` of the repositories) | none | one query per page, LIMIT and OFFSET | the tables above, while they grow |
| Other reads | none | balance, profile, devices | single SELECTs |

What is hard here: read, check and update of a balance are separate statements;
transfers lock two rows; a duplicate request may arrive while the first one is
still in its transaction, or after its answer was lost; a confirmation exists
under several keys; the outbox is drained by several processes into a store
that is not part of the transaction; the session code has no transactions at all.

What makes each part correct: balances within range, explained entry by entry by
the ledger, and conserved in total (transfers, ledger); a credit exactly once per
order (top ups); one effect per key and truthful answers (idempotency); one event
per effect (outbox insert); at-least-once delivery whose duplicates are owed to
faults (publisher); no deadlock and no starvation of a request that has begun.
For the sessions: only a password opens one, a spent token is replaced by no rotation but
those that had read it before, a logout is final, and nobody ends another user's session.
Registration gives an address one owner, with a wallet, or nothing. The rate
limiter bounds what gets through in any span of time and locks nobody out for
longer than it says. A ledger read page by page misses no row, another history at most
rows that share their `created_at`.

## Modules

| Module | Contents |
|---|---|
| `WalletArithmetic` | Go's int64 sums (two's complement of any width) and the three balance checks, against exact arithmetic |
| `WalletService` | the three money-moving requests as concurrent database transactions |
| `WalletProperties` | what `WalletService` must guarantee |
| `AtomicWallet` | the contract of the wallet: the same calls, each in one step |
| `WalletRefinement` | `WalletService` implements `AtomicWallet` |
| `SumTheorems` | sums of functions over finite sets, and induction over sets of naturals |
| `MCWalletArithmetic_proofs` | the theorems about the arithmetic |
| `WalletService_proofs` | theorems about `WalletService`: locks, balances, ledger, keys, deadlock |
| `WalletRefinement_proofs` | theorems about its rows (transfers, orders, entries, events, references, answers, money), and that it implements `AtomicWallet` |
| `OutboxPublisher` | the outbox worker, any number of instances, with its properties |
| `OutboxPublisher_proofs` | the theorems about it |
| `AuthService` | registration, sessions, access tokens and their blacklist, with their properties |
| `AuthService_proofs` | the theorems about it |
| `RateLimiter` | the limiter's key in Redis, its script and the middleware, with their properties |
| `RateLimiter_proofs` | the theorems about it |
| `Histories` | a paged history and a client that reads it while it grows |
| `WalletSystem` | the composition of `AtomicWallet`, `OutboxPublisher` and `Histories` |
| `WalletSystem_proofs` | the theorems about it |
| `MCWalletArithmetic`, `MCWalletService`, `MCOutboxPublisher`, `MCAuthService`, `MCRateLimiter`, `MCWalletSystem` | instances for TLC |

### WalletService

A request `r` carries a call `req[r]` (operation, user, key, recipient or order,
amount, external reference), chosen once. A user is identified with its wallet
(`wallets.user_id` is UNIQUE) and a generated row id with the request that
generated it. `pc[r]` is the phase of its handler:

    idle -> begin -> (confirm: order) -> wallets -> commit -> done
                 \-> key exists        order already a success: ack -> done

Each action is the code from one point where PostgreSQL may make it wait to the
next: the INSERT of the key (`Reserve`, `ReserveExisting`), the locking SELECT of
the order (`LockOrder`, `OrderNotFound`, `OrderAlreadyFailed`), each wallet row
(`LockWallet`, which also reads the balance), the order's UPDATE with its UNIQUE
external reference (`ExecuteConfirm`), the INSERT of an order, whose foreign key
check shares the wallet row (`ExecuteCreate`), and COMMIT. What a transaction has
written is not visible before COMMIT, so the tables change in the `Commit*`
actions only. What it holds is a function of its phase (`SlotHolders`,
`OrderHolders`, `ExtHolders`) and of `wlock`. `seen` is the balance read under
the lock, which every later check, snapshot and ledger entry uses; the balance
itself is updated relatively (`balance = balance + $1`), as in the SQL.

`Abort` is any failure before the transaction has committed: an SQL error, a
cancelled context, a crash of process or database, or a broken connection. The rollback undoes
all of it. `Answer` covers an answer lost after COMMIT. `FailOrder` is the one
step of the environment: `ConfirmTopUp` reads status `failed`, and nothing in the
repository writes it.

`TxAbortsOnError` is TRUE in PostgreSQL: after the duplicate key error of
`Reserve`, the lookup of the existing row in the same transaction fails (25P02).
FALSE is the protocol as its code is written; the run `replay` uses it to check
what `resolveExisting*` would answer.

### OutboxPublisher

`status`, `retryCount`, `waiting` are the committed columns (`waiting`: the
backoff window of `updated_at` is open); `todo`, `sent`, `failed` are the parts of
each worker's batch, whose rows it holds under FOR UPDATE; `copies` counts stream
entries. `Select` is the polling query: due rows, oldest first, LIMIT, SKIP
LOCKED.

One call of `XAdd` is not one command. `database/redis.go:13` leaves `MaxRetries` at the
default of go-redis, 3, so the client sends a command without a timely reply
again, up to `Attempts` = 4 times in one call, and any of those may be executed, at
once, later or never. A command given up on is counted in `lost` and stays in
`flight`, until `Arrive` makes it an entry, or for ever. `Publish` is a call that
returns nil, answered by its last command, with `MarkPublished`; `Fail` is a call that reports an
error, all of whose commands were given up on or never left, with `RecordRetry`; `Commit` makes
both visible. `Abort` is a rollback, for whatever reason. Where the session or the
context is lost under a worker that is in `XAdd` or about to call it, the
call still goes on, and the worker notices at `MarkPublished` or `RecordRetry`:
`Abort` then leaves the commands of that call in flight, and its rows are free for
another worker. `EmptyPoll` is a poll that returns with
nothing, which includes the error of the query once `POWER(2, retry_count)` is
out of range (`Overflowed`, `QueryFails`). Windows are not timed; `Commit` may find
one already over because `updated_at` is the start of the transaction.

### AtomicWallet and WalletRefinement

`AtomicWallet` says what a client may rely on: a transfer, an order or a
confirmation takes effect in one step, on exact integers, under a key nobody has
used, or it is refused for a reason that is true at that moment (`Justified`).
There are no locks, phases or snapshots in it. `WalletRefinement` maps the committed
tables to it: an order without its balance snapshots (`OrderView`), and of a key
only whose it is (`OwnerView`). A transaction takes effect in its commit step and is
answered there, so the mapping needs no history or prophecy: the calls are strictly
serializable. The interesting half are the refusals. They are computed from
locked rows read steps earlier, and `ImplementsAtomicWallet` says they still
hold when they are given. The contract allows `internal` only for a used key or
a used external reference, and never the answers "still processing" and "previously
failed", which the code has branches for and cannot give.

### AuthService

A registration is one transaction (`RegisterInsert` waits for a transaction that
holds the same address, `RegisterCommit` writes both rows). Everything else is one
statement per action, because another request may run between any two: a
rotation is `RefreshLookup`, `RefreshRevoke`, `RefreshIssue`; a replayed token is
`RefreshLookup`, `RefreshReuse`; a logout is `LogoutAccess` (Redis) and
`LogoutRefresh` (PostgreSQL). `Abort` may end a handler between them, leaving
what it has done, and errors the code ignores are extra outcomes of the action
(`RefreshReuse`, `LogoutRefresh`). The handler keeps in `call` what it carries from one
statement to the next; `tokens[r]` is the row generated by request `r`.

An access token is its claims, user and expiry: `generateToken` adds no id, so two
tokens issued to a user within one second are one string, and the model has this
too. `blacklist[a]` is the time until which Redis keeps the entry. `redisUp` goes on and
off at any time; while it is off the middleware admits every unexpired token.
Clients use the tokens they were answered with (`Handed`, `Bearer`), old ones
included, by whichever user: a lost answer leaves a row nobody holds.

### RateLimiter

One key, since keys do not interact. Time runs in ticks of a fraction of a second,
because Redis expires keys to the millisecond and `TTL` rounds to seconds;
`count` saturates at `Limit + 1`, above which nothing the code does depends on
it. `Allow`, `Reject` and `FailOpen` each contain the whole script. `watch`,
`seen`, `refused` and `promised` are instrumentation: an observer that may
start, at any moment, to count what gets through in one window's length, and
what the first refused caller was told to wait.

### Histories and WalletSystem

The three paged histories are the same query on different tables, so
`Histories` has one list, newest first, and a client that asks for page after page
until one is empty. A row carries the `created_at` of the start of its transaction, hence
it may be inserted at any place that keeps the newest first (`Insert`). The queries differ
in one point, the parameter `byId` of `ReadPage`: the ledger breaks ties by id
(`repository/ledger.go:70`), orders and transfers do not (`repository/topup.go:97`,
`repository/wallet.go:346`), so that each of their queries may find rows of equal `created_at` in
another order (`Orders`).

`WalletSystem` takes the wallet at its contract, which `ImplementsAtomicWallet`
justifies, and joins it with the publisher and a reader: a commit that owes a
notification is also `Publisher!Emit` of a row of `outbox_events`, and a commit that writes
a row of the history that is read is also `History!Insert`. `Events` has as many rows as
there are calls that may owe one, so `Emit` is never short of a row. Publishing,
expiry and reading are steps of their own.

## Runs

| Run | Checks | Instance |
|---|---|---|
| `arithmetic` | `TopUpIsExact`, `TransferIsExact`, `InlineChecksAgree` | all inputs of a 5-bit integer: every sign, boundary and wrap occurs, and width plays no further part (the theorems drop the bound) |
| `transfers` | types, double entry, one effect per key, keys match effects, true answers, current snapshots, no deadlock, `ImplementsAtomicWallet` | three transfers between two wallets both ways, to oneself, to a missing wallet, of nothing, uncovered, overflowing, over two keys: three requests are enough for one to wait, one to hold and one to have committed |
| `topups` | range, ledger chain, credited once, unique external references, one event per effect, no deadlock, immutable history, `ImplementsAtomicWallet` | two creations and two confirmations of one user's orders, a stranger's confirmation, a shared external reference, a credit that overflows |
| `mixed` | `MoneyConserved`, `RequestsAreAnswered` | four requests: crossing transfers, an order and its confirmations on the same wallets |
| `replay` | `AnswersAreTrue`, `ReplayReturnsOriginal` | repetitions with equal and different payloads, `TxAbortsOnError = FALSE` |
| `replay_aborted` | `ReplayReturnsOriginal`, violated | the same in PostgreSQL |
| `failed_attempt` | `FailedAttemptRemembered`, violated | the same in PostgreSQL |
| `outbox` | types, delivered, duplicates need faults, published is final, events are published | two workers, three events, batches of two, two failing calls, one command given up on, one rollback |
| `outbox_outage` | `EventsArePublished`, violated | two events, an outage longer than the power can count |
| `sessions` | types, `RegistrationIsTrue`, `OldTokenRetired`, `OnlyLoginOpensASession`, `SessionsEndByTheirOwner`, `LogoutIsFinal` | any four calls of a registered user and one still to be registered, in three ticks |
| `ratelimit` | `SlidingBound`, `RetryAfterIsHonest`, `LockoutEnds` | any number of requests, a limit of two, a window of three seconds of four ticks, two failures |
| `system` | `NotifiedOncePerEffect`, `PagesCoverHistory`, `CommitsAreNotified` | an order, its confirmation and a third call that confirms again, orders or transfers; one worker that fails once, gives up one command and is rolled back once; any of the three histories in pages of one, with two values of `created_at` |

Named bounds: `MaxInt64` (width of the integer), `MaxFailures`, `MaxLost` and `MaxAborts`
(faults of the publisher; they are what "Redis recovers" means in a finite run),
`Times` (values of `created_at`), `FaultsApart` (of `system`, below), `MaxPower` (1023 in the code), `MaxTime` (the clock of `AuthService`), `MaxFailures` of
the limiter (errors of its script). Amounts and balances go to `MaxInt64`, so that
insufficient funds and overflow both happen.

Why they are enough. The wallet's cases need one transaction that waits, one that
holds what it waits for and one that has committed: three requests, and a fourth
for a second order. In `sessions` an access token lives one tick and a refresh
token two, of three: both expire, a session outlives its access token, and a token can be put on the
blacklist fresh. Four calls reach a login, two overlapping rotations
and a replay, a login, a rotation, a logout and a replay, or two
registrations of one address and the calls after them. The limiter's failures are the
only bound of `ratelimit`; four ticks per second distinguish rounding up, down and the tie,
and an observer may start at every offset of the window. In `outbox`, one
command given up on is in a call that succeeds, in one that fails or in one that is
rolled back, and arrives before, between or after the other worker's batches; two make the run
four times as long and add no new kind of step, and the theorems have no bound. In `system` a second
confirmation comes before, between and after every step of the first one's
notification, and a history grows to two rows, of one `created_at` or of two: a page can move
under the reader, and two rows of equal time can change places between its pages. The constraint
`FaultsApart` explores the faults of the publisher only where the transfers are read: reader and
publisher share no variable, so that their interleavings show nothing more.

Deadlock is checked in every run: `Terminated` lets a wallet whose requests have all ended
stutter, `EmptyPoll` a worker without events; `AuthService` always has its Redis going on and off,
and time never stops in `RateLimiter`.

### What disagrees with the documentation

1. `replay_aborted`: the README promises that a duplicate request returns the old
   result, and 409 for a key with another payload. `Reserve` looks the existing
   row up in the transaction its failed INSERT has aborted
   (`repository/idempotency.go:43`), so both get a 500. No second effect ever
   happens (`OneEffectPerKey` holds), but the client never sees the original
   result. The integration test of the repository layer runs without a transaction.
2. `failed_attempt`: the mark `failed` of a refused attempt is written through the
   transaction that is then rolled back (`service/wallet.go:124`), so the
   documented 409 "previous request with this idempotency key failed" is
   unreachable and a repetition is executed.
3. `outbox_outage`: events do not retry forever. `POWER(2, retry_count)` is a
   double and fails at 1024 before `LEAST` can cap it
   (`repository/outbox.go:48`); the error is one of the whole poll.

Seen while modelling, without a run of their own:

- The first backoff window is 2 s, where `repository/outbox.go:41` and the README say
  1 s (durations are abstract in `OutboxPublisher`).
- Reuse of a revoked token is meant to end all sessions (`service/auth.go:154`, the test
  `RevokedTokenReused_RevokesAllSessions`). A rotation between its revocation
  and its INSERT has no row to revoke, and its new token survives; so does one whose
  `RevokeAllByUserID` failed, since the error is ignored. `OnlyLoginOpensASession`
  therefore counts a rotation under way as an open session.
- Two overlapping rotations of one token both succeed, because `RevokeByHash` does not say
  whether it changed the row: a session can fork.
- A single successful `XAdd` may append an event up to four times, because the client resends
  (`database/redis.go:13`), and an entry may follow the committed mark of another worker,
  because a worker learns of its lost session only after its XADD. The documentation promises
  that no event is lost, and not that it comes once; `DuplicatesNeedFaults` counts the extra entries.
- Orders and transfers are paged without a tie-break (`repository/topup.go:97`,
  `repository/wallet.go:346`): a reader may be shown one of two rows of equal `created_at` twice and the
  other never. `PagesCoverHistory` leaves exactly these rows out.
- A logout reports success when Redis or PostgreSQL failed, and the access token
  stays valid.
- Two access tokens of a user issued within one second are equal: logging one session
  out logs the other's token out.
- `Retry-After` may be 0 while up to half a second of the window is left
  (`RetryAfterIsHonest` has the tolerance).
- `(page-1)*limit` of a huge page number wraps to a negative OFFSET, which is an error of the query.

## Fairness

`FairSpec` of `WalletService` is weak fairness of `Step(r)`, the handler's own
next step: a goroutine keeps running and PostgreSQL executes a statement whose
locks are free. Nothing is assumed about arrivals, `Abort` or `FailOrder`. Strong
fairness is not needed: with finitely many requests, a lock that is free stays
free or is taken by one of finitely many others. `FairSpec` of `OutboxPublisher`
is weak fairness of each worker's loop (the ticker keeps calling `publishBatch`)
and of `Expire` (time passes); XADD failures and rollbacks are bounded and
unconstrained otherwise. `FairSystemSpec` of `WalletSystem` asks the same of its
workers and windows and nothing of callers: a commit is notified although nobody
calls again. `FairSpec` of `RateLimiter` is weak fairness of `Tick`: time passes,
whatever callers do. `AuthService` states no liveness.

## Proofs

All theorems hold for every set of requests, wallets, keys, calls, workers and
events, for every integer width, limit, window and lifetime, under the named assumptions of
the modules, which TLC also evaluates on its instances. Every invariant and every action property
that a passing run checks is the statement of a theorem, but for `ReplayReturnsOriginal`, which
is about a connection PostgreSQL does not give, and liveness.
The strengthened invariants were checked by TLC on the instances of the runs before they were
proved.

**Assumptions.** `MaxInt64IsNat`, `WalletAssumption`, `NullAssumption`, `AtomicAssumption`,
`OutboxAssumption`, `RateAssumption`, `AuthAssumption`, `AuthNulls` say what the constants are. `WalletsAreFinite`: the
table of wallets is finite, so that its balances have a sum. `NullViewAssumption`
and the second half of `CallsAssumption`: SQL's NULL is not a row. The first half of
`CallsAssumption`: a caller is authenticated and has a wallet, its key is a key and its amount a
number, which the handlers check before they call the service.
`SystemAssumption`: `LIMIT` is positive, an event is named by the order of its insertion, and faults are counted.

**Sums** (`SumTheorems`). A sum over wallets or orders is a fold, which is a recursion
over data. What makes it provable: the set of the naturals for which a statement holds is a
set, and a set of naturals has a least element (`LeastNat`), so that induction on the size of the
index set needs no operator as a parameter (`NatSetInduction`). From it come the three facts the
proofs use: equal values have equal sums (`SumAgree`), a new index adds its
value (`SumAdd`), and a changed value changes the sum by the difference (`SumMove`).

**Arithmetic** (`MCWalletArithmetic_proofs`). `TopUpsAreExact`, `TransfersAreExact` and
`InlineChecksAreEquivalent` are the properties of the fuzz tests for every width, and the agreement
of the tested helper with the code that runs. The inductive invariant is that what was drawn are
balances and an amount.

**Wallet service** (`WalletService_proofs`). The inductive invariant is `TypeOK /\ LockInv`
(`TypeAndLocks`). Type correctness alone is not inductive: a confirmation that
commits reads an order row, and must have found one. `LockInv` says what each
transaction has established in its phase (`PhaseOK`: its locks are among those it wants,
the verdict on its locked balances was favourable, its order is visible and
still pending), that rows named after a request do not exist before it ends
(`Fresh`), that orders, key slots and wallet rows have exclusive holders
(`OrderMutex`, `SlotMutex`, `WalletMutex`), and that a balance read under a lock is the
committed one (`SnapshotsAreCurrent`). Steps fall into three kinds with a lemma
each: a quiet step that changes no table, the quiet end of a request, and a
commit; a commit keeps other requests' facts because it only writes rows its own locks cover.

- `BalancesStayInRange` rests on `TransferExact` and `TopUpExact` (an accepted amount gives the
  exact sum, which is a balance) and on the lock: `wallets` has no CHECK on the balance, and the
  check and the UPDATE are separate statements.
- `LedgerIsComplete`: every ledger is a chain from the opening to the current
  balance; the entry of a commit starts at the snapshot, which is the balance the chain ends at.
- `HistoryIsNeverRewritten` needs `Fresh` and `SlotMutex`: a commit writes rows that
  do not exist yet, or an order that is still pending.
- `KeysAndEffectsAgree` follows from `KeyInv`, which is inductive beside `LockInv`: the slot a commit
  fills is empty, and no resource a key points at is taken back (`HistoryKept`, `OrdersStay`).
  `KeyInv` says more than the property: the property allows a `failed` key without an effect,
  as the documentation intends, and the code never commits one (the run `failed_attempt`).
  `OneIntentOneEffect` follows: two effects under one slot would both own its row.
- `NoCycleOfWaits`. `LocksAreOrdered` is the invariant that a request holds lower wallet ids
  than it still wants and that a creation that waits holds nothing. Of all wallets locked by somebody who
  waits for another, take the highest: its holder waits for a yet higher one, or
  for a holder that waits for nothing. Key slots and orders are
  acquired before any wallet, and by one transaction each, hence close no cycle.

**Rows, books and answers** (`WalletRefinement_proofs`). The effect of each commit is a lemma
(`TransferEffect`, `ConfirmEffect`, ...), and each property of the tables is
inductive beside `LockInv`, most after a strengthening.

- `RowsAreAskedFor` (`RowsInv`): a row is what the request it is named after asked for. A transfer's row
  and a key's owner are found by the request's own call, which never changes.
- `OneEventPerEffect` and `OrdersAreCreditedOnce`: a commit adds the one event or entry of an effect that was not there
  (`Fresh`, or a pending order), and an effect that is there is never effected again.
- `BooksAreDoubleEntry` needs `EntriesOwned`: no entry names a transfer that does not exist yet, or the
  new debit and credit might not be the only ones.
- `ReferencesAreUnique` needs `ExtInv`: the reference of a confirmation between its UPDATE and its COMMIT is unused
  and its alone, which is what the unique index makes an INSERT wait for.
- `AnswersStayTrue` (`AnswersInv`): an answer is true when it is given, and what it names is never taken back. It uses
  `KeyInv` and `RowsInv`: a replayed success names the original's row.
- `MoneyIsConserved` (`MoneyInv`): finitely many orders have succeeded, and the balances sum to
  the openings and those orders' amounts. A transfer moves two terms of one sum by opposite
  amounts, a confirmation adds a term to one sum and its amount to the other.

**The refinement** (the same module). `WalletIsAtomic`: initial states map to initial
states, a commit maps to `Transfer`, `Create`, `Confirm` or `Acknowledge`, an answer without
a commit to `Refuse` or `Replay`, and every other step is invisible. It uses every invariant above that speaks of one request:
`SnapshotsAreCurrent` makes the verdict of a refusal true at the moment it is given, `BalancesInRange` makes the wrapped
comparison say what exact integers say, `SlotMutex` makes the slot free at the commit, `RefsInv` the
reference, and `Unanswered` (a request that has not ended has no answer) that it is answered once.

**Outbox publisher** (`OutboxPublisher_proofs`). `OutboxInvariant`: batches are disjoint and
pending, and an event has, in the stream and in flight together, at most as many entries as commands
were given up on and batches rolled back, plus one if it is marked
(committed, or sent in an open batch). A command given up on pays for itself; a rollback unmarks
and pays for the entry it leaves behind or in flight; an arrival changes neither side. From it `NoEventIsLost`,
`DeliveryIsOnceButForFaults` and `NoneIsSentAfterItsMark`: a marked event is in nobody's batch, so that only
its commands in flight reach the stream. `PublisherTypeCorrect` is inductive by itself.

**Sessions and accounts** (`AuthService_proofs`). `AuthInvariant` is inductive: it holds what a handler may still rely on
between two statements. A row it has read may have been revoked meanwhile, but is still
there and still its user's (`RequestOK`); an address is being registered by one transaction (`EmailMutex`); a
blacklist entry outlives its token, whose life it is computed from at the logout (`EntriesLast`). From it
`RegistrationStaysTrue`, `OldTokensRetire`, `SessionsEndByOwner`, `LogoutStaysFinal` and `OnlyLoginsOpen`. `OldTokensRetire`
needs that a successor exists only once its token is revoked (`Retired`), and that a revocation
lasts: the lookup of any later rotation then sees it. `OnlyLoginsOpen` follows the
rows: a row is inserted by a login or by a rotation past its lookup, which counts as an open
session of the same user, and no row becomes valid again.

**Rate limiter** (`RateLimiter_proofs`). `KeysExpire` is the small invariant that a counter is never
without a time to live, because INCR and EXPIRE are one script. `SlidingBoundHolds` needs `SpanBound`,
which splits on where the span lies: a window that was open when the span began can
contribute at most `Limit - 1` to it, since its first request was earlier;
a window opened within the span outlives it, so there is no third one. Both
together make `2 * Limit - 1`, and each failure adds one. `RetryAfterStaysHonest` (`HonestInv`): what was
promised and what is left shrink together, and nothing moves the end of an open window.

**The system** (`WalletSystem_proofs`). `PublisherRuns` and `WalletRuns`: seen
through the variables of either part, the composition is that part, so that its theorems hold in it. `OneNoticePerEffect` combines
`DeliveryIsOnceButForFaults` with `NoticeInv`: an event is about an effect that has happened, and no
two are about one transfer or order. The sum over the events of an effect has therefore one term at most. `ReadersMissNothing`
(`HistoryInv`): a row that is owed and was not shown lies behind the pages read so far, since an insertion moves a row
backwards or not at all; of a list without tie-break this holds of the rows whose `created_at` is theirs alone, which
keep their place in every order of the ties (`PlacesAreKept`).

**Model-checked only**: liveness (`RequestsAreAnswered`, `EventsArePublished`,
`LockoutEnds`, `CommitsAreNotified`), which rests on fairness and ENABLED and is beyond
the prover; and the three violations, which are behaviours of an instance.

## Assumptions of the models

PostgreSQL is READ COMMITTED; a unique index makes an INSERT wait for the
transaction that holds the value; Redis keeps its keys until they expire, also
while it cannot be reached; the clocks of the processes, PostgreSQL and Redis agree;
go-redis resends a command at most `MaxRetries` times, 3 unless it is set. `orders.status = 'failed'` is
written by somebody outside the repository (`FailOrder`).

## Not modelled

Password hashing and JWT signatures: cryptography. Devices, user agents and addresses of
sessions: text that nothing decides on. HTTP parsing, status codes and wording,
payload contents, descriptions, logging. Durations of backoff and timeouts. Reads of one
SELECT (balance, profile, devices): their result is a row some commit wrote.
Connections, configuration and the start of the process: I/O. The OTP endpoint
is a stub. The migrations appear as the types, keys and checks the models rest on.

## Plan

Done: the wallet with its contract, the publisher, sessions and registration, the
rate limiter, the histories and their composition, with their runs; a theorem for every
invariant and action property the passing runs check (but `ReplayReturnsOriginal`), and for the refinement.

Left:

1. The theorems of the parts restated of the composition where they say more there: money
   conserved by `AtomicWallet` itself, a contract that would be worth little if it did not keep it.
2. The steps that liveness rests on and the prover does reach: that a waiting request's
   rank in the lock order sinks, that a publisher's batch only shrinks.
