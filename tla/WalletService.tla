---------------------------- MODULE WalletService ----------------------------
(***************************************************************************)
(* The money-moving requests of the e-wallet: TransferWithIdempotency,     *)
(* CreateTopUp and ConfirmTopUp (internal/service/wallet.go) with the      *)
(* repositories they call, running concurrently against one PostgreSQL     *)
(* database at READ COMMITTED.                                             *)
(*                                                                         *)
(* A request is one HTTP call.  Its database transaction is the sequence   *)
(*     begin -> [order] -> wallets -> commit -> done                       *)
(*           \-> (replay of a key)  \-> ack (order was already confirmed)  *)
(* and each step is the stretch of code up to the next statement that can  *)
(* wait for another transaction.  What a transaction writes is invisible   *)
(* until COMMIT, so the tables change in the Commit actions only; what it  *)
(* locks is derived from its phase and from wlock.                         *)
(*                                                                         *)
(* A user is identified with its wallet (wallets.user_id is UNIQUE), and a *)
(* generated reference or row id with the request that generated it.       *)
(***************************************************************************)
EXTENDS WalletArithmetic, Sequences

CONSTANTS
  Requests,         \* HTTP calls
  Wallets,          \* wallets.id of the registered users
  WalletIds,        \* ids a client may name as recipient
  Keys,             \* values of the Idempotency-Key header
  ExtRefs,          \* external references a client may send with a confirmation
  Calls,            \* the calls each request may carry
  Opening,          \* balance of each wallet when the ledger starts
  TxAbortsOnError,  \* an SQL error aborts the transaction (TRUE in PostgreSQL)
  Null              \* SQL NULL, or no such row

Ops == {"transfer", "create", "confirm"}    \* the three idempotency scopes

CallType == [op: Ops, user: Wallets, key: Keys, to: WalletIds, amount: Int64,
             order: Requests \cup {Null}, ext: ExtRefs \cup {Null}]

ASSUME WalletAssumption ==
  /\ WalletIds \subseteq Nat
  /\ Wallets \subseteq WalletIds
  /\ Calls \in [Requests -> SUBSET CallType]
  /\ Opening \in [Wallets -> Balances]
  /\ TxAbortsOnError \in BOOLEAN

-----------------------------------------------------------------------------
(* Rows of the tables, columns that no property tells apart left out.       *)

KeyRow == [by: Requests,    \* the request that reserved the key: its hash and its resource
           status: {"processing", "completed", "failed"}]

TransferRow == [from: Wallets, to: Wallets, amount: Int64,
                senderBefore: Int, senderAfter: Int,
                recipientBefore: Int, recipientAfter: Int]

OrderRow == [wallet: Wallets, amount: Int64, status: {"pending", "success", "failed"},
             ext: ExtRefs \cup {Null}, before: Int \cup {Null}, after: Int \cup {Null}]

LedgerEntry == [ref: Requests,    \* the transfer or the order the entry belongs to
                type: {"transfer", "top_up"}, direction: {"debit", "credit"},
                amount: Int64, before: Int, after: Int]

OutboxEvent == [type: {"transfer.success", "topup.confirmed"},
                by: Requests, user: Wallets, amount: Int64]

\* <<user_id, scope, idempotency_key>>, UNIQUE in idempotency_keys
Slots == Wallets \X Ops \X Keys

ASSUME NullAssumption == /\ Null \notin Requests
                         /\ Null \notin ExtRefs
                         /\ Null \notin KeyRow
                         /\ Null \notin TransferRow
                         /\ Null \notin OrderRow

VARIABLES
  balance,     \* wallets.balance
  keys,        \* idempotency_keys
  transfers,   \* transfers
  orders,      \* top_up_orders
  ledger,      \* ledger_entries of each wallet, in id order
  outbox,      \* outbox_events inserted so far
  req,         \* the call each request carries, chosen once and for all
  pc,          \* where each request is
  wlock,       \* wallet rows each transaction has locked
  seen,        \* balances each transaction read as it locked them
  reply        \* what each client was answered

db   == <<balance, keys, transfers, orders, ledger, outbox>>
vars == <<db, req, pc, wlock, seen, reply>>

InTx == {"begin", "order", "wallets", "commit", "ack"}

Outcomes == {"ok", "amount", "sameWallet", "notFound", "insufficient", "overflow",
             "conflict", "keyFailed", "keyInProgress", "orderFailed", "internal",
             "unknown"}  \* "unknown": a lost answer, or a 500 that says nothing

NoReply    == [kind |-> "none", id |-> Null]
NoSnapshot == [w \in Wallets |-> 0]

Init ==
  /\ balance = Opening
  /\ keys = [s \in Slots |-> Null]
  /\ transfers = [r \in Requests |-> Null]
  /\ orders = [r \in Requests |-> Null]
  /\ ledger = [w \in Wallets |-> <<>>]
  /\ outbox = {}
  /\ req \in {q \in [Requests -> UNION {Calls[r] : r \in Requests}] :
               \A r \in Requests : q[r] \in Calls[r]}
  /\ pc = [r \in Requests |-> "idle"]
  /\ wlock = [r \in Requests |-> {}]
  /\ seen = [r \in Requests |-> NoSnapshot]
  /\ reply = [r \in Requests |-> NoReply]

-----------------------------------------------------------------------------
(* Locks.  PostgreSQL keeps each of them until the transaction ends.        *)

Slot(r) == <<req[r].user, req[r].op, req[r].key>>

\* Mutant: a key under way is not noticed (the insert neither waits nor fails).
SlotHoldersMutant(r) == {}

\* Requests whose uncommitted row occupies the unique slot of r's key.
SlotHolders(r) == {s \in Requests \ {r} : /\ pc[s] \in InTx \ {"begin"}
                                          /\ Slot(s) = Slot(r)}

\* Mutant: the order is read without FOR UPDATE.
OrderHoldersMutant(o) == {}

\* Requests that hold order o (SELECT ... FOR UPDATE OF t).
OrderHolders(o) == {s \in Requests : /\ pc[s] \in {"wallets", "commit", "ack"}
                                     /\ req[s].op = "confirm"
                                     /\ req[s].order = o}

\* Mutant: the balances are read without FOR UPDATE.
WalletHoldersMutant(r, w) == {}

\* Requests that hold wallet w against r.  SELECT ... FOR UPDATE excludes
\* everybody; the foreign key check of an order's INSERT takes KEY SHARE,
\* which only FOR UPDATE excludes.
WalletHolders(r, w) == {s \in Requests \ {r} : /\ w \in wlock[s]
                                               /\ ~(req[r].op = "create" /\ req[s].op = "create")}

\* Mutant: the external reference is claimed before the wallet row is locked.
ExtHoldersMutant(r) == {s \in Requests \ {r} : /\ pc[s] \in {"wallets", "commit"}
                                               /\ req[s].op = "confirm"
                                               /\ req[s].ext = req[r].ext
                                               /\ req[r].ext # Null}

\* Requests whose uncommitted UPDATE holds r's external reference (UNIQUE).
ExtHolders(r) == {s \in Requests \ {r} : /\ pc[s] = "commit"
                                         /\ req[s].op = "confirm"
                                         /\ req[s].ext = req[r].ext
                                         /\ req[r].ext # Null}

\* Wallet rows the transaction must lock.  The row of an order is the caller's
\* own wallet: the lookup of the order has joined it with the caller's id.
Wanted(r) == IF req[r].op = "transfer"
             THEN {req[r].user, req[r].to} \cap Wallets
             ELSE {req[r].user}

\* Mutant: the sender's row first, whatever its id.
NextWalletsMutant(r) == IF req[r].user \notin wlock[r] THEN {req[r].user}
                        ELSE Wanted(r) \ wlock[r]

\* ORDER BY id FOR UPDATE: rows are locked in ascending id.
NextWallets(r) == {w \in Wanted(r) \ wlock[r] : \A v \in Wanted(r) \ wlock[r] : w <= v}

-----------------------------------------------------------------------------
(* Ends of a request.                                                       *)

\* The handler answers, the transaction is over and its locks are free.
Finish(r, kind, id) ==
  /\ pc' = [pc EXCEPT ![r] = "done"]
  /\ wlock' = [wlock EXCEPT ![r] = {}]
  /\ seen' = [seen EXCEPT ![r] = NoSnapshot]
  /\ reply' = [reply EXCEPT ![r] = [kind |-> kind, id |-> id]]
  /\ UNCHANGED req

\* An error return: the deferred tx.Rollback() discards every write, that of
\* failIdempotency included.
Refuse(r, kind) == Finish(r, kind, Null) /\ UNCHANGED db

\* Mutant: an answer lost after COMMIT is reported as a failure.
AnswerMutant(r, id) == Finish(r, "internal", Null)

\* tx.Commit() succeeded; the answer may still be lost on its way.
Answer(r, id) == \/ Finish(r, "ok", id)
                 \/ Finish(r, "unknown", Null)

Goto(r, phase) == /\ pc' = [pc EXCEPT ![r] = phase]
                  /\ UNCHANGED <<db, req, reply>>

-----------------------------------------------------------------------------
(* Before the transaction: validation, and for a top up the overflow check  *)
(* on a balance read outside any transaction.                               *)

Validation(c) ==
  IF c.op = "transfer" THEN IF c.amount <= 0 THEN "amount"
                            ELSE IF c.to = c.user THEN "sameWallet" ELSE "none"
  ELSE IF c.op = "create" THEN validateAndApplyTopUp(balance[c.user], c.amount).err
  ELSE "none"

Submit(r) ==
  /\ pc[r] = "idle"
  /\ Validation(req[r]) = "none"
  /\ Goto(r, "begin")
  /\ UNCHANGED <<wlock, seen>>

Reject(r) ==
  /\ pc[r] = "idle"
  /\ Validation(req[r]) # "none"
  /\ Refuse(r, Validation(req[r]))

-----------------------------------------------------------------------------
(* Idempotency: the INSERT of the key waits for a transaction that holds    *)
(* the same slot, and fails with 23505 when the slot is taken.              *)

Reserve(r) ==
  /\ pc[r] = "begin"
  /\ SlotHolders(r) = {}
  /\ keys[Slot(r)] = Null
  /\ Goto(r, IF req[r].op = "confirm" THEN "order" ELSE "wallets")
  /\ UNCHANGED <<wlock, seen>>

SamePayload(r, s) == /\ req[r].to = req[s].to
                     /\ req[r].amount = req[s].amount
                     /\ req[r].order = req[s].order
                     /\ req[r].ext = req[s].ext

\* The row a completed key points at (resource_id).
ResourceOf(s) == IF req[s].op = "confirm" THEN req[s].order ELSE s

\* Mutant: the payload hash is not compared.
ResolutionMutant(r, row) ==
  [completed |-> "ok", failed |-> "keyFailed", processing |-> "keyInProgress"][row.status]

\* What resolveExisting* answers for a reserved key.
Resolution(r, row) ==
  IF ~SamePayload(r, row.by) THEN "conflict"
  ELSE [completed |-> "ok", failed |-> "keyFailed", processing |-> "keyInProgress"][row.status]

\* The duplicate key error has aborted the transaction, so the lookup of the
\* row fails too (25P02) and the client gets a 500; on a connection where a
\* failed statement does no harm, the row is read and resolved.
ReserveExisting(r) ==
  /\ pc[r] = "begin"
  /\ SlotHolders(r) = {}
  /\ keys[Slot(r)] # Null
  /\ IF TxAbortsOnError
     THEN Finish(r, "internal", Null)
     ELSE LET kind == Resolution(r, keys[Slot(r)]) IN
          Finish(r, kind, IF kind = "ok" THEN ResourceOf(keys[Slot(r)].by) ELSE Null)
  /\ UNCHANGED db

-----------------------------------------------------------------------------
(* Row locks.                                                               *)

\* GetWalletByIDForUpdateTx, and the locking SELECT of TransferWithMetadataTx
\* one row at a time: the balance is read once the lock is granted.
LockWallet(r) ==
  /\ pc[r] = "wallets"
  /\ req[r].op # "create"
  /\ \E w \in NextWallets(r) :
       /\ WalletHolders(r, w) = {}
       /\ wlock' = [wlock EXCEPT ![r] = @ \cup {w}]
       /\ seen' = [seen EXCEPT ![r][w] = balance[w]]
  /\ UNCHANGED <<db, req, pc, reply>>

\* Mutant: the order is looked up without the caller's id.
VisibleOrderMutant(r) == /\ req[r].order \in Requests
                         /\ orders[req[r].order] # Null

\* The order named by r, as GetByReferenceIDForUserTx finds it.
VisibleOrder(r) == /\ req[r].order \in Requests
                   /\ orders[req[r].order] # Null
                   /\ orders[req[r].order].wallet = req[r].user

OrderNotFound(r) ==
  /\ pc[r] = "order"
  /\ ~VisibleOrder(r)
  /\ Refuse(r, "notFound")

\* An order that is already a success is acknowledged again, without a credit.
LockOrder(r) ==
  /\ pc[r] = "order"
  /\ VisibleOrder(r)
  /\ OrderHolders(req[r].order) = {}
  /\ orders[req[r].order].status # "failed"
  /\ Goto(r, IF orders[req[r].order].status = "success" THEN "ack" ELSE "wallets")
  /\ UNCHANGED <<wlock, seen>>

OrderAlreadyFailed(r) ==
  /\ pc[r] = "order"
  /\ VisibleOrder(r)
  /\ OrderHolders(req[r].order) = {}
  /\ orders[req[r].order].status = "failed"
  /\ Refuse(r, "orderFailed")

-----------------------------------------------------------------------------
(* The statements that follow the last lock.                                *)

HoldsWallets(r) == pc[r] = "wallets" /\ wlock[r] = Wanted(r)

TransferVerdict(r) ==
  LET c == req[r] IN
  IF c.to \notin Wallets THEN "notFound"
  ELSE transferVerdict(seen[r][c.user], seen[r][c.to], c.amount)

\* UPDATE both balances, INSERT the transfer and its two ledger entries,
\* complete the key, INSERT the event.
ExecuteTransfer(r) ==
  /\ req[r].op = "transfer"
  /\ HoldsWallets(r)
  /\ TransferVerdict(r) = "none"
  /\ Goto(r, "commit")
  /\ UNCHANGED <<wlock, seen>>

\* The key is marked failed and the transaction is rolled back with it.
FailTransfer(r) ==
  /\ req[r].op = "transfer"
  /\ HoldsWallets(r)
  /\ TransferVerdict(r) # "none"
  /\ Refuse(r, TransferVerdict(r))

\* INSERT the order (the foreign key check shares the wallet row), complete
\* the key.
ExecuteCreate(r) ==
  /\ req[r].op = "create"
  /\ pc[r] = "wallets"
  /\ WalletHolders(r, req[r].user) = {}
  /\ wlock' = [wlock EXCEPT ![r] = {req[r].user}]
  /\ Goto(r, "commit")
  /\ UNCHANGED seen

\* Mutant: the overflow check of CreateTopUp is trusted.
TopUpOfMutant(r) ==
  [err |-> "none", balance |-> seen[r][req[r].user] + orders[req[r].order].amount]

\* validateAndApplyTopUp on the locked balance of the order's wallet.
TopUpOf(r) == validateAndApplyTopUp(seen[r][req[r].user], orders[req[r].order].amount)

\* Mutant: external_reference is not UNIQUE.
ExtTakenMutant(r) == FALSE

ExtTaken(r) == /\ req[r].ext # Null
               /\ \E o \in Requests : orders[o] # Null /\ orders[o].ext = req[r].ext

\* UPDATE the balance and the order, INSERT the ledger entry, complete the
\* key, INSERT the event.  The UPDATE of the order waits for a transaction
\* that has just written the same external reference.
ExecuteConfirm(r) ==
  /\ req[r].op = "confirm"
  /\ HoldsWallets(r)
  /\ TopUpOf(r).err = "none"
  /\ ExtHolders(r) = {}
  /\ ~ExtTaken(r)
  /\ Goto(r, "commit")
  /\ UNCHANGED <<wlock, seen>>

\* Overflow on the locked balance, or an external reference of another order.
FailConfirm(r) ==
  /\ req[r].op = "confirm"
  /\ HoldsWallets(r)
  /\ \/ TopUpOf(r).err # "none" /\ Refuse(r, TopUpOf(r).err)
     \/ /\ TopUpOf(r).err = "none"
        /\ ExtHolders(r) = {}
        /\ ExtTaken(r)
        /\ Refuse(r, "internal")

-----------------------------------------------------------------------------
(* COMMIT: everything the transaction wrote becomes visible at once.        *)

\* Mutant: the key stays as it was inserted.
CompleteKeyMutant(r) == keys' = [keys EXCEPT ![Slot(r)] = [by |-> r, status |-> "processing"]]

\* Mutant: a status the table does not know.
CompleteKeyTypoMutant(r) == keys' = [keys EXCEPT ![Slot(r)] = [by |-> r, status |-> "complete"]]

CompleteKey(r) == keys' = [keys EXCEPT ![Slot(r)] = [by |-> r, status |-> "completed"]]

DebitAndCredit(c) == balance' = [balance EXCEPT ![c.user] = @ - c.amount,
                                                ![c.to]   = @ + c.amount]

\* Mutant: the recipient's entry shows the sender's balance.
TransferEntryMutant(r, w, direction) ==
  LET before == seen[r][req[r].user] IN
  [ref |-> r, type |-> "transfer", direction |-> direction, amount |-> req[r].amount,
   before |-> before,
   after |-> IF direction = "debit" THEN before - req[r].amount ELSE before + req[r].amount]

TransferEntry(r, w, direction) ==
  LET before == seen[r][w] IN
  [ref |-> r, type |-> "transfer", direction |-> direction, amount |-> req[r].amount,
   before |-> before,
   after |-> IF direction = "debit" THEN before - req[r].amount ELSE before + req[r].amount]

CommitTransfer(r) ==
  LET c == req[r] IN
  /\ pc[r] = "commit"
  /\ c.op = "transfer"
  /\ DebitAndCredit(c)
  /\ transfers' = [transfers EXCEPT ![r] =
       [from |-> c.user, to |-> c.to, amount |-> c.amount,
        senderBefore    |-> seen[r][c.user], senderAfter    |-> seen[r][c.user] - c.amount,
        recipientBefore |-> seen[r][c.to],   recipientAfter |-> seen[r][c.to] + c.amount]]
  /\ ledger' = [ledger EXCEPT ![c.user] = Append(@, TransferEntry(r, c.user, "debit")),
                              ![c.to]   = Append(@, TransferEntry(r, c.to, "credit"))]
  /\ outbox' = outbox \cup {[type |-> "transfer.success", by |-> r,
                              user |-> c.user, amount |-> c.amount]}
  /\ CompleteKey(r)
  /\ Answer(r, r)
  /\ UNCHANGED orders

CommitCreate(r) ==
  /\ pc[r] = "commit"
  /\ req[r].op = "create"
  /\ orders' = [orders EXCEPT ![r] =
       [wallet |-> req[r].user, amount |-> req[r].amount, status |-> "pending",
        ext |-> Null, before |-> Null, after |-> Null]]
  /\ CompleteKey(r)
  /\ Answer(r, r)
  /\ UNCHANGED <<balance, transfers, ledger, outbox>>

CommitConfirm(r) ==
  LET o      == req[r].order
      w      == orders[o].wallet
      before == seen[r][w]
      after  == TopUpOf(r).balance
  IN
  /\ pc[r] = "commit"
  /\ req[r].op = "confirm"
  /\ balance' = [balance EXCEPT ![w] = @ + orders[o].amount]
  /\ orders' = [orders EXCEPT ![o].status = "success", ![o].ext = req[r].ext,
                              ![o].before = before, ![o].after = after]
  /\ ledger' = [ledger EXCEPT ![w] = Append(@,
       [ref |-> o, type |-> "top_up", direction |-> "credit",
        amount |-> orders[o].amount, before |-> before, after |-> after])]
  /\ outbox' = outbox \cup {[type |-> "topup.confirmed", by |-> r,
                              user |-> req[r].user, amount |-> orders[o].amount]}
  /\ CompleteKey(r)
  /\ Answer(r, o)
  /\ UNCHANGED transfers

\* Mutant: the second confirmation notifies again.
CommitAckMutant(r) ==
  /\ pc[r] = "ack"
  /\ CompleteKey(r)
  /\ outbox' = outbox \cup {[type |-> "topup.confirmed", by |-> r, user |-> req[r].user,
                              amount |-> orders[req[r].order].amount]}
  /\ Answer(r, req[r].order)
  /\ UNCHANGED <<balance, transfers, orders, ledger>>

\* The order was a success already: only the key is recorded.
CommitAck(r) ==
  /\ pc[r] = "ack"
  /\ CompleteKey(r)
  /\ Answer(r, req[r].order)
  /\ UNCHANGED <<balance, transfers, orders, ledger, outbox>>

-----------------------------------------------------------------------------
(* Failures and the environment.                                            *)

\* An SQL statement or COMMIT fails, the client disconnects and cancels the
\* context, or the process or the database goes down: the database rolls the
\* transaction back and the client learns nothing.
Abort(r) == pc[r] \in InTx /\ Refuse(r, "unknown")

\* Status 'failed' is read by ConfirmTopUp and has no writer in the program:
\* a payment back office sets it on a pending order nobody holds.
FailOrder(o) ==
  /\ orders[o] # Null
  /\ orders[o].status = "pending"
  /\ OrderHolders(o) = {}
  /\ orders' = [orders EXCEPT ![o].status = "failed"]
  /\ UNCHANGED <<balance, keys, transfers, ledger, outbox, req, pc, wlock, seen, reply>>

Terminated == (\A r \in Requests : pc[r] = "done") /\ UNCHANGED vars

Arrive(r) == Submit(r) \/ Reject(r)

\* What the handler of r does once the call has passed validation.
Step(r) ==
  \/ Reserve(r) \/ ReserveExisting(r)
  \/ OrderNotFound(r) \/ LockOrder(r) \/ OrderAlreadyFailed(r)
  \/ LockWallet(r)
  \/ ExecuteTransfer(r) \/ FailTransfer(r)
  \/ ExecuteCreate(r)
  \/ ExecuteConfirm(r) \/ FailConfirm(r)
  \/ CommitTransfer(r) \/ CommitCreate(r) \/ CommitConfirm(r) \/ CommitAck(r)

Next == \/ \E r \in Requests : Arrive(r) \/ Step(r) \/ Abort(r) \/ FailOrder(r)
        \/ Terminated

Spec == Init /\ [][Next]_vars

\* A request that has been received is served: its goroutine keeps running and
\* PostgreSQL executes a statement whose locks are free.
FairSpec == Spec /\ \A r \in Requests : WF_vars(Step(r))

=============================================================================
