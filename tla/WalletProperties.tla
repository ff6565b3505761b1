-------------------------- MODULE WalletProperties --------------------------
(***************************************************************************)
(* What the money-moving requests of WalletService must guarantee.         *)
(***************************************************************************)
EXTENDS WalletService, FiniteSets, FiniteSetsExt, Functions

\* A sum over the balances exists because the wallets table has finitely many
\* rows.  No other property needs it.
ASSUME WalletsAreFinite == IsFiniteSet(Wallets)

\* Every variable holds a value of the column or of the handler it models.
TypeOK ==
  /\ balance \in [Wallets -> Int]
  /\ keys \in [Slots -> KeyRow \cup {Null}]
  /\ transfers \in [Requests -> TransferRow \cup {Null}]
  /\ orders \in [Requests -> OrderRow \cup {Null}]
  /\ ledger \in [Wallets -> Seq(LedgerEntry)]
  /\ outbox \subseteq OutboxEvent
  /\ req \in [Requests -> CallType]
  /\ pc \in [Requests -> InTx \cup {"idle", "done"}]
  /\ wlock \in [Requests -> SUBSET Wallets]
  /\ seen \in [Requests -> [Wallets -> Int]]
  /\ reply \in [Requests -> [kind: Outcomes \cup {"none"}, id: Requests \cup {Null}]]

-----------------------------------------------------------------------------
(* Money.                                                                   *)

\* No balance is ever negative or beyond an int64, whatever transfers and top
\* ups run together: the checks on the locked rows are enough, although
\* wallets has no CHECK on balance and the UPDATEs are relative.
BalancesInRange == \A w \in Wallets : balance[w] \in Balances

\* The ledger of a wallet is an unbroken chain from its opening balance to its
\* current balance: each entry starts where the previous one ended and moves
\* by its amount (chk_ledger_entries_balance_progression).
LedgerExplainsBalance ==
  \A w \in Wallets :
    LET entries   == ledger[w]
        before(i) == IF i = 1 THEN Opening[w] ELSE entries[i - 1].after
    IN /\ \A i \in DOMAIN entries :
            /\ entries[i].before = before(i)
            /\ entries[i].after = IF entries[i].direction = "debit"
                                  THEN entries[i].before - entries[i].amount
                                  ELSE entries[i].before + entries[i].amount
       /\ balance[w] = before(Len(entries) + 1)

\* Money enters by confirmed top ups only and never leaves: the balances sum to
\* the opening balances and the amounts of the orders that succeeded.
MoneyConserved ==
  LET Amount(o) == orders[o].amount
      Credited  == {o \in Requests : orders[o] # Null /\ orders[o].status = "success"}
  IN FoldFunction(+, 0, balance) = FoldFunction(+, 0, Opening) + MapThenSumSet(Amount, Credited)

\* Positions of the entries of wallet w with this reference and direction.
EntriesOf(w, ref, direction) ==
  {i \in DOMAIN ledger[w] : ledger[w][i].ref = ref /\ ledger[w][i].direction = direction}

\* Double entry: a transfer has one debit in the sender's ledger and one credit
\* in the recipient's, with the snapshots of the transfer, and a transfer entry
\* without its transfer does not exist.
DoubleEntry ==
  /\ \A t \in Requests : transfers[t] # Null =>
       LET row == transfers[t] IN
       /\ \E i \in DOMAIN ledger[row.from] :
            /\ EntriesOf(row.from, t, "debit") = {i}
            /\ ledger[row.from][i].before = row.senderBefore
            /\ ledger[row.from][i].after = row.senderAfter
       /\ \E i \in DOMAIN ledger[row.to] :
            /\ EntriesOf(row.to, t, "credit") = {i}
            /\ ledger[row.to][i].before = row.recipientBefore
            /\ ledger[row.to][i].after = row.recipientAfter
  /\ \A w \in Wallets : \A i \in DOMAIN ledger[w] :
       LET e == ledger[w][i] IN
       e.type = "transfer" =>
         /\ transfers[e.ref] # Null
         /\ w = IF e.direction = "debit" THEN transfers[e.ref].from ELSE transfers[e.ref].to

\* An order is credited exactly when it succeeds, once, to its own wallet, with
\* the snapshots the order records, however many confirmations race.
CreditedOnce ==
  \A o \in Requests :
    LET credits(w) == {i \in EntriesOf(w, o, "credit") : ledger[w][i].type = "top_up"} IN
    IF orders[o] # Null /\ orders[o].status = "success"
    THEN /\ \E i \in DOMAIN ledger[orders[o].wallet] :
              /\ credits(orders[o].wallet) = {i}
              /\ ledger[orders[o].wallet][i].amount = orders[o].amount
              /\ ledger[orders[o].wallet][i].before = orders[o].before
              /\ ledger[orders[o].wallet][i].after = orders[o].after
         /\ \A w \in Wallets \ {orders[o].wallet} : credits(w) = {}
    ELSE \A w \in Wallets : credits(w) = {}

\* A payment provider's reference confirms at most one order.
ExtRefsUnique ==
  \A o, p \in Requests :
    /\ orders[o] # Null /\ orders[p] # Null
    /\ orders[o].ext = orders[p].ext
    /\ orders[o].ext # Null
    => o = p

-----------------------------------------------------------------------------
(* Idempotency.                                                             *)

\* The transaction of r has changed something a client can see.
HasEffect(r) == \/ transfers[r] # Null
                \/ orders[r] # Null
                \/ \E e \in outbox : e.by = r

\* "One intent never produces two transactions": of all requests with the same
\* user, scope and Idempotency-Key, concurrent or retried after a lost answer
\* or a rollback, at most one takes effect.
OneEffectPerKey ==
  \A r, s \in Requests : HasEffect(r) /\ HasEffect(s) /\ Slot(r) = Slot(s) => r = s

\* The row that a completed key of r has to point at is there.
ResourceExists(r) ==
  CASE req[r].op = "transfer" -> transfers[r] # Null
    [] req[r].op = "create"   -> orders[r] # Null
    [] req[r].op = "confirm"  -> /\ orders[req[r].order] # Null
                                 /\ orders[req[r].order].status = "success"

\* What a key says of its request is so, whichever way the request ended: no
\* transaction leaves its key 'processing', which would lock the user out, a
\* completed key has the resource it points at, a failed one has no effect, and
\* an effect has its key, completed.
KeysMatchEffects ==
  /\ \A s \in Slots : keys[s] # Null =>
       LET r == keys[s].by IN
       /\ Slot(r) = s
       /\ \/ keys[s].status = "completed" /\ ResourceExists(r)
          \/ keys[s].status = "failed" /\ ~HasEffect(r)
  /\ \A r \in Requests : HasEffect(r) =>
       /\ keys[Slot(r)] # Null
       /\ keys[Slot(r)].by = r
       /\ keys[Slot(r)].status = "completed"

\* What a client is told is so.  A success names a committed resource that is
\* what this client asked for; a refusal means the call changed nothing.
AnswersAreTrue ==
  \A r \in Requests : pc[r] = "done" =>
    LET id == reply[r].id IN
    /\ reply[r].kind = "ok" =>
         CASE req[r].op = "transfer" ->
                /\ transfers[id] # Null
                /\ transfers[id].from = req[r].user
                /\ transfers[id].to = req[r].to
                /\ transfers[id].amount = req[r].amount
           [] req[r].op = "create" ->
                /\ orders[id] # Null
                /\ orders[id].wallet = req[r].user
                /\ orders[id].amount = req[r].amount
           [] req[r].op = "confirm" ->
                /\ id = req[r].order
                /\ orders[id].wallet = req[r].user
                /\ orders[id].status = "success"
    /\ reply[r].kind \notin {"ok", "unknown"} => ~HasEffect(r)

\* "A duplicate request returns the old result": a repetition of a completed
\* request that gets an answer gets the resource of the original.
ReplayReturnsOriginal ==
  [][\A r \in Requests :
       /\ pc[r] = "begin" /\ pc'[r] = "done"
       /\ keys[Slot(r)] # Null
       /\ SamePayload(r, keys[Slot(r)].by)
       /\ reply'[r].kind # "unknown"
       => reply'[r] = [kind |-> "ok", id |-> ResourceOf(keys[Slot(r)].by)]]_vars

\* "409 previous request with this idempotency key failed": after a transfer
\* was refused, a repetition with its key is told so and is not executed.
FailedAttemptRemembered ==
  [][\A r, s \in Requests :
       /\ pc[s] = "done" /\ reply[s].kind = "insufficient"
       /\ r # s /\ Slot(r) = Slot(s) /\ SamePayload(r, s)
       /\ pc[r] = "begin" /\ pc'[r] # "begin"
       => pc'[r] = "done" /\ reply'[r].kind \in {"keyFailed", "unknown"}]_vars

-----------------------------------------------------------------------------
(* Outbox.                                                                  *)

\* Exactly one event for every transfer and for every credited order, written
\* by the transaction that caused it, and none for anything else: a second
\* confirmation of a successful order notifies nobody.
EventPerEffect ==
  /\ \A t \in Requests :
       {e \in outbox : e.type = "transfer.success" /\ e.by = t} =
         IF transfers[t] = Null THEN {}
         ELSE {[type |-> "transfer.success", by |-> t,
                user |-> transfers[t].from, amount |-> transfers[t].amount]}
  /\ \A o \in Requests :
       LET events == {e \in outbox : e.type = "topup.confirmed" /\ req[e.by].order = o}
       IN IF orders[o] # Null /\ orders[o].status = "success"
          THEN \E r \in Requests :
                 events = {[type |-> "topup.confirmed", by |-> r,
                            user |-> orders[o].wallet, amount |-> orders[o].amount]}
          ELSE events = {}

-----------------------------------------------------------------------------
(* Locks.                                                                   *)

\* A balance read under FOR UPDATE stays current until the lock is released,
\* so the checks and the snapshots made from it are those of the commit.
SnapshotsAreCurrent ==
  \A r \in Requests : req[r].op # "create" =>
    \A w \in wlock[r] : seen[r][w] = balance[w]

\* The transactions whose end r waits for.
WaitsFor(r) ==
  CASE pc[r] = "begin" -> SlotHolders(r)
    [] pc[r] = "order" -> IF VisibleOrder(r) THEN OrderHolders(req[r].order) ELSE {}
    [] pc[r] = "wallets" /\ req[r].op = "create" -> WalletHolders(r, req[r].user)
    [] pc[r] = "wallets" /\ req[r].op # "create" /\ wlock[r] # Wanted(r) ->
         UNION {WalletHolders(r, w) : w \in NextWallets(r)}
    [] HoldsWallets(r) /\ req[r].op = "confirm" -> ExtHolders(r)
    [] OTHER -> {}

\* The order key, order, wallets by id, external reference leaves no cycle of
\* waiting transactions: some transaction of every group waits for none of it.
NoDeadlock ==
  \A group \in SUBSET {r \in Requests : pc[r] \in InTx} :
    group # {} => \E r \in group : WaitsFor(r) \cap group = {}

-----------------------------------------------------------------------------
(* Steps and progress.                                                      *)

\* The record of the past is never rewritten: ledgers grow at the end,
\* transfers, keys and events stay as they are, and an order changes once,
\* from pending, keeping its wallet and its amount.
HistoryImmutable ==
  [][/\ \A w \in Wallets : /\ Len(ledger[w]) <= Len(ledger'[w])
                           /\ \A i \in DOMAIN ledger[w] : ledger'[w][i] = ledger[w][i]
     /\ \A t \in Requests : transfers[t] # Null => transfers'[t] = transfers[t]
     /\ \A s \in Slots : keys[s] # Null => keys'[s] = keys[s]
     /\ \A o \in Requests : orders[o] # Null =>
          \/ orders'[o] = orders[o]
          \/ /\ orders[o].status = "pending"
             /\ orders'[o].wallet = orders[o].wallet
             /\ orders'[o].amount = orders[o].amount
     /\ outbox \subseteq outbox']_vars

\* A request that has begun its transaction is answered: no wait for a key, an
\* order, a wallet or an external reference lasts forever.
RequestsAreAnswered == \A r \in Requests : pc[r] = "begin" ~> pc[r] = "done"

=============================================================================
