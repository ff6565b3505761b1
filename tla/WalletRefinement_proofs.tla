----------------------- MODULE WalletRefinement_proofs -----------------------
(***************************************************************************)
(* What the committed rows of the wallet say about each other: transfers,  *)
(* orders, ledger entries, events, keys and the answers clients were       *)
(* given; and, resting on it, that WalletService implements AtomicWallet.  *)
(* The locking discipline (LockInv) makes every commit find its rows in    *)
(* the state its checks have seen.  First this is turned into the          *)
(* properties of the books; then each step is shown to be a step of the    *)
(* contract or invisible to it, for every set of requests, wallets, keys   *)
(* and calls.                                                              *)
(***************************************************************************)
EXTENDS WalletRefinement, WalletService_proofs

-----------------------------------------------------------------------------
(* What the commits do, once and for all.                                   *)

\* The row of transfers a commit of r inserts, its entries, and its event.
NewTransfer(r) ==
  LET c == req[r] IN
  [from |-> c.user, to |-> c.to, amount |-> c.amount,
   senderBefore    |-> seen[r][c.user], senderAfter    |-> seen[r][c.user] - c.amount,
   recipientBefore |-> seen[r][c.to],   recipientAfter |-> seen[r][c.to] + c.amount]

TransferEvent(r) == [type |-> "transfer.success", by |-> r,
                     user |-> req[r].user, amount |-> req[r].amount]

LEMMA TransferEffect ==
  ASSUME TypeOK, LockInv, NEW r \in Requests, CommitTransfer(r)
  PROVE  /\ pc[r] = "commit" /\ req[r].op = "transfer" /\ transfers[r] = Null
         /\ req[r].user \in Wallets /\ req[r].to \in Wallets /\ req[r].user # req[r].to
         /\ req[r].amount \in Int64 /\ req[r].amount \in Int
         /\ seen[r][req[r].user] \in Int /\ seen[r][req[r].to] \in Int
         /\ NewTransfer(r) \in TransferRow
         /\ transfers'[r] = NewTransfer(r) /\ NewTransfer(r) # Null
         /\ \A t \in Requests \ {r} : transfers'[t] = transfers[t]
         /\ ledger'[req[r].user] = Append(ledger[req[r].user],
                                          TransferEntry(r, req[r].user, "debit"))
         /\ ledger'[req[r].to] = Append(ledger[req[r].to], TransferEntry(r, req[r].to, "credit"))
         /\ \A w \in Wallets \ {req[r].user, req[r].to} : ledger'[w] = ledger[w]
         /\ outbox' = outbox \cup {TransferEvent(r)}
         /\ CompleteKey(r) /\ Answer(r, r)
         /\ orders' = orders /\ req' = req
<1> DEFINE c == req[r]
<1>1. /\ pc[r] = "commit" /\ c.op = "transfer" /\ CompleteKey(r) /\ Answer(r, r)
      /\ orders' = orders
      /\ outbox' = outbox \cup {TransferEvent(r)}
      /\ transfers' = [transfers EXCEPT ![r] = NewTransfer(r)]
      /\ ledger' = [ledger EXCEPT ![c.user] = Append(@, TransferEntry(r, c.user, "debit")),
                                  ![c.to]   = Append(@, TransferEntry(r, c.to, "credit"))]
  BY DEF CommitTransfer, NewTransfer, TransferEvent
<1>2. /\ c.user \in Wallets /\ c.amount \in Int64 /\ c.amount \in Int
      /\ TransferVerdict(r) = "none" /\ c.to # c.user
  BY <1>1, CallTypes DEF LockInv, PhaseOK, InTx, TypeOK
<1>3. c.to \in Wallets
  BY <1>2 DEF TransferVerdict
<1>4. seen[r][c.user] \in Int /\ seen[r][c.to] \in Int
  BY <1>2, <1>3 DEF TypeOK
<1>5. NewTransfer(r) \in TransferRow
  BY <1>2, <1>3, <1>4 DEF NewTransfer, TransferRow
<1>6. transfers[r] = Null
  BY <1>1 DEF LockInv, Fresh
<1>7. req' = req
  BY <1>1 DEF Answer, Finish
<1>8. /\ transfers'[r] = NewTransfer(r) /\ NewTransfer(r) # Null
      /\ \A t \in Requests \ {r} : transfers'[t] = transfers[t]
  BY <1>1, <1>5, NullAssumption DEF TypeOK
<1>9. /\ ledger'[c.user] = Append(ledger[c.user], TransferEntry(r, c.user, "debit"))
      /\ ledger'[c.to] = Append(ledger[c.to], TransferEntry(r, c.to, "credit"))
      /\ \A w \in Wallets \ {c.user, c.to} : ledger'[w] = ledger[w]
  BY <1>1, <1>2, <1>3 DEF TypeOK
<1> QED
  BY <1>1, <1>2, <1>3, <1>4, <1>5, <1>6, <1>7, <1>8, <1>9

\* The order a creation inserts.
NewOrder(r) == [wallet |-> req[r].user, amount |-> req[r].amount, status |-> "pending",
                ext |-> Null, before |-> Null, after |-> Null]

LEMMA CreateEffect ==
  ASSUME TypeOK, LockInv, NEW r \in Requests, CommitCreate(r)
  PROVE  /\ pc[r] = "commit" /\ req[r].op = "create" /\ orders[r] = Null
         /\ NewOrder(r) \in OrderRow
         /\ orders'[r] = NewOrder(r) /\ NewOrder(r) # Null
         /\ \A o \in Requests \ {r} : orders'[o] = orders[o]
         /\ CompleteKey(r) /\ Answer(r, r)
         /\ UNCHANGED <<balance, transfers, ledger, outbox, req>>
<1>1. /\ pc[r] = "commit" /\ req[r].op = "create" /\ CompleteKey(r) /\ Answer(r, r)
      /\ UNCHANGED <<balance, transfers, ledger, outbox>>
      /\ orders' = [orders EXCEPT ![r] = NewOrder(r)]
  BY DEF CommitCreate, NewOrder
<1>2. orders[r] = Null
  BY <1>1 DEF LockInv, Fresh
<1>3. NewOrder(r) \in OrderRow
  BY CallTypes DEF NewOrder, OrderRow, TypeOK
<1>4. req' = req
  BY <1>1 DEF Answer, Finish
<1> QED
  BY <1>1, <1>2, <1>3, <1>4, NullAssumption DEF TypeOK

\* The order a confirmation leaves, its entry and its event.
CreditedOrder(r) ==
  LET o == req[r].order IN
  [orders[o] EXCEPT !.status = "success", !.ext = req[r].ext,
                    !.before = seen[r][orders[o].wallet], !.after = TopUpOf(r).balance]

CreditEntry(r) ==
  LET o == req[r].order IN
  [ref |-> o, type |-> "top_up", direction |-> "credit", amount |-> orders[o].amount,
   before |-> seen[r][orders[o].wallet], after |-> TopUpOf(r).balance]

TopUpEvent(r) == [type |-> "topup.confirmed", by |-> r, user |-> req[r].user,
                  amount |-> orders[req[r].order].amount]

LEMMA CreditedOrderIs ==
  ASSUME NEW r, orders[req[r].order] \in OrderRow
  PROVE  /\ CreditedOrder(r).status = "success"
         /\ CreditedOrder(r).amount = orders[req[r].order].amount
<1> DEFINE row    == orders[req[r].order]
           before == seen[r][row.wallet]
           after  == TopUpOf(r).balance
<1>1. CreditedOrder(r) = [row EXCEPT !.status = "success", !.ext = req[r].ext,
                                     !.before = before, !.after = after]
  BY DEF CreditedOrder
<1> HIDE DEF row, before, after
<1>2. row \in OrderRow => /\ CreditedOrder(r).status = "success"
                          /\ CreditedOrder(r).amount = row.amount
  BY <1>1 DEF OrderRow
<1> QED
  BY <1>2 DEF row

LEMMA ConfirmEffect ==
  ASSUME TypeOK, LockInv, NEW r \in Requests, CommitConfirm(r)
  PROVE  LET o == req[r].order IN
         /\ pc[r] = "commit" /\ req[r].op = "confirm"
         /\ o \in Requests /\ orders[o] \in OrderRow /\ orders[o] # Null
         /\ orders[o].status = "pending"
         /\ orders[o].wallet \in Wallets /\ orders[o].wallet = req[r].user
         /\ CreditedOrder(r) \in OrderRow
         /\ orders'[o] = CreditedOrder(r) /\ CreditedOrder(r) # Null
         /\ \A p \in Requests \ {o} : orders'[p] = orders[p]
         /\ ledger'[orders[o].wallet] = Append(ledger[orders[o].wallet], CreditEntry(r))
         /\ \A w \in Wallets \ {orders[o].wallet} : ledger'[w] = ledger[w]
         /\ outbox' = outbox \cup {TopUpEvent(r)}
         /\ CompleteKey(r) /\ Answer(r, o)
         /\ UNCHANGED <<transfers, req>>
<1> DEFINE o == req[r].order
<1>1. /\ pc[r] = "commit" /\ req[r].op = "confirm" /\ CompleteKey(r) /\ Answer(r, o)
      /\ orders' = [orders EXCEPT ![o] = CreditedOrder(r)]
      /\ ledger' = [ledger EXCEPT ![orders[o].wallet] = Append(@, CreditEntry(r))]
      /\ outbox' = outbox \cup {TopUpEvent(r)}
      /\ transfers' = transfers
  BY DEF CommitConfirm, CreditedOrder, CreditEntry, TopUpEvent
<1>2. VisibleOrder(r) /\ orders[o].status = "pending"
  BY <1>1 DEF LockInv, PhaseOK
<1>3. /\ o \in Requests /\ orders[o] \in OrderRow /\ orders[o] # Null
      /\ orders[o].wallet \in Wallets /\ orders[o].wallet = req[r].user
  BY <1>2 DEF VisibleOrder, TypeOK, OrderRow
<1>4. CreditedOrder(r) \in OrderRow
  <2>1. seen[r][orders[o].wallet] \in Int /\ TopUpOf(r).balance \in Int
        /\ req[r].ext \in ExtRefs \cup {Null}
    BY <1>2, <1>3, TopUpOfType, CallTypes DEF TypeOK
  <2> QED
    BY <1>3, <2>1 DEF CreditedOrder, OrderRow
<1>5. req' = req
  BY <1>1 DEF Answer, Finish
<1>6. /\ orders'[o] = CreditedOrder(r) /\ CreditedOrder(r) # Null
      /\ \A p \in Requests \ {o} : orders'[p] = orders[p]
  BY <1>1, <1>3, <1>4, NullAssumption DEF TypeOK
<1>7. /\ ledger'[orders[o].wallet] = Append(ledger[orders[o].wallet], CreditEntry(r))
      /\ \A w \in Wallets \ {orders[o].wallet} : ledger'[w] = ledger[w]
  BY <1>1, <1>3 DEF TypeOK
<1> QED
  BY <1>1, <1>2, <1>3, <1>4, <1>5, <1>6, <1>7

LEMMA AckEffect ==
  ASSUME TypeOK, LockInv, NEW r \in Requests, CommitAck(r)
  PROVE  /\ pc[r] = "ack" /\ req[r].op = "confirm"
         /\ req[r].order \in Requests /\ orders[req[r].order] # Null
         /\ orders[req[r].order].wallet = req[r].user
         /\ orders[req[r].order].status = "success"
         /\ CompleteKey(r) /\ Answer(r, req[r].order)
         /\ UNCHANGED <<balance, transfers, orders, ledger, outbox, req>>
<1>1. /\ pc[r] = "ack" /\ CompleteKey(r) /\ Answer(r, req[r].order)
      /\ UNCHANGED <<balance, transfers, orders, ledger, outbox>>
  BY DEF CommitAck
<1>2. VisibleOrder(r) /\ orders[req[r].order].status = "success" /\ req[r].op = "confirm"
  BY <1>1 DEF LockInv, PhaseOK, InTx
<1>3. req' = req
  BY <1>1 DEF Answer, Finish
<1> QED
  BY <1>1, <1>2, <1>3 DEF VisibleOrder

LEMMA FailOrderEffect ==
  ASSUME TypeOK, NEW o \in Requests, FailOrder(o)
  PROVE  /\ orders[o] \in OrderRow /\ orders[o] # Null /\ orders[o].status = "pending"
         /\ orders'[o] # Null /\ orders'[o].status = "failed"
         /\ orders'[o] = [orders[o] EXCEPT !.status = "failed"]
         /\ \A p \in Requests \ {o} : orders'[p] = orders[p]
         /\ OrderHolders(o) = {}
         /\ UNCHANGED <<balance, keys, transfers, ledger, outbox, req, pc, wlock, seen, reply>>
<1>1. /\ orders[o] \in OrderRow /\ orders[o] # Null /\ orders[o].status = "pending"
      /\ orders' = [orders EXCEPT ![o].status = "failed"]
      /\ OrderHolders(o) = {}
      /\ UNCHANGED <<balance, keys, transfers, ledger, outbox, req, pc, wlock, seen, reply>>
  BY DEF FailOrder, TypeOK
<1>2. [orders[o] EXCEPT !.status = "failed"] \in OrderRow
  BY <1>1 DEF OrderRow
<1>3. [orders[o] EXCEPT !.status = "failed"].status = "failed"
  BY <1>1 DEF OrderRow
<1> QED
  BY <1>1, <1>2, <1>3, NullAssumption DEF TypeOK

-----------------------------------------------------------------------------
(* Rows say what their requests have asked for.                             *)

TransfersMatchCalls == \A t \in Requests : transfers[t] # Null =>
  /\ req[t].op = "transfer"
  /\ transfers[t].from = req[t].user
  /\ transfers[t].to = req[t].to
  /\ transfers[t].amount = req[t].amount

OrdersMatchCalls == \A o \in Requests : orders[o] # Null =>
  /\ req[o].op = "create"
  /\ orders[o].wallet = req[o].user
  /\ orders[o].amount = req[o].amount

\* An event was written by a request that has ended, of the kind it tells of.
EventsMatchCalls == \A e \in outbox :
  /\ pc[e.by] = "done"
  /\ req[e.by].op = IF e.type = "transfer.success" THEN "transfer" ELSE "confirm"

\* A confirmation with a completed key has confirmed an order of its own user.
ConfirmsOwn == \A s \in Slots : keys[s] # Null =>
  LET r == keys[s].by IN
  req[r].op = "confirm" => orders[req[r].order].wallet = req[r].user

RowsInv == TransfersMatchCalls /\ OrdersMatchCalls /\ EventsMatchCalls /\ ConfirmsOwn

\* An order keeps its wallet and its amount.
LEMMA OrderKeepsOwner ==
  ASSUME TypeOK, LockInv, [Next]_vars, NEW o \in Requests, orders[o] # Null
  PROVE  /\ orders'[o] # Null
         /\ orders'[o].wallet = orders[o].wallet
         /\ orders'[o].amount = orders[o].amount
         /\ orders[o].status # "pending" => orders'[o] = orders[o]
BY StepHistory, OrdersStay DEF HistoryKept

\* The requests that have ended stay ended, and their answers stay.
LEMMA DoneStays ==
  ASSUME TypeOK, [Next]_vars, NEW s \in Requests, pc[s] = "done"
  PROVE  pc'[s] = "done" /\ reply'[s] = reply[s] /\ req' = req
<1>1. ASSUME NEW r \in Requests, Arrive(r) \/ Step(r) \/ Abort(r)
      PROVE  pc'[s] = "done" /\ reply'[s] = reply[s] /\ req' = req
  <2>1. pc[r] # "done"
    BY <1>1 DEF Arrive, Step, Submit, Reject, Reserve, ReserveExisting, OrderNotFound,
         LockOrder, OrderAlreadyFailed, LockWallet, HoldsWallets, ExecuteTransfer, FailTransfer,
         ExecuteCreate, ExecuteConfirm, FailConfirm, CommitTransfer, CommitCreate,
         CommitConfirm, CommitAck, Abort, InTx
  <2> QED
    BY <1>1, <2>1, StepLocal DEF Local
<1>2. ASSUME NEW r \in Requests, FailOrder(r)
      PROVE  pc'[s] = "done" /\ reply'[s] = reply[s] /\ req' = req
  BY <1>2, FailOrderEffect
<1>3. CASE UNCHANGED vars
  BY <1>3 DEF vars
<1> QED
  BY <1>1, <1>2, <1>3 DEF Next, Terminated

\* A commit that keys the slot of r, when the new row of r is in order.
LEMMA KeyedRows ==
  ASSUME TypeOK, LockInv, KeyInv, ConfirmsOwn, [Next]_vars, req' = req,
         NEW r \in Requests, pc[r] \in InTx \ {"begin"}, CompleteKey(r),
         req[r].op = "confirm" =>
           /\ req[r].order \in Requests /\ orders[req[r].order] # Null
           /\ orders[req[r].order].wallet = req[r].user
  PROVE  ConfirmsOwn'
<1> SUFFICES ASSUME NEW s \in Slots, keys'[s] # Null, req[keys'[s].by].op = "confirm"
             PROVE  orders'[req[keys'[s].by].order].wallet = req[keys'[s].by].user
  BY DEF ConfirmsOwn
<1>1. /\ keys'[Slot(r)] = [by |-> r, status |-> "completed"]
      /\ \A q \in Slots \ {Slot(r)} : keys'[q] = keys[q]
  BY CompleteKeyFresh
<1>2. CASE s = Slot(r)
  BY <1>1, <1>2, OrderKeepsOwner
<1>3. CASE s # Slot(r)
  <2>1. keys'[s] = keys[s] /\ keys[s].by \in Requests
    BY <1>1, <1>3 DEF TypeOK, KeyRow
  <2>2. HasResource(keys[s].by)
    BY <2>1 DEF KeyInv, KeyHasEffect
  <2>3. req[keys[s].by].order \in Requests /\ orders[req[keys[s].by].order] # Null
    BY <2>1, <2>2 DEF HasResource
  <2> QED
    BY <2>1, <2>3, OrderKeepsOwner DEF ConfirmsOwn
<1> QED
  BY <1>2, <1>3

\* The parts of RowsInv after a step whose new rows are in order.
LEMMA StepRows ==
  ASSUME TypeOK, LockInv, KeyInv, RowsInv, [Next]_vars
  PROVE  RowsInv'
<1> USE DEF RowsInv
<1>1. ASSUME NEW r \in Requests, CommitTransfer(r) PROVE RowsInv'
  <2>1. /\ pc[r] = "commit" /\ req[r].op = "transfer" /\ CompleteKey(r) /\ Answer(r, r)
        /\ transfers'[r] = NewTransfer(r)
        /\ \A t \in Requests \ {r} : transfers'[t] = transfers[t]
        /\ outbox' = outbox \cup {TransferEvent(r)}
        /\ orders' = orders /\ req' = req
    BY <1>1, TransferEffect
  <2>2. TransfersMatchCalls'
    BY <2>1 DEF TransfersMatchCalls, NewTransfer
  <2>3. OrdersMatchCalls'
    BY <2>1 DEF OrdersMatchCalls
  <2>4. EventsMatchCalls'
    <3>1. \A e \in outbox : e.by \in Requests
      BY DEF TypeOK, OutboxEvent
    <3>2. \A e \in outbox : pc'[e.by] = "done"
      BY <3>1, DoneStays DEF EventsMatchCalls
    <3>3. pc'[r] = "done"
      BY <2>1, AnswerEnds
    <3> QED
      BY <2>1, <3>2, <3>3 DEF EventsMatchCalls, TransferEvent
  <2>5. ConfirmsOwn'
    BY <2>1, KeyedRows DEF InTx
  <2> QED
    BY <2>2, <2>3, <2>4, <2>5
<1>2. ASSUME NEW r \in Requests, CommitCreate(r) PROVE RowsInv'
  <2>1. /\ pc[r] = "commit" /\ req[r].op = "create" /\ CompleteKey(r)
        /\ orders'[r] = NewOrder(r)
        /\ \A o \in Requests \ {r} : orders'[o] = orders[o]
        /\ UNCHANGED <<balance, transfers, ledger, outbox, req>>
    BY <1>2, CreateEffect
  <2>2. TransfersMatchCalls' /\ OrdersMatchCalls'
    BY <2>1 DEF TransfersMatchCalls, OrdersMatchCalls, NewOrder
  <2>3. EventsMatchCalls'
    BY <2>1, DoneStays DEF EventsMatchCalls, TypeOK, OutboxEvent
  <2>4. ConfirmsOwn'
    BY <2>1, KeyedRows DEF InTx
  <2> QED
    BY <2>2, <2>3, <2>4
<1>3. ASSUME NEW r \in Requests, CommitConfirm(r) PROVE RowsInv'
  <2> DEFINE o == req[r].order
  <2>1. /\ pc[r] = "commit" /\ req[r].op = "confirm" /\ CompleteKey(r) /\ Answer(r, o)
        /\ o \in Requests /\ orders[o] # Null /\ orders[o].wallet = req[r].user
        /\ \A p \in Requests \ {o} : orders'[p] = orders[p]
        /\ outbox' = outbox \cup {TopUpEvent(r)}
        /\ UNCHANGED <<transfers, req>>
    BY <1>3, ConfirmEffect
  <2>2. TransfersMatchCalls'
    BY <2>1 DEF TransfersMatchCalls
  <2>3. OrdersMatchCalls'
    <3>1. orders'[o].wallet = orders[o].wallet /\ orders'[o].amount = orders[o].amount
      BY <2>1, OrderKeepsOwner
    <3> QED
      BY <2>1, <3>1 DEF OrdersMatchCalls
  <2>4. EventsMatchCalls'
    <3>1. \A e \in outbox : e.by \in Requests
      BY DEF TypeOK, OutboxEvent
    <3>2. \A e \in outbox : pc'[e.by] = "done"
      BY <3>1, DoneStays DEF EventsMatchCalls
    <3>3. pc'[r] = "done"
      BY <2>1, AnswerEnds
    <3> QED
      BY <2>1, <3>2, <3>3 DEF EventsMatchCalls, TopUpEvent
  <2>5. ConfirmsOwn'
    BY <2>1, KeyedRows DEF InTx
  <2> QED
    BY <2>2, <2>3, <2>4, <2>5
<1>4. ASSUME NEW r \in Requests, CommitAck(r) PROVE RowsInv'
  <2>1. /\ pc[r] = "ack" /\ CompleteKey(r)
        /\ req[r].order \in Requests /\ orders[req[r].order] # Null
        /\ orders[req[r].order].wallet = req[r].user
        /\ UNCHANGED <<transfers, orders, outbox, req>>
    BY <1>4, AckEffect
  <2>2. TransfersMatchCalls' /\ OrdersMatchCalls'
    BY <2>1 DEF TransfersMatchCalls, OrdersMatchCalls
  <2>3. EventsMatchCalls'
    BY <2>1, DoneStays DEF EventsMatchCalls, TypeOK, OutboxEvent
  <2>4. ConfirmsOwn'
    BY <2>1, KeyedRows DEF InTx
  <2> QED
    BY <2>2, <2>3, <2>4
<1>5. ASSUME NEW o \in Requests, FailOrder(o) PROVE RowsInv'
  <2>1. /\ UNCHANGED <<keys, transfers, outbox, req, pc>> /\ orders[o] # Null
        /\ \A p \in Requests \ {o} : orders'[p] = orders[p]
    BY <1>5, FailOrderEffect
  <2>2. orders'[o].wallet = orders[o].wallet /\ orders'[o].amount = orders[o].amount
    BY <2>1, OrderKeepsOwner
  <2>3. TransfersMatchCalls' /\ OrdersMatchCalls' /\ EventsMatchCalls'
    BY <2>1, <2>2 DEF TransfersMatchCalls, OrdersMatchCalls, EventsMatchCalls
  <2>4. ConfirmsOwn'
    <3> SUFFICES ASSUME NEW s \in Slots, keys[s] # Null, req[keys[s].by].op = "confirm"
                 PROVE  orders'[req[keys[s].by].order].wallet = req[keys[s].by].user
      BY <2>1 DEF ConfirmsOwn
    <3>1. keys[s].by \in Requests /\ HasResource(keys[s].by)
      BY DEF TypeOK, KeyRow, KeyInv, KeyHasEffect
    <3>2. req[keys[s].by].order \in Requests
      BY <3>1 DEF HasResource
    <3> QED
      BY <2>1, <2>2, <3>2 DEF ConfirmsOwn
  <2> QED
    BY <2>3, <2>4
<1>6. CASE UNCHANGED db /\ req' = req
  <2>1. EventsMatchCalls'
    BY <1>6, DoneStays DEF EventsMatchCalls, TypeOK, OutboxEvent, db
  <2> QED
    BY <1>6, <2>1 DEF TransfersMatchCalls, OrdersMatchCalls, ConfirmsOwn, db
<1> QED
  BY <1>1, <1>2, <1>3, <1>4, <1>5, <1>6, OnlyCommitsWrite

\* Every row of the books is owed to a call that asked for just that.
THEOREM RowsAreAskedFor == Spec => [](KeyInv /\ RowsInv)
<1>1. Init => KeyInv
  BY DEF Init, KeyInv, KeyHasEffect, EffectHasKey, HasEffect
<1>2. TypeOK /\ LockInv /\ KeyInv /\ [Next]_vars => KeyInv'
  BY StepKeys
<1>3. Init => RowsInv
  BY DEF Init, RowsInv, TransfersMatchCalls, OrdersMatchCalls, EventsMatchCalls, ConfirmsOwn
<1>4. TypeOK /\ LockInv /\ KeyInv /\ RowsInv /\ [Next]_vars => RowsInv'
  BY StepRows
<1> QED
  BY <1>1, <1>2, <1>3, <1>4, TypeAndLocks, PTL DEF Spec

-----------------------------------------------------------------------------
(* Events.                                                                  *)

\* The events a transfer and an order have caused.
TransferEvents(t) == {e \in outbox : e.type = "transfer.success" /\ e.by = t}
OrderEvents(o) == {e \in outbox : e.type = "topup.confirmed" /\ req[e.by].order = o}

EventOfTransfer(t) ==
  TransferEvents(t) = IF transfers[t] = Null THEN {}
                      ELSE {[type |-> "transfer.success", by |-> t,
                             user |-> transfers[t].from, amount |-> transfers[t].amount]}

EventOfOrder(o) ==
  IF orders[o] # Null /\ orders[o].status = "success"
  THEN \E r \in Requests :
         OrderEvents(o) = {[type |-> "topup.confirmed", by |-> r,
                            user |-> orders[o].wallet, amount |-> orders[o].amount]}
  ELSE OrderEvents(o) = {}

LEMMA EventsSplit ==
  EventPerEffect <=> (\A t \in Requests : EventOfTransfer(t)) /\ (\A o \in Requests : EventOfOrder(o))
BY DEF EventPerEffect, EventOfTransfer, EventOfOrder, TransferEvents, OrderEvents

LEMMA TransferNotifies ==
  ASSUME TypeOK, LockInv, EventPerEffect, NEW r \in Requests, CommitTransfer(r)
  PROVE  EventPerEffect'
<1>1. /\ transfers[r] = Null /\ transfers'[r] = NewTransfer(r) /\ NewTransfer(r) # Null
      /\ \A t \in Requests \ {r} : transfers'[t] = transfers[t]
      /\ outbox' = outbox \cup {TransferEvent(r)}
      /\ orders' = orders /\ req' = req
  BY TransferEffect
<1>2. TransferEvent(r).type = "transfer.success" /\ TransferEvent(r).by = r
  BY DEF TransferEvent
<1>3. ASSUME NEW t \in Requests PROVE EventOfTransfer(t)'
  <2>1. EventOfTransfer(t)
    BY EventsSplit
  <2>2. CASE t = r
    <3>1. TransferEvents(r) = {}
      BY <1>1, <2>1, <2>2 DEF EventOfTransfer
    <3>2. TransferEvents(r)' = {TransferEvent(r)}
      BY <1>1, <1>2, <3>1 DEF TransferEvents
    <3>3. NewTransfer(r).from = req[r].user /\ NewTransfer(r).amount = req[r].amount
      BY DEF NewTransfer
    <3> QED
      BY <1>1, <2>2, <3>2, <3>3 DEF EventOfTransfer, TransferEvent
  <2>3. CASE t # r
    <3>1. TransferEvents(t)' = TransferEvents(t)
      BY <1>1, <1>2, <2>3 DEF TransferEvents
    <3> QED
      BY <1>1, <2>1, <2>3, <3>1 DEF EventOfTransfer
  <2> QED
    BY <2>2, <2>3
<1>4. ASSUME NEW o \in Requests PROVE EventOfOrder(o)'
  <2>1. EventOfOrder(o)
    BY EventsSplit
  <2>2. OrderEvents(o)' = OrderEvents(o)
    BY <1>1, <1>2 DEF OrderEvents
  <2> QED
    BY <1>1, <2>1, <2>2 DEF EventOfOrder
<1> QED
  BY <1>3, <1>4, EventsSplit DEF EventPerEffect, EventOfTransfer, EventOfOrder, TransferEvents,
     OrderEvents

LEMMA CreateNotifiesNobody ==
  ASSUME TypeOK, LockInv, EventPerEffect, NEW r \in Requests, CommitCreate(r)
  PROVE  EventPerEffect'
<1>1. /\ orders[r] = Null /\ orders'[r] = NewOrder(r)
      /\ \A o \in Requests \ {r} : orders'[o] = orders[o]
      /\ UNCHANGED <<transfers, outbox, req>>
  BY CreateEffect
<1>2. NewOrder(r).status = "pending"
  BY DEF NewOrder
<1>3. ASSUME NEW o \in Requests PROVE EventOfOrder(o)'
  <2>1. EventOfOrder(o) /\ OrderEvents(o)' = OrderEvents(o)
    BY <1>1, EventsSplit DEF OrderEvents
  <2> QED
    BY <1>1, <1>2, <2>1 DEF EventOfOrder
<1> QED
  BY <1>1, <1>3 DEF EventPerEffect, EventOfOrder, OrderEvents

LEMMA ConfirmNotifies ==
  ASSUME TypeOK, LockInv, EventPerEffect, NEW r \in Requests, CommitConfirm(r)
  PROVE  EventPerEffect'
<1> DEFINE o == req[r].order
<1>1. /\ o \in Requests /\ orders[o] \in OrderRow /\ orders[o].status = "pending"
      /\ orders[o].wallet = req[r].user
      /\ orders'[o] = CreditedOrder(r) /\ CreditedOrder(r) # Null
      /\ \A p \in Requests \ {o} : orders'[p] = orders[p]
      /\ outbox' = outbox \cup {TopUpEvent(r)}
      /\ UNCHANGED <<transfers, req>>
  BY ConfirmEffect
<1>2. TopUpEvent(r).type = "topup.confirmed" /\ TopUpEvent(r).by = r
  BY DEF TopUpEvent
<1>3. /\ CreditedOrder(r).status = "success"
      /\ CreditedOrder(r).wallet = orders[o].wallet
      /\ CreditedOrder(r).amount = orders[o].amount
  BY <1>1 DEF CreditedOrder, OrderRow
<1>4. ASSUME NEW t \in Requests PROVE EventOfTransfer(t)'
  <2>1. EventOfTransfer(t) /\ TransferEvents(t)' = TransferEvents(t)
    BY <1>1, <1>2, EventsSplit DEF TransferEvents
  <2> QED
    BY <1>1, <2>1 DEF EventOfTransfer
<1>5. ASSUME NEW p \in Requests PROVE EventOfOrder(p)'
  <2>1. EventOfOrder(p)
    BY EventsSplit
  <2>2. CASE p = o
    <3>1. OrderEvents(p) = {}
      BY <1>1, <2>1, <2>2 DEF EventOfOrder
    <3>2. OrderEvents(p)' = {TopUpEvent(r)}
      BY <1>1, <1>2, <2>2, <3>1 DEF OrderEvents
    <3>3. TopUpEvent(r) = [type |-> "topup.confirmed", by |-> r,
                           user |-> orders'[p].wallet, amount |-> orders'[p].amount]
      BY <1>1, <1>3, <2>2 DEF TopUpEvent
    <3>4. orders'[p] # Null /\ orders'[p].status = "success"
      BY <1>1, <1>3, <2>2
    <3> QED
      BY <3>2, <3>3, <3>4 DEF EventOfOrder
  <2>3. CASE p # o
    <3>1. OrderEvents(p)' = OrderEvents(p)
      BY <1>1, <1>2, <2>3 DEF OrderEvents
    <3> QED
      BY <1>1, <2>1, <2>3, <3>1 DEF EventOfOrder
  <2> QED
    BY <2>2, <2>3
<1> QED
  BY <1>4, <1>5 DEF EventPerEffect, EventOfTransfer, EventOfOrder, TransferEvents, OrderEvents

LEMMA StepEvents ==
  ASSUME TypeOK, LockInv, EventPerEffect, [Next]_vars
  PROVE  EventPerEffect'
<1>1. ASSUME NEW r \in Requests, CommitAck(r) PROVE EventPerEffect'
  <2>1. UNCHANGED <<transfers, orders, outbox, req>>
    BY <1>1, AckEffect
  <2> QED
    BY <2>1 DEF EventPerEffect
<1>2. ASSUME NEW o \in Requests, FailOrder(o) PROVE EventPerEffect'
  <2>1. /\ orders[o].status = "pending" /\ orders'[o].status = "failed"
        /\ \A p \in Requests \ {o} : orders'[p] = orders[p]
        /\ UNCHANGED <<transfers, outbox, req>>
    BY <1>2, FailOrderEffect
  <2>2. ASSUME NEW p \in Requests PROVE EventOfOrder(p)'
    <3>1. EventOfOrder(p) /\ OrderEvents(p)' = OrderEvents(p)
      BY <2>1, EventsSplit DEF OrderEvents
    <3> QED
      BY <2>1, <3>1 DEF EventOfOrder
  <2> QED
    BY <2>1, <2>2 DEF EventPerEffect, EventOfOrder, OrderEvents
<1>3. CASE UNCHANGED db /\ req' = req
  BY <1>3 DEF EventPerEffect, db
<1> QED
  BY <1>1, <1>2, <1>3, TransferNotifies, CreateNotifiesNobody, ConfirmNotifies, OnlyCommitsWrite

\* Exactly one event for every transfer and for every credited order, and none
\* for anything else.
THEOREM OneEventPerEffect == Spec => []EventPerEffect
<1>1. Init => EventPerEffect
  BY DEF Init, EventPerEffect
<1>2. TypeOK /\ LockInv /\ EventPerEffect /\ [Next]_vars => EventPerEffect'
  BY StepEvents
<1> QED
  BY <1>1, <1>2, TypeAndLocks, PTL DEF Spec

-----------------------------------------------------------------------------
(* Ledger entries.                                                          *)

\* Positions in a ledger of the entries with this reference and direction, and
\* of the credits of order o.
Positions(q, ref, direction) == {i \in DOMAIN q : q[i].ref = ref /\ q[i].direction = direction}
Credits(q, o) == {i \in Positions(q, o, "credit") : q[i].type = "top_up"}

\* The ledger q has one such entry, between these balances.
Booked(q, ref, direction, before, after) ==
  \E i \in DOMAIN q : /\ Positions(q, ref, direction) = {i}
                      /\ q[i].before = before /\ q[i].after = after

LEMMA AppendEntry ==
  ASSUME NEW q \in Seq(LedgerEntry), NEW e \in LedgerEntry
  PROVE  /\ Append(q, e)[Len(q) + 1] = e
         /\ Len(q) + 1 \notin DOMAIN q
         /\ DOMAIN Append(q, e) = DOMAIN q \cup {Len(q) + 1}
         /\ \A i \in DOMAIN q : Append(q, e)[i] = q[i]
OBVIOUS

LEMMA AppendPositions ==
  ASSUME NEW q \in Seq(LedgerEntry), NEW e \in LedgerEntry, NEW ref, NEW direction
  PROVE  Positions(Append(q, e), ref, direction) =
           IF e.ref = ref /\ e.direction = direction
           THEN Positions(q, ref, direction) \cup {Len(q) + 1}
           ELSE Positions(q, ref, direction)
<1> DEFINE p == Append(q, e)
           n == Len(q) + 1
<1>1. /\ p[n] = e /\ n \notin DOMAIN q /\ DOMAIN p = DOMAIN q \cup {n}
      /\ \A i \in DOMAIN q : p[i] = q[i]
  BY AppendEntry
<1> HIDE DEF p, n
<1>2. Positions(p, ref, direction) = IF e.ref = ref /\ e.direction = direction
                                     THEN Positions(q, ref, direction) \cup {n}
                                     ELSE Positions(q, ref, direction)
  BY <1>1 DEF Positions
<1> QED
  BY <1>2 DEF p, n

LEMMA AppendCredits ==
  ASSUME NEW q \in Seq(LedgerEntry), NEW e \in LedgerEntry, NEW o
  PROVE  Credits(Append(q, e), o) =
           IF e.ref = o /\ e.direction = "credit" /\ e.type = "top_up"
           THEN Credits(q, o) \cup {Len(q) + 1}
           ELSE Credits(q, o)
<1> DEFINE p == Append(q, e)
           n == Len(q) + 1
<1>1. /\ p[n] = e /\ n \notin DOMAIN q /\ DOMAIN p = DOMAIN q \cup {n}
      /\ \A i \in DOMAIN q : p[i] = q[i]
  BY AppendEntry
<1> HIDE DEF p, n
<1>2. Credits(p, o) = IF e.ref = o /\ e.direction = "credit" /\ e.type = "top_up"
                      THEN Credits(q, o) \cup {n} ELSE Credits(q, o)
  BY <1>1 DEF Credits, Positions
<1> QED
  BY <1>2 DEF p, n

\* An entry of another reference changes nothing, and the first one books.
LEMMA BookedStays ==
  ASSUME NEW q \in Seq(LedgerEntry), NEW e \in LedgerEntry, NEW ref, NEW direction,
         NEW before, NEW after, Booked(q, ref, direction, before, after), e.ref # ref
  PROVE  Booked(Append(q, e), ref, direction, before, after)
BY AppendEntry, AppendPositions DEF Booked

LEMMA BookedFirst ==
  ASSUME NEW q \in Seq(LedgerEntry), NEW e \in LedgerEntry,
         Positions(q, e.ref, e.direction) = {}
  PROVE  Booked(Append(q, e), e.ref, e.direction, e.before, e.after)
<1>1. Positions(Append(q, e), e.ref, e.direction) = {Len(q) + 1}
  BY AppendPositions
<1> QED
  BY <1>1, AppendEntry DEF Booked

\* The entries the commits append.
LEMMA TransferEntryFacts ==
  ASSUME TypeOK, NEW r \in Requests, NEW w \in Wallets, NEW direction \in {"debit", "credit"}
  PROVE  LET e == TransferEntry(r, w, direction) IN
         /\ e \in LedgerEntry
         /\ e.ref = r /\ e.type = "transfer" /\ e.direction = direction
         /\ e.before = seen[r][w]
         /\ e.after = IF direction = "debit" THEN seen[r][w] - req[r].amount
                      ELSE seen[r][w] + req[r].amount
<1>1. req[r].amount \in Int64 /\ req[r].amount \in Int /\ seen[r][w] \in Int
  BY CallTypes DEF TypeOK
<1> QED
  BY <1>1 DEF TransferEntry, LedgerEntry

LEMMA CreditEntryFacts ==
  ASSUME TypeOK, LockInv, NEW r \in Requests, CommitConfirm(r)
  PROVE  LET e == CreditEntry(r) IN
         /\ e \in LedgerEntry
         /\ e.ref = req[r].order /\ e.type = "top_up" /\ e.direction = "credit"
         /\ e.amount = orders[req[r].order].amount
         /\ e.before = CreditedOrder(r).before /\ e.after = CreditedOrder(r).after
<1> DEFINE o == req[r].order
<1>1. /\ o \in Requests /\ orders[o] \in OrderRow
      /\ orders[o].wallet \in Wallets /\ VisibleOrder(r)
  BY ConfirmEffect DEF VisibleOrder
<1>2. orders[o].amount \in Int64 /\ seen[r][orders[o].wallet] \in Int /\ TopUpOf(r).balance \in Int
  BY <1>1, TopUpOfType DEF TypeOK, OrderRow
<1>3. CreditedOrder(r).before = seen[r][orders[o].wallet]
      /\ CreditedOrder(r).after = TopUpOf(r).balance
  BY <1>1 DEF CreditedOrder, OrderRow
<1> QED
  BY <1>1, <1>2, <1>3 DEF CreditEntry, LedgerEntry

-----------------------------------------------------------------------------
(* Credits.                                                                 *)

OrderCredited(o) ==
  IF orders[o] # Null /\ orders[o].status = "success"
  THEN /\ \E i \in DOMAIN ledger[orders[o].wallet] :
            /\ Credits(ledger[orders[o].wallet], o) = {i}
            /\ ledger[orders[o].wallet][i].amount = orders[o].amount
            /\ ledger[orders[o].wallet][i].before = orders[o].before
            /\ ledger[orders[o].wallet][i].after = orders[o].after
       /\ \A w \in Wallets \ {orders[o].wallet} : Credits(ledger[w], o) = {}
  ELSE \A w \in Wallets : Credits(ledger[w], o) = {}

LEMMA CreditsSplit == CreditedOnce <=> \A o \in Requests : OrderCredited(o)
BY DEF CreditedOnce, OrderCredited, Credits, Positions, EntriesOf

\* An order that stays as it is keeps its credit while entries that are not
\* credits of it are appended.
LEMMA CreditStays ==
  ASSUME TypeOK, NEW o \in Requests, OrderCredited(o),
         \/ orders'[o] = orders[o]
         \/ /\ ~(orders[o] # Null /\ orders[o].status = "success")
            /\ ~(orders'[o] # Null /\ orders'[o].status = "success"),
         \A w \in Wallets :
           \/ ledger'[w] = ledger[w]
           \/ \E e \in LedgerEntry : /\ ledger'[w] = Append(ledger[w], e)
                                     /\ ~(e.ref = o /\ e.type = "top_up")
  PROVE  OrderCredited(o)'
<1>1. ASSUME NEW w \in Wallets
      PROVE  /\ Credits(ledger'[w], o) = Credits(ledger[w], o)
             /\ \A i \in DOMAIN ledger[w] : i \in DOMAIN ledger'[w] /\ ledger'[w][i] = ledger[w][i]
  <2>1. CASE ledger'[w] = ledger[w]
    BY <2>1
  <2>2. ASSUME NEW e \in LedgerEntry, ledger'[w] = Append(ledger[w], e),
               ~(e.ref = o /\ e.type = "top_up")
        PROVE  /\ Credits(ledger'[w], o) = Credits(ledger[w], o)
               /\ \A i \in DOMAIN ledger[w] :
                    i \in DOMAIN ledger'[w] /\ ledger'[w][i] = ledger[w][i]
    <3>1. ledger[w] \in Seq(LedgerEntry)
      BY DEF TypeOK
    <3> QED
      BY <2>2, <3>1, AppendCredits, AppendEntry
  <2> QED
    BY <2>1, <2>2
<1>2. CASE orders[o] # Null /\ orders[o].status = "success"
  <2> DEFINE v == orders[o].wallet
  <2>1. orders'[o] = orders[o] /\ v \in Wallets
    BY <1>2 DEF TypeOK, OrderRow
  <2>2. PICK i \in DOMAIN ledger[v] : /\ Credits(ledger[v], o) = {i}
                                     /\ ledger[v][i].amount = orders[o].amount
                                     /\ ledger[v][i].before = orders[o].before
                                     /\ ledger[v][i].after = orders[o].after
    BY <1>2 DEF OrderCredited
  <2>3. /\ i \in DOMAIN ledger'[v] /\ ledger'[v][i] = ledger[v][i]
        /\ Credits(ledger'[v], o) = {i}
    BY <1>1, <2>1, <2>2
  <2>4. \A w \in Wallets \ {v} : Credits(ledger'[w], o) = {}
    BY <1>1, <1>2 DEF OrderCredited
  <2>5. /\ orders'[o] # Null /\ orders'[o].status = "success" /\ orders'[o].wallet = v
        /\ ledger'[v][i].amount = orders'[o].amount
        /\ ledger'[v][i].before = orders'[o].before
        /\ ledger'[v][i].after = orders'[o].after
    BY <1>2, <2>1, <2>2, <2>3
  <2> HIDE DEF v
  <2> QED
    BY <2>3, <2>4, <2>5 DEF OrderCredited
<1>3. CASE ~(orders[o] # Null /\ orders[o].status = "success")
  BY <1>1, <1>3 DEF OrderCredited
<1> QED
  BY <1>2, <1>3

LEMMA ConfirmCredits ==
  ASSUME TypeOK, LockInv, CreditedOnce, NEW r \in Requests, CommitConfirm(r)
  PROVE  CreditedOnce'
<1> DEFINE o == req[r].order
           v == orders[o].wallet
           e == CreditEntry(r)
<1>1. /\ o \in Requests /\ v \in Wallets /\ orders[o] \in OrderRow /\ orders[o].status = "pending"
      /\ orders'[o] = CreditedOrder(r) /\ CreditedOrder(r) # Null
      /\ \A p \in Requests \ {o} : orders'[p] = orders[p]
      /\ ledger'[v] = Append(ledger[v], e)
      /\ \A w \in Wallets \ {v} : ledger'[w] = ledger[w]
  BY ConfirmEffect
<1>2. /\ e \in LedgerEntry /\ e.ref = o /\ e.type = "top_up" /\ e.direction = "credit"
      /\ e.amount = orders[o].amount
      /\ e.before = CreditedOrder(r).before /\ e.after = CreditedOrder(r).after
  BY CreditEntryFacts
<1>3. /\ CreditedOrder(r).status = "success" /\ CreditedOrder(r).wallet = v
      /\ CreditedOrder(r).amount = orders[o].amount
  BY <1>1 DEF CreditedOrder, OrderRow
<1> HIDE DEF o, v, e
<1>4. \A w \in Wallets : Credits(ledger[w], o) = {}
  BY <1>1, CreditsSplit DEF OrderCredited
<1>5. ledger[v] \in Seq(LedgerEntry)
  BY <1>1 DEF TypeOK
<1>6. /\ Credits(ledger'[v], o) = {Len(ledger[v]) + 1}
      /\ Len(ledger[v]) + 1 \in DOMAIN ledger'[v]
      /\ ledger'[v][Len(ledger[v]) + 1] = e
  <2>1. Credits(Append(ledger[v], e), o) = Credits(ledger[v], o) \cup {Len(ledger[v]) + 1}
    BY <1>2, <1>5, AppendCredits
  <2>2. /\ Len(ledger[v]) + 1 \in DOMAIN Append(ledger[v], e)
        /\ Append(ledger[v], e)[Len(ledger[v]) + 1] = e
    BY <1>2, <1>5, AppendEntry
  <2> QED
    BY <1>1, <1>4, <2>1, <2>2
<1>7. ASSUME NEW p \in Requests PROVE OrderCredited(p)'
  <2>1. CASE p = o
    <3>1. orders'[p] # Null /\ orders'[p].status = "success" /\ orders'[p].wallet = v
          /\ orders'[p].amount = e.amount /\ orders'[p].before = e.before
          /\ orders'[p].after = e.after
      BY <1>1, <1>2, <1>3, <2>1
    <3>2. \A w \in Wallets \ {v} : Credits(ledger'[w], p) = {}
      BY <1>1, <1>4, <2>1
    <3>3. Credits(ledger'[v], p) = {Len(ledger[v]) + 1}
      BY <1>6, <2>1
    <3> QED
      BY <1>6, <3>1, <3>2, <3>3 DEF OrderCredited
  <2>2. CASE p # o
    BY <1>1, <1>2, <2>2, CreditStays, CreditsSplit
  <2> QED
    BY <2>1, <2>2
<1> QED
  BY <1>7 DEF CreditedOnce, OrderCredited, Credits, Positions, EntriesOf

LEMMA StepCredits ==
  ASSUME TypeOK, LockInv, CreditedOnce, [Next]_vars
  PROVE  CreditedOnce'
<1>1. ASSUME \A o \in Requests : OrderCredited(o)'
      PROVE  CreditedOnce'
  BY <1>1 DEF CreditedOnce, OrderCredited, Credits, Positions, EntriesOf
<1>2. ASSUME NEW r \in Requests, CommitTransfer(r) PROVE CreditedOnce'
  <2> DEFINE c == req[r]
             debit == TransferEntry(r, c.user, "debit")
             credit == TransferEntry(r, c.to, "credit")
  <2>1. /\ c.user \in Wallets /\ c.to \in Wallets /\ orders' = orders
        /\ ledger'[c.user] = Append(ledger[c.user], debit)
        /\ ledger'[c.to] = Append(ledger[c.to], credit)
        /\ \A w \in Wallets \ {c.user, c.to} : ledger'[w] = ledger[w]
    BY <1>2, TransferEffect
  <2>2. /\ debit \in LedgerEntry /\ debit.type = "transfer"
        /\ credit \in LedgerEntry /\ credit.type = "transfer"
    BY <2>1, TransferEntryFacts
  <2> HIDE DEF c, debit, credit
  <2>3. \A o \in Requests : OrderCredited(o)'
    BY <2>1, <2>2, CreditStays, CreditsSplit
  <2> QED
    BY <1>1, <2>3
<1>3. ASSUME NEW r \in Requests, CommitCreate(r) PROVE CreditedOnce'
  <2>1. /\ orders[r] = Null /\ orders'[r].status = "pending" /\ ledger' = ledger
        /\ \A o \in Requests \ {r} : orders'[o] = orders[o]
    <3>1. NewOrder(r).status = "pending"
      BY DEF NewOrder
    <3> QED
      BY <1>3, <3>1, CreateEffect
  <2>2. \A o \in Requests : OrderCredited(o)'
    BY <2>1, CreditStays, CreditsSplit
  <2> QED
    BY <1>1, <2>2
<1>4. ASSUME NEW p \in Requests, FailOrder(p) PROVE CreditedOnce'
  <2>1. /\ orders[p].status = "pending" /\ orders'[p].status = "failed" /\ ledger' = ledger
        /\ \A o \in Requests \ {p} : orders'[o] = orders[o]
    BY <1>4, FailOrderEffect
  <2>2. \A o \in Requests : OrderCredited(o)'
    BY <2>1, CreditStays, CreditsSplit
  <2> QED
    BY <1>1, <2>2
<1>5. ASSUME UNCHANGED <<orders, ledger>> PROVE CreditedOnce'
  BY <1>5 DEF CreditedOnce, EntriesOf
<1> QED
  BY <1>2, <1>3, <1>4, <1>5, ConfirmCredits, AckEffect, OnlyCommitsWrite DEF db

\* An order is credited exactly when it succeeds, once, to its own wallet.
THEOREM OrdersAreCreditedOnce == Spec => []CreditedOnce
<1>1. Init => CreditedOnce
  BY DEF Init, CreditedOnce, EntriesOf
<1>2. TypeOK /\ LockInv /\ CreditedOnce /\ [Next]_vars => CreditedOnce'
  BY StepCredits
<1> QED
  BY <1>1, <1>2, TypeAndLocks, PTL DEF Spec

-----------------------------------------------------------------------------
(* Double entry.                                                            *)

TransferBooked(t) == transfers[t] # Null =>
  LET row == transfers[t] IN
  /\ Booked(ledger[row.from], t, "debit", row.senderBefore, row.senderAfter)
  /\ Booked(ledger[row.to], t, "credit", row.recipientBefore, row.recipientAfter)

\* An entry belongs to a transfer of this wallet, or is the credit of an order.
EntryOwned(ts, os, w, e) ==
  /\ e.type = "transfer" =>
       /\ ts[e.ref] # Null
       /\ w = IF e.direction = "debit" THEN ts[e.ref].from ELSE ts[e.ref].to
  /\ e.type = "top_up" => os[e.ref] # Null

EntriesOwned ==
  \A w \in Wallets : \A i \in DOMAIN ledger[w] : EntryOwned(transfers, orders, w, ledger[w][i])

BooksInv == (\A t \in Requests : TransferBooked(t)) /\ EntriesOwned

LEMMA BooksAreDouble == BooksInv => DoubleEntry
<1> SUFFICES ASSUME BooksInv PROVE DoubleEntry
  OBVIOUS
<1>1. ASSUME NEW t \in Requests, transfers[t] # Null
      PROVE  LET row == transfers[t] IN
             /\ \E i \in DOMAIN ledger[row.from] :
                  /\ EntriesOf(row.from, t, "debit") = {i}
                  /\ ledger[row.from][i].before = row.senderBefore
                  /\ ledger[row.from][i].after = row.senderAfter
             /\ \E i \in DOMAIN ledger[row.to] :
                  /\ EntriesOf(row.to, t, "credit") = {i}
                  /\ ledger[row.to][i].before = row.recipientBefore
                  /\ ledger[row.to][i].after = row.recipientAfter
  <2> DEFINE row == transfers[t]
  <2>1. /\ Booked(ledger[row.from], t, "debit", row.senderBefore, row.senderAfter)
        /\ Booked(ledger[row.to], t, "credit", row.recipientBefore, row.recipientAfter)
    BY <1>1 DEF BooksInv, TransferBooked
  <2> HIDE DEF row
  <2>2. \E i \in DOMAIN ledger[row.from] : /\ EntriesOf(row.from, t, "debit") = {i}
                                           /\ ledger[row.from][i].before = row.senderBefore
                                           /\ ledger[row.from][i].after = row.senderAfter
    BY <2>1 DEF Booked, Positions, EntriesOf
  <2>3. \E i \in DOMAIN ledger[row.to] : /\ EntriesOf(row.to, t, "credit") = {i}
                                         /\ ledger[row.to][i].before = row.recipientBefore
                                         /\ ledger[row.to][i].after = row.recipientAfter
    BY <2>1 DEF Booked, Positions, EntriesOf
  <2> QED
    BY <2>2, <2>3 DEF row
<1> QED
  BY <1>1 DEF DoubleEntry, BooksInv, EntriesOwned, EntryOwned

\* Entries stay owned as rows are added, and a new one must be owned.
LEMMA OwnedStays ==
  ASSUME TypeOK, LockInv, EntriesOwned, [Next]_vars,
         \A w \in Wallets :
           \/ ledger'[w] = ledger[w]
           \/ \E e \in LedgerEntry : /\ ledger'[w] = Append(ledger[w], e)
                                     /\ EntryOwned(transfers', orders', w, e)
  PROVE  EntriesOwned'
<1> SUFFICES ASSUME NEW w \in Wallets, NEW i \in DOMAIN ledger'[w]
             PROVE  EntryOwned(transfers', orders', w, ledger'[w][i])
  BY DEF EntriesOwned
<1>1. ledger[w] \in Seq(LedgerEntry)
  BY DEF TypeOK
<1>2. ASSUME i \in DOMAIN ledger[w], ledger'[w][i] = ledger[w][i]
      PROVE  EntryOwned(transfers', orders', w, ledger'[w][i])
  <2> DEFINE e == ledger[w][i]
  <2>1. EntryOwned(transfers, orders, w, e) /\ e \in LedgerEntry /\ e.ref \in Requests
    <3>1. e \in LedgerEntry
      BY <1>1, <1>2
    <3>2. EntryOwned(transfers, orders, w, e)
      BY <1>2 DEF EntriesOwned
    <3> QED
      BY <3>1, <3>2 DEF LedgerEntry
  <2>2. transfers[e.ref] # Null => transfers'[e.ref] = transfers[e.ref]
    BY <2>1, StepHistory DEF HistoryKept
  <2>3. orders[e.ref] # Null => orders'[e.ref] # Null
    BY <2>1, OrdersStay
  <2> QED
    BY <1>2, <2>1, <2>2, <2>3 DEF EntryOwned
<1>3. CASE ledger'[w] = ledger[w]
  BY <1>2, <1>3
<1>4. ASSUME NEW e \in LedgerEntry, ledger'[w] = Append(ledger[w], e),
             EntryOwned(transfers', orders', w, e)
      PROVE  EntryOwned(transfers', orders', w, ledger'[w][i])
  <2>1. /\ ledger'[w][Len(ledger[w]) + 1] = e
        /\ DOMAIN ledger'[w] = DOMAIN ledger[w] \cup {Len(ledger[w]) + 1}
        /\ \A j \in DOMAIN ledger[w] : ledger'[w][j] = ledger[w][j]
    BY <1>1, <1>4, AppendEntry
  <2>2. CASE i = Len(ledger[w]) + 1
    BY <1>4, <2>1, <2>2
  <2>3. CASE i \in DOMAIN ledger[w]
    BY <1>2, <2>1, <2>3
  <2> QED
    BY <2>1, <2>2, <2>3
<1> QED
  BY <1>3, <1>4

\* A booked transfer stays booked while entries of others are appended.
LEMMA TransferStaysBooked ==
  ASSUME TypeOK, NEW t \in Requests, TransferBooked(t), transfers'[t] = transfers[t],
         \A w \in Wallets :
           \/ ledger'[w] = ledger[w]
           \/ \E e \in LedgerEntry : ledger'[w] = Append(ledger[w], e) /\ e.ref # t
  PROVE  TransferBooked(t)'
<1> SUFFICES ASSUME transfers[t] # Null
             PROVE  TransferBooked(t)'
  BY DEF TransferBooked
<1>1. transfers[t].from \in Wallets /\ transfers[t].to \in Wallets
  BY DEF TypeOK, TransferRow
<1>2. ASSUME NEW w \in Wallets, NEW direction, NEW before, NEW after,
             Booked(ledger[w], t, direction, before, after)
      PROVE  Booked(ledger'[w], t, direction, before, after)
  <2>1. ledger[w] \in Seq(LedgerEntry)
    BY DEF TypeOK
  <2>2. ASSUME NEW e \in LedgerEntry, ledger'[w] = Append(ledger[w], e), e.ref # t
        PROVE  Booked(ledger'[w], t, direction, before, after)
    BY <1>2, <2>1, <2>2, BookedStays
  <2> QED
    BY <1>2, <2>2
<1> DEFINE row == transfers[t]
<1>3. /\ Booked(ledger[row.from], t, "debit", row.senderBefore, row.senderAfter)
      /\ Booked(ledger[row.to], t, "credit", row.recipientBefore, row.recipientAfter)
  BY DEF TransferBooked
<1>4. /\ Booked(ledger'[row.from], t, "debit", row.senderBefore, row.senderAfter)
      /\ Booked(ledger'[row.to], t, "credit", row.recipientBefore, row.recipientAfter)
  BY <1>1, <1>2, <1>3
<1> QED
  BY <1>4 DEF TransferBooked

LEMMA TransferBooks ==
  ASSUME TypeOK, LockInv, BooksInv, [Next]_vars, NEW r \in Requests, CommitTransfer(r)
  PROVE  BooksInv'
<1> DEFINE c == req[r]
           debit == TransferEntry(r, c.user, "debit")
           credit == TransferEntry(r, c.to, "credit")
<1>1. /\ pc[r] = "commit" /\ c.user \in Wallets /\ c.to \in Wallets /\ c.user # c.to
      /\ transfers[r] = Null /\ transfers'[r] = NewTransfer(r) /\ NewTransfer(r) # Null
      /\ \A t \in Requests \ {r} : transfers'[t] = transfers[t]
      /\ ledger'[c.user] = Append(ledger[c.user], debit)
      /\ ledger'[c.to] = Append(ledger[c.to], credit)
      /\ \A w \in Wallets \ {c.user, c.to} : ledger'[w] = ledger[w]
  BY TransferEffect
<1>2. /\ debit \in LedgerEntry /\ debit.ref = r /\ debit.type = "transfer"
      /\ debit.direction = "debit" /\ debit.before = NewTransfer(r).senderBefore
      /\ debit.after = NewTransfer(r).senderAfter
      /\ credit \in LedgerEntry /\ credit.ref = r /\ credit.type = "transfer"
      /\ credit.direction = "credit" /\ credit.before = NewTransfer(r).recipientBefore
      /\ credit.after = NewTransfer(r).recipientAfter
  BY <1>1, TransferEntryFacts DEF NewTransfer
<1>3. NewTransfer(r).from = c.user /\ NewTransfer(r).to = c.to
  BY DEF NewTransfer
<1>4. orders[r] = Null
  BY <1>1 DEF LockInv, Fresh
<1> HIDE DEF c, debit, credit
<1>5. ASSUME NEW w \in Wallets, NEW direction PROVE Positions(ledger[w], r, direction) = {}
  <2>1. \A i \in DOMAIN ledger[w] : /\ ledger[w][i] \in LedgerEntry
                                    /\ EntryOwned(transfers, orders, w, ledger[w][i])
    BY DEF TypeOK, BooksInv, EntriesOwned
  <2>2. \A i \in DOMAIN ledger[w] : ledger[w][i].ref # r
    BY <1>1, <1>4, <2>1 DEF EntryOwned, LedgerEntry
  <2> QED
    BY <2>2 DEF Positions
<1>6. ledger[c.user] \in Seq(LedgerEntry) /\ ledger[c.to] \in Seq(LedgerEntry)
  BY <1>1 DEF TypeOK
<1>7. /\ Booked(ledger'[c.user], r, "debit", debit.before, debit.after)
      /\ Booked(ledger'[c.to], r, "credit", credit.before, credit.after)
  BY <1>1, <1>2, <1>5, <1>6, BookedFirst
<1>8. ASSUME NEW t \in Requests PROVE TransferBooked(t)'
  <2>1. CASE t = r
    BY <1>1, <1>2, <1>3, <1>7, <2>1 DEF TransferBooked
  <2>2. CASE t # r
    <3>1. TransferBooked(t) /\ transfers'[t] = transfers[t]
      BY <1>1, <2>2 DEF BooksInv
    <3> QED
      BY <1>1, <1>2, <2>2, <3>1, TransferStaysBooked
  <2> QED
    BY <2>1, <2>2
<1>9. /\ EntryOwned(transfers', orders', c.user, debit)
      /\ EntryOwned(transfers', orders', c.to, credit)
  BY <1>1, <1>2, <1>3 DEF EntryOwned
<1>10. EntriesOwned'
  BY <1>1, <1>2, <1>9, OwnedStays DEF BooksInv
<1> QED
  BY <1>8, <1>10 DEF BooksInv

LEMMA ConfirmBooks ==
  ASSUME TypeOK, LockInv, RowsInv, BooksInv, [Next]_vars, NEW r \in Requests, CommitConfirm(r)
  PROVE  BooksInv'
<1> DEFINE o == req[r].order
           v == orders[o].wallet
           e == CreditEntry(r)
<1>1. /\ o \in Requests /\ v \in Wallets /\ orders[o] # Null /\ transfers' = transfers
      /\ ledger'[v] = Append(ledger[v], e)
      /\ \A w \in Wallets \ {v} : ledger'[w] = ledger[w]
  BY ConfirmEffect
<1>2. e \in LedgerEntry /\ e.ref = o /\ e.type = "top_up"
  BY CreditEntryFacts
<1>3. orders'[o] # Null
  BY <1>1, OrdersStay
<1> HIDE DEF o, v, e
<1>4. ASSUME NEW t \in Requests PROVE TransferBooked(t)'
  <2>1. CASE transfers[t] = Null
    BY <1>1, <2>1 DEF TransferBooked
  <2>2. CASE transfers[t] # Null
    <3>1. t # o
      BY <1>1, <2>2 DEF RowsInv, TransfersMatchCalls, OrdersMatchCalls
    <3>2. TransferBooked(t)
      BY DEF BooksInv
    <3> QED
      BY <1>1, <1>2, <3>1, <3>2, TransferStaysBooked
  <2> QED
    BY <2>1, <2>2
<1>5. EntryOwned(transfers', orders', v, e)
  BY <1>2, <1>3 DEF EntryOwned
<1>6. EntriesOwned'
  BY <1>1, <1>2, <1>5, OwnedStays DEF BooksInv
<1> QED
  BY <1>4, <1>6 DEF BooksInv

LEMMA StepBooks ==
  ASSUME TypeOK, LockInv, RowsInv, BooksInv, [Next]_vars
  PROVE  BooksInv'
<1>1. CASE UNCHANGED <<transfers, ledger>>
  <2>1. \A t \in Requests : TransferBooked(t)'
    BY <1>1 DEF BooksInv, TransferBooked
  <2>2. EntriesOwned'
    BY <1>1, OwnedStays DEF BooksInv
  <2> QED
    BY <2>1, <2>2 DEF BooksInv
<1> QED
  BY <1>1, TransferBooks, ConfirmBooks, OnlyCommitsMoveMoney

\* A transfer is one debit of its sender and one credit of its recipient, with
\* the balances it records, and no entry is without its transfer or its order.
THEOREM BooksAreDoubleEntry == Spec => []DoubleEntry
<1>1. Init => BooksInv
  BY DEF Init, BooksInv, TransferBooked, EntriesOwned
<1>2. TypeOK /\ LockInv /\ RowsInv /\ BooksInv /\ [Next]_vars => BooksInv'
  BY StepBooks
<1> QED
  BY <1>1, <1>2, BooksAreDouble, TypeAndLocks, RowsAreAskedFor, PTL DEF Spec

-----------------------------------------------------------------------------
(* External references.                                                     *)

\* Whoever is about to commit a confirmation has found its reference unused,
\* and holds it alone.
ExtInv == \A r \in Requests :
  pc[r] = "commit" /\ req[r].op = "confirm" => ExtHolders(r) = {} /\ ~ExtTaken(r)

RefsInv == ExtInv /\ ExtRefsUnique

\* A step of r that moves no reference into the books keeps the invariant, if r
\* has looked before it came to commit.
LEMMA QuietRefs ==
  ASSUME TypeOK, RefsInv, NEW r \in Requests, Local(r),
         \A o \in Requests : /\ orders'[o] # Null /\ orders'[o].ext # Null
                             => orders[o] # Null /\ orders[o].ext = orders'[o].ext,
         pc'[r] = "commit" /\ req[r].op = "confirm"
           => pc[r] = "commit" \/ (ExtHolders(r) = {} /\ ~ExtTaken(r))
  PROVE  RefsInv'
<1>1. ExtRefsUnique'
  BY DEF RefsInv, ExtRefsUnique
<1>2. ASSUME NEW s \in Requests, pc'[s] = "commit", req[s].op = "confirm"
      PROVE  ExtHolders(s)' = {} /\ ~ExtTaken(s)'
  <2>1. ~ExtTaken(s) => ~ExtTaken(s)'
    BY DEF ExtTaken, Local
  <2>2. CASE s = r
    <3>1. ExtHolders(r) = {} /\ ~ExtTaken(r)
      BY <1>2, <2>2 DEF RefsInv, ExtInv
    <3> QED
      BY <2>1, <2>2, <3>1 DEF ExtHolders, Local
  <2>3. CASE s # r
    <3>1. ExtHolders(s) = {} /\ ~ExtTaken(s) /\ pc[s] = "commit"
      BY <1>2, <2>3 DEF RefsInv, ExtInv, Local
    <3>2. r \notin ExtHolders(s)'
      <4>1. SUFFICES ASSUME pc'[r] = "commit", req[r].op = "confirm",
                            req[r].ext = req[s].ext, req[s].ext # Null
                     PROVE  FALSE
        BY DEF ExtHolders, Local
      <4>2. CASE pc[r] = "commit"
        BY <2>3, <3>1, <4>1, <4>2 DEF ExtHolders
      <4>3. CASE ExtHolders(r) = {}
        BY <1>2, <2>3, <3>1, <4>1, <4>3 DEF ExtHolders
      <4> QED
        BY <4>1, <4>2, <4>3
    <3> QED
      BY <2>1, <2>3, <3>1, <3>2 DEF ExtHolders, Local
  <2> QED
    BY <2>2, <2>3
<1>3. ExtInv'
  BY <1>2 DEF ExtInv, Local
<1> QED
  BY <1>1, <1>3 DEF RefsInv

LEMMA ConfirmRefs ==
  ASSUME TypeOK, LockInv, RefsInv, NEW r \in Requests, CommitConfirm(r)
  PROVE  RefsInv'
<1> DEFINE o == req[r].order
<1>1. /\ pc[r] = "commit" /\ req[r].op = "confirm"
      /\ o \in Requests /\ orders[o] \in OrderRow /\ orders[o] # Null
      /\ orders'[o] = CreditedOrder(r) /\ CreditedOrder(r) # Null
      /\ \A p \in Requests \ {o} : orders'[p] = orders[p]
      /\ Answer(r, o) /\ req' = req
  BY ConfirmEffect
<1>2. CreditedOrder(r).ext = req[r].ext
  BY <1>1 DEF CreditedOrder, OrderRow
<1>3. Local(r) /\ pc'[r] = "done"
  BY <1>1, StepLocal, AnswerEnds DEF Step
<1>4. ExtHolders(r) = {} /\ ~ExtTaken(r)
  BY <1>1 DEF RefsInv, ExtInv
<1> HIDE DEF o
<1>5. ExtRefsUnique'
  BY <1>1, <1>2, <1>4 DEF RefsInv, ExtRefsUnique, ExtTaken
<1>6. ASSUME NEW s \in Requests, pc'[s] = "commit", req[s].op = "confirm"
      PROVE  ExtHolders(s)' = {} /\ ~ExtTaken(s)'
  <2>1. s # r /\ pc[s] = "commit" /\ ExtHolders(s) = {} /\ ~ExtTaken(s)
    BY <1>3, <1>6 DEF RefsInv, ExtInv, Local
  <2>2. ExtHolders(s)' = {}
    BY <1>3, <2>1 DEF ExtHolders, Local
  <2>3. req[s].ext # Null => req[s].ext # req[r].ext
    BY <1>1, <2>1 DEF ExtHolders
  <2> QED
    BY <1>1, <1>2, <2>1, <2>2, <2>3 DEF ExtTaken
<1>7. ExtInv'
  BY <1>1, <1>6 DEF ExtInv
<1> QED
  BY <1>5, <1>7 DEF RefsInv

\* A confirmation comes to commit by finding its reference free.
LEMMA ConfirmLooked ==
  ASSUME TypeOK, NEW r \in Requests, Arrive(r) \/ Step(r) \/ Abort(r),
         pc'[r] = "commit", req[r].op = "confirm"
  PROVE  pc[r] = "commit" \/ (ExtHolders(r) = {} /\ ~ExtTaken(r))
<1>1. ASSUME NEW phase, Goto(r, phase) PROVE phase = "commit"
  BY <1>1 DEF Goto, TypeOK
<1>2. ASSUME NEW kind, NEW id, Finish(r, kind, id) PROVE FALSE
  BY <1>2 DEF Finish, TypeOK
<1>3. CASE Arrive(r) \/ Abort(r)
  BY <1>1, <1>2, <1>3 DEF Arrive, Submit, Reject, Abort, Refuse
<1>4. CASE Reserve(r) \/ ReserveExisting(r)
  BY <1>1, <1>2, <1>4 DEF Reserve, ReserveExisting
<1>5. CASE OrderNotFound(r) \/ LockOrder(r) \/ OrderAlreadyFailed(r)
  BY <1>1, <1>2, <1>5 DEF OrderNotFound, LockOrder, OrderAlreadyFailed, Refuse
<1>6. CASE LockWallet(r)
  BY <1>6 DEF LockWallet
<1>7. CASE ExecuteTransfer(r) \/ FailTransfer(r) \/ ExecuteCreate(r)
  BY <1>7 DEF ExecuteTransfer, FailTransfer, ExecuteCreate
<1>8. CASE ExecuteConfirm(r) \/ FailConfirm(r)
  BY <1>2, <1>8 DEF ExecuteConfirm, FailConfirm, Refuse
<1>9. CASE CommitTransfer(r) \/ CommitCreate(r) \/ CommitConfirm(r) \/ CommitAck(r)
  BY <1>2, <1>9 DEF CommitTransfer, CommitCreate, CommitConfirm, CommitAck, Answer
<1> QED
  BY <1>3, <1>4, <1>5, <1>6, <1>7, <1>8, <1>9 DEF Step

LEMMA StepRefs ==
  ASSUME TypeOK, LockInv, RefsInv, [Next]_vars
  PROVE  RefsInv'
<1>1. ASSUME NEW r \in Requests, Arrive(r) \/ Step(r) \/ Abort(r), ~CommitConfirm(r)
      PROVE  RefsInv'
  <2>1. Local(r)
    BY <1>1, StepLocal
  <2>2. ASSUME NEW o \in Requests, orders'[o] # Null, orders'[o].ext # Null
        PROVE  orders[o] # Null /\ orders[o].ext = orders'[o].ext
    <3>1. CASE CommitCreate(r)
      <4>1. NewOrder(r).ext = Null
        BY DEF NewOrder
      <4> QED
        BY <2>2, <3>1, <4>1, CreateEffect
    <3>2. CASE orders' = orders
      BY <2>2, <3>2
    <3> QED
      BY <1>1, <3>1, <3>2 DEF Arrive, Step, Submit, Reject, Reserve, ReserveExisting,
         OrderNotFound, LockOrder, OrderAlreadyFailed, LockWallet, ExecuteTransfer,
         FailTransfer, ExecuteCreate, ExecuteConfirm, FailConfirm, CommitTransfer, CommitAck,
         Abort, Goto, Refuse, db
  <2> QED
    BY <1>1, <2>1, <2>2, ConfirmLooked, QuietRefs
<1>2. ASSUME NEW p \in Requests, FailOrder(p) PROVE RefsInv'
  <2>1. /\ orders[p] \in OrderRow /\ orders[p] # Null
        /\ orders'[p] = [orders[p] EXCEPT !.status = "failed"]
        /\ \A o \in Requests \ {p} : orders'[o] = orders[o]
        /\ UNCHANGED <<req, pc>>
    BY <1>2, FailOrderEffect
  <2>2. orders'[p].ext = orders[p].ext
    BY <2>1 DEF OrderRow
  <2>3. \A o \in Requests : /\ orders'[o] # Null => orders[o] # Null
                            /\ orders'[o].ext = orders[o].ext
    BY <2>1, <2>2
  <2>4. ExtRefsUnique'
    BY <2>3 DEF RefsInv, ExtRefsUnique
  <2>5. ExtInv'
    BY <2>1, <2>3 DEF RefsInv, ExtInv, ExtHolders, ExtTaken
  <2> QED
    BY <2>4, <2>5 DEF RefsInv
<1>3. CASE UNCHANGED vars
  BY <1>3 DEF vars, db, RefsInv, ExtInv, ExtRefsUnique, ExtHolders, ExtTaken
<1> QED
  BY <1>1, <1>2, <1>3, ConfirmRefs DEF Next, Terminated

\* The reference a confirmation is about to commit is unused, and its alone.
THEOREM ReferencesAreHeld == Spec => []RefsInv
<1>1. Init => RefsInv
  BY DEF Init, RefsInv, ExtInv, ExtRefsUnique
<1>2. TypeOK /\ LockInv /\ RefsInv /\ [Next]_vars => RefsInv'
  BY StepRefs
<1> QED
  BY <1>1, <1>2, TypeAndLocks, PTL DEF Spec

\* A payment provider's reference confirms at most one order.
THEOREM ReferencesAreUnique == Spec => []ExtRefsUnique
<1>1. RefsInv => ExtRefsUnique
  BY DEF RefsInv
<1> QED
  BY <1>1, ReferencesAreHeld, PTL

-----------------------------------------------------------------------------
(* Answers.                                                                 *)

\* What the answer of r names is there, and is what r has asked for.
Delivered(r, id) ==
  /\ id \in Requests
  /\ req[r].op = "transfer" => /\ transfers[id] # Null
                               /\ transfers[id].from = req[r].user
                               /\ transfers[id].to = req[r].to
                               /\ transfers[id].amount = req[r].amount
  /\ req[r].op = "create" => /\ orders[id] # Null
                             /\ orders[id].wallet = req[r].user
                             /\ orders[id].amount = req[r].amount
  /\ req[r].op = "confirm" => /\ id = req[r].order
                              /\ orders[id] # Null
                              /\ orders[id].wallet = req[r].user
                              /\ orders[id].status = "success"

AnswerTrue(r) == pc[r] = "done" =>
  /\ reply[r].kind = "ok" => Delivered(r, reply[r].id)
  /\ reply[r].kind \notin {"ok", "unknown"} => ~HasEffect(r)

AnswersInv == \A r \in Requests : AnswerTrue(r)

LEMMA AnswersSplit == TypeOK /\ AnswersInv => AnswersAreTrue
<1> SUFFICES ASSUME TypeOK, AnswersInv, NEW r \in Requests, pc[r] = "done"
             PROVE  LET id == reply[r].id IN
                    /\ reply[r].kind = "ok" =>
                         CASE req[r].op = "transfer" ->
                                /\ transfers[id] # Null
                                /\ transfers[id].from = req[r].user
                                /\ transfers[id].to = req[r].to
                                /\ transfers[id].amount = req[r].amount
                           [] req[r].op = "create" ->
                                /\ orders[id] # Null
                                /\ orders[id].wallet = req[r].user
                                /\ orders[id].amount = req[r].amount
                           [] req[r].op = "confirm" ->
                                /\ id = req[r].order
                                /\ orders[id].wallet = req[r].user
                                /\ orders[id].status = "success"
                    /\ reply[r].kind \notin {"ok", "unknown"} => ~HasEffect(r)
  BY DEF AnswersAreTrue
<1>1. req[r].op \in {"transfer", "create", "confirm"}
  BY CallTypes DEF TypeOK, Ops
<1>2. AnswerTrue(r)
  BY DEF AnswersInv
<1> QED
  BY <1>1, <1>2 DEF AnswerTrue, Delivered

\* A request that has not ended has changed nothing.
LEMMA NoEffectBefore ==
  ASSUME TypeOK, LockInv, RowsInv, NEW r \in Requests, pc[r] # "done"
  PROVE  ~HasEffect(r)
BY DEF LockInv, Fresh, RowsInv, EventsMatchCalls, HasEffect

\* No step adds to the effects of a request that has ended.
LEMMA EffectsAreOwn ==
  ASSUME TypeOK, LockInv, [Next]_vars, NEW s \in Requests, pc[s] = "done", HasEffect(s)'
  PROVE  HasEffect(s)
<1>1. ASSUME NEW r \in Requests, CommitTransfer(r) PROVE HasEffect(s)
  <2>1. /\ r # s /\ transfers'[s] = transfers[s] /\ orders' = orders
        /\ outbox' = outbox \cup {TransferEvent(r)} /\ TransferEvent(r).by = r
    BY <1>1, TransferEffect DEF TransferEvent
  <2> QED
    BY <2>1 DEF HasEffect
<1>2. ASSUME NEW r \in Requests, CommitCreate(r) PROVE HasEffect(s)
  BY <1>2, CreateEffect DEF HasEffect
<1>3. ASSUME NEW r \in Requests, CommitConfirm(r) PROVE HasEffect(s)
  <2>1. /\ r # s /\ transfers' = transfers
        /\ orders'[s] = orders[s] \/ orders[s] # Null
        /\ outbox' = outbox \cup {TopUpEvent(r)} /\ TopUpEvent(r).by = r
    BY <1>3, ConfirmEffect DEF TopUpEvent
  <2> QED
    BY <2>1 DEF HasEffect
<1>4. ASSUME NEW r \in Requests, CommitAck(r) PROVE HasEffect(s)
  BY <1>4, AckEffect DEF HasEffect
<1>5. ASSUME NEW o \in Requests, FailOrder(o) PROVE HasEffect(s)
  BY <1>5, FailOrderEffect DEF HasEffect
<1>6. CASE UNCHANGED db
  BY <1>6 DEF HasEffect, db
<1> QED
  BY <1>1, <1>2, <1>3, <1>4, <1>5, <1>6, OnlyCommitsWrite

\* What was delivered stays.
LEMMA DeliveredStays ==
  ASSUME TypeOK, LockInv, [Next]_vars, req' = req,
         NEW r \in Requests, NEW id, Delivered(r, id)
  PROVE  Delivered(r, id)'
<1>1. id \in Requests
  BY DEF Delivered
<1>2. transfers[id] # Null => transfers'[id] = transfers[id]
  BY <1>1, StepHistory DEF HistoryKept
<1>3. orders[id] # Null => /\ orders'[id] # Null
                           /\ orders'[id].wallet = orders[id].wallet
                           /\ orders'[id].amount = orders[id].amount
                           /\ orders[id].status # "pending" => orders'[id] = orders[id]
  BY <1>1, OrderKeepsOwner
<1> QED
  BY <1>2, <1>3 DEF Delivered

\* Repeating a completed request delivers what the original one has delivered.
LEMMA ReplayDelivers ==
  ASSUME TypeOK, KeyInv, RowsInv, NEW r \in Requests, NEW s \in Requests,
         keys[Slot(r)] # Null, keys[Slot(r)].by = s, SamePayload(r, s)
  PROVE  Delivered(r, ResourceOf(s))
<1>1. Slot(r) \in Slots /\ req[r].op \in {"transfer", "create", "confirm"}
  BY CallTypes DEF TypeOK, Ops
<1>2. Slot(s) = Slot(r) /\ HasResource(s)
  BY <1>1 DEF KeyInv, KeyHasEffect
<1>3. req[s].op = req[r].op /\ req[s].user = req[r].user
  BY <1>2 DEF Slot
<1>4. CASE req[r].op = "transfer"
  BY <1>2, <1>3, <1>4 DEF Delivered, ResourceOf, HasResource, RowsInv, TransfersMatchCalls,
     SamePayload
<1>5. CASE req[r].op = "create"
  BY <1>2, <1>3, <1>5 DEF Delivered, ResourceOf, HasResource, RowsInv, OrdersMatchCalls,
     SamePayload
<1>6. CASE req[r].op = "confirm"
  BY <1>1, <1>2, <1>3, <1>6 DEF Delivered, ResourceOf, HasResource, RowsInv, ConfirmsOwn,
     SamePayload
<1> QED
  BY <1>1, <1>4, <1>5, <1>6

\* The answers of the other requests stay true, whatever the step.
LEMMA OldAnswers ==
  ASSUME TypeOK, LockInv, AnswersInv, [Next]_vars, NEW s \in Requests, pc[s] = "done"
  PROVE  AnswerTrue(s)'
<1>1. pc'[s] = "done" /\ reply'[s] = reply[s] /\ req' = req
  BY DoneStays
<1>2. AnswerTrue(s)
  BY DEF AnswersInv
<1>3. ASSUME reply[s].kind = "ok" PROVE Delivered(s, reply[s].id)'
  <2>1. Delivered(s, reply[s].id)
    BY <1>2, <1>3 DEF AnswerTrue
  <2>2. \A id : Delivered(s, id) => Delivered(s, id)'
    BY <1>1, DeliveredStays
  <2> QED
    BY <1>1, <2>1, <2>2 DEF Delivered
<1>4. reply[s].kind \notin {"ok", "unknown"} => ~HasEffect(s)'
  BY <1>2, EffectsAreOwn DEF AnswerTrue
<1> QED
  BY <1>1, <1>3, <1>4 DEF AnswerTrue

\* An answer given without a write is true if a success has been delivered.
LEMMA QuietAnswer ==
  ASSUME TypeOK, LockInv, RowsInv, NEW r \in Requests, pc[r] # "done", UNCHANGED db,
         NEW kind, NEW id, Finish(r, kind, id), kind = "ok" => Delivered(r, id)
  PROVE  AnswerTrue(r)'
<1>1. reply'[r] = [kind |-> kind, id |-> id] /\ req' = req
  BY DEF Finish, TypeOK
<1>2. ~HasEffect(r)'
  BY NoEffectBefore DEF HasEffect, db
<1>3. kind = "ok" => Delivered(r, reply'[r].id)
  BY <1>1
<1> QED
  BY <1>1, <1>2, <1>3 DEF AnswerTrue, Delivered, db

\* An answer after a commit is true if the commit has delivered.
LEMMA CommitAnswer ==
  ASSUME TypeOK, NEW r \in Requests, NEW id, Answer(r, id), Delivered(r, id)'
  PROVE  AnswerTrue(r)'
<1>1. \/ reply'[r] = [kind |-> "ok", id |-> id]
      \/ reply'[r] = [kind |-> "unknown", id |-> Null]
  BY DEF Answer, Finish, TypeOK
<1> QED
  BY <1>1 DEF AnswerTrue, Delivered

LEMMA TransferAnswer ==
  ASSUME TypeOK, LockInv, NEW r \in Requests, CommitTransfer(r)
  PROVE  AnswerTrue(r)'
<1>1. /\ req[r].op = "transfer" /\ Answer(r, r) /\ req' = req
      /\ transfers'[r] = NewTransfer(r) /\ NewTransfer(r) # Null
  BY TransferEffect
<1>2. Delivered(r, r)'
  BY <1>1 DEF Delivered, NewTransfer
<1> QED
  BY <1>1, <1>2, CommitAnswer

LEMMA CreateAnswer ==
  ASSUME TypeOK, LockInv, NEW r \in Requests, CommitCreate(r)
  PROVE  AnswerTrue(r)'
<1>1. /\ req[r].op = "create" /\ Answer(r, r) /\ req' = req
      /\ orders'[r] = NewOrder(r) /\ NewOrder(r) # Null
  BY CreateEffect
<1>2. Delivered(r, r)'
  BY <1>1 DEF Delivered, NewOrder
<1> QED
  BY <1>1, <1>2, CommitAnswer

LEMMA ConfirmAnswer ==
  ASSUME TypeOK, LockInv, NEW r \in Requests, CommitConfirm(r) \/ CommitAck(r)
  PROVE  AnswerTrue(r)'
<1> DEFINE o == req[r].order
<1>1. CASE CommitConfirm(r)
  <2>1. /\ req[r].op = "confirm" /\ Answer(r, o) /\ req' = req /\ o \in Requests
        /\ orders[o] \in OrderRow /\ orders[o].wallet = req[r].user
        /\ orders'[o] = CreditedOrder(r) /\ CreditedOrder(r) # Null
    BY <1>1, ConfirmEffect
  <2>2. CreditedOrder(r).wallet = req[r].user /\ CreditedOrder(r).status = "success"
    BY <2>1 DEF CreditedOrder, OrderRow
  <2>3. Delivered(r, o)'
    BY <2>1, <2>2 DEF Delivered
  <2>4. o' = o
    BY <2>1
  <2> QED
    BY <2>1, <2>3, <2>4, CommitAnswer DEF Delivered
<1>2. CASE CommitAck(r)
  <2>1. /\ req[r].op = "confirm" /\ Answer(r, o) /\ UNCHANGED <<orders, req>> /\ o \in Requests
        /\ orders[o] # Null /\ orders[o].wallet = req[r].user
        /\ orders[o].status = "success"
    BY <1>2, AckEffect
  <2>2. Delivered(r, o)'
    BY <2>1 DEF Delivered
  <2>3. o' = o
    BY <2>1
  <2> QED
    BY <2>1, <2>2, <2>3, CommitAnswer DEF Delivered
<1> QED
  BY <1>1, <1>2

LEMMA RefusalAnswer ==
  ASSUME TypeOK, LockInv, RowsInv, NEW r \in Requests, pc[r] # "done",
         NEW kind, Refuse(r, kind), kind # "ok"
  PROVE  AnswerTrue(r)'
BY QuietAnswer DEF Refuse

\* Every answer is true when it is given.
LEMMA NewAnswers ==
  ASSUME TypeOK, LockInv, KeyInv, RowsInv, NEW r \in Requests,
         Arrive(r) \/ Step(r) \/ Abort(r), pc'[r] = "done"
  PROVE  AnswerTrue(r)'
<1>0. ASSUME NEW phase \in InTx, Goto(r, phase) PROVE FALSE
  BY <1>0 DEF Goto, TypeOK, InTx
<1>1. CASE Arrive(r)
  <2>1. CASE Submit(r)
    BY <1>0, <2>1 DEF Submit, InTx
  <2>2. CASE Reject(r)
    <3>1. Validation(req[r]) \in {"amount", "sameWallet", "overflow", "none"}
      <4>1. balance[req[r].user] \in Int /\ req[r].amount \in Int64
        BY CallTypes DEF TypeOK
      <4> QED
        BY <4>1, TopUpType DEF Validation
    <3>2. pc[r] = "idle" /\ Refuse(r, Validation(req[r]))
      BY <2>2 DEF Reject
    <3> QED
      BY <3>1, <3>2, RefusalAnswer
  <2> QED
    BY <1>1, <2>1, <2>2 DEF Arrive
<1>2. CASE Abort(r)
  BY <1>2, RefusalAnswer DEF Abort, InTx
<1>3. CASE Reserve(r)
  <2>1. \E phase \in InTx : Goto(r, phase)
    BY <1>3 DEF Reserve, InTx
  <2> QED
    BY <1>0, <2>1
<1>4. CASE ReserveExisting(r)
  <2> DEFINE s == keys[Slot(r)].by
             kind == Resolution(r, keys[Slot(r)])
  <2>1. pc[r] = "begin" /\ keys[Slot(r)] # Null /\ UNCHANGED db
    BY <1>4 DEF ReserveExisting
  <2>2. CASE TxAbortsOnError
    BY <1>4, <2>1, <2>2, QuietAnswer DEF ReserveExisting
  <2>3. CASE ~TxAbortsOnError
    <3>1. Finish(r, kind, IF kind = "ok" THEN ResourceOf(s) ELSE Null)
      BY <1>4, <2>3 DEF ReserveExisting
    <3>2. keys[Slot(r)] \in KeyRow /\ s \in Requests
      BY <2>1, CallTypes DEF TypeOK, KeyRow
    <3>3. kind = "ok" => SamePayload(r, s)
      BY DEF Resolution
    <3>4. kind = "ok" => Delivered(r, ResourceOf(s))
      BY <2>1, <3>2, <3>3, ReplayDelivers
    <3> HIDE DEF kind, s
    <3>5. CASE kind = "ok"
      BY <2>1, <3>1, <3>4, <3>5, QuietAnswer
    <3>6. CASE kind # "ok"
      BY <2>1, <3>1, <3>6, QuietAnswer
    <3> QED
      BY <3>5, <3>6
  <2> QED
    BY <2>2, <2>3
<1>5. CASE OrderNotFound(r) \/ OrderAlreadyFailed(r)
  BY <1>5, RefusalAnswer DEF OrderNotFound, OrderAlreadyFailed
<1>6. CASE LockOrder(r)
  <2>1. \E phase \in InTx : Goto(r, phase)
    BY <1>6 DEF LockOrder, InTx
  <2> QED
    BY <1>0, <2>1
<1>7. CASE LockWallet(r)
  BY <1>7 DEF LockWallet
<1>8. CASE ExecuteTransfer(r) \/ ExecuteCreate(r) \/ ExecuteConfirm(r)
  BY <1>0, <1>8 DEF ExecuteTransfer, ExecuteCreate, ExecuteConfirm, InTx
<1>9. CASE FailTransfer(r)
  BY <1>9, TransferVerdictType, RefusalAnswer DEF FailTransfer, HoldsWallets
<1>10. CASE FailConfirm(r)
  <2>1. pc[r] = "wallets" /\ req[r].op = "confirm"
    BY <1>10 DEF FailConfirm, HoldsWallets
  <2>2. TopUpOf(r).err \in {"none", "amount", "overflow"}
    BY <2>1, TopUpOfType DEF LockInv, PhaseOK
  <2> QED
    BY <1>10, <2>1, <2>2, RefusalAnswer DEF FailConfirm
<1>11. CASE CommitTransfer(r) \/ CommitCreate(r) \/ CommitConfirm(r) \/ CommitAck(r)
  BY <1>11, TransferAnswer, CreateAnswer, ConfirmAnswer
<1> QED
  BY <1>1, <1>2, <1>3, <1>4, <1>5, <1>6, <1>7, <1>8, <1>9, <1>10, <1>11 DEF Step

LEMMA StepAnswers ==
  ASSUME TypeOK, LockInv, KeyInv, RowsInv, AnswersInv, [Next]_vars
  PROVE  AnswersInv'
<1> SUFFICES ASSUME NEW s \in Requests, pc'[s] = "done"
             PROVE  AnswerTrue(s)'
  BY DEF AnswersInv, AnswerTrue
<1>1. CASE pc[s] = "done"
  BY <1>1, OldAnswers
<1>2. CASE pc[s] # "done"
  <2>1. ASSUME NEW r \in Requests, Arrive(r) \/ Step(r) \/ Abort(r) PROVE r = s
    BY <1>2, <2>1, StepLocal DEF Local
  <2>2. Arrive(s) \/ Step(s) \/ Abort(s)
    BY <1>2, <2>1, FailOrderEffect DEF Next, Terminated, vars
  <2> QED
    BY <2>2, NewAnswers
<1> QED
  BY <1>1, <1>2

\* A success names a committed resource that is what this client asked for, and
\* a refusal means that the call changed nothing, at that moment and ever after.
THEOREM AnswersStayTrue == Spec => []AnswersAreTrue
<1>1. Init => AnswersInv
  BY DEF Init, AnswersInv, AnswerTrue
<1>2. TypeOK /\ LockInv /\ KeyInv /\ RowsInv /\ AnswersInv /\ [Next]_vars => AnswersInv'
  BY StepAnswers
<1> QED
  BY <1>1, <1>2, AnswersSplit, TypeAndLocks, RowsAreAskedFor, PTL DEF Spec

-----------------------------------------------------------------------------
(* Money is conserved.                                                      *)

\* The orders a payment has paid for, and their amounts.
Credited == {o \in Requests : orders[o] # Null /\ orders[o].status = "success"}
Amounts  == [o \in Credited |-> orders[o].amount]

\* Only finitely many orders have ever succeeded, and the balances sum to what
\* the wallets started with and what those orders brought in.
MoneyInv ==
  /\ IsFiniteSet(Credited)
  /\ SumFunctionOnSet(balance, Wallets) =
       SumFunctionOnSet(Opening, Wallets) + SumFunctionOnSet(Amounts, Credited)

LEMMA AmountsType == TypeOK => Amounts \in [Credited -> Int]
<1> SUFFICES ASSUME TypeOK, NEW o \in Credited PROVE orders[o].amount \in Int
  BY DEF Amounts
<1>1. orders[o] \in OrderRow
  BY DEF Credited, TypeOK
<1> QED
  BY <1>1 DEF OrderRow, Int64

\* Summing the amounts of the orders, as the property does, is summing Amounts.
LEMMA AmountsAddUp ==
  ASSUME IsFiniteSet(Credited)
  PROVE  MapThenSumSet(LAMBDA o : orders[o].amount, Credited) = SumFunctionOnSet(Amounts, Credited)
<1> DEFINE Recursion(F) == F = [s \in SUBSET Credited |->
             IF s = {} THEN 0 ELSE orders[First(s)].amount + F[s \ {First(s)}]]
           H == CHOOSE F : Recursion(F)
<1>1. ASSUME NEW F PROVE Recursion(F) <=> Sums(F, Amounts, Credited)
  <2>1. ASSUME NEW s \in SUBSET Credited, s # {} PROVE orders[First(s)].amount = Amounts[First(s)]
    BY <2>1, FirstIn DEF Amounts
  <2>2. [s \in SUBSET Credited |->
            IF s = {} THEN 0 ELSE orders[First(s)].amount + F[s \ {First(s)}]]
        = [s \in SUBSET Credited |->
            IF s = {} THEN 0 ELSE Amounts[First(s)] + F[s \ {First(s)}]]
    BY <2>1
  <2> QED
    BY <2>2 DEF Sums
<1>2. Recursion(H)
  <2>1. \E F : Recursion(F)
    BY <1>1, SumsExist
  <2> QED
    BY <2>1
<1>3. MapThenSumSet(LAMBDA o : orders[o].amount, Credited) = H[Credited]
  BY DEF MapThenSumSet, MapThenFoldSet, First
<1>4. Sums(H, Amounts, Credited)
  BY <1>1, <1>2
<1>5. PICK F : Sums(F, Amounts, Credited) /\ SumFunctionOnSet(Amounts, Credited) = F[Credited]
  BY SumIsSums
<1>6. H[Credited] = F[Credited]
  <2> HIDE DEF H
  <2>1. Credited \in SUBSET (Credited \cap Credited)
    OBVIOUS
  <2> QED
    BY <1>4, <1>5, <2>1, SumsAgree
<1> QED
  BY <1>3, <1>5, <1>6

LEMMA MoneySplit == TypeOK /\ MoneyInv => MoneyConserved
<1> SUFFICES ASSUME TypeOK, MoneyInv PROVE MoneyConserved
  OBVIOUS
<1>1. FoldFunction(+, 0, balance) = SumFunctionOnSet(balance, Wallets)
  <2>1. DOMAIN balance = Wallets
    BY DEF TypeOK
  <2> QED
    BY <2>1 DEF FoldFunction, SumFunctionOnSet
<1>2. FoldFunction(+, 0, Opening) = SumFunctionOnSet(Opening, Wallets)
  <2>1. DOMAIN Opening = Wallets
    BY WalletAssumption
  <2> QED
    BY <2>1 DEF FoldFunction, SumFunctionOnSet
<1> QED
  BY <1>1, <1>2, AmountsAddUp DEF MoneyConserved, MoneyInv, Credited

\* A commit of a transfer takes from one balance what it adds to another.
LEMMA TransferConserves ==
  ASSUME TypeOK, LockInv, BalancesInRange, MoneyInv, NEW r \in Requests, CommitTransfer(r)
  PROVE  MoneyInv'
<1> DEFINE c == req[r]
           mid == [balance EXCEPT ![c.user] = @ - c.amount]
<1>1. /\ c.user \in Wallets /\ c.to \in Wallets /\ c.user # c.to /\ c.amount \in Int
      /\ balance' = [balance EXCEPT ![c.user] = @ - c.amount, ![c.to] = @ + c.amount]
      /\ orders' = orders /\ balance \in [Wallets -> Int]
  BY CommitTransferFacts, TransferEffect DEF TypeOK
<1> HIDE DEF c
<1>2. /\ mid \in [Wallets -> Int] /\ mid[c.user] = balance[c.user] - c.amount
      /\ \A w \in Wallets \ {c.user} : balance[w] = mid[w]
  BY <1>1
<1>3. /\ balance' \in [Wallets -> Int] /\ balance'[c.to] = mid[c.to] + c.amount
      /\ \A w \in Wallets \ {c.to} : mid[w] = balance'[w]
  BY <1>1
<1> HIDE DEF mid
<1>4. SumFunctionOnSet(mid, Wallets) =
        SumFunctionOnSet(balance, Wallets) + (mid[c.user] - balance[c.user])
  BY <1>1, <1>2, SumMove, WalletsAreFinite
<1>5. SumFunctionOnSet(balance', Wallets) =
        SumFunctionOnSet(mid, Wallets) + (balance'[c.to] - mid[c.to])
  <2>1. PICK next : next = balance'
    OBVIOUS
  <2>2. /\ next \in [Wallets -> Int] /\ mid \in [Wallets -> Int] /\ c.to \in Wallets
        /\ \A w \in Wallets \ {c.to} : mid[w] = next[w]
    BY <1>1, <1>2, <1>3, <2>1
  <2>3. SumFunctionOnSet(next, Wallets) =
          SumFunctionOnSet(mid, Wallets) + (next[c.to] - mid[c.to])
    BY <2>2, SumMove, WalletsAreFinite
  <2> QED
    BY <2>1, <2>3
<1>6. SumFunctionOnSet(balance, Wallets) \in Int
  BY <1>1, SumType, WalletsAreFinite
<1>7. balance[c.user] \in Int /\ mid[c.to] \in Int
  BY <1>1, <1>2
<1>8. mid[c.user] - balance[c.user] = 0 - c.amount /\ balance'[c.to] - mid[c.to] = c.amount
  BY <1>1, <1>2, <1>3, <1>7
<1>9. SumFunctionOnSet(balance', Wallets) = SumFunctionOnSet(balance, Wallets)
  BY <1>1, <1>4, <1>5, <1>6, <1>8
<1>10. Credited' = Credited /\ Amounts' = Amounts
  BY <1>1 DEF Credited, Amounts
<1> QED
  BY <1>9, <1>10 DEF MoneyInv

\* A confirmation adds the amount of the order to the balance and the order to
\* those that succeeded.
LEMMA ConfirmConserves ==
  ASSUME TypeOK, TypeOK', LockInv, BalancesInRange, MoneyInv, NEW r \in Requests, CommitConfirm(r)
  PROVE  MoneyInv'
<1> DEFINE o == req[r].order
           w == orders[o].wallet
           a == orders[o].amount
<1>1. /\ w \in Wallets /\ a \in Int /\ balance' = [balance EXCEPT ![w] = @ + a]
      /\ balance \in [Wallets -> Int]
  BY CommitConfirmFacts DEF TypeOK
<1>2. /\ o \in Requests /\ orders[o].status = "pending"
      /\ orders'[o] # Null /\ orders'[o].status = "success" /\ orders'[o].amount = a
      /\ \A p \in Requests \ {o} : orders'[p] = orders[p]
  <2>1. CreditedOrder(r).status = "success" /\ CreditedOrder(r).amount = a
    BY ConfirmEffect, CreditedOrderIs
  <2> QED
    BY <2>1, ConfirmEffect
<1> HIDE DEF o, w, a
<1>3. o \notin Credited /\ Credited' = Credited \cup {o}
  BY <1>2 DEF Credited
<1>4. /\ Amounts' \in [Credited \cup {o} -> Int] /\ Amounts'[o] = a
      /\ \A p \in Credited : Amounts[p] = Amounts'[p]
  <2>1. Amounts' \in [Credited \cup {o} -> Int]
    <3>1. (TypeOK => Amounts \in [Credited -> Int])'
      BY AmountsType, PTL
    <3> QED
      BY <1>3, <3>1
  <2>2. Amounts' = [p \in Credited \cup {o} |-> orders'[p].amount]
    BY <1>3 DEF Amounts
  <2> QED
    BY <1>2, <1>3, <2>1, <2>2 DEF Amounts, Credited
<1>5. IsFiniteSet(Credited')
  BY <1>3, FS_AddElement DEF MoneyInv
<1>6. SumFunctionOnSet(Amounts', Credited') = SumFunctionOnSet(Amounts, Credited) + a
  BY <1>3, <1>4, SumAdd DEF MoneyInv
<1>7. /\ balance' \in [Wallets -> Int] /\ balance'[w] - balance[w] = a
      /\ \A v \in Wallets \ {w} : balance[v] = balance'[v]
  BY <1>1
<1>8. SumFunctionOnSet(balance', Wallets) =
        SumFunctionOnSet(balance, Wallets) + (balance'[w] - balance[w])
  <2>1. PICK next : next = balance'
    OBVIOUS
  <2>2. /\ next \in [Wallets -> Int] /\ w \in Wallets
        /\ \A v \in Wallets \ {w} : balance[v] = next[v]
    BY <1>1, <1>7, <2>1
  <2>3. SumFunctionOnSet(next, Wallets) =
          SumFunctionOnSet(balance, Wallets) + (next[w] - balance[w])
    BY <1>1, <2>2, SumMove, WalletsAreFinite
  <2> QED
    BY <2>1, <2>3
<1>9. /\ SumFunctionOnSet(Amounts, Credited) \in Int
      /\ SumFunctionOnSet(Opening, Wallets) \in Int
  BY BalancesAreInt, AmountsType, SumType, WalletsAreFinite DEF MoneyInv
<1> QED
  BY <1>1, <1>5, <1>6, <1>7, <1>8, <1>9 DEF MoneyInv

LEMMA StepMoney ==
  ASSUME TypeOK, TypeOK', LockInv, BalancesInRange, MoneyInv, [Next]_vars
  PROVE  MoneyInv'
<1>1. ASSUME Credited' = Credited, Amounts' = Amounts, balance' = balance PROVE MoneyInv'
  BY <1>1 DEF MoneyInv
<1>2. ASSUME NEW r \in Requests, CommitCreate(r) PROVE MoneyInv'
  <2>1. /\ orders[r] = Null /\ orders'[r].status = "pending" /\ balance' = balance
        /\ \A o \in Requests \ {r} : orders'[o] = orders[o]
    <3>1. NewOrder(r).status = "pending"
      BY DEF NewOrder
    <3> QED
      BY <1>2, <3>1, CreateEffect
  <2>2. Credited' = Credited
    BY <2>1 DEF Credited
  <2>3. Amounts' = Amounts
    BY <2>1, <2>2 DEF Amounts, Credited
  <2> QED
    BY <1>1, <2>1, <2>2, <2>3
<1>3. ASSUME NEW p \in Requests, FailOrder(p) PROVE MoneyInv'
  <2>1. /\ orders[p].status = "pending" /\ orders'[p].status = "failed" /\ balance' = balance
        /\ \A o \in Requests \ {p} : orders'[o] = orders[o]
    BY <1>3, FailOrderEffect
  <2>2. Credited' = Credited
    BY <2>1 DEF Credited
  <2>3. Amounts' = Amounts
    BY <2>1, <2>2 DEF Amounts, Credited
  <2> QED
    BY <1>1, <2>1, <2>2, <2>3
<1>4. ASSUME UNCHANGED <<orders, balance>> PROVE MoneyInv'
  BY <1>1, <1>4 DEF Credited, Amounts
<1> QED
  BY <1>2, <1>3, <1>4, TransferConserves, ConfirmConserves, AckEffect, OnlyCommitsWrite DEF db

\* Money enters by confirmed top ups only and never leaves, whatever transfers
\* and confirmations run together, retry and abort.
THEOREM MoneyIsConserved == Spec => []MoneyConserved
<1>1. Init => MoneyInv
  <2> SUFFICES ASSUME Init PROVE MoneyInv
    OBVIOUS
  <2>1. Credited = {} /\ balance = Opening
    BY DEF Init, Credited
  <2>2. SumFunctionOnSet(Amounts, Credited) = 0
    BY <2>1, SumEmpty
  <2>3. SumFunctionOnSet(Opening, Wallets) \in Int
    BY BalancesAreInt, SumType, WalletsAreFinite
  <2> QED
    BY <2>1, <2>2, <2>3, FS_EmptySet DEF MoneyInv
<1>2. TypeOK /\ TypeOK' /\ LockInv /\ BalancesInRange /\ MoneyInv /\ [Next]_vars => MoneyInv'
  BY StepMoney
<1> QED
  BY <1>1, <1>2, MoneySplit, TypeAndLocks, BalancesStayInRange, PTL DEF Spec

-----------------------------------------------------------------------------
(* What a request that has not ended was told.                              *)

Unanswered == \A r \in Requests : pc[r] # "done" => reply[r] = NoReply

LEMMA StepUnanswered ==
  ASSUME TypeOK, Unanswered, [Next]_vars
  PROVE  Unanswered'
<1>1. ASSUME NEW r \in Requests, Arrive(r) \/ Step(r) \/ Abort(r)
      PROVE  Unanswered'
  <2>1. pc'[r] = "done" \/ reply' = reply
    <3>1. ASSUME NEW kind, NEW id, Finish(r, kind, id) PROVE pc'[r] = "done"
      BY <3>1 DEF Finish, TypeOK
    <3> QED
      BY <1>1, <3>1 DEF Arrive, Step, Submit, Reject, Reserve, ReserveExisting, OrderNotFound,
         LockOrder, OrderAlreadyFailed, LockWallet, ExecuteTransfer, FailTransfer,
         ExecuteCreate, ExecuteConfirm, FailConfirm, CommitTransfer, CommitCreate,
         CommitConfirm, CommitAck, Abort, Refuse, Goto, Answer
  <2>2. pc[r] # "done"
    BY <1>1 DEF Arrive, Step, Submit, Reject, Reserve, ReserveExisting, OrderNotFound,
       LockOrder, OrderAlreadyFailed, LockWallet, HoldsWallets, ExecuteTransfer, FailTransfer,
       ExecuteCreate, ExecuteConfirm, FailConfirm, CommitTransfer, CommitCreate,
       CommitConfirm, CommitAck, Abort, InTx
  <2>3. Local(r)
    BY <1>1, StepLocal
  <2> QED
    BY <2>1, <2>2, <2>3 DEF Unanswered, Local
<1>2. ASSUME NEW o \in Requests, FailOrder(o) PROVE Unanswered'
  BY <1>2, FailOrderEffect DEF Unanswered
<1>3. CASE UNCHANGED vars
  BY <1>3 DEF vars, Unanswered
<1> QED
  BY <1>1, <1>2, <1>3 DEF Next, Terminated

-----------------------------------------------------------------------------
(* The contract's view of the tables.                                       *)

OrdersView == [o \in Requests |-> OrderView(o)]
TakenView  == [s \in Slots |-> OwnerView(s)]

\* What the invariants say of the state before a step.
Sound == /\ TypeOK /\ LockInv /\ BalancesInRange
         /\ KeyInv /\ RefsInv /\ Unanswered

LEMMA ViewOfOrder ==
  ASSUME TypeOK, NEW o \in Requests
  PROVE  /\ OrdersView[o] = Null <=> orders[o] = Null
         /\ orders[o] # Null => /\ OrdersView[o].wallet = orders[o].wallet
                                /\ OrdersView[o].amount = orders[o].amount
                                /\ OrdersView[o].status = orders[o].status
                                /\ OrdersView[o].ext = orders[o].ext
<1>1. CASE orders[o] = Null
  BY <1>1 DEF OrdersView, OrderView
<1>2. CASE orders[o] # Null
  <2>1. /\ orders[o] \in OrderRow
        /\ OrdersView[o] = [wallet |-> orders[o].wallet, amount |-> orders[o].amount,
                            status |-> orders[o].status, ext |-> orders[o].ext]
    BY <1>2 DEF OrdersView, OrderView, TypeOK
  <2>2. OrdersView[o] \in OrderViews
    BY <2>1 DEF OrderRow, OrderViews
  <2> QED
    BY <1>2, <2>1, <2>2, NullViewAssumption
<1> QED
  BY <1>1, <1>2

LEMMA Answers ==
  ASSUME Sound, NEW r \in Requests, pc[r] # "done", NEW kind, NEW id, Finish(r, kind, id)
  PROVE  Contract!Respond(r, kind, id)
<1>1. reply[r] = Contract!NoReply
  BY DEF Sound, Unanswered, NoReply, Contract!NoReply
<1> QED
  BY <1>1 DEF Finish, Contract!Respond

LEMMA Successes ==
  ASSUME Sound, NEW r \in Requests, pc[r] # "done", NEW id, Answer(r, id)
  PROVE  Contract!Succeed(r, id)
BY Answers DEF Answer, Contract!Succeed

LEMMA Takes ==
  ASSUME Sound, NEW r \in Requests, CompleteKey(r), req' = req
  PROVE  Contract!Take(r)
<1>1. Slot(r) \in Slots /\ Contract!Slot(r) = Slot(r)
  BY CallTypes DEF Sound, TypeOK, Slot, Contract!Slot
<1>2. /\ keys'[Slot(r)] = [by |-> r, status |-> "completed"]
      /\ \A s \in Slots \ {Slot(r)} : keys'[s] = keys[s]
  BY <1>1 DEF CompleteKey, Sound, TypeOK
<1>3. [by |-> r, status |-> "completed"] # Null
  BY NullAssumption DEF KeyRow
<1>4. \A s \in Slots : OwnerView(s)' = IF s = Slot(r) THEN r ELSE OwnerView(s)
  BY <1>2, <1>3 DEF OwnerView
<1>5. TakenView' = [TakenView EXCEPT ![Slot(r)] = r]
  BY <1>1, <1>4 DEF TakenView
<1> QED
  BY <1>1, <1>5 DEF Contract!Take, TakenView

\* Nothing written means nothing changes for the contract.
LEMMA Unseen ==
  ASSUME UNCHANGED <<db, req>>
  PROVE  UNCHANGED Contract!books /\ req' = req
BY DEF db, Contract!books, OrderView, OwnerView

\* A step that neither writes nor answers is invisible.
LEMMA Invisible ==
  ASSUME UNCHANGED <<db, req, reply>>
  PROVE  UNCHANGED Contract!atomic
BY Unseen DEF Contract!atomic

\* The owner of a reserved key, as the contract sees it.
LEMMA OwnerSeen ==
  ASSUME Sound, NEW r \in Requests
  PROVE  /\ Slot(r) \in Slots /\ Contract!Slot(r) = Slot(r)
         /\ keys[Slot(r)] = Null => TakenView[Slot(r)] = Null
         /\ keys[Slot(r)] # Null => /\ TakenView[Slot(r)] = keys[Slot(r)].by
                                    /\ keys[Slot(r)].by \in Requests
                                    /\ TakenView[Slot(r)] # Null
                                    /\ keys[Slot(r)].status = "completed"
<1>1. Slot(r) \in Slots /\ Contract!Slot(r) = Slot(r)
  BY CallTypes DEF Sound, TypeOK, Slot, Contract!Slot
<1>2. TakenView[Slot(r)] = OwnerView(Slot(r))
  BY <1>1 DEF TakenView
<1>3. keys[Slot(r)] # Null => keys[Slot(r)].by \in Requests /\ keys[Slot(r)].status = "completed"
  BY <1>1 DEF Sound, TypeOK, KeyRow, KeyInv, KeyHasEffect
<1> QED
  BY <1>1, <1>2, <1>3, NullAssumption DEF OwnerView

\* A transaction that commits uses a key nobody has used.
LEMMA Intended ==
  ASSUME Sound, NEW r \in Requests, pc[r] \in {"commit", "ack"}
  PROVE  Contract!Intends(r, req[r].op)
<1>1. keys[Slot(r)] = Null
  BY DEF Sound, LockInv, SlotMutex, InTx
<1> QED
  BY <1>1, OwnerSeen DEF Contract!Intends, TakenView

\* The order a confirmation has found is the caller's for the contract too.
LEMMA OrderSeen ==
  ASSUME Sound, NEW r \in Requests
  PROVE  /\ VisibleOrder(r) <=> Contract!Owns(r)
         /\ VisibleOrder(r) => /\ OrdersView[req[r].order].status = orders[req[r].order].status
                               /\ OrdersView[req[r].order].amount = orders[req[r].order].amount
BY ViewOfOrder DEF Sound, VisibleOrder, Contract!Owns, OrdersView

LEMMA RefSeen ==
  ASSUME Sound, NEW r \in Requests
  PROVE  ExtTaken(r) <=> Contract!RefUsed(r)
BY ViewOfOrder DEF Sound, ExtTaken, Contract!RefUsed, OrdersView

-----------------------------------------------------------------------------
(* The commits.                                                             *)

LEMMA TransferRefines ==
  ASSUME Sound, NEW r \in Requests, CommitTransfer(r)
  PROVE  Contract!Transfer(r)
<1> USE DEF Sound
<1> DEFINE c == req[r]
<1>1. /\ c.op = "transfer" /\ pc[r] = "commit" /\ CompleteKey(r) /\ Answer(r, r)
      /\ orders' = orders /\ req' = req
      /\ outbox' = outbox \cup {[type |-> "transfer.success", by |-> r,
                                 user |-> c.user, amount |-> c.amount]}
  BY TransferEffect DEF TransferEvent
<1>2. /\ c.user \in Wallets /\ c.to \in Wallets /\ c.user # c.to
      /\ c.amount \in Int /\ c.amount > 0
      /\ balance[c.user] - c.amount \in Balances
      /\ balance[c.to] + c.amount \in Balances
      /\ balance' = [balance EXCEPT ![c.user] = @ - c.amount, ![c.to] = @ + c.amount]
  BY CommitTransferFacts
<1>3. c.amount \in 1 .. balance[c.user] /\ balance[c.to] + c.amount <= MaxInt64
  BY <1>2, MaxInt64IsNat DEF Balances, TypeOK
<1>4. Contract!Intends(r, "transfer") /\ Contract!Take(r) /\ Contract!Succeed(r, r)
  BY <1>1, Intended, Takes, Successes
<1>5. OrdersView' = OrdersView
  BY <1>1 DEF OrdersView, OrderView
<1> QED
  BY <1>1, <1>2, <1>3, <1>4, <1>5 DEF Contract!Transfer, OrdersView

LEMMA CreateRefines ==
  ASSUME Sound, NEW r \in Requests, CommitCreate(r)
  PROVE  Contract!Create(r)
<1> USE DEF Sound
<1>1. /\ req[r].op = "create" /\ pc[r] = "commit" /\ CompleteKey(r) /\ Answer(r, r)
      /\ orders'[r] = NewOrder(r) /\ NewOrder(r) # Null
      /\ \A o \in Requests \ {r} : orders'[o] = orders[o]
      /\ UNCHANGED <<balance, outbox, req>>
  BY CreateEffect
<1>2. req[r].amount > 0
  BY <1>1 DEF LockInv, PhaseOK, InTx
<1>3. Contract!Intends(r, "create") /\ Contract!Take(r) /\ Contract!Succeed(r, r)
  BY <1>1, Intended, Takes, Successes
<1>4. OrderView(r)' = [wallet |-> req[r].user, amount |-> req[r].amount,
                       status |-> "pending", ext |-> Null]
  BY <1>1 DEF OrderView, NewOrder
<1>5. \A o \in Requests \ {r} : OrderView(o)' = OrderView(o)
  BY <1>1 DEF OrderView
<1>6. OrdersView' = [OrdersView EXCEPT ![r] = [wallet |-> req[r].user, amount |-> req[r].amount,
                                               status |-> "pending", ext |-> Null]]
  BY <1>4, <1>5 DEF OrdersView
<1> QED
  BY <1>1, <1>2, <1>3, <1>6 DEF Contract!Create, OrdersView

LEMMA ConfirmRefines ==
  ASSUME Sound, NEW r \in Requests, CommitConfirm(r)
  PROVE  Contract!Confirm(r)
<1> USE DEF Sound
<1> DEFINE o == req[r].order
<1>1. /\ req[r].op = "confirm" /\ pc[r] = "commit" /\ CompleteKey(r) /\ Answer(r, o)
      /\ o \in Requests /\ orders[o] \in OrderRow /\ orders[o] # Null
      /\ orders'[o] = CreditedOrder(r) /\ CreditedOrder(r) # Null
      /\ \A p \in Requests \ {o} : orders'[p] = orders[p]
      /\ outbox' = outbox \cup {TopUpEvent(r)}
      /\ req' = req
  BY ConfirmEffect
<1>2. VisibleOrder(r) /\ orders[o].status = "pending"
  BY <1>1 DEF LockInv, PhaseOK
<1>3. /\ orders[o].wallet = req[r].user /\ req[r].user \in Wallets
      /\ balance[req[r].user] + orders[o].amount \in Balances
      /\ balance' = [balance EXCEPT ![req[r].user] = @ + orders[o].amount]
  BY CommitConfirmFacts
<1>4. /\ Contract!Intends(r, "confirm") /\ Contract!Take(r) /\ Contract!Succeed(r, o)
  BY <1>1, Intended, Takes, Successes
<1>5. /\ Contract!Owns(r) /\ OrdersView[o].status = "pending"
      /\ OrdersView[o].amount = orders[o].amount
  BY <1>2, OrderSeen
<1>6. ~Contract!RefUsed(r)
  BY <1>1, RefSeen DEF RefsInv, ExtInv
<1>7. balance[req[r].user] + orders[o].amount <= MaxInt64
  BY <1>3 DEF Balances
<1>8. OrdersView' = [OrdersView EXCEPT ![o].status = "success", ![o].ext = req[r].ext]
  <2>1. OrdersView[o] = [wallet |-> orders[o].wallet, amount |-> orders[o].amount,
                         status |-> orders[o].status, ext |-> orders[o].ext]
    BY <1>1 DEF OrdersView, OrderView
  <2>2. /\ CreditedOrder(r).wallet = orders[o].wallet
        /\ CreditedOrder(r).amount = orders[o].amount
        /\ CreditedOrder(r).status = "success" /\ CreditedOrder(r).ext = req[r].ext
    BY <1>1 DEF CreditedOrder, OrderRow
  <2>3. OrdersView'[o] = [wallet |-> orders[o].wallet, amount |-> orders[o].amount,
                          status |-> "success", ext |-> req[r].ext]
    BY <1>1, <2>2 DEF OrdersView, OrderView
  <2>4. \A p \in Requests \ {o} : OrdersView'[p] = OrdersView[p]
    BY <1>1 DEF OrdersView, OrderView
  <2>5. OrdersView' = [OrdersView EXCEPT ![o] = [wallet |-> orders[o].wallet,
                         amount |-> orders[o].amount, status |-> "success", ext |-> req[r].ext]]
    BY <1>1, <2>3, <2>4 DEF OrdersView
  <2>6. [OrdersView[o] EXCEPT !.status = "success", !.ext = req[r].ext]
          = [wallet |-> orders[o].wallet, amount |-> orders[o].amount,
             status |-> "success", ext |-> req[r].ext]
    <3> DEFINE view == OrdersView[o]
               paid == [view EXCEPT !.status = "success"]
    <3>1. paid = [wallet |-> orders[o].wallet, amount |-> orders[o].amount,
                  status |-> "success", ext |-> orders[o].ext]
      BY <2>1
    <3>2. [paid EXCEPT !.ext = req[r].ext]
            = [wallet |-> orders[o].wallet, amount |-> orders[o].amount,
               status |-> "success", ext |-> req[r].ext]
      <4> HIDE DEF paid
      <4> QED
        BY <3>1
    <3> QED
      BY <3>2
  <2>7. DOMAIN OrdersView = Requests /\ o \in Requests
    BY <1>1 DEF OrdersView
  <2> HIDE DEF o
  <2>8. [OrdersView EXCEPT ![o].status = "success", ![o].ext = req[r].ext]
          = [OrdersView EXCEPT ![o] = [OrdersView[o] EXCEPT !.status = "success",
                                                            !.ext = req[r].ext]]
    BY <2>7
  <2> QED
    BY <2>5, <2>6, <2>8
<1>9. TopUpEvent(r) = [type |-> "topup.confirmed", by |-> r, user |-> req[r].user,
                       amount |-> OrdersView[o].amount]
  BY <1>5 DEF TopUpEvent
<1> QED
  BY <1>1, <1>3, <1>4, <1>5, <1>6, <1>7, <1>8, <1>9 DEF Contract!Confirm, OrdersView

LEMMA AckRefines ==
  ASSUME Sound, NEW r \in Requests, CommitAck(r)
  PROVE  Contract!Acknowledge(r)
<1> USE DEF Sound
<1> DEFINE o == req[r].order
<1>1. /\ req[r].op = "confirm" /\ pc[r] = "ack" /\ CompleteKey(r) /\ Answer(r, o)
      /\ UNCHANGED <<balance, orders, outbox, req>>
  BY AckEffect
<1>2. VisibleOrder(r) /\ orders[o].status = "success"
  BY <1>1 DEF LockInv, PhaseOK
<1>3. /\ Contract!Intends(r, "confirm") /\ Contract!Take(r) /\ Contract!Succeed(r, o)
  BY <1>1, Intended, Takes, Successes
<1>4. Contract!Owns(r) /\ OrdersView[o].status = "success"
  BY <1>2, OrderSeen
<1>5. OrdersView' = OrdersView
  BY <1>1 DEF OrdersView, OrderView
<1> QED
  BY <1>1, <1>3, <1>4, <1>5 DEF Contract!Acknowledge, OrdersView

LEMMA FailOrderRefines ==
  ASSUME Sound, NEW o \in Requests, FailOrder(o)
  PROVE  Contract!FailOrder(o)
<1> USE DEF Sound
<1>1. /\ orders[o] \in OrderRow /\ orders[o] # Null /\ orders[o].status = "pending"
      /\ orders'[o] # Null /\ orders'[o] = [orders[o] EXCEPT !.status = "failed"]
      /\ \A p \in Requests \ {o} : orders'[p] = orders[p]
      /\ UNCHANGED <<balance, keys, outbox, req, reply>>
  BY FailOrderEffect
<1>2. OrdersView[o] # Null /\ OrdersView[o].status = "pending"
  BY <1>1, ViewOfOrder
<1>3. OrdersView' = [OrdersView EXCEPT ![o].status = "failed"]
  <2>1. OrdersView[o] = [wallet |-> orders[o].wallet, amount |-> orders[o].amount,
                         status |-> orders[o].status, ext |-> orders[o].ext]
    BY <1>1 DEF OrdersView, OrderView
  <2>2. /\ orders'[o].wallet = orders[o].wallet /\ orders'[o].amount = orders[o].amount
        /\ orders'[o].status = "failed" /\ orders'[o].ext = orders[o].ext
    BY <1>1 DEF OrderRow
  <2>3. OrdersView'[o] = [wallet |-> orders[o].wallet, amount |-> orders[o].amount,
                          status |-> "failed", ext |-> orders[o].ext]
    BY <1>1, <2>2 DEF OrdersView, OrderView
  <2>4. \A p \in Requests \ {o} : OrdersView'[p] = OrdersView[p]
    BY <1>1 DEF OrdersView, OrderView
  <2>5. OrdersView' = [OrdersView EXCEPT ![o] = [wallet |-> orders[o].wallet,
                         amount |-> orders[o].amount, status |-> "failed",
                         ext |-> orders[o].ext]]
    BY <2>3, <2>4 DEF OrdersView
  <2>6. [OrdersView[o] EXCEPT !.status = "failed"]
          = [wallet |-> orders[o].wallet, amount |-> orders[o].amount,
             status |-> "failed", ext |-> orders[o].ext]
    BY <2>1
  <2> QED
    BY <2>5, <2>6
<1>4. TakenView' = TakenView
  BY <1>1 DEF TakenView, OwnerView
<1> QED
  BY <1>1, <1>2, <1>3, <1>4 DEF Contract!FailOrder, OrdersView, TakenView

-----------------------------------------------------------------------------
(* The refusals.                                                            *)

\* A justified answer without a write is a refusal of the contract.
LEMMA Refused ==
  ASSUME Sound, NEW r \in Requests, pc[r] # "done", NEW kind \in Contract!Refusals,
         Contract!Justified(r, kind), Refuse(r, kind)
  PROVE  Contract!Refuse(r)
<1>1. Finish(r, kind, Null) /\ UNCHANGED <<db, req>>
  BY DEF Refuse, Finish
<1>2. Contract!Respond(r, kind, Null)
  BY <1>1, Answers
<1>3. UNCHANGED Contract!books
  BY <1>1, Unseen
<1> QED
  BY <1>2, <1>3 DEF Contract!Refuse

\* The overflow comparisons refuse what does not fit, and nothing else.
LEMMA TopUpRefusal ==
  ASSUME NEW b \in Balances, NEW a \in Int64
  PROVE  /\ validateAndApplyTopUp(b, a).err = "amount" => a <= 0
         /\ validateAndApplyTopUp(b, a).err = "overflow" => b + a > MaxInt64
BY MaxInt64IsNat DEF validateAndApplyTopUp, Wrap, Balances, Int64, MinInt64

LEMMA TransferRefusal ==
  ASSUME NEW s \in Balances, NEW t \in Balances, NEW a \in Int64, a > 0
  PROVE  /\ transferVerdict(s, t, a) = "insufficient" => a > s
         /\ transferVerdict(s, t, a) = "overflow" => t + a > MaxInt64
BY MaxInt64IsNat DEF transferVerdict, Wrap, Balances, Int64, MinInt64

LEMMA RejectRefines ==
  ASSUME Sound, NEW r \in Requests, Reject(r)
  PROVE  Contract!Refuse(r)
<1> USE DEF Sound
<1> DEFINE c == req[r]
<1>1. /\ c.op \in Ops /\ c.user \in Wallets /\ c.amount \in Int64
      /\ balance[c.user] \in Balances
  BY CallTypes DEF TypeOK, BalancesInRange
<1>2. /\ pc[r] # "done" /\ Validation(c) # "none" /\ Refuse(r, Validation(c))
  BY DEF Reject
<1>3. validateAndApplyTopUp(balance[c.user], c.amount).err \in {"none", "amount", "overflow"}
  BY <1>1, TopUpType DEF Balances
<1>4. Validation(c) \in Contract!Refusals /\ Contract!Justified(r, Validation(c))
  <2>1. CASE c.op = "transfer"
    BY <1>2, <2>1 DEF Validation, Contract!Justified, Contract!Refusals
  <2>2. CASE c.op = "create"
    <3>1. Validation(c) = validateAndApplyTopUp(balance[c.user], c.amount).err
      BY <2>2 DEF Validation
    <3>2. CASE Validation(c) = "amount"
      BY <1>1, <2>2, <3>1, <3>2, TopUpRefusal DEF Contract!Justified, Contract!Refusals
    <3>3. CASE Validation(c) = "overflow"
      BY <1>1, <2>2, <3>1, <3>3, TopUpRefusal
         DEF Contract!Justified, Contract!Refusals, Contract!Exceeds
    <3> QED
      BY <1>2, <1>3, <3>1, <3>2, <3>3
  <2> QED
    BY <1>1, <1>2, <2>1, <2>2 DEF Validation, Ops
<1> QED
  BY <1>2, <1>4, Refused

LEMMA OrderRefusalRefines ==
  ASSUME Sound, NEW r \in Requests, OrderNotFound(r) \/ OrderAlreadyFailed(r)
  PROVE  Contract!Refuse(r)
<1> USE DEF Sound
<1>1. pc[r] = "order" /\ req[r].op = "confirm"
  BY CallTypes DEF OrderNotFound, OrderAlreadyFailed, LockInv, PhaseOK, InTx
<1>2. CASE OrderNotFound(r)
  <2>1. Contract!Justified(r, "notFound")
    BY <1>1, <1>2, OrderSeen DEF OrderNotFound, Contract!Justified
  <2> QED
    BY <1>1, <1>2, <2>1, Refused DEF OrderNotFound, Contract!Refusals
<1>3. CASE OrderAlreadyFailed(r)
  <2>1. VisibleOrder(r) /\ orders[req[r].order].status = "failed"
    BY <1>3 DEF OrderAlreadyFailed
  <2>2. Contract!Owns(r) /\ OrdersView[req[r].order].status = "failed"
    BY <2>1, OrderSeen
  <2>3. Contract!Justified(r, "orderFailed")
    BY <1>1, <2>2 DEF Contract!Justified, OrdersView
  <2> QED
    BY <1>1, <1>3, <2>3, Refused DEF OrderAlreadyFailed, Contract!Refusals
<1> QED
  BY <1>2, <1>3

LEMMA FailTransferRefines ==
  ASSUME Sound, NEW r \in Requests, FailTransfer(r)
  PROVE  Contract!Refuse(r)
<1> USE DEF Sound
<1> DEFINE c == req[r]
           verdict == TransferVerdict(r)
<1>1. /\ c.op = "transfer" /\ pc[r] = "wallets" /\ wlock[r] = {c.user, c.to} \cap Wallets
      /\ verdict # "none" /\ Refuse(r, verdict)
  BY DEF FailTransfer, HoldsWallets, Wanted
<1>2. c.user \in Wallets /\ c.amount \in Int64 /\ c.amount > 0
  BY <1>1, CallTypes DEF TypeOK, LockInv, PhaseOK, InTx
<1>3. verdict \in Contract!Refusals /\ Contract!Justified(r, verdict)
  <2>1. CASE c.to \notin Wallets
    BY <1>1, <2>1 DEF TransferVerdict, Contract!Justified, Contract!Refusals
  <2>2. CASE c.to \in Wallets
    <3>1. seen[r][c.user] = balance[c.user] /\ seen[r][c.to] = balance[c.to]
      BY <1>1, <1>2, <2>2 DEF LockInv, SnapshotsAreCurrent
    <3>2. verdict = transferVerdict(balance[c.user], balance[c.to], c.amount)
      BY <2>2, <3>1 DEF TransferVerdict
    <3>3. balance[c.user] \in Balances /\ balance[c.to] \in Balances
      BY <1>2, <2>2 DEF BalancesInRange
    <3>4. verdict \in {"insufficient", "overflow"}
      BY <1>1, <3>2 DEF transferVerdict
    <3>5. CASE verdict = "insufficient"
      BY <1>1, <1>2, <3>2, <3>3, <3>5, TransferRefusal DEF Contract!Justified, Contract!Refusals
    <3>6. CASE verdict = "overflow"
      BY <1>1, <1>2, <2>2, <3>2, <3>3, <3>6, TransferRefusal
         DEF Contract!Justified, Contract!Refusals, Contract!Exceeds
    <3> QED
      BY <3>4, <3>5, <3>6
  <2> QED
    BY <2>1, <2>2
<1> QED
  BY <1>1, <1>3, Refused

LEMMA FailConfirmRefines ==
  ASSUME Sound, NEW r \in Requests, FailConfirm(r)
  PROVE  Contract!Refuse(r)
<1> USE DEF Sound
<1> DEFINE c == req[r]
           o == req[r].order
<1>1. c.op = "confirm" /\ pc[r] = "wallets" /\ wlock[r] = {c.user}
  BY DEF FailConfirm, HoldsWallets, Wanted
<1>2. VisibleOrder(r) /\ c.user \in Wallets
  BY <1>1, CallTypes DEF LockInv, PhaseOK, TypeOK
<1>3. orders[o] \in OrderRow /\ orders[o].amount \in Int64 /\ orders[o].amount > 0
  BY <1>2 DEF VisibleOrder, TypeOK, OrderRow, LockInv, OrderAmounts
<1>4. seen[r][c.user] = balance[c.user] /\ balance[c.user] \in Balances
  BY <1>1, <1>2 DEF LockInv, SnapshotsAreCurrent, BalancesInRange
<1>5. CASE TopUpOf(r).err # "none" /\ Refuse(r, TopUpOf(r).err)
  <2>1. TopUpOf(r) = validateAndApplyTopUp(balance[c.user], orders[o].amount)
    BY <1>4 DEF TopUpOf
  <2>2. TopUpOf(r).err = "overflow" /\ balance[c.user] + orders[o].amount > MaxInt64
    <3>1. TopUpOf(r).err \in {"none", "amount", "overflow"}
      BY <1>2, TopUpOfType
    <3>2. TopUpOf(r).err # "amount"
      BY <1>3, <1>4, <2>1, TopUpRefusal DEF Int64
    <3> QED
      BY <1>3, <1>4, <1>5, <2>1, <3>1, <3>2, TopUpRefusal
  <2>3. Contract!Owns(r) /\ OrdersView[o].amount = orders[o].amount
    BY <1>2, OrderSeen
  <2>4. Contract!Justified(r, "overflow")
    BY <1>1, <2>2, <2>3 DEF Contract!Justified, Contract!Exceeds, OrdersView
  <2> QED
    BY <1>1, <1>5, <2>2, <2>4, Refused DEF Contract!Refusals
<1>6. CASE ExtTaken(r) /\ Refuse(r, "internal")
  <2>1. Contract!Justified(r, "internal")
    BY <1>1, <1>6, RefSeen DEF Contract!Justified
  <2> QED
    BY <1>1, <1>6, <2>1, Refused DEF Contract!Refusals
<1> QED
  BY <1>5, <1>6 DEF FailConfirm

\* A reserved key: the error that PostgreSQL makes of it, or the replay and the
\* conflict of a database that can still read the row.
LEMMA ReserveExistingRefines ==
  ASSUME Sound, NEW r \in Requests, ReserveExisting(r)
  PROVE  Contract!Refuse(r) \/ Contract!Replay(r)
<1> USE DEF Sound
<1> DEFINE s == keys[Slot(r)].by
<1>1. /\ pc[r] # "done" /\ keys[Slot(r)] # Null /\ UNCHANGED db
  BY DEF ReserveExisting
<1>2. /\ TakenView[Slot(r)] = s /\ s \in Requests /\ s # Null
      /\ keys[Slot(r)].status = "completed" /\ Contract!Slot(r) = Slot(r)
  BY <1>1, OwnerSeen
<1>3. Contract!SamePayload(r, s) <=> SamePayload(r, s)
  BY DEF SamePayload, Contract!SamePayload
<1>4. CASE TxAbortsOnError
  <2>1. Finish(r, "internal", Null) /\ Refuse(r, "internal")
    BY <1>1, <1>4 DEF ReserveExisting, Refuse
  <2>2. Contract!Justified(r, "internal")
    BY <1>2 DEF Contract!Justified, TakenView
  <2> QED
    BY <1>1, <2>1, <2>2, Refused DEF Contract!Refusals
<1>5. CASE ~TxAbortsOnError /\ ~SamePayload(r, s)
  <2>1. Finish(r, "conflict", Null) /\ Refuse(r, "conflict")
    BY <1>1, <1>5 DEF ReserveExisting, Refuse, Resolution
  <2>2. Contract!Justified(r, "conflict")
    BY <1>2, <1>3, <1>5 DEF Contract!Justified, TakenView
  <2> QED
    BY <1>1, <2>1, <2>2, Refused DEF Contract!Refusals
<1>6. CASE ~TxAbortsOnError /\ SamePayload(r, s)
  <2>1. Resolution(r, keys[Slot(r)]) = "ok"
    BY <1>2, <1>6 DEF Resolution
  <2>2. Finish(r, "ok", ResourceOf(s)) /\ req' = req
    BY <1>6, <2>1 DEF ReserveExisting, Finish
  <2>3. Contract!Respond(r, "ok", ResourceOf(s)) /\ UNCHANGED Contract!books
    BY <1>1, <2>2, Answers, Unseen
  <2> QED
    BY <1>2, <1>3, <1>6, <2>3 DEF Contract!Replay, ResourceOf, TakenView
<1> QED
  BY <1>4, <1>5, <1>6

LEMMA AbortRefines ==
  ASSUME Sound, NEW r \in Requests, Abort(r)
  PROVE  Contract!Refuse(r)
<1>1. pc[r] # "done" /\ Refuse(r, "unknown")
  BY DEF Abort, InTx
<1> QED
  BY <1>1, Refused DEF Contract!Justified, Contract!Refusals

-----------------------------------------------------------------------------
(* The refinement.                                                          *)

LEMMA InitRefines ==
  ASSUME Init
  PROVE  Contract!Init
<1>1. /\ [o \in Requests |-> OrderView(o)] = [r \in Requests |-> Null]
      /\ [s \in Slots |-> OwnerView(s)] = [s \in Slots |-> Null]
  BY DEF Init, OrderView, OwnerView
<1> QED
  BY <1>1 DEF Init, Contract!Init, NoReply, Contract!NoReply, Slots, Contract!Slots, Ops,
     Contract!Ops

LEMMA StepRefines ==
  ASSUME Sound, [Next]_vars
  PROVE  [Contract!Next]_(Contract!atomic)
<1>1. ASSUME NEW r \in Requests, Submit(r) \/ Reserve(r) \/ LockOrder(r) \/ LockWallet(r)
                                 \/ ExecuteTransfer(r) \/ ExecuteCreate(r) \/ ExecuteConfirm(r)
      PROVE  UNCHANGED Contract!atomic
  <2>1. UNCHANGED <<db, req, reply>>
    BY <1>1 DEF Submit, Reserve, LockOrder, LockWallet, ExecuteTransfer, ExecuteCreate,
       ExecuteConfirm, Goto
  <2> QED
    BY <2>1, Invisible
<1>2. CASE UNCHANGED vars
  BY <1>2, Invisible DEF vars
<1>3. ASSUME NEW r \in Requests, Arrive(r) \/ Step(r) \/ Abort(r) \/ FailOrder(r)
      PROVE  [Contract!Next]_(Contract!atomic)
  <2>1. CASE CommitTransfer(r) \/ CommitCreate(r) \/ CommitConfirm(r)
    BY <2>1, TransferRefines, CreateRefines, ConfirmRefines DEF Contract!Next, Contract!Execute
  <2>2. CASE CommitAck(r) \/ FailOrder(r)
    BY <2>2, AckRefines, FailOrderRefines DEF Contract!Next, Contract!Execute
  <2>3. CASE Reject(r) \/ OrderNotFound(r) \/ OrderAlreadyFailed(r) \/ Abort(r)
    BY <2>3, RejectRefines, OrderRefusalRefines, AbortRefines DEF Contract!Next
  <2>4. CASE FailTransfer(r) \/ FailConfirm(r) \/ ReserveExisting(r)
    BY <2>4, FailTransferRefines, FailConfirmRefines, ReserveExistingRefines DEF Contract!Next
  <2> QED
    BY <1>1, <1>3, <2>1, <2>2, <2>3, <2>4 DEF Arrive, Step
<1> QED
  BY <1>2, <1>3 DEF Next, Terminated

\* Strict serializability, for every set of requests, wallets, keys and calls
\* and every width of the integers: each commit is one call of the contract,
\* each refusal is justified by the accounts of its moment, and nothing else is
\* visible, whatever transactions interleave, wait, abort or lose answers.
THEOREM WalletIsAtomic == Spec => ImplementsAtomicWallet
<1>1. Init => Unanswered
  BY DEF Init, Unanswered
<1>2. TypeOK /\ Unanswered /\ [Next]_vars => Unanswered'
  BY StepUnanswered
<1>3. Spec => [](TypeOK /\ LockInv) /\ []BalancesInRange /\ [](KeyInv /\ RowsInv) /\ []RefsInv
  BY TypeAndLocks, BalancesStayInRange, RowsAreAskedFor, ReferencesAreHeld
<1>4. Spec => []Sound
  BY <1>1, <1>2, <1>3, PTL DEF Spec, Sound
<1>5. Init => Contract!Init
  BY InitRefines
<1>6. Sound /\ [Next]_vars => [Contract!Next]_(Contract!atomic)
  BY StepRefines
<1> QED
  BY <1>4, <1>5, <1>6, PTL DEF Spec, Contract!Spec, ImplementsAtomicWallet

=============================================================================
