------------------------ MODULE WalletService_proofs ------------------------
(***************************************************************************)
(* Proofs about WalletService for every set of requests, wallets, keys and *)
(* calls, and every width of the machine integer.                          *)
(***************************************************************************)
EXTENDS WalletProperties, SumTheorems, TLAPS

-----------------------------------------------------------------------------
(* The arithmetic.                                                          *)

LEMMA WrapInt == \A x \in Int : Wrap(x) \in Int
BY MaxInt64IsNat DEF Wrap, MinInt64

\* validateAndApplyTopUp accepts an amount only if the exact sum is a balance,
\* and then returns that sum.
LEMMA TopUpExact ==
  ASSUME NEW b \in Balances, NEW a \in Int64, validateAndApplyTopUp(b, a).err = "none"
  PROVE  /\ a > 0
         /\ b + a \in Balances
         /\ validateAndApplyTopUp(b, a).balance = b + a
BY MaxInt64IsNat DEF validateAndApplyTopUp, Wrap, Balances, Int64, MinInt64

\* Whatever validateAndApplyTopUp answers is an integer and one of three verdicts.
LEMMA TopUpType ==
  ASSUME NEW b \in Int, NEW a \in Int64
  PROVE  /\ validateAndApplyTopUp(b, a).err \in {"none", "amount", "overflow"}
         /\ validateAndApplyTopUp(b, a).balance \in Int
BY MaxInt64IsNat, WrapInt DEF validateAndApplyTopUp, Int64, MinInt64

\* TransferWithMetadataTx accepts an amount only if both new balances are
\* balances.
LEMMA TransferExact ==
  ASSUME NEW s \in Balances, NEW t \in Balances, NEW a \in Int64, a > 0,
         transferVerdict(s, t, a) = "none"
  PROVE  s - a \in Balances /\ t + a \in Balances
BY MaxInt64IsNat DEF transferVerdict, Wrap, Balances, Int64, MinInt64

-----------------------------------------------------------------------------
(* Type correctness.                                                        *)

LEMMA CallTypes ==
  ASSUME NEW r \in Requests, req \in [Requests -> CallType]
  PROVE  /\ req[r].op \in Ops
         /\ req[r].user \in Wallets
         /\ req[r].key \in Keys
         /\ req[r].to \in WalletIds
         /\ req[r].amount \in Int64 /\ req[r].amount \in Int
         /\ req[r].order \in Requests \cup {Null}
         /\ req[r].ext \in ExtRefs \cup {Null}
         /\ Slot(r) \in Slots
BY DEF CallType, Slot, Slots, Int64

LEMMA BalancesAreInt == Balances \subseteq Int /\ Opening \in [Wallets -> Int]
BY WalletAssumption DEF Balances

LEMMA InitType == Init => TypeOK
<1> SUFFICES ASSUME Init PROVE TypeOK
  OBVIOUS
<1>1. req \in [Requests -> CallType]
  BY WalletAssumption DEF Init
<1>2. ledger \in [Wallets -> Seq(LedgerEntry)]
  BY DEF Init
<1> QED
  BY <1>1, <1>2, BalancesAreInt DEF Init, TypeOK, NoReply, NoSnapshot

\* The variables of the requests stay well typed at the end of one.
LEMMA FinishType ==
  ASSUME TypeOK, NEW r \in Requests, NEW kind \in Outcomes, NEW id \in Requests \cup {Null},
         Finish(r, kind, id)
  PROVE  /\ pc' \in [Requests -> InTx \cup {"idle", "done"}]
         /\ wlock' \in [Requests -> SUBSET Wallets]
         /\ seen' \in [Requests -> [Wallets -> Int]]
         /\ reply' \in [Requests -> [kind: Outcomes \cup {"none"}, id: Requests \cup {Null}]]
         /\ req' = req
BY DEF TypeOK, Finish, NoSnapshot

LEMMA RefuseType ==
  ASSUME TypeOK, NEW r \in Requests, NEW kind \in Outcomes, Refuse(r, kind)
  PROVE  TypeOK'
<1>1. Finish(r, kind, Null) /\ UNCHANGED db
  BY DEF Refuse
<1> QED
  BY <1>1, FinishType DEF TypeOK, db

LEMMA GotoType ==
  ASSUME TypeOK, NEW r \in Requests, NEW phase \in InTx, Goto(r, phase),
         wlock' \in [Requests -> SUBSET Wallets], seen' \in [Requests -> [Wallets -> Int]]
  PROVE  TypeOK'
BY DEF TypeOK, Goto, db

LEMMA AnswerType ==
  ASSUME TypeOK, NEW r \in Requests, NEW id \in Requests, Answer(r, id)
  PROVE  /\ pc' \in [Requests -> InTx \cup {"idle", "done"}]
         /\ wlock' \in [Requests -> SUBSET Wallets]
         /\ seen' \in [Requests -> [Wallets -> Int]]
         /\ reply' \in [Requests -> [kind: Outcomes \cup {"none"}, id: Requests \cup {Null}]]
         /\ req' = req
<1>1. "ok" \in Outcomes /\ "unknown" \in Outcomes
  BY DEF Outcomes
<1> QED
  BY <1>1, FinishType DEF Answer

\* Every step of a request keeps the types; one lemma per kind of step.
LEMMA ArriveType ==
  ASSUME TypeOK, NEW r \in Requests, Arrive(r)
  PROVE  TypeOK'
<1>1. CASE Submit(r)
  BY <1>1, GotoType DEF Submit, TypeOK, InTx
<1>2. CASE Reject(r)
  <2>1. /\ req[r].amount \in Int64
        /\ balance[req[r].user] \in Int
    BY CallTypes DEF TypeOK
  <2>2. Validation(req[r]) \in Outcomes
    BY <1>2, <2>1, TopUpType DEF Reject, Validation, Outcomes
  <2> QED
    BY <1>2, <2>2, RefuseType DEF Reject
<1> QED
  BY <1>1, <1>2 DEF Arrive

LEMMA ReserveType ==
  ASSUME TypeOK, NEW r \in Requests, Reserve(r) \/ ReserveExisting(r)
  PROVE  TypeOK'
<1>1. CASE Reserve(r)
  <2>1. \E phase \in InTx : Goto(r, phase)
    BY <1>1 DEF Reserve, InTx
  <2> QED
    BY <1>1, <2>1, GotoType DEF Reserve, TypeOK
<1>2. CASE ReserveExisting(r)
  <2>1. Slot(r) \in Slots
    BY CallTypes DEF TypeOK
  <2>2. keys[Slot(r)] \in KeyRow
    BY <1>2, <2>1 DEF ReserveExisting, TypeOK
  <2>3. Resolution(r, keys[Slot(r)]) \in Outcomes
    BY <2>2 DEF Resolution, KeyRow, Outcomes
  <2>4. ResourceOf(keys[Slot(r)].by) \in Requests \cup {Null}
    BY <2>2, CallTypes DEF ResourceOf, KeyRow, TypeOK
  <2>5. \E kind \in Outcomes, id \in Requests \cup {Null} : Finish(r, kind, id)
    <3>1. CASE TxAbortsOnError
      BY <1>2, <3>1 DEF ReserveExisting, Outcomes
    <3>2. CASE ~TxAbortsOnError
      BY <1>2, <3>2, <2>3, <2>4 DEF ReserveExisting
    <3> QED
      BY <3>1, <3>2
  <2>6. UNCHANGED db
    BY <1>2 DEF ReserveExisting
  <2> QED
    BY <2>5, <2>6, FinishType DEF TypeOK, db
<1> QED
  BY <1>1, <1>2

LEMMA LockType ==
  ASSUME TypeOK, NEW r \in Requests,
         OrderNotFound(r) \/ LockOrder(r) \/ OrderAlreadyFailed(r) \/ LockWallet(r)
  PROVE  TypeOK'
<1>1. CASE OrderNotFound(r)
  BY <1>1, RefuseType DEF OrderNotFound, Outcomes
<1>2. CASE LockOrder(r)
  <2>1. \E phase \in InTx : Goto(r, phase)
    BY <1>2 DEF LockOrder, InTx
  <2> QED
    BY <1>2, <2>1, GotoType DEF LockOrder, TypeOK
<1>3. CASE OrderAlreadyFailed(r)
  BY <1>3, RefuseType DEF OrderAlreadyFailed, Outcomes
<1>4. CASE LockWallet(r)
  <2>1. PICK w \in NextWallets(r) : /\ wlock' = [wlock EXCEPT ![r] = @ \cup {w}]
                                    /\ seen' = [seen EXCEPT ![r][w] = balance[w]]
    BY <1>4 DEF LockWallet
  <2>2. w \in Wallets
    BY CallTypes DEF NextWallets, Wanted, TypeOK
  <2> QED
    BY <1>4, <2>1, <2>2 DEF LockWallet, TypeOK, db
<1> QED
  BY <1>1, <1>2, <1>3, <1>4

LEMMA TransferVerdictType ==
  ASSUME TypeOK, NEW r \in Requests
  PROVE  TransferVerdict(r) \in {"none", "notFound", "insufficient", "overflow"}
BY DEF TransferVerdict, transferVerdict

\* The top up a confirmation of a visible order computes.
LEMMA TopUpOfType ==
  ASSUME TypeOK, NEW r \in Requests, VisibleOrder(r)
  PROVE  /\ TopUpOf(r).err \in {"none", "amount", "overflow"}
         /\ TopUpOf(r).balance \in Int
<1>1. orders[req[r].order] \in OrderRow
  BY DEF VisibleOrder, TypeOK
<1>2. orders[req[r].order].amount \in Int64
  BY <1>1 DEF OrderRow
<1>3. seen[r][req[r].user] \in Int
  BY CallTypes DEF TypeOK
<1> QED
  BY <1>2, <1>3, TopUpType DEF TopUpOf

-----------------------------------------------------------------------------
(* The locking discipline: what a transaction in each phase has checked and *)
(* holds.  TypeOK needs it (a confirmation that commits has found an order) *)
(* and every property of the money rests on it.                             *)

\* What r itself has established by the time it is in its phase.
PhaseOK(r) ==
  /\ wlock[r] \subseteq Wanted(r)
  /\ pc[r] \notin {"wallets", "commit"} => wlock[r] = {}
  /\ pc[r] = "commit" => wlock[r] = Wanted(r)
  /\ pc[r] \in InTx /\ req[r].op # "confirm" =>
       /\ pc[r] \in {"begin", "wallets", "commit"}
       /\ req[r].amount > 0
       /\ req[r].op = "transfer" => req[r].to # req[r].user
  /\ pc[r] = "commit" /\ req[r].op = "transfer" => TransferVerdict(r) = "none"
  /\ pc[r] = "commit" /\ req[r].op = "confirm" => TopUpOf(r).err = "none"
  /\ pc[r] \in {"wallets", "commit"} /\ req[r].op = "confirm" =>
       VisibleOrder(r) /\ orders[req[r].order].status = "pending"
  /\ pc[r] = "ack" => VisibleOrder(r) /\ orders[req[r].order].status = "success"

\* No two transactions hold the same order, the same unique slot, or the same
\* wallet row unless both only share it.
OrderMutex == \A r, s \in Requests :
  r # s /\ r \in OrderHolders(req[r].order) => s \notin OrderHolders(req[r].order)

SlotMutex == \A r \in Requests :
  pc[r] \in InTx \ {"begin"} => keys[Slot(r)] = Null /\ SlotHolders(r) = {}

WalletMutex == \A r, s \in Requests :
  r # s /\ wlock[r] \cap wlock[s] # {} => req[r].op = "create" /\ req[s].op = "create"

OrderAmounts == \A o \in Requests : orders[o] # Null => orders[o].amount > 0

\* Rows named after a request do not exist before it ends.
Fresh == \A r \in Requests : pc[r] # "done" => transfers[r] = Null /\ orders[r] = Null

LockInv == /\ \A r \in Requests : PhaseOK(r)
           /\ Fresh
           /\ OrderMutex
           /\ SlotMutex
           /\ WalletMutex
           /\ OrderAmounts
           /\ SnapshotsAreCurrent

LEMMA ExecuteType ==
  ASSUME TypeOK, NEW r \in Requests, PhaseOK(r),
         \/ ExecuteTransfer(r) \/ FailTransfer(r) \/ ExecuteCreate(r)
         \/ ExecuteConfirm(r) \/ FailConfirm(r) \/ Abort(r)
  PROVE  TypeOK'
<1> USE DEF InTx
<1>1. CASE ExecuteTransfer(r)
  BY <1>1, GotoType DEF ExecuteTransfer, TypeOK
<1>2. CASE FailTransfer(r)
  BY <1>2, RefuseType, TransferVerdictType DEF FailTransfer, Outcomes
<1>3. CASE ExecuteCreate(r)
  BY <1>3, GotoType, CallTypes DEF ExecuteCreate, TypeOK
<1>4. CASE ExecuteConfirm(r)
  BY <1>4, GotoType DEF ExecuteConfirm, TypeOK
<1>5. CASE FailConfirm(r)
  BY <1>5, RefuseType, TopUpOfType DEF FailConfirm, Outcomes, PhaseOK, HoldsWallets
<1>6. CASE Abort(r)
  BY <1>6, RefuseType DEF Abort, Outcomes
<1> QED
  BY <1>1, <1>2, <1>3, <1>4, <1>5, <1>6

LEMMA CompleteKeyType ==
  ASSUME TypeOK, NEW r \in Requests, CompleteKey(r)
  PROVE  keys' \in [Slots -> KeyRow \cup {Null}]
<1>1. [by |-> r, status |-> "completed"] \in KeyRow
  BY DEF KeyRow
<1> QED
  BY <1>1, CallTypes DEF CompleteKey, TypeOK

LEMMA AppendType ==
  ASSUME NEW q \in Seq(LedgerEntry), NEW e \in LedgerEntry
  PROVE  Append(q, e) \in Seq(LedgerEntry)
OBVIOUS

LEMMA CommitTransferType ==
  ASSUME TypeOK, NEW r \in Requests, PhaseOK(r), CommitTransfer(r)
  PROVE  TypeOK'
<1> DEFINE c == req[r]
<1>1. /\ c.user \in Wallets /\ c.amount \in Int64 /\ c.amount \in Int
      /\ c.to \in Wallets
  BY CallTypes DEF CommitTransfer, PhaseOK, TransferVerdict, TypeOK
<1>2. balance' \in [Wallets -> Int]
  BY <1>1 DEF CommitTransfer, DebitAndCredit, TypeOK
<1>3. transfers' \in [Requests -> TransferRow \cup {Null}]
  <2>1. seen[r][c.user] \in Int /\ seen[r][c.to] \in Int
    BY <1>1 DEF TypeOK
  <2>2. [from |-> c.user, to |-> c.to, amount |-> c.amount,
         senderBefore |-> seen[r][c.user], senderAfter |-> seen[r][c.user] - c.amount,
         recipientBefore |-> seen[r][c.to], recipientAfter |-> seen[r][c.to] + c.amount]
          \in TransferRow
    BY <1>1, <2>1 DEF TransferRow
  <2> QED
    BY <2>2 DEF CommitTransfer, TypeOK
<1>4. ledger' \in [Wallets -> Seq(LedgerEntry)]
  <2>1. ASSUME NEW w \in Wallets, NEW direction \in {"debit", "credit"}
        PROVE  TransferEntry(r, w, direction) \in LedgerEntry
    BY <1>1 DEF TransferEntry, LedgerEntry, TypeOK
  <2>2. /\ TransferEntry(r, c.user, "debit") \in LedgerEntry
        /\ TransferEntry(r, c.to, "credit") \in LedgerEntry
    BY <1>1, <2>1
  <2> HIDE DEF c
  <2>3. \A q \in Seq(LedgerEntry) :
           /\ Append(q, TransferEntry(r, c.user, "debit")) \in Seq(LedgerEntry)
           /\ Append(q, TransferEntry(r, c.to, "credit")) \in Seq(LedgerEntry)
    BY <2>2, AppendType
  <2> QED
    BY <1>1, <2>3 DEF CommitTransfer, TypeOK, c
<1>5. outbox' \subseteq OutboxEvent
  BY <1>1 DEF CommitTransfer, TypeOK, OutboxEvent
<1> QED
  BY <1>2, <1>3, <1>4, <1>5, CompleteKeyType, AnswerType DEF CommitTransfer, TypeOK

LEMMA CommitCreateType ==
  ASSUME TypeOK, NEW r \in Requests, CommitCreate(r)
  PROVE  TypeOK'
<1>1. [wallet |-> req[r].user, amount |-> req[r].amount, status |-> "pending",
       ext |-> Null, before |-> Null, after |-> Null] \in OrderRow
  BY CallTypes DEF TypeOK, OrderRow
<1> QED
  BY <1>1, CompleteKeyType, AnswerType DEF CommitCreate, TypeOK

LEMMA CommitConfirmType ==
  ASSUME TypeOK, NEW r \in Requests, PhaseOK(r), CommitConfirm(r)
  PROVE  TypeOK'
<1> DEFINE o == req[r].order
           w == orders[o].wallet
<1>1. /\ VisibleOrder(r)
      /\ o \in Requests
      /\ orders[o] \in OrderRow
      /\ w = req[r].user
  BY DEF CommitConfirm, PhaseOK, VisibleOrder, TypeOK
<1>2. /\ w \in Wallets
      /\ orders[o].amount \in Int64 /\ orders[o].amount \in Int
      /\ seen[r][w] \in Int
      /\ TopUpOf(r).balance \in Int
      /\ req[r].ext \in ExtRefs \cup {Null}
  BY <1>1, TopUpOfType, CallTypes DEF OrderRow, TypeOK, Int64
<1>3. balance' \in [Wallets -> Int]
  <2> DEFINE a == orders[o].amount
  <2>1. /\ balance' = [balance EXCEPT ![w] = @ + a]
        /\ balance \in [Wallets -> Int]
        /\ w \in Wallets /\ a \in Int
    BY <1>2 DEF CommitConfirm, TypeOK
  <2> HIDE DEF a, w
  <2> QED
    BY <2>1
<1>4. orders' \in [Requests -> OrderRow \cup {Null}]
  <2>1. [orders[o] EXCEPT !.status = "success", !.ext = req[r].ext,
                          !.before = seen[r][w], !.after = TopUpOf(r).balance] \in OrderRow
    BY <1>1, <1>2 DEF OrderRow
  <2> QED
    BY <1>1, <2>1 DEF CommitConfirm, TypeOK
<1>5. ledger' \in [Wallets -> Seq(LedgerEntry)]
  <2>1. [ref |-> o, type |-> "top_up", direction |-> "credit", amount |-> orders[o].amount,
         before |-> seen[r][w], after |-> TopUpOf(r).balance] \in LedgerEntry
    BY <1>1, <1>2 DEF LedgerEntry
  <2> QED
    BY <1>2, <2>1, AppendType DEF CommitConfirm, TypeOK
<1>6. outbox' \subseteq OutboxEvent
  BY <1>1, <1>2 DEF CommitConfirm, TypeOK, OutboxEvent
<1> QED
  BY <1>1, <1>3, <1>4, <1>5, <1>6, CompleteKeyType, AnswerType DEF CommitConfirm, TypeOK

LEMMA CommitAckType ==
  ASSUME TypeOK, NEW r \in Requests, PhaseOK(r), CommitAck(r)
  PROVE  TypeOK'
<1>1. req[r].order \in Requests
  BY DEF CommitAck, PhaseOK, VisibleOrder
<1> QED
  BY <1>1, CompleteKeyType, AnswerType DEF CommitAck, TypeOK

LEMMA FailOrderType ==
  ASSUME TypeOK, NEW o \in Requests, FailOrder(o)
  PROVE  TypeOK'
<1>1. orders[o] \in OrderRow
  BY DEF FailOrder, TypeOK
<1>2. [orders[o] EXCEPT !.status = "failed"] \in OrderRow
  BY <1>1 DEF OrderRow
<1> QED
  BY <1>2 DEF FailOrder, TypeOK

LEMMA StepType ==
  ASSUME TypeOK, LockInv, [Next]_vars
  PROVE  TypeOK'
<1>1. ASSUME NEW r \in Requests, Arrive(r) \/ Step(r) \/ Abort(r) \/ FailOrder(r)
      PROVE  TypeOK'
  <2>1. PhaseOK(r)
    BY DEF LockInv
  <2> QED
    BY <1>1, <2>1, ArriveType, ReserveType, LockType, ExecuteType, CommitTransferType,
       CommitCreateType, CommitConfirmType, CommitAckType, FailOrderType DEF Step
<1>2. CASE UNCHANGED vars
  BY <1>2 DEF vars, db, TypeOK
<1> QED
  BY <1>1, <1>2 DEF Next, Terminated

-----------------------------------------------------------------------------
(* The locking discipline is inductive.                                     *)

LEMMA InitLocks == Init => LockInv
BY DEF Init, LockInv, PhaseOK, Fresh, OrderMutex, OrderHolders, SlotMutex, WalletMutex,
       OrderAmounts, SnapshotsAreCurrent, InTx

\* A step of r touches no other request.
Local(r) == /\ req' = req
            /\ \A s \in Requests \ {r} : /\ pc'[s] = pc[s]
                                        /\ wlock'[s] = wlock[s]
                                        /\ seen'[s] = seen[s]
                                        /\ reply'[s] = reply[s]

LEMMA StepLocal ==
  ASSUME TypeOK, NEW r \in Requests, Arrive(r) \/ Step(r) \/ Abort(r)
  PROVE  Local(r)
<1>1. ASSUME NEW kind, NEW id, Finish(r, kind, id) PROVE Local(r)
  BY <1>1 DEF Finish, Local, TypeOK
<1>2. ASSUME NEW phase, Goto(r, phase), UNCHANGED <<wlock, seen>> PROVE Local(r)
  BY <1>2 DEF Goto, Local, TypeOK
<1>3. ASSUME NEW kind, Refuse(r, kind) PROVE Local(r)
  BY <1>3, <1>1 DEF Refuse
<1>4. ASSUME NEW id, Answer(r, id) PROVE Local(r)
  BY <1>4, <1>1 DEF Answer
<1>5. CASE Arrive(r) \/ Abort(r)
  BY <1>5, <1>2, <1>3 DEF Arrive, Submit, Reject, Abort
<1>6. CASE Reserve(r) \/ ReserveExisting(r)
  <2>1. CASE Reserve(r)
    BY <2>1, <1>2 DEF Reserve
  <2>2. CASE ReserveExisting(r)
    BY <2>2, <1>1 DEF ReserveExisting
  <2> QED
    BY <1>6, <2>1, <2>2
<1>7. CASE OrderNotFound(r) \/ LockOrder(r) \/ OrderAlreadyFailed(r)
  BY <1>7, <1>2, <1>3 DEF OrderNotFound, LockOrder, OrderAlreadyFailed
<1>8. CASE LockWallet(r)
  BY <1>8 DEF LockWallet, Local, TypeOK
<1>9. CASE ExecuteTransfer(r) \/ FailTransfer(r) \/ ExecuteConfirm(r) \/ FailConfirm(r)
  BY <1>9, <1>2, <1>3 DEF ExecuteTransfer, FailTransfer, ExecuteConfirm, FailConfirm
<1>10. CASE ExecuteCreate(r)
  BY <1>10 DEF ExecuteCreate, Goto, Local, TypeOK
<1>11. CASE CommitTransfer(r) \/ CommitCreate(r) \/ CommitConfirm(r) \/ CommitAck(r)
  BY <1>11, <1>4 DEF CommitTransfer, CommitCreate, CommitConfirm, CommitAck
<1> QED
  BY <1>5, <1>6, <1>7, <1>8, <1>9, <1>10, <1>11 DEF Step

\* The order a transaction other than r holds is not written.
HeldOrdersStable(r) == \A s \in Requests \ {r} :
  s \in OrderHolders(req[s].order) => orders'[req[s].order] = orders[req[s].order]

\* A step of r leaves what every other request has established.
LEMMA OthersPhase ==
  ASSUME TypeOK, NEW r \in Requests, Local(r), HeldOrdersStable(r),
         NEW s \in Requests \ {r}, PhaseOK(s)
  PROVE  PhaseOK(s)'
<1>1. req' = req /\ pc'[s] = pc[s] /\ wlock'[s] = wlock[s] /\ seen'[s] = seen[s]
  BY DEF Local
<1>2. Wanted(s)' = Wanted(s) /\ TransferVerdict(s)' = TransferVerdict(s)
  BY <1>1 DEF Wanted, TransferVerdict
<1>3. ASSUME s \in OrderHolders(req[s].order)
      PROVE  VisibleOrder(s)' = VisibleOrder(s) /\ TopUpOf(s)' = TopUpOf(s)
             /\ orders'[req[s].order] = orders[req[s].order]
  BY <1>1, <1>3 DEF HeldOrdersStable, VisibleOrder, TopUpOf
<1>4. pc[s] \in {"wallets", "commit", "ack"} /\ req[s].op = "confirm"
        => s \in OrderHolders(req[s].order)
  BY DEF OrderHolders
<1>5. pc[s] = "ack" => req[s].op = "confirm"
  BY DEF PhaseOK, InTx
<1> QED
  BY <1>1, <1>2, <1>3, <1>4, <1>5 DEF PhaseOK

\* A step of r that takes no new order, slot or wallet keeps the exclusions.
LEMMA OrderMutexKept ==
  ASSUME TypeOK, OrderMutex, NEW r \in Requests, Local(r),
         r \in OrderHolders(req[r].order)' => \/ r \in OrderHolders(req[r].order)
                                             \/ OrderHolders(req[r].order) = {}
  PROVE  OrderMutex'
BY DEF OrderMutex, OrderHolders, Local

LEMMA WalletMutexKept ==
  ASSUME TypeOK, WalletMutex, NEW r \in Requests, Local(r),
         \A w \in wlock'[r] : w \in wlock[r] \/ WalletHolders(r, w) = {}
  PROVE  WalletMutex'
<1> SUFFICES ASSUME NEW p \in Requests, NEW s \in Requests, p # s,
                    (wlock[p] \cap wlock[s] # {})'
             PROVE  (req[p].op = "create" /\ req[s].op = "create")'
  BY DEF WalletMutex
<1>1. req' = req
  BY DEF Local
<1>2. PICK w : w \in wlock'[p] /\ w \in wlock'[s]
  OBVIOUS
<1>3. ASSUME NEW q \in Requests \ {r}, w \in wlock'[r], w \in wlock'[q]
      PROVE  req[r].op = "create" /\ req[q].op = "create"
  <2>1. w \in wlock[q]
    BY <1>3 DEF Local
  <2>2. CASE w \in wlock[r]
    BY <1>3, <2>1, <2>2 DEF WalletMutex
  <2>3. CASE WalletHolders(r, w) = {}
    BY <1>3, <2>1, <2>3 DEF WalletHolders
  <2> QED
    BY <1>3, <2>2, <2>3
<1>4. CASE p = r \/ s = r
  BY <1>1, <1>2, <1>3, <1>4
<1>5. CASE p # r /\ s # r
  BY <1>1, <1>2, <1>5 DEF WalletMutex, Local
<1> QED
  BY <1>4, <1>5

LEMMA SlotMutexKept ==
  ASSUME TypeOK, SlotMutex, NEW r \in Requests, Local(r), keys' = keys,
         pc'[r] \in InTx \ {"begin"} =>
           \/ pc[r] \in InTx \ {"begin"}
           \/ SlotHolders(r) = {} /\ keys[Slot(r)] = Null
  PROVE  SlotMutex'
<1>1. \A s \in Requests : Slot(s)' = Slot(s)
  BY DEF Slot, Local
<1> QED
  BY <1>1 DEF SlotMutex, SlotHolders, Local

\* A step that writes nothing keeps the discipline if r's own part is in order.
LEMMA QuietStep ==
  ASSUME TypeOK, LockInv, NEW r \in Requests, Local(r), UNCHANGED db, pc[r] # "done",
         PhaseOK(r)',
         r \in OrderHolders(req[r].order)' => \/ r \in OrderHolders(req[r].order)
                                             \/ OrderHolders(req[r].order) = {},
         \A w \in wlock'[r] : w \in wlock[r] \/ WalletHolders(r, w) = {},
         pc'[r] \in InTx \ {"begin"} =>
           \/ pc[r] \in InTx \ {"begin"}
           \/ SlotHolders(r) = {} /\ keys[Slot(r)] = Null,
         req[r].op # "create" => \A w \in wlock'[r] : seen'[r][w] = balance[w]
  PROVE  LockInv'
<1>1. \A s \in Requests : PhaseOK(s)'
  <2>1. HeldOrdersStable(r)
    BY DEF HeldOrdersStable, db
  <2> QED
    BY <2>1, OthersPhase DEF LockInv
<1>2. OrderMutex' /\ WalletMutex' /\ SlotMutex'
  BY OrderMutexKept, WalletMutexKept, SlotMutexKept DEF LockInv, db
<1>3. Fresh' /\ OrderAmounts'
  BY DEF LockInv, Fresh, OrderAmounts, db, Local
<1>4. SnapshotsAreCurrent'
  BY DEF LockInv, SnapshotsAreCurrent, db, Local
<1> QED
  BY <1>1, <1>2, <1>3, <1>4 DEF LockInv

\* A transaction that ends without writing.
LEMMA QuietEnd ==
  ASSUME TypeOK, LockInv, NEW r \in Requests, Local(r), UNCHANGED db, pc[r] # "done",
         NEW kind, NEW id, Finish(r, kind, id)
  PROVE  LockInv'
<1>1. pc'[r] = "done" /\ wlock'[r] = {}
  BY DEF Finish, TypeOK
<1>2. PhaseOK(r)'
  BY <1>1 DEF PhaseOK, InTx
<1> QED
  BY <1>1, <1>2, QuietStep DEF InTx, OrderHolders

LEMMA ArriveLocks ==
  ASSUME TypeOK, LockInv, NEW r \in Requests, Arrive(r) \/ Abort(r)
  PROVE  LockInv'
<1>1. Local(r)
  BY StepLocal
<1>2. CASE Submit(r)
  <2>1. /\ pc[r] = "idle" /\ pc'[r] = "begin" /\ UNCHANGED <<db, wlock, seen>>
    BY <1>2 DEF Submit, Goto, TypeOK
  <2>2. wlock[r] = {}
    BY <2>1 DEF LockInv, PhaseOK
  <2>3. PhaseOK(r)'
    <3>1. req[r].op = "transfer" => req[r].amount > 0 /\ req[r].to # req[r].user
      BY <1>2, CallTypes DEF Submit, Validation, TypeOK
    <3>2. req[r].op = "create" => req[r].amount > 0
      BY <1>2, CallTypes DEF Submit, Validation, validateAndApplyTopUp, TypeOK
    <3>3. req[r].op \in Ops
      BY CallTypes DEF TypeOK
    <3> QED
      BY <1>1, <2>1, <2>2, <3>1, <3>2, <3>3 DEF PhaseOK, InTx, Ops, Local
  <2> QED
    BY <1>1, <2>1, <2>2, <2>3, QuietStep DEF OrderHolders, InTx
<1>3. CASE Reject(r) \/ Abort(r)
  BY <1>1, <1>3, QuietEnd DEF Reject, Abort, Refuse, InTx
<1> QED
  BY <1>2, <1>3 DEF Arrive

LEMMA ReserveLocks ==
  ASSUME TypeOK, LockInv, NEW r \in Requests, Reserve(r) \/ ReserveExisting(r)
  PROVE  LockInv'
<1>1. Local(r)
  BY StepLocal DEF Step
<1>2. CASE Reserve(r)
  <2>1. /\ pc[r] = "begin"
        /\ pc'[r] = IF req[r].op = "confirm" THEN "order" ELSE "wallets"
        /\ UNCHANGED <<db, wlock, seen>>
    BY <1>2 DEF Reserve, Goto, TypeOK
  <2>2. wlock[r] = {}
    BY <2>1 DEF LockInv, PhaseOK
  <2>3. PhaseOK(r)'
    BY <1>1, <2>1, <2>2 DEF LockInv, PhaseOK, InTx, Local
  <2> QED
    BY <1>1, <1>2, <2>1, <2>2, <2>3, QuietStep DEF OrderHolders, InTx, Reserve, Local
<1>3. CASE ReserveExisting(r)
  <2>1. \E kind, id : Finish(r, kind, id)
    BY <1>3 DEF ReserveExisting
  <2> QED
    BY <1>1, <1>3, <2>1, QuietEnd DEF ReserveExisting
<1> QED
  BY <1>2, <1>3

LEMMA OrderLocks ==
  ASSUME TypeOK, LockInv, NEW r \in Requests,
         OrderNotFound(r) \/ LockOrder(r) \/ OrderAlreadyFailed(r)
  PROVE  LockInv'
<1>1. Local(r)
  BY StepLocal DEF Step
<1>2. CASE LockOrder(r)
  <2>1. /\ pc[r] = "order" /\ VisibleOrder(r)
        /\ pc'[r] = IF orders[req[r].order].status = "success" THEN "ack" ELSE "wallets"
        /\ UNCHANGED <<db, wlock, seen>>
    BY <1>2 DEF LockOrder, Goto, TypeOK
  <2>2. wlock[r] = {} /\ req[r].op = "confirm"
    BY <2>1 DEF LockInv, PhaseOK, InTx
  <2>3. orders[req[r].order].status # "success" => orders[req[r].order].status = "pending"
    <3>1. orders[req[r].order] \in OrderRow
      BY <2>1 DEF VisibleOrder, TypeOK
    <3> QED
      BY <1>2, <3>1 DEF LockOrder, OrderRow
  <2>4. VisibleOrder(r)' /\ Wanted(r)' = Wanted(r)
    BY <1>1, <2>1 DEF VisibleOrder, Wanted, Local, db
  <2>5. PhaseOK(r)'
    BY <1>1, <2>1, <2>2, <2>3, <2>4 DEF PhaseOK, InTx, Local, db
  <2> QED
    BY <1>1, <1>2, <2>1, <2>2, <2>5, QuietStep DEF InTx, LockOrder, Local
<1>3. CASE OrderNotFound(r) \/ OrderAlreadyFailed(r)
  BY <1>1, <1>3, QuietEnd DEF OrderNotFound, OrderAlreadyFailed, Refuse
<1> QED
  BY <1>2, <1>3

LEMMA WalletLocks ==
  ASSUME TypeOK, LockInv, NEW r \in Requests, LockWallet(r)
  PROVE  LockInv'
<1>1. Local(r)
  BY StepLocal DEF Step
<1>2. PICK w \in NextWallets(r) : /\ WalletHolders(r, w) = {}
                                  /\ wlock' = [wlock EXCEPT ![r] = @ \cup {w}]
                                  /\ seen' = [seen EXCEPT ![r][w] = balance[w]]
  BY DEF LockWallet
<1>3. /\ pc[r] = "wallets" /\ pc'[r] = "wallets" /\ req[r].op # "create"
      /\ UNCHANGED <<db, req, pc>>
  BY DEF LockWallet
<1>4. /\ w \in Wanted(r) /\ w \in Wallets
      /\ wlock'[r] = wlock[r] \cup {w}
      /\ seen'[r] = [seen[r] EXCEPT ![w] = balance[w]]
  BY <1>2, CallTypes DEF NextWallets, Wanted, TypeOK
<1>5. PhaseOK(r)'
  <2>1. Wanted(r)' = Wanted(r)
    BY <1>3 DEF Wanted
  <2>2. VisibleOrder(r)' = VisibleOrder(r)
    BY <1>3 DEF VisibleOrder, db
  <2> QED
    BY <1>3, <1>4, <2>1, <2>2 DEF LockInv, PhaseOK, InTx, db
<1>6. \A v \in wlock'[r] : seen'[r][v] = balance[v]
  BY <1>3, <1>4 DEF LockInv, SnapshotsAreCurrent, TypeOK
<1> QED
  BY <1>1, <1>2, <1>3, <1>4, <1>5, <1>6, QuietStep DEF OrderHolders, InTx

LEMMA ExecuteLocks ==
  ASSUME TypeOK, LockInv, NEW r \in Requests,
         \/ ExecuteTransfer(r) \/ FailTransfer(r) \/ ExecuteCreate(r)
         \/ ExecuteConfirm(r) \/ FailConfirm(r)
  PROVE  LockInv'
<1>1. Local(r)
  BY StepLocal DEF Step
<1>2. CASE ExecuteTransfer(r) \/ ExecuteConfirm(r)
  <2>1. /\ pc[r] = "wallets" /\ pc'[r] = "commit" /\ wlock[r] = Wanted(r)
        /\ UNCHANGED <<db, req, wlock, seen>>
    BY <1>2 DEF ExecuteTransfer, ExecuteConfirm, HoldsWallets, Goto, TypeOK
  <2>2. /\ Wanted(r)' = Wanted(r) /\ TransferVerdict(r)' = TransferVerdict(r)
        /\ TopUpOf(r)' = TopUpOf(r) /\ VisibleOrder(r)' = VisibleOrder(r)
    BY <2>1 DEF Wanted, TransferVerdict, TopUpOf, VisibleOrder, db
  <2>3. PhaseOK(r)'
    BY <1>2, <2>1, <2>2 DEF LockInv, PhaseOK, InTx, db, ExecuteTransfer, ExecuteConfirm
  <2>4. req[r].op # "create" => \A w \in wlock'[r] : seen'[r][w] = balance[w]
    BY <2>1 DEF LockInv, SnapshotsAreCurrent
  <2> QED
    BY <1>1, <2>1, <2>3, <2>4, QuietStep DEF OrderHolders, InTx
<1>3. CASE ExecuteCreate(r)
  <2>1. /\ pc[r] = "wallets" /\ pc'[r] = "commit" /\ req[r].op = "create"
        /\ wlock'[r] = {req[r].user}
        /\ UNCHANGED <<db, req, seen>>
    BY <1>3 DEF ExecuteCreate, Goto, TypeOK
  <2>2. PhaseOK(r)'
    BY <2>1 DEF LockInv, PhaseOK, InTx, Wanted
  <2> QED
    BY <1>1, <1>3, <2>1, <2>2, QuietStep DEF OrderHolders, InTx, ExecuteCreate
<1>4. CASE FailTransfer(r) \/ FailConfirm(r)
  <2>1. UNCHANGED db /\ pc[r] = "wallets" /\ \E kind : Finish(r, kind, Null)
    BY <1>4 DEF FailTransfer, FailConfirm, HoldsWallets, Refuse
  <2> QED
    BY <1>1, <2>1, QuietEnd
<1> QED
  BY <1>2, <1>3, <1>4

\* A commit writes only what the transaction holds, and then holds nothing.
LEMMA CommitStep ==
  ASSUME TypeOK, LockInv, NEW r \in Requests, Local(r),
         pc[r] \in {"commit", "ack"}, pc'[r] = "done", wlock'[r] = {},
         CompleteKey(r), HeldOrdersStable(r), OrderAmounts',
         \A w \in Wallets : balance'[w] = balance[w] \/ (w \in wlock[r] /\ req[r].op # "create"),
         \A s \in Requests \ {r} :
           pc[s] # "done" => transfers'[s] = transfers[s] /\ orders'[s] = orders[s]
  PROVE  LockInv'
<1>1. \A s \in Requests : PhaseOK(s)'
  <2>1. PhaseOK(r)'
    BY DEF PhaseOK, InTx
  <2> QED
    BY <2>1, OthersPhase DEF LockInv
<1>2. OrderMutex' /\ WalletMutex'
  BY OrderMutexKept, WalletMutexKept DEF LockInv, OrderHolders
<1>3. SlotMutex'
  <2> SUFFICES ASSUME NEW s \in Requests, (pc[s] \in InTx \ {"begin"})'
               PROVE  (keys[Slot(s)] = Null /\ SlotHolders(s) = {})'
    BY DEF SlotMutex
  <2>1. s # r /\ pc[s] \in InTx \ {"begin"}
    BY DEF Local, InTx
  <2>2. \A q \in Requests : Slot(q)' = Slot(q)
    BY DEF Local, Slot
  <2>3. pc[r] \in InTx \ {"begin"}
    BY DEF InTx
  <2>4. Slot(s) # Slot(r)
    BY <2>1, <2>3 DEF LockInv, SlotMutex, SlotHolders
  <2>5. keys'[Slot(s)] = keys[Slot(s)]
    BY <2>4, CallTypes DEF CompleteKey, TypeOK
  <2>6. SlotHolders(s)' = {}
    BY <2>1, <2>2 DEF LockInv, SlotMutex, SlotHolders, Local, InTx
  <2> QED
    BY <2>1, <2>2, <2>5, <2>6 DEF LockInv, SlotMutex
<1>4. Fresh'
  BY DEF LockInv, Fresh, Local
<1>5. SnapshotsAreCurrent'
  <2> SUFFICES ASSUME NEW s \in Requests, req'[s].op # "create", NEW w \in wlock'[s]
               PROVE  seen'[s][w] = balance'[w]
    BY DEF SnapshotsAreCurrent
  <2>1. s # r /\ w \in wlock[s] /\ seen'[s] = seen[s] /\ req[s].op # "create"
    BY DEF Local
  <2>2. w \in Wallets
    BY <2>1 DEF TypeOK
  <2>3. w \notin wlock[r]
    BY <2>1 DEF LockInv, WalletMutex
  <2> QED
    BY <2>1, <2>2, <2>3 DEF LockInv, SnapshotsAreCurrent
<1> QED
  BY <1>1, <1>2, <1>3, <1>4, <1>5 DEF LockInv

\* What the end of a committed transaction does to r.
LEMMA AnswerEnds ==
  ASSUME TypeOK, NEW r \in Requests, NEW id, Answer(r, id)
  PROVE  pc'[r] = "done" /\ wlock'[r] = {}
BY DEF Answer, Finish, TypeOK

LEMMA CommitTransferLocks ==
  ASSUME TypeOK, LockInv, NEW r \in Requests, CommitTransfer(r)
  PROVE  LockInv'
<1>1. Local(r)
  BY StepLocal DEF Step
<1>2. /\ pc[r] = "commit" /\ req[r].op = "transfer" /\ orders' = orders
      /\ pc'[r] = "done" /\ wlock'[r] = {} /\ CompleteKey(r)
  BY AnswerEnds DEF CommitTransfer
<1>3. \A w \in Wallets : balance'[w] = balance[w] \/ w \in wlock[r]
  <2>1. wlock[r] = {req[r].user, req[r].to} \cap Wallets
    BY <1>2 DEF LockInv, PhaseOK, Wanted
  <2> QED
    BY <2>1 DEF CommitTransfer, DebitAndCredit, TypeOK
<1>4. \A s \in Requests \ {r} : transfers'[s] = transfers[s]
  BY DEF CommitTransfer, TypeOK
<1>5. HeldOrdersStable(r) /\ OrderAmounts'
  BY <1>2 DEF HeldOrdersStable, LockInv, OrderAmounts
<1> QED
  BY <1>1, <1>2, <1>3, <1>4, <1>5, CommitStep

LEMMA CommitCreateLocks ==
  ASSUME TypeOK, LockInv, NEW r \in Requests, CommitCreate(r)
  PROVE  LockInv'
<1>1. Local(r)
  BY StepLocal DEF Step
<1>2. /\ pc[r] = "commit" /\ req[r].op = "create"
      /\ balance' = balance /\ transfers' = transfers
      /\ pc'[r] = "done" /\ wlock'[r] = {} /\ CompleteKey(r)
  BY AnswerEnds DEF CommitCreate
<1>3. /\ orders[r] = Null /\ req[r].amount > 0
      /\ orders'[r] # Null /\ orders'[r].amount = req[r].amount
      /\ \A s \in Requests \ {r} : orders'[s] = orders[s]
  <2>1. orders'[r] = [wallet |-> req[r].user, amount |-> req[r].amount, status |-> "pending",
                      ext |-> Null, before |-> Null, after |-> Null]
    BY DEF CommitCreate, TypeOK
  <2>2. orders'[r] \in OrderRow
    BY <2>1, CallTypes DEF OrderRow, TypeOK
  <2>3. orders[r] = Null /\ req[r].amount > 0
    BY <1>2 DEF LockInv, Fresh, PhaseOK, InTx
  <2> QED
    BY <2>1, <2>2, <2>3, NullAssumption DEF CommitCreate, TypeOK
<1>4. HeldOrdersStable(r)
  <2> SUFFICES ASSUME NEW s \in Requests \ {r}, s \in OrderHolders(req[s].order)
               PROVE  orders'[req[s].order] = orders[req[s].order]
    BY DEF HeldOrdersStable
  <2>1. VisibleOrder(s)
    BY DEF LockInv, PhaseOK, OrderHolders
  <2> QED
    BY <1>3, <2>1 DEF VisibleOrder
<1>5. OrderAmounts'
  BY <1>3 DEF LockInv, OrderAmounts
<1> QED
  BY <1>1, <1>2, <1>3, <1>4, <1>5, CommitStep

LEMMA CommitConfirmLocks ==
  ASSUME TypeOK, LockInv, NEW r \in Requests, CommitConfirm(r)
  PROVE  LockInv'
<1> DEFINE o == req[r].order
<1>1. Local(r)
  BY StepLocal DEF Step
<1>2. /\ pc[r] = "commit" /\ req[r].op = "confirm" /\ transfers' = transfers
      /\ pc'[r] = "done" /\ wlock'[r] = {} /\ CompleteKey(r)
  BY AnswerEnds DEF CommitConfirm
<1>3. VisibleOrder(r) /\ wlock[r] = {req[r].user}
  BY <1>2 DEF LockInv, PhaseOK, Wanted
<1>4. \A w \in Wallets : balance'[w] = balance[w] \/ w \in wlock[r]
  BY <1>3 DEF CommitConfirm, VisibleOrder, TypeOK
<1>5. /\ o \in Requests /\ orders[o] # Null /\ orders[o] \in OrderRow
      /\ \A p \in Requests \ {o} : orders'[p] = orders[p]
      /\ orders'[o].amount = orders[o].amount
  BY <1>3 DEF CommitConfirm, VisibleOrder, TypeOK, OrderRow
<1>6. HeldOrdersStable(r)
  <2> SUFFICES ASSUME NEW s \in Requests \ {r}, s \in OrderHolders(req[s].order)
               PROVE  orders'[req[s].order] = orders[req[s].order]
    BY DEF HeldOrdersStable
  <2>1. r \in OrderHolders(o)
    BY <1>2 DEF OrderHolders
  <2>2. req[s].order # o
    BY <2>1 DEF LockInv, OrderMutex
  <2>3. VisibleOrder(s)
    BY DEF LockInv, PhaseOK, OrderHolders
  <2> QED
    BY <1>5, <2>2, <2>3 DEF VisibleOrder
<1>7. OrderAmounts'
  BY <1>5 DEF LockInv, OrderAmounts
<1>8. pc[o] = "done"
  BY <1>5 DEF LockInv, Fresh
<1> QED
  BY <1>1, <1>2, <1>4, <1>5, <1>6, <1>7, <1>8, CommitStep

LEMMA CommitAckLocks ==
  ASSUME TypeOK, LockInv, NEW r \in Requests, CommitAck(r)
  PROVE  LockInv'
<1>1. Local(r)
  BY StepLocal DEF Step
<1>2. /\ pc[r] = "ack" /\ UNCHANGED <<balance, transfers, orders>>
      /\ pc'[r] = "done" /\ wlock'[r] = {} /\ CompleteKey(r)
  BY AnswerEnds DEF CommitAck
<1>3. HeldOrdersStable(r) /\ OrderAmounts'
  BY <1>2 DEF HeldOrdersStable, LockInv, OrderAmounts
<1> QED
  BY <1>1, <1>2, <1>3, CommitStep

LEMMA FailOrderLocks ==
  ASSUME TypeOK, LockInv, NEW o \in Requests, FailOrder(o)
  PROVE  LockInv'
<1>1. /\ UNCHANGED <<balance, keys, transfers, ledger, outbox, req, pc, wlock, seen, reply>>
      /\ OrderHolders(o) = {}
      /\ orders[o] # Null /\ orders[o] \in OrderRow
      /\ orders' = [orders EXCEPT ![o].status = "failed"]
  BY DEF FailOrder, TypeOK
<1>2. /\ \A p \in Requests \ {o} : orders'[p] = orders[p]
      /\ orders'[o].amount = orders[o].amount
  BY <1>1 DEF TypeOK, OrderRow
<1>3. ASSUME NEW s \in Requests PROVE PhaseOK(s)'
  <2>1. Wanted(s)' = Wanted(s) /\ TransferVerdict(s)' = TransferVerdict(s)
    BY <1>1 DEF Wanted, TransferVerdict
  <2>2. CASE s \in OrderHolders(req[s].order)
    <3>1. req[s].order # o
      BY <1>1, <2>2
    <3>2. req[s].order \in Requests
      BY <2>2 DEF LockInv, PhaseOK, OrderHolders, VisibleOrder
    <3>3. orders'[req[s].order] = orders[req[s].order]
      BY <1>2, <3>1, <3>2
    <3>4. VisibleOrder(s)' = VisibleOrder(s) /\ TopUpOf(s)' = TopUpOf(s)
      BY <1>1, <3>3 DEF VisibleOrder, TopUpOf
    <3>5. req'[s] = req[s] /\ pc'[s] = pc[s] /\ wlock'[s] = wlock[s]
      BY <1>1
    <3>6. PhaseOK(s)
      BY DEF LockInv
    <3> QED
      BY <2>1, <3>3, <3>4, <3>5, <3>6 DEF PhaseOK
  <2>3. CASE s \notin OrderHolders(req[s].order)
    BY <1>1, <2>1, <2>3 DEF LockInv, PhaseOK, OrderHolders, InTx
  <2> QED
    BY <2>2, <2>3
<1>4. OrderMutex' /\ SlotMutex' /\ WalletMutex' /\ SnapshotsAreCurrent'
  BY <1>1 DEF LockInv, OrderMutex, OrderHolders, SlotMutex, SlotHolders, Slot, WalletMutex,
              SnapshotsAreCurrent
<1>5. OrderAmounts' /\ Fresh'
  BY <1>1, <1>2 DEF LockInv, OrderAmounts, Fresh
<1> QED
  BY <1>3, <1>4, <1>5 DEF LockInv

LEMMA StepLocks ==
  ASSUME TypeOK, LockInv, [Next]_vars
  PROVE  LockInv'
<1>1. ASSUME NEW r \in Requests, Arrive(r) \/ Step(r) \/ Abort(r) \/ FailOrder(r)
      PROVE  LockInv'
  BY <1>1, ArriveLocks, ReserveLocks, OrderLocks, WalletLocks, ExecuteLocks,
     CommitTransferLocks, CommitCreateLocks, CommitConfirmLocks, CommitAckLocks,
     FailOrderLocks DEF Step
<1>2. CASE UNCHANGED vars
  <2>1. UNCHANGED <<balance, keys, transfers, orders, ledger, outbox, req, pc, wlock, seen>>
    BY <1>2 DEF vars, db
  <2>2. (\A r \in Requests : PhaseOK(r))' = (\A r \in Requests : PhaseOK(r))
    BY <2>1 DEF PhaseOK, Wanted, TransferVerdict, TopUpOf, VisibleOrder
  <2>3. Fresh' = Fresh /\ OrderAmounts' = OrderAmounts
    BY <2>1 DEF Fresh, OrderAmounts
  <2>4. OrderMutex' = OrderMutex /\ WalletMutex' = WalletMutex
    BY <2>1 DEF OrderMutex, OrderHolders, WalletMutex
  <2>5. SlotMutex' = SlotMutex
    BY <2>1 DEF SlotMutex, SlotHolders, Slot
  <2>6. SnapshotsAreCurrent' = SnapshotsAreCurrent
    BY <2>1 DEF SnapshotsAreCurrent
  <2> QED
    BY <2>2, <2>3, <2>4, <2>5, <2>6 DEF LockInv
<1> QED
  BY <1>1, <1>2 DEF Next, Terminated

\* The variables of the program stay well typed, and each transaction has in
\* each phase what the code has checked and locked so far.
THEOREM TypeAndLocks == Spec => [](TypeOK /\ LockInv)
<1>1. Init => TypeOK /\ LockInv
  BY InitType, InitLocks
<1>2. TypeOK /\ LockInv /\ [Next]_vars => (TypeOK /\ LockInv)'
  BY StepType, StepLocks
<1> QED
  BY <1>1, <1>2, PTL DEF Spec

\* No request ever leaves the columns and phases the code has for it.
THEOREM TypeCorrect == Spec => []TypeOK
BY TypeAndLocks, PTL

\* A balance read under FOR UPDATE is the committed balance until the lock is
\* released: no other transaction of any kind writes it in between.
THEOREM LockedBalancesAreCurrent == Spec => []SnapshotsAreCurrent
<1>1. LockInv => SnapshotsAreCurrent
  BY DEF LockInv
<1> QED
  BY <1>1, TypeAndLocks, PTL

-----------------------------------------------------------------------------
(* Money.                                                                   *)

\* Only a commit of a transfer or of a confirmation moves money or writes a
\* ledger.
LEMMA OnlyCommitsMoveMoney ==
  ASSUME [Next]_vars, ~(\E r \in Requests : CommitTransfer(r) \/ CommitConfirm(r))
  PROVE  UNCHANGED <<balance, ledger, transfers>>
BY DEF Next, vars, db, Terminated, Arrive, Step, Submit, Reject, Reserve, ReserveExisting,
       OrderNotFound, LockOrder, OrderAlreadyFailed, LockWallet, ExecuteTransfer,
       FailTransfer, ExecuteCreate, ExecuteConfirm, FailConfirm, CommitCreate, CommitAck,
       Abort, FailOrder, Goto, Refuse

\* A transfer commits the amounts its check on the locked rows has accepted.
LEMMA CommitTransferFacts ==
  ASSUME TypeOK, LockInv, BalancesInRange, NEW r \in Requests, CommitTransfer(r)
  PROVE  LET c == req[r] IN
         /\ c.user \in Wallets /\ c.to \in Wallets /\ c.user # c.to
         /\ c.amount \in Int /\ c.amount > 0
         /\ seen[r][c.user] = balance[c.user] /\ seen[r][c.to] = balance[c.to]
         /\ balance[c.user] - c.amount \in Balances
         /\ balance[c.to] + c.amount \in Balances
         /\ balance' = [balance EXCEPT ![c.user] = @ - c.amount, ![c.to] = @ + c.amount]
<1> DEFINE c == req[r]
<1>1. /\ c.user \in Wallets /\ c.amount \in Int /\ c.amount \in Int64 /\ c.op = "transfer"
      /\ pc[r] = "commit"
  BY CallTypes DEF CommitTransfer, TypeOK
<1>2. /\ TransferVerdict(r) = "none" /\ wlock[r] = {c.user, c.to} \cap Wallets
      /\ c.amount > 0 /\ c.to # c.user
  BY <1>1 DEF LockInv, PhaseOK, InTx, Wanted
<1>3. /\ c.to \in Wallets
      /\ transferVerdict(seen[r][c.user], seen[r][c.to], c.amount) = "none"
  BY <1>2 DEF TransferVerdict
<1>4. seen[r][c.user] = balance[c.user] /\ seen[r][c.to] = balance[c.to]
  BY <1>1, <1>2, <1>3 DEF LockInv, SnapshotsAreCurrent
<1>5. balance[c.user] \in Balances /\ balance[c.to] \in Balances
  BY <1>1, <1>3 DEF BalancesInRange
<1>6. balance[c.user] - c.amount \in Balances /\ balance[c.to] + c.amount \in Balances
  BY <1>1, <1>2, <1>3, <1>4, <1>5, TransferExact
<1> QED
  BY <1>1, <1>2, <1>3, <1>4, <1>6 DEF CommitTransfer, DebitAndCredit

\* A confirmation commits the sum its check on the locked row has accepted.
LEMMA CommitConfirmFacts ==
  ASSUME TypeOK, LockInv, BalancesInRange, NEW r \in Requests, CommitConfirm(r)
  PROVE  LET o == req[r].order
             w == orders[o].wallet
         IN
         /\ o \in Requests /\ orders[o] \in OrderRow /\ orders[o].status = "pending"
         /\ w \in Wallets /\ w = req[r].user
         /\ orders[o].amount \in Int /\ orders[o].amount > 0
         /\ seen[r][w] = balance[w]
         /\ balance[w] + orders[o].amount \in Balances
         /\ TopUpOf(r).balance = balance[w] + orders[o].amount
         /\ balance' = [balance EXCEPT ![w] = @ + orders[o].amount]
<1> DEFINE o == req[r].order
           w == orders[o].wallet
<1>1. pc[r] = "commit" /\ req[r].op = "confirm"
  BY DEF CommitConfirm
<1>2. /\ VisibleOrder(r) /\ orders[o].status = "pending"
      /\ TopUpOf(r).err = "none" /\ wlock[r] = {req[r].user}
  BY <1>1 DEF LockInv, PhaseOK, Wanted
<1>3. /\ o \in Requests /\ orders[o] \in OrderRow /\ w = req[r].user
      /\ orders[o].amount > 0
  BY <1>2 DEF VisibleOrder, TypeOK, LockInv, OrderAmounts
<1>4. w \in Wallets /\ orders[o].amount \in Int64 /\ orders[o].amount \in Int
  BY <1>3 DEF OrderRow, Int64
<1>5. seen[r][w] = balance[w]
  BY <1>1, <1>2, <1>3 DEF LockInv, SnapshotsAreCurrent
<1>6. balance[w] \in Balances
  BY <1>4 DEF BalancesInRange
<1>7. /\ balance[w] + orders[o].amount \in Balances
      /\ TopUpOf(r).balance = balance[w] + orders[o].amount
  BY <1>2, <1>3, <1>4, <1>5, <1>6, TopUpExact DEF TopUpOf
<1> QED
  BY <1>2, <1>3, <1>4, <1>5, <1>7 DEF CommitConfirm

LEMMA StepRange ==
  ASSUME TypeOK, LockInv, BalancesInRange, [Next]_vars
  PROVE  BalancesInRange'
<1>1. ASSUME NEW r \in Requests, CommitTransfer(r) PROVE BalancesInRange'
  BY <1>1, CommitTransferFacts DEF BalancesInRange, TypeOK
<1>2. ASSUME NEW r \in Requests, CommitConfirm(r) PROVE BalancesInRange'
  BY <1>2, CommitConfirmFacts DEF BalancesInRange, TypeOK
<1> QED
  BY <1>1, <1>2, OnlyCommitsMoveMoney DEF BalancesInRange

\* No balance ever goes below zero or beyond the machine integer, although the
\* table has no CHECK and the check and the UPDATE are separate statements.
THEOREM BalancesStayInRange == Spec => []BalancesInRange
<1>1. Init => BalancesInRange
  BY WalletAssumption DEF Init, BalancesInRange
<1>2. TypeOK /\ LockInv /\ BalancesInRange /\ [Next]_vars => BalancesInRange'
  BY StepRange
<1> QED
  BY <1>1, <1>2, TypeAndLocks, PTL DEF Spec

-----------------------------------------------------------------------------
(* The ledger.                                                              *)

\* q is a chain of entries from opening to b.
ChainFrom(opening, q, b) ==
  LET before(i) == IF i = 1 THEN opening ELSE q[i - 1].after IN
  /\ \A i \in DOMAIN q :
       /\ q[i].before = before(i)
       /\ q[i].after = IF q[i].direction = "debit" THEN q[i].before - q[i].amount
                       ELSE q[i].before + q[i].amount
  /\ b = before(Len(q) + 1)

LEMMA ChainGrows ==
  ASSUME NEW opening, NEW q \in Seq(LedgerEntry), NEW b, NEW e \in LedgerEntry,
         ChainFrom(opening, q, b),
         e.before = b,
         e.after = IF e.direction = "debit" THEN e.before - e.amount ELSE e.before + e.amount
  PROVE  ChainFrom(opening, Append(q, e), e.after)
<1> DEFINE p == Append(q, e)
           before(i) == IF i = 1 THEN opening ELSE p[i - 1].after
<1>1. /\ Len(p) = Len(q) + 1 /\ DOMAIN p = 1 .. Len(q) + 1 /\ DOMAIN q = 1 .. Len(q)
      /\ Len(q) \in Nat
      /\ \A i \in 1 .. Len(q) : p[i] = q[i]
      /\ p[Len(q) + 1] = e
  OBVIOUS
<1>2. ASSUME NEW i \in 1 .. Len(q)
      PROVE  /\ p[i].before = before(i)
             /\ p[i].after = IF p[i].direction = "debit" THEN p[i].before - p[i].amount
                             ELSE p[i].before + p[i].amount
  BY <1>1 DEF ChainFrom
<1>3. e.before = before(Len(q) + 1)
  <2>1. CASE Len(q) = 0
    BY <2>1 DEF ChainFrom
  <2>2. CASE Len(q) # 0
    <3>1. Len(q) \in 1 .. Len(q) /\ Len(q) + 1 # 1 /\ (Len(q) + 1) - 1 = Len(q)
      BY <1>1, <2>2
    <3>2. b = q[Len(q)].after
      BY <3>1 DEF ChainFrom
    <3> QED
      BY <1>1, <3>1, <3>2
  <2> QED
    BY <2>1, <2>2
<1>4. e.after = before(Len(p) + 1)
  <2>1. Len(p) + 1 # 1 /\ (Len(p) + 1) - 1 = Len(q) + 1
    BY <1>1
  <2> QED
    BY <1>1, <2>1
<1>5. ASSUME NEW i \in DOMAIN p
      PROVE  /\ p[i].before = before(i)
             /\ p[i].after = IF p[i].direction = "debit" THEN p[i].before - p[i].amount
                             ELSE p[i].before + p[i].amount
  <2>1. CASE i \in 1 .. Len(q)
    BY <1>2, <2>1
  <2>2. CASE i = Len(q) + 1
    BY <1>1, <1>3, <2>2
  <2> QED
    BY <1>1, <2>1, <2>2
<1> HIDE DEF p
<1> QED
  BY <1>4, <1>5 DEF ChainFrom, p

LEMMA LedgerIsChain ==
  LedgerExplainsBalance <=> \A w \in Wallets : ChainFrom(Opening[w], ledger[w], balance[w])
BY DEF LedgerExplainsBalance, ChainFrom

LEMMA TransferKeepsChains ==
  ASSUME TypeOK, LockInv, BalancesInRange, LedgerExplainsBalance,
         NEW r \in Requests, CommitTransfer(r)
  PROVE  LedgerExplainsBalance'
<1> DEFINE c == req[r]
           debit == TransferEntry(r, c.user, "debit")
           credit == TransferEntry(r, c.to, "credit")
<1>1. /\ c.user \in Wallets /\ c.to \in Wallets /\ c.user # c.to
      /\ c.amount \in Int
      /\ seen[r][c.user] = balance[c.user] /\ seen[r][c.to] = balance[c.to]
      /\ balance' = [balance EXCEPT ![c.user] = @ - c.amount, ![c.to] = @ + c.amount]
  BY CommitTransferFacts
<1>2. /\ debit \in LedgerEntry /\ debit.direction = "debit" /\ debit.amount = c.amount
      /\ debit.before = balance[c.user] /\ debit.after = balance[c.user] - c.amount
      /\ credit \in LedgerEntry /\ credit.direction = "credit" /\ credit.amount = c.amount
      /\ credit.before = balance[c.to] /\ credit.after = balance[c.to] + c.amount
  BY <1>1, CallTypes DEF TransferEntry, LedgerEntry, TypeOK
<1>3. /\ ledger'[c.user] = Append(ledger[c.user], debit)
      /\ ledger'[c.to] = Append(ledger[c.to], credit)
      /\ \A w \in Wallets \ {c.user, c.to} : ledger'[w] = ledger[w]
  BY <1>1 DEF CommitTransfer, TypeOK
<1>4. /\ balance'[c.user] = debit.after /\ balance'[c.to] = credit.after
      /\ \A w \in Wallets \ {c.user, c.to} : balance'[w] = balance[w]
  BY <1>1, <1>2 DEF TypeOK
<1> HIDE DEF debit, credit
<1>5. \A w \in Wallets : ledger[w] \in Seq(LedgerEntry) /\ ChainFrom(Opening[w], ledger[w], balance[w])
  BY LedgerIsChain DEF TypeOK
<1>6. ChainFrom(Opening[c.user], ledger'[c.user], balance'[c.user])
  <2>1. ChainFrom(Opening[c.user], Append(ledger[c.user], debit), debit.after)
    BY <1>1, <1>2, <1>5, ChainGrows
  <2> QED
    BY <2>1, <1>3, <1>4
<1>7. ChainFrom(Opening[c.to], ledger'[c.to], balance'[c.to])
  <2>1. ChainFrom(Opening[c.to], Append(ledger[c.to], credit), credit.after)
    BY <1>1, <1>2, <1>5, ChainGrows
  <2> QED
    BY <2>1, <1>3, <1>4
<1>8. ASSUME NEW w \in Wallets PROVE ChainFrom(Opening[w], ledger'[w], balance'[w])
  BY <1>3, <1>4, <1>5, <1>6, <1>7
<1> QED
  BY <1>8 DEF LedgerExplainsBalance, ChainFrom

LEMMA ConfirmKeepsChains ==
  ASSUME TypeOK, LockInv, BalancesInRange, LedgerExplainsBalance,
         NEW r \in Requests, CommitConfirm(r)
  PROVE  LedgerExplainsBalance'
<1> DEFINE o == req[r].order
           w == orders[o].wallet
           credit == [ref |-> o, type |-> "top_up", direction |-> "credit",
                      amount |-> orders[o].amount, before |-> seen[r][w],
                      after |-> TopUpOf(r).balance]
<1>1. /\ o \in Requests /\ orders[o] \in OrderRow /\ w \in Wallets
      /\ orders[o].amount \in Int
      /\ seen[r][w] = balance[w]
      /\ balance[w] + orders[o].amount \in Balances
      /\ TopUpOf(r).balance = balance[w] + orders[o].amount
      /\ balance' = [balance EXCEPT ![w] = @ + orders[o].amount]
  BY CommitConfirmFacts
<1>2. /\ credit \in LedgerEntry /\ credit.direction = "credit"
      /\ credit.before = balance[w] /\ credit.amount = orders[o].amount
      /\ credit.after = balance[w] + orders[o].amount
  BY <1>1 DEF LedgerEntry, OrderRow, TypeOK
<1>3. /\ ledger'[w] = Append(ledger[w], credit)
      /\ \A v \in Wallets \ {w} : ledger'[v] = ledger[v]
  BY <1>1 DEF CommitConfirm, TypeOK
<1>4. /\ balance'[w] = credit.after
      /\ \A v \in Wallets \ {w} : balance'[v] = balance[v]
  BY <1>1, <1>2 DEF TypeOK
<1> HIDE DEF credit
<1>5. \A v \in Wallets : ledger[v] \in Seq(LedgerEntry) /\ ChainFrom(Opening[v], ledger[v], balance[v])
  BY LedgerIsChain DEF TypeOK
<1>6. ChainFrom(Opening[w], ledger'[w], balance'[w])
  <2>1. ChainFrom(Opening[w], Append(ledger[w], credit), credit.after)
    BY <1>1, <1>2, <1>5, ChainGrows
  <2> QED
    BY <2>1, <1>3, <1>4
<1>7. ASSUME NEW v \in Wallets PROVE ChainFrom(Opening[v], ledger'[v], balance'[v])
  BY <1>3, <1>4, <1>5, <1>6
<1> QED
  BY <1>7 DEF LedgerExplainsBalance, ChainFrom

LEMMA StepChain ==
  ASSUME TypeOK, LockInv, BalancesInRange, LedgerExplainsBalance, [Next]_vars
  PROVE  LedgerExplainsBalance'
<1>1. CASE \E r \in Requests : CommitTransfer(r) \/ CommitConfirm(r)
  BY <1>1, TransferKeepsChains, ConfirmKeepsChains
<1>2. CASE ~(\E r \in Requests : CommitTransfer(r) \/ CommitConfirm(r))
  <2>1. UNCHANGED <<balance, ledger>>
    BY <1>2, OnlyCommitsMoveMoney
  <2> QED
    BY <2>1 DEF LedgerExplainsBalance
<1> QED
  BY <1>1, <1>2

\* The ledger of every wallet is an unbroken chain from its opening balance to
\* its current one, whatever transfers and confirmations interleave.
THEOREM LedgerIsComplete == Spec => []LedgerExplainsBalance
<1>1. Init => LedgerExplainsBalance
  BY DEF Init, LedgerExplainsBalance
<1>2. /\ TypeOK /\ LockInv /\ BalancesInRange /\ LedgerExplainsBalance /\ [Next]_vars
      => LedgerExplainsBalance'
  BY StepChain
<1> QED
  BY <1>1, <1>2, TypeAndLocks, BalancesStayInRange, PTL DEF Spec

-----------------------------------------------------------------------------
(* History and idempotency.                                                 *)

\* Only commits and the payment back office write to the database.
LEMMA OnlyCommitsWrite ==
  ASSUME [Next]_vars,
         ~(\E r \in Requests : \/ CommitTransfer(r) \/ CommitCreate(r) \/ CommitConfirm(r)
                               \/ CommitAck(r) \/ FailOrder(r))
  PROVE  UNCHANGED db /\ req' = req
BY DEF Next, vars, db, Terminated, Arrive, Step, Submit, Reject, Reserve, ReserveExisting,
       OrderNotFound, LockOrder, OrderAlreadyFailed, LockWallet, ExecuteTransfer,
       FailTransfer, ExecuteCreate, ExecuteConfirm, FailConfirm, Abort, Goto, Refuse, Finish

\* No row of the past is rewritten by this step.
HistoryKept ==
  /\ \A w \in Wallets : /\ Len(ledger[w]) <= Len(ledger'[w])
                        /\ \A i \in DOMAIN ledger[w] : ledger'[w][i] = ledger[w][i]
  /\ \A t \in Requests : transfers[t] # Null => transfers'[t] = transfers[t]
  /\ \A s \in Slots : keys[s] # Null => keys'[s] = keys[s]
  /\ \A o \in Requests : orders[o] # Null =>
       \/ orders'[o] = orders[o]
       \/ /\ orders[o].status = "pending"
          /\ orders'[o].wallet = orders[o].wallet
          /\ orders'[o].amount = orders[o].amount
  /\ outbox \subseteq outbox'

\* A transaction that is past its INSERT is the first to write its slot.
LEMMA CompleteKeyFresh ==
  ASSUME TypeOK, LockInv, NEW r \in Requests, pc[r] \in InTx \ {"begin"}, CompleteKey(r)
  PROVE  /\ Slot(r) \in Slots /\ keys[Slot(r)] = Null
         /\ keys'[Slot(r)] = [by |-> r, status |-> "completed"]
         /\ \A s \in Slots \ {Slot(r)} : keys'[s] = keys[s]
BY CallTypes DEF LockInv, SlotMutex, CompleteKey, TypeOK

\* A wallet's ledger after a commit appended an entry to it.
LEMMA AppendKeeps ==
  ASSUME NEW q \in Seq(LedgerEntry), NEW e
  PROVE  /\ Len(q) <= Len(Append(q, e))
         /\ \A i \in DOMAIN q : Append(q, e)[i] = q[i]
OBVIOUS

LEMMA CommitTransferKept ==
  ASSUME TypeOK, LockInv, NEW r \in Requests, CommitTransfer(r)
  PROVE  HistoryKept
<1>1. pc[r] = "commit" /\ CompleteKey(r) /\ orders' = orders /\ outbox \subseteq outbox'
  BY DEF CommitTransfer
<1>2. transfers[r] = Null /\ \A t \in Requests \ {r} : transfers'[t] = transfers[t]
  BY <1>1 DEF LockInv, Fresh, CommitTransfer, TypeOK
<1>3. \A s \in Slots : keys[s] # Null => keys'[s] = keys[s]
  BY <1>1, CompleteKeyFresh DEF InTx
<1>4. ASSUME NEW w \in Wallets
      PROVE  /\ Len(ledger[w]) <= Len(ledger'[w])
             /\ \A i \in DOMAIN ledger[w] : ledger'[w][i] = ledger[w][i]
  <2>1. ledger[w] \in Seq(LedgerEntry)
    BY DEF TypeOK
  <2>2. \/ ledger'[w] = ledger[w]
        \/ \E e : ledger'[w] = Append(ledger[w], e)
    <3>1. req[r].to # req[r].user
      BY <1>1 DEF CommitTransfer, LockInv, PhaseOK, InTx
    <3> QED
      BY <3>1 DEF CommitTransfer, TypeOK
  <2>3. CASE ledger'[w] = ledger[w]
    BY <2>1, <2>3
  <2>4. CASE \E e : ledger'[w] = Append(ledger[w], e)
    BY <2>1, <2>4, AppendKeeps
  <2> QED
    BY <2>2, <2>3, <2>4
<1> QED
  BY <1>1, <1>2, <1>3, <1>4 DEF HistoryKept

LEMMA CommitCreateKept ==
  ASSUME TypeOK, LockInv, NEW r \in Requests, CommitCreate(r)
  PROVE  HistoryKept
<1>1. /\ pc[r] = "commit" /\ CompleteKey(r)
      /\ UNCHANGED <<balance, transfers, ledger, outbox>>
  BY DEF CommitCreate
<1>2. orders[r] = Null /\ \A o \in Requests \ {r} : orders'[o] = orders[o]
  BY <1>1 DEF LockInv, Fresh, CommitCreate, TypeOK
<1>3. \A s \in Slots : keys[s] # Null => keys'[s] = keys[s]
  BY <1>1, CompleteKeyFresh DEF InTx
<1>4. \A w \in Wallets : Len(ledger[w]) <= Len(ledger[w])
  BY DEF TypeOK
<1> QED
  BY <1>1, <1>2, <1>3, <1>4 DEF HistoryKept

LEMMA CommitConfirmKept ==
  ASSUME TypeOK, LockInv, NEW r \in Requests, CommitConfirm(r)
  PROVE  HistoryKept
<1> DEFINE o == req[r].order
           v == orders[o].wallet
<1>1. /\ pc[r] = "commit" /\ req[r].op = "confirm" /\ CompleteKey(r)
      /\ transfers' = transfers /\ outbox \subseteq outbox'
  BY DEF CommitConfirm
<1>2. /\ o \in Requests /\ orders[o] \in OrderRow /\ orders[o].status = "pending"
      /\ v \in Wallets
  BY <1>1 DEF LockInv, PhaseOK, VisibleOrder, TypeOK, OrderRow
<1>3. /\ \A p \in Requests \ {o} : orders'[p] = orders[p]
      /\ orders'[o].wallet = orders[o].wallet
      /\ orders'[o].amount = orders[o].amount
  BY <1>2 DEF CommitConfirm, TypeOK, OrderRow
<1>4. \A s \in Slots : keys[s] # Null => keys'[s] = keys[s]
  BY <1>1, CompleteKeyFresh DEF InTx
<1>5. ASSUME NEW w \in Wallets
      PROVE  /\ Len(ledger[w]) <= Len(ledger'[w])
             /\ \A i \in DOMAIN ledger[w] : ledger'[w][i] = ledger[w][i]
  <2>1. ledger[w] \in Seq(LedgerEntry)
    BY DEF TypeOK
  <2>2. \/ ledger'[w] = ledger[w]
        \/ \E e : ledger'[w] = Append(ledger[w], e)
    BY <1>2 DEF CommitConfirm, TypeOK
  <2>3. CASE ledger'[w] = ledger[w]
    BY <2>1, <2>3
  <2>4. CASE \E e : ledger'[w] = Append(ledger[w], e)
    BY <2>1, <2>4, AppendKeeps
  <2> QED
    BY <2>2, <2>3, <2>4
<1> QED
  BY <1>1, <1>2, <1>3, <1>4, <1>5 DEF HistoryKept

LEMMA CommitAckKept ==
  ASSUME TypeOK, LockInv, NEW r \in Requests, CommitAck(r)
  PROVE  HistoryKept
<1>1. /\ pc[r] = "ack" /\ CompleteKey(r)
      /\ UNCHANGED <<balance, transfers, orders, ledger, outbox>>
  BY DEF CommitAck
<1>2. \A s \in Slots : keys[s] # Null => keys'[s] = keys[s]
  BY <1>1, CompleteKeyFresh DEF InTx
<1>3. \A w \in Wallets : Len(ledger[w]) <= Len(ledger[w])
  BY DEF TypeOK
<1> QED
  BY <1>1, <1>2, <1>3 DEF HistoryKept

LEMMA FailOrderKept ==
  ASSUME TypeOK, NEW o \in Requests, FailOrder(o)
  PROVE  HistoryKept
<1>1. /\ UNCHANGED <<balance, keys, transfers, ledger, outbox>>
      /\ orders[o] \in OrderRow /\ orders[o].status = "pending"
      /\ orders' = [orders EXCEPT ![o].status = "failed"]
  BY DEF FailOrder, TypeOK
<1>2. /\ \A p \in Requests \ {o} : orders'[p] = orders[p]
      /\ orders'[o].wallet = orders[o].wallet
      /\ orders'[o].amount = orders[o].amount
  BY <1>1 DEF TypeOK, OrderRow
<1>3. \A w \in Wallets : Len(ledger[w]) <= Len(ledger[w])
  BY DEF TypeOK
<1> QED
  BY <1>1, <1>2, <1>3 DEF HistoryKept

LEMMA StepHistory ==
  ASSUME TypeOK, LockInv, [Next]_vars
  PROVE  HistoryKept
<1>1. CASE \E r \in Requests : \/ CommitTransfer(r) \/ CommitCreate(r) \/ CommitConfirm(r)
                               \/ CommitAck(r) \/ FailOrder(r)
  BY <1>1, CommitTransferKept, CommitCreateKept, CommitConfirmKept, CommitAckKept, FailOrderKept
<1>2. CASE UNCHANGED db
  <2>1. \A w \in Wallets : Len(ledger[w]) <= Len(ledger[w])
    BY DEF TypeOK
  <2> QED
    BY <1>2, <2>1 DEF db, HistoryKept
<1> QED
  BY <1>1, <1>2, OnlyCommitsWrite

\* Ledgers only grow, transfers, keys and events are final, and an order changes
\* once, from pending.
THEOREM HistoryIsNeverRewritten == Spec => HistoryImmutable
<1>1. TypeOK /\ LockInv /\ [Next]_vars => [HistoryKept]_vars
  BY StepHistory
<1> QED
  BY <1>1, TypeAndLocks, PTL DEF Spec, HistoryImmutable, HistoryKept

\* An order that exists is never deleted.
LEMMA OrdersStay ==
  ASSUME TypeOK, LockInv, [Next]_vars, NEW o \in Requests, orders[o] # Null
  PROVE  orders'[o] # Null
<1>1. orders[o] \in OrderRow
  BY DEF TypeOK
<1>2. ASSUME NEW r \in Requests, CommitCreate(r) PROVE orders'[o] # Null
  <2>1. pc[r] = "commit" /\ orders[r] = Null
    BY <1>2 DEF CommitCreate, LockInv, Fresh
  <2> QED
    BY <1>2, <2>1 DEF CommitCreate, TypeOK
<1>3. ASSUME NEW r \in Requests, CommitConfirm(r) PROVE orders'[o] # Null
  <2> DEFINE p == req[r].order
             row == [orders[p] EXCEPT !.status = "success", !.ext = req[r].ext,
                       !.before = seen[r][orders[p].wallet], !.after = TopUpOf(r).balance]
  <2>1. VisibleOrder(r) /\ p \in Requests /\ orders[p] \in OrderRow
    BY <1>3 DEF CommitConfirm, LockInv, PhaseOK, VisibleOrder, TypeOK
  <2>2. orders' = [orders EXCEPT ![p] = row]
    BY <1>3 DEF CommitConfirm
  <2>3. row \in OrderRow
    <3>1. orders[p].wallet \in Wallets
      BY <2>1 DEF OrderRow
    <3>2. seen[r][orders[p].wallet] \in Int /\ TopUpOf(r).balance \in Int
          /\ req[r].ext \in ExtRefs \cup {Null}
      BY <2>1, <3>1, TopUpOfType, CallTypes DEF TypeOK
    <3> QED
      BY <2>1, <3>2 DEF OrderRow
  <2> HIDE DEF row
  <2> QED
    BY <2>1, <2>2, <2>3, NullAssumption DEF TypeOK
<1>4. ASSUME NEW r \in Requests, FailOrder(r) PROVE orders'[o] # Null
  <2>1. orders[r] \in OrderRow /\ orders' = [orders EXCEPT ![r].status = "failed"]
    BY <1>4 DEF FailOrder, TypeOK
  <2>2. [orders[r] EXCEPT !.status = "failed"] \in OrderRow
    BY <2>1 DEF OrderRow
  <2> QED
    BY <2>1, <2>2, NullAssumption DEF TypeOK
<1>5. ASSUME NEW r \in Requests, CommitTransfer(r) \/ CommitAck(r) PROVE orders'[o] # Null
  BY <1>5 DEF CommitTransfer, CommitAck
<1> QED
  BY <1>2, <1>3, <1>4, <1>5, OnlyCommitsWrite DEF db

\* The resource a completed key of r points at exists.
HasResource(r) ==
  /\ req[r].op = "transfer" => transfers[r] # Null
  /\ req[r].op = "create" => orders[r] # Null
  /\ req[r].op = "confirm" => /\ req[r].order \in Requests
                             /\ orders[req[r].order] # Null
                             /\ orders[req[r].order].status = "success"

\* KeysMatchEffects, split into what keys owe to effects and effects to keys.  A
\* 'failed' key is rolled back with its transaction, so that of this code more is
\* true: every committed key is completed.
KeyHasEffect(s) == keys[s] # Null => /\ keys[s].status = "completed"
                                     /\ Slot(keys[s].by) = s
                                     /\ HasResource(keys[s].by)

EffectHasKey(r) == HasEffect(r) => keys[Slot(r)] # Null /\ keys[Slot(r)].by = r

KeyInv == /\ \A s \in Slots : KeyHasEffect(s)
          /\ \A r \in Requests : EffectHasKey(r)

LEMMA KeysSplit == TypeOK /\ KeyInv => KeysMatchEffects
<1> SUFFICES ASSUME TypeOK, KeyInv PROVE KeysMatchEffects
  OBVIOUS
<1>1. ASSUME NEW s \in Slots, keys[s] # Null
      PROVE  LET r == keys[s].by IN
             Slot(r) = s /\ keys[s].status = "completed" /\ ResourceExists(r)
  <2>1. keys[s].by \in Requests
    BY <1>1 DEF TypeOK, KeyRow
  <2>2. req[keys[s].by].op \in {"transfer", "create", "confirm"}
    BY <2>1, CallTypes DEF TypeOK, Ops
  <2> QED
    BY <1>1, <2>2 DEF KeyInv, KeyHasEffect, HasResource, ResourceExists
<1>2. ASSUME NEW r \in Requests, HasEffect(r)
      PROVE  keys[Slot(r)] # Null /\ keys[Slot(r)].by = r /\ keys[Slot(r)].status = "completed"
  <2>1. keys[Slot(r)] # Null /\ keys[Slot(r)].by = r
    BY <1>2 DEF KeyInv, EffectHasKey
  <2>2. Slot(r) \in Slots
    BY CallTypes DEF TypeOK, Slot, Slots
  <2> QED
    BY <2>1, <2>2 DEF KeyInv, KeyHasEffect
<1> QED
  BY <1>1, <1>2 DEF KeysMatchEffects

\* A resource that exists is not taken back.
LEMMA ResourceStays ==
  ASSUME TypeOK, LockInv, [Next]_vars, req' = req, NEW r \in Requests, HasResource(r)
  PROVE  HasResource(r)'
<1>1. HistoryKept
  BY StepHistory
<1>2. transfers[r] # Null => transfers'[r] # Null
  BY <1>1 DEF HistoryKept
<1>3. orders[r] # Null => orders'[r] # Null
  BY OrdersStay
<1>4. ASSUME req[r].op = "confirm"
      PROVE  /\ req[r].order \in Requests
             /\ orders'[req[r].order] # Null
             /\ orders'[req[r].order].status = "success"
  <2>1. /\ req[r].order \in Requests
        /\ orders[req[r].order] # Null
        /\ orders[req[r].order].status = "success"
    BY <1>4 DEF HasResource
  <2>2. orders'[req[r].order] = orders[req[r].order]
    BY <1>1, <2>1 DEF HistoryKept
  <2> QED
    BY <2>1, <2>2
<1> QED
  BY <1>2, <1>3, <1>4 DEF HasResource

\* A commit records the key of its effect.
LEMMA CommitRecordsKey ==
  ASSUME TypeOK, LockInv, KeyInv, [Next]_vars, req' = req,
         NEW r \in Requests, pc[r] \in InTx \ {"begin"}, CompleteKey(r), HasResource(r)',
         \A s \in Requests \ {r} : HasEffect(s)' => HasEffect(s)
  PROVE  KeyInv'
<1>1. \A s \in Requests : Slot(s)' = Slot(s)
  BY DEF Slot
<1>2. /\ Slot(r) \in Slots /\ keys[Slot(r)] = Null
      /\ keys'[Slot(r)] = [by |-> r, status |-> "completed"]
      /\ \A s \in Slots \ {Slot(r)} : keys'[s] = keys[s]
  BY CompleteKeyFresh
<1>3. ASSUME NEW s \in Slots PROVE KeyHasEffect(s)'
  <2>1. CASE s = Slot(r)
    BY <1>1, <1>2, <2>1 DEF KeyHasEffect
  <2>2. CASE s # Slot(r) /\ keys[s] = Null
    BY <1>2, <2>2 DEF KeyHasEffect
  <2>3. CASE s # Slot(r) /\ keys[s] # Null
    <3>1. keys[s].by \in Requests /\ keys'[s] = keys[s]
      BY <1>2, <2>3 DEF TypeOK, KeyRow
    <3>2. HasResource(keys[s].by)'
      BY <2>3, <3>1, ResourceStays DEF KeyInv, KeyHasEffect
    <3> QED
      BY <1>1, <2>3, <3>1, <3>2 DEF KeyInv, KeyHasEffect
  <2> QED
    BY <2>1, <2>2, <2>3
<1>4. ASSUME NEW s \in Requests PROVE EffectHasKey(s)'
  <2>1. CASE s = r
    <3>1. [by |-> r, status |-> "completed"] \in KeyRow
      BY DEF KeyRow
    <3> QED
      BY <1>1, <1>2, <2>1, <3>1, NullAssumption DEF EffectHasKey
  <2>2. CASE s # r
    <3>1. Slot(s) \in Slots
      BY CallTypes DEF TypeOK
    <3> QED
      BY <1>1, <1>2, <2>2, <3>1 DEF KeyInv, EffectHasKey
  <2> QED
    BY <2>1, <2>2
<1> QED
  BY <1>3, <1>4 DEF KeyInv

LEMMA CommitTransferKeys ==
  ASSUME TypeOK, LockInv, KeyInv, [Next]_vars, NEW r \in Requests, CommitTransfer(r)
  PROVE  KeyInv'
<1>1. /\ pc[r] = "commit" /\ CompleteKey(r) /\ orders' = orders /\ req[r].op = "transfer"
      /\ outbox' = outbox \cup {[type |-> "transfer.success", by |-> r,
                                 user |-> req[r].user, amount |-> req[r].amount]}
      /\ req' = req
  BY DEF CommitTransfer, Answer, Finish
<1>2. \A s \in Requests \ {r} : transfers'[s] = transfers[s]
  BY DEF CommitTransfer, TypeOK
<1>3. HasResource(r)'
  <2>1. transfers'[r] \in TransferRow
    <3>1. /\ req[r].user \in Wallets /\ req[r].to \in Wallets
          /\ req[r].amount \in Int64 /\ req[r].amount \in Int
      BY <1>1, CallTypes DEF LockInv, PhaseOK, TransferVerdict, TypeOK
    <3>2. seen[r][req[r].user] \in Int /\ seen[r][req[r].to] \in Int
      BY <3>1 DEF TypeOK
    <3> QED
      BY <3>1, <3>2 DEF CommitTransfer, TransferRow, TypeOK
  <2> QED
    BY <1>1, <2>1, NullAssumption DEF HasResource
<1>4. \A s \in Requests \ {r} : HasEffect(s)' => HasEffect(s)
  BY <1>1, <1>2 DEF HasEffect
<1> QED
  BY <1>1, <1>3, <1>4, CommitRecordsKey DEF InTx

LEMMA CommitCreateKeys ==
  ASSUME TypeOK, LockInv, KeyInv, [Next]_vars, NEW r \in Requests, CommitCreate(r)
  PROVE  KeyInv'
<1>1. /\ pc[r] = "commit" /\ CompleteKey(r) /\ req[r].op = "create"
      /\ UNCHANGED <<transfers, outbox, req>>
  BY DEF CommitCreate, Answer, Finish
<1>2. \A s \in Requests \ {r} : orders'[s] = orders[s]
  BY DEF CommitCreate, TypeOK
<1>3. HasResource(r)'
  <2>1. orders'[r] \in OrderRow
    BY CallTypes DEF CommitCreate, OrderRow, TypeOK
  <2> QED
    BY <1>1, <2>1, NullAssumption DEF HasResource
<1>4. \A s \in Requests \ {r} : HasEffect(s)' => HasEffect(s)
  BY <1>1, <1>2 DEF HasEffect
<1> QED
  BY <1>1, <1>3, <1>4, CommitRecordsKey DEF InTx

LEMMA CommitConfirmKeys ==
  ASSUME TypeOK, LockInv, KeyInv, [Next]_vars, NEW r \in Requests, CommitConfirm(r)
  PROVE  KeyInv'
<1> DEFINE o == req[r].order
<1>1. /\ pc[r] = "commit" /\ CompleteKey(r) /\ req[r].op = "confirm"
      /\ UNCHANGED <<transfers, req>>
      /\ outbox' = outbox \cup {[type |-> "topup.confirmed", by |-> r,
                                 user |-> req[r].user, amount |-> orders[o].amount]}
  BY DEF CommitConfirm, Answer, Finish
<1>2. o \in Requests /\ orders[o] \in OrderRow /\ orders[o] # Null
  BY <1>1 DEF LockInv, PhaseOK, VisibleOrder, TypeOK
<1>3. (\A s \in Requests \ {o} : orders'[s] = orders[s]) /\ orders'[o].status = "success"
  BY <1>2 DEF CommitConfirm, TypeOK, OrderRow
<1>4. HasResource(r)'
  BY <1>1, <1>2, <1>3, OrdersStay DEF HasResource
<1>5. \A s \in Requests \ {r} : HasEffect(s)' => HasEffect(s)
  BY <1>1, <1>2, <1>3 DEF HasEffect
<1> QED
  BY <1>1, <1>4, <1>5, CommitRecordsKey DEF InTx

LEMMA CommitAckKeys ==
  ASSUME TypeOK, LockInv, KeyInv, [Next]_vars, NEW r \in Requests, CommitAck(r)
  PROVE  KeyInv'
<1>1. /\ pc[r] = "ack" /\ CompleteKey(r)
      /\ UNCHANGED <<transfers, orders, outbox, req>>
  BY DEF CommitAck, Answer, Finish
<1>2. /\ VisibleOrder(r) /\ orders[req[r].order].status = "success"
      /\ req[r].op = "confirm"
  BY <1>1 DEF LockInv, PhaseOK, InTx
<1>3. HasResource(r)'
  BY <1>1, <1>2 DEF HasResource, VisibleOrder
<1>4. \A s \in Requests \ {r} : HasEffect(s)' => HasEffect(s)
  BY <1>1 DEF HasEffect
<1> QED
  BY <1>1, <1>3, <1>4, CommitRecordsKey DEF InTx

LEMMA FailOrderKeys ==
  ASSUME TypeOK, LockInv, KeyInv, [Next]_vars, NEW o \in Requests, FailOrder(o)
  PROVE  KeyInv'
<1>1. UNCHANGED <<keys, transfers, outbox, req>> /\ orders[o] # Null
      /\ \A p \in Requests \ {o} : orders'[p] = orders[p]
  BY DEF FailOrder, TypeOK
<1>2. \A r \in Requests : Slot(r)' = Slot(r)
  BY <1>1 DEF Slot
<1>3. ASSUME NEW s \in Slots PROVE KeyHasEffect(s)'
  <2>1. CASE keys[s] # Null
    <3>1. keys[s].by \in Requests
      BY <2>1 DEF TypeOK, KeyRow
    <3> QED
      BY <1>1, <1>2, <2>1, <3>1, ResourceStays DEF KeyInv, KeyHasEffect
  <2>2. CASE keys[s] = Null
    BY <1>1, <2>2 DEF KeyHasEffect
  <2> QED
    BY <2>1, <2>2
<1>4. ASSUME NEW r \in Requests PROVE EffectHasKey(r)'
  <2>1. HasEffect(r)' => HasEffect(r)
    BY <1>1 DEF HasEffect
  <2> QED
    BY <1>1, <1>2, <2>1 DEF KeyInv, EffectHasKey
<1> QED
  BY <1>3, <1>4 DEF KeyInv

LEMMA StepKeys ==
  ASSUME TypeOK, LockInv, KeyInv, [Next]_vars
  PROVE  KeyInv'
<1>1. CASE \E r \in Requests : \/ CommitTransfer(r) \/ CommitCreate(r) \/ CommitConfirm(r)
                               \/ CommitAck(r) \/ FailOrder(r)
  BY <1>1, CommitTransferKeys, CommitCreateKeys, CommitConfirmKeys, CommitAckKeys, FailOrderKeys
<1>2. CASE UNCHANGED db /\ req' = req
  BY <1>2 DEF db, KeyInv, KeyHasEffect, EffectHasKey, HasResource, HasEffect, Slot
<1> QED
  BY <1>1, <1>2, OnlyCommitsWrite

\* No key is left 'processing', what a committed key says of its request is so,
\* and no effect is without its completed key.
THEOREM KeysAndEffectsAgree == Spec => []KeysMatchEffects
<1>1. Init => KeyInv
  BY DEF Init, KeyInv, KeyHasEffect, EffectHasKey, HasEffect
<1>2. TypeOK /\ LockInv /\ KeyInv /\ [Next]_vars => KeyInv'
  BY StepKeys
<1> QED
  BY <1>1, <1>2, KeysSplit, TypeAndLocks, PTL DEF Spec

\* One intent never produces two transactions: of all requests of a user with
\* one scope and one key, at most one ever takes effect.
THEOREM OneIntentOneEffect == Spec => []OneEffectPerKey
<1>1. KeysMatchEffects => OneEffectPerKey
  BY DEF KeysMatchEffects, OneEffectPerKey
<1> QED
  BY <1>1, KeysAndEffectsAgree, PTL

-----------------------------------------------------------------------------
(* Deadlock.                                                                *)

\* A request holds lower ids than it still wants, and a creation that waits holds
\* nothing.
Ascending == \A r \in Requests :
  \A v \in wlock[r] : \A w \in Wanted(r) \ wlock[r] : v < w

CreatesHoldNothing == \A r \in Requests :
  pc[r] = "wallets" /\ req[r].op = "create" => wlock[r] = {}

\* Of all the wallets ever registered, the locked ones are bounded.
LocksBounded == \E n \in Nat : \A r \in Requests : \A w \in wlock[r] : w <= n

OrderedLocks == Ascending /\ CreatesHoldNothing /\ LocksBounded

\* What a step does to the locks of its request.
LEMMA LocksMove ==
  ASSUME TypeOK, LockInv, NEW r \in Requests, Arrive(r) \/ Step(r) \/ Abort(r)
  PROVE  \/ wlock'[r] = {}
         \/ wlock'[r] = wlock[r] /\ pc[r] \notin {"idle", "begin", "order"} /\ pc'[r] # "wallets"
         \/ LockWallet(r)
         \/ wlock'[r] = {req[r].user} /\ req[r].op = "create" /\ pc'[r] = "commit"
<1> USE DEF TypeOK
<1>1. pc[r] \in {"idle", "begin", "order", "ack", "done"} => wlock[r] = {}
  BY DEF LockInv, PhaseOK
<1>2. ASSUME NEW phase, Goto(r, phase) PROVE pc'[r] = phase
  BY <1>2 DEF Goto
<1>3. ASSUME NEW kind, NEW id, Finish(r, kind, id) PROVE wlock'[r] = {}
  BY <1>3 DEF Finish
<1>4. CASE Arrive(r) \/ Abort(r)
  BY <1>1, <1>3, <1>4 DEF Arrive, Submit, Reject, Abort, Refuse
<1>5. CASE Reserve(r) \/ ReserveExisting(r)
  BY <1>1, <1>3, <1>5 DEF Reserve, ReserveExisting
<1>6. CASE OrderNotFound(r) \/ LockOrder(r) \/ OrderAlreadyFailed(r)
  BY <1>1, <1>3, <1>6 DEF OrderNotFound, LockOrder, OrderAlreadyFailed, Refuse
<1>7. CASE ExecuteTransfer(r) \/ ExecuteConfirm(r)
  BY <1>2, <1>7 DEF ExecuteTransfer, ExecuteConfirm, HoldsWallets
<1>8. CASE FailTransfer(r) \/ FailConfirm(r)
  BY <1>3, <1>8 DEF FailTransfer, FailConfirm, Refuse
<1>9. CASE ExecuteCreate(r)
  BY <1>2, <1>9 DEF ExecuteCreate
<1>10. CASE CommitTransfer(r) \/ CommitCreate(r) \/ CommitConfirm(r) \/ CommitAck(r)
  BY <1>3, <1>10 DEF CommitTransfer, CommitCreate, CommitConfirm, CommitAck, Answer
<1> QED
  BY <1>4, <1>5, <1>6, <1>7, <1>8, <1>9, <1>10 DEF Step

LEMMA WantedAreIds ==
  ASSUME TypeOK, NEW r \in Requests
  PROVE  Wanted(r) \subseteq Wallets /\ Wanted(r) \subseteq Nat
BY CallTypes, WalletAssumption DEF Wanted, TypeOK

LEMMA LockWalletFacts ==
  ASSUME TypeOK, NEW r \in Requests, LockWallet(r)
  PROVE  \E w \in Wanted(r) \ wlock[r] :
           /\ w \in Nat /\ \A v \in Wanted(r) \ wlock[r] : w <= v
           /\ wlock'[r] = wlock[r] \cup {w}
           /\ req[r].op # "create"
BY WantedAreIds DEF LockWallet, NextWallets, TypeOK

LEMMA StepOrdered ==
  ASSUME TypeOK, LockInv, OrderedLocks, NEW r \in Requests, Arrive(r) \/ Step(r) \/ Abort(r)
  PROVE  OrderedLocks'
<1>1. Local(r)
  BY StepLocal
<1>2. ASSUME NEW s \in Requests PROVE Wanted(s)' = Wanted(s)
  BY <1>1 DEF Local, Wanted
<1>3. \A v \in Wanted(r) : v \in Nat
  BY WantedAreIds
<1>4. Ascending'
  <2>1. ASSUME NEW v \in wlock'[r], NEW w \in Wanted(r) \ wlock'[r] PROVE v < w
    <3>1. CASE wlock'[r] = wlock[r]
      BY <3>1 DEF OrderedLocks, Ascending
    <3>2. CASE LockWallet(r)
      <4>1. PICK u \in Wanted(r) \ wlock[r] :
              /\ u \in Nat /\ \A x \in Wanted(r) \ wlock[r] : u <= x
              /\ wlock'[r] = wlock[r] \cup {u}
        BY <3>2, LockWalletFacts
      <4>2. CASE v = u
        <5>1. w \in Wanted(r) \ wlock[r] /\ w # u
          BY <4>1
        <5>2. u \in Nat /\ w \in Nat /\ u <= w
          BY <1>3, <4>1, <5>1
        <5> QED
          BY <4>2, <5>1, <5>2
      <4>3. CASE v # u
        BY <4>1, <4>3 DEF OrderedLocks, Ascending
      <4> QED
        BY <4>2, <4>3
    <3>3. CASE wlock'[r] = {req[r].user} /\ req[r].op = "create"
      BY <3>3 DEF Wanted
    <3> QED
      BY <3>1, <3>2, <3>3, LocksMove
  <2>2. ASSUME NEW s \in Requests, s # r PROVE wlock'[s] = wlock[s]
    BY <1>1, <2>2 DEF Local
  <2> QED
    BY <1>2, <2>1, <2>2 DEF OrderedLocks, Ascending
<1>5. CreatesHoldNothing'
  <2>1. ASSUME pc'[r] = "wallets", req[r].op = "create" PROVE wlock'[r] = {}
    BY <2>1, LocksMove, LockWalletFacts
  <2> QED
    BY <1>1, <2>1 DEF OrderedLocks, CreatesHoldNothing, Local
<1>6. LocksBounded'
  <2>1. PICK n \in Nat : \A s \in Requests : \A w \in wlock[s] : w <= n
    BY DEF OrderedLocks, LocksBounded
  <2>2. PICK u \in Nat : wlock'[r] \subseteq wlock[r] \cup {u}
    <3>1. CASE wlock'[r] = {} \/ wlock'[r] = wlock[r]
      BY <3>1
    <3>2. CASE LockWallet(r)
      BY <3>2, LockWalletFacts
    <3>3. CASE wlock'[r] = {req[r].user}
      BY <3>3, CallTypes, WalletAssumption DEF TypeOK
    <3> QED
      BY <3>1, <3>2, <3>3, LocksMove
  <2>3. \A s \in Requests : wlock[s] \subseteq Nat
    BY WalletAssumption DEF TypeOK
  <2> DEFINE m == IF u <= n THEN n ELSE u
  <2>4. m \in Nat /\ n <= m /\ u <= m
    OBVIOUS
  <2>5. ASSUME NEW s \in Requests, NEW w \in wlock'[s] PROVE w <= m
    <3>1. w \in wlock[s] \/ w = u
      BY <1>1, <2>2 DEF Local
    <3> QED
      BY <2>1, <2>3, <2>4, <3>1
  <2> HIDE DEF m
  <2> QED
    BY <2>4, <2>5 DEF LocksBounded
<1> QED
  BY <1>4, <1>5, <1>6 DEF OrderedLocks

THEOREM LocksAreOrdered == Spec => []OrderedLocks
<1>1. Init => OrderedLocks
  <2>1. Init => LocksBounded
    <3>1. Init => \A r \in Requests : \A w \in wlock[r] : w <= 0
      BY DEF Init
    <3> QED
      BY <3>1 DEF LocksBounded
  <2> QED
    BY <2>1 DEF Init, OrderedLocks, Ascending, CreatesHoldNothing
<1>2. TypeOK /\ LockInv /\ OrderedLocks /\ [Next]_vars => OrderedLocks'
  <2> SUFFICES ASSUME TypeOK, LockInv, OrderedLocks, [Next]_vars PROVE OrderedLocks'
    OBVIOUS
  <2>1. CASE UNCHANGED <<req, pc, wlock>>
    BY <2>1 DEF OrderedLocks, Ascending, CreatesHoldNothing, LocksBounded, Wanted
  <2>2. ASSUME NEW o \in Requests, FailOrder(o) PROVE UNCHANGED <<req, pc, wlock>>
    BY <2>2 DEF FailOrder
  <2>3. CASE UNCHANGED vars
    BY <2>1, <2>3 DEF vars
  <2> QED
    BY <2>1, <2>2, <2>3, StepOrdered DEF Next, Terminated
<1> QED
  BY <1>1, <1>2, TypeAndLocks, PTL DEF Spec

\* In a group in which everybody waits for a member nobody has executed its last
\* statement or waits for it.
LEMMA StuckPhases ==
  ASSUME TypeOK, NEW group \in SUBSET {r \in Requests : pc[r] \in InTx},
         \A r \in group : WaitsFor(r) \cap group # {}, NEW r \in group
  PROVE  /\ r \in Requests
         /\ pc[r] \in {"begin", "order", "wallets"}
         /\ pc[r] = "begin" => SlotHolders(r) \cap group # {}
         /\ pc[r] = "order" => OrderHolders(req[r].order) \cap group # {}
         /\ pc[r] = "wallets" /\ req[r].op = "create" => WalletHolders(r, req[r].user) \cap group # {}
         /\ pc[r] = "wallets" /\ req[r].op # "create" =>
              \E w \in NextWallets(r) : WalletHolders(r, w) \cap group # {}
<1>1. ASSUME NEW s \in group PROVE s \in Requests /\ pc[s] \notin {"commit", "ack"}
  <2>1. s \in Requests /\ pc[s] \in InTx
    OBVIOUS
  <2>2. pc[s] \in {"commit", "ack"} => WaitsFor(s) = {}
    BY DEF WaitsFor, HoldsWallets
  <2> QED
    BY <2>1, <2>2
<1>2. r \in Requests /\ pc[r] \in {"begin", "order", "wallets"}
  BY <1>1 DEF InTx
<1>3. CASE pc[r] = "begin"
  BY <1>2, <1>3 DEF WaitsFor, HoldsWallets
<1>4. CASE pc[r] = "order"
  BY <1>2, <1>4 DEF WaitsFor, HoldsWallets
<1>5. CASE pc[r] = "wallets" /\ req[r].op = "create"
  BY <1>2, <1>5 DEF WaitsFor, HoldsWallets
<1>6. CASE pc[r] = "wallets" /\ req[r].op # "create" /\ wlock[r] # Wanted(r)
  <2>1. WaitsFor(r) = UNION {WalletHolders(r, w) : w \in NextWallets(r)}
    BY <1>6 DEF WaitsFor, HoldsWallets
  <2> QED
    BY <1>2, <1>6, <2>1
<1>7. CASE pc[r] = "wallets" /\ req[r].op # "create" /\ wlock[r] = Wanted(r)
  <2>1. \A s \in ExtHolders(r) : pc[s] = "commit"
    BY DEF ExtHolders
  <2>2. WaitsFor(r) \subseteq ExtHolders(r)
    BY <1>7 DEF WaitsFor, HoldsWallets
  <2> QED
    BY <1>1, <2>1, <2>2
<1> QED
  BY <1>2, <1>3, <1>4, <1>5, <1>6, <1>7

\* Waiting leads from a key to an order or a wallet, from an order to a wallet,
\* and from a wallet to one of a higher id: it cannot come back to the group.
LEMMA NobodyStuck ==
  ASSUME TypeOK, LockInv, OrderedLocks,
         NEW group \in SUBSET {r \in Requests : pc[r] \in InTx}, group # {},
         \A r \in group : WaitsFor(r) \cap group # {}
  PROVE  FALSE
<1>1. \A r \in group : r \in Requests /\ pc[r] \in {"begin", "order", "wallets"}
  BY StuckPhases
<1>2. \E r \in group : pc[r] = "wallets"
  <2>1. PICK r \in group : TRUE
    OBVIOUS
  <2>2. \E s \in group : pc[s] # "begin"
    <3>1. CASE pc[r] = "begin"
      BY <2>1, <3>1, StuckPhases DEF SlotHolders
    <3> QED
      BY <2>1, <3>1
  <2>3. PICK s \in group : pc[s] # "begin"
    BY <2>2
  <2>4. CASE pc[s] = "order"
    <3>1. PICK t \in OrderHolders(req[s].order) : t \in group
      BY <2>3, <2>4, StuckPhases
    <3> QED
      BY <1>1, <3>1 DEF OrderHolders
  <2> QED
    BY <1>1, <2>3, <2>4
<1> DEFINE Held(s, w) == /\ pc[s] = "wallets" /\ req[s].op # "create" /\ w \in wlock[s]
           H == {w \in Wallets : \E s \in group : Held(s, w)}
<1>3. ASSUME NEW r \in group, pc[r] = "wallets"
      PROVE  \E w \in Wallets : /\ w \in H
                                /\ w \in Wanted(r) \ wlock[r] \/ req[r].op = "create"
  <2>1. PICK w \in Wallets : /\ WalletHolders(r, w) \cap group # {}
                             /\ w \in Wanted(r) \ wlock[r] \/ req[r].op = "create"
    <3>1. CASE req[r].op = "create"
      <4>1. req[r].user \in Wallets
        BY <1>1, CallTypes DEF TypeOK
      <4> QED
        BY <1>3, <3>1, <4>1, StuckPhases
    <3>2. CASE req[r].op # "create"
      <4>1. PICK w \in NextWallets(r) : WalletHolders(r, w) \cap group # {}
        BY <1>3, <3>2, StuckPhases
      <4>2. w \in Wanted(r) \ wlock[r] /\ w \in Wallets
        BY <1>1, WantedAreIds DEF NextWallets
      <4> QED
        BY <4>1, <4>2
    <3> QED
      BY <3>1, <3>2
  <2>2. PICK s \in WalletHolders(r, w) : s \in group
    BY <2>1
  <2>3. s \in Requests /\ w \in wlock[s]
    BY <2>2 DEF WalletHolders
  <2>4. pc[s] = "wallets"
    BY <1>1, <2>2, <2>3 DEF LockInv, PhaseOK
  <2>5. req[s].op # "create"
    BY <2>3, <2>4 DEF OrderedLocks, CreatesHoldNothing
  <2> QED
    BY <2>1, <2>2, <2>3, <2>4, <2>5
<1>4. H \in SUBSET Nat /\ H # {}
  BY <1>2, <1>3, WalletAssumption
<1>5. PICK n \in Nat : \A r \in Requests : \A w \in wlock[r] : w <= n
  BY DEF OrderedLocks, LocksBounded
<1>6. \A w \in H : w <= n
  BY <1>1, <1>5
<1>7. PICK m \in H : \A w \in H : w <= m
  <2> HIDE DEF H
  <2> QED
    BY <1>4, <1>6, GreatestBelow
<1>8. PICK r \in group : Held(r, m)
  BY <1>7
<1>9. PICK w \in H : w \in Wanted(r) \ wlock[r]
  BY <1>3, <1>8
<1>10. m < w
  BY <1>1, <1>8, <1>9 DEF OrderedLocks, Ascending
<1> QED
  BY <1>4, <1>7, <1>9, <1>10

\* The locks of no group of transactions form a cycle: the key, the order, the
\* wallets by id, the external reference.
THEOREM NoCycleOfWaits == Spec => []NoDeadlock
<1>1. TypeOK /\ LockInv /\ OrderedLocks => NoDeadlock
  BY NobodyStuck DEF NoDeadlock
<1> QED
  BY <1>1, TypeAndLocks, LocksAreOrdered, PTL

=============================================================================
