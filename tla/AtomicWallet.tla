---------------------------- MODULE AtomicWallet ----------------------------
(***************************************************************************)
(* The contract of the wallet, as its clients may rely on it: every call   *)
(* of TransferWithIdempotency, CreateTopUp and ConfirmTopUp takes effect   *)
(* in one step or not at all, on exact integers, and the answer it gets is *)
(* justified by the accounts at that very moment.  No transactions, locks, *)
(* snapshots or machine integers; WalletRefinement shows that              *)
(* WalletService implements it.                                            *)
(***************************************************************************)
EXTENDS Integers

CONSTANTS
  Requests,    \* HTTP calls
  Wallets,     \* registered wallets, one per user
  Keys,        \* idempotency keys
  Calls,       \* the calls each request may carry
  Opening,     \* opening balance of each wallet
  MaxInt64,    \* largest balance a wallet can hold
  Null

Ops   == {"transfer", "create", "confirm"}
Slots == Wallets \X Ops \X Keys

ASSUME AtomicAssumption == /\ MaxInt64 \in Nat
                           /\ Opening \in [Wallets -> 0 .. MaxInt64]
                           /\ Null \notin Requests

\* What the contract keeps of an order.
OrderRow == [wallet: Wallets, amount: Int, status: {"pending", "success", "failed"},
             ext: {c.ext : c \in UNION {Calls[r] : r \in Requests}} \cup {Null}]

\* A call comes from a user with a wallet and carries a key.
ASSUME CallsAssumption ==
  /\ \A r \in Requests : \A c \in Calls[r] :
       c.user \in Wallets /\ c.op \in Ops /\ c.key \in Keys /\ c.amount \in Int
  /\ Null \notin OrderRow

VARIABLES
  balance,     \* balance of each wallet
  orders,      \* top up orders, by the request that created them
  taken,       \* the request each idempotency slot belongs to
  outbox,      \* notifications owed to the users
  req,         \* the call of each request
  reply        \* what its client was answered

books  == <<balance, orders, taken, outbox>>
atomic == <<books, req, reply>>

NoReply == [kind |-> "none", id |-> Null]

Init ==
  /\ balance = Opening
  /\ orders = [r \in Requests |-> Null]
  /\ taken = [s \in Slots |-> Null]
  /\ outbox = {}
  /\ req \in {q \in [Requests -> UNION {Calls[r] : r \in Requests}] :
               \A r \in Requests : q[r] \in Calls[r]}
  /\ reply = [r \in Requests |-> NoReply]

Slot(r) == <<req[r].user, req[r].op, req[r].key>>

-----------------------------------------------------------------------------
(* Answers.                                                                 *)

Respond(r, kind, id) ==
  /\ reply[r] = NoReply
  /\ reply' = [reply EXCEPT ![r] = [kind |-> kind, id |-> id]]
  /\ UNCHANGED req

\* A call that took effect, or repeats one that did; its answer may be lost.
Succeed(r, id) == Respond(r, "ok", id) \/ Respond(r, "unknown", Null)

\* A call may take effect only under a key that nobody has used.
Intends(r, op) == req[r].op = op /\ taken[Slot(r)] = Null

Take(r) == taken' = [taken EXCEPT ![Slot(r)] = r]

-----------------------------------------------------------------------------
(* Effects.                                                                 *)

Transfer(r) ==
  LET c == req[r] IN
  /\ Intends(r, "transfer")
  /\ c.to \in Wallets \ {c.user}
  /\ c.amount \in 1 .. balance[c.user]
  /\ balance[c.to] + c.amount <= MaxInt64
  /\ balance' = [balance EXCEPT ![c.user] = @ - c.amount, ![c.to] = @ + c.amount]
  /\ outbox' = outbox \cup {[type |-> "transfer.success", by |-> r,
                              user |-> c.user, amount |-> c.amount]}
  /\ Take(r)
  /\ Succeed(r, r)
  /\ UNCHANGED orders

\* An order promises nothing yet: whether it fits is decided at confirmation.
Create(r) ==
  /\ Intends(r, "create")
  /\ req[r].amount > 0
  /\ orders' = [orders EXCEPT ![r] = [wallet |-> req[r].user, amount |-> req[r].amount,
                                      status |-> "pending", ext |-> Null]]
  /\ Take(r)
  /\ Succeed(r, r)
  /\ UNCHANGED <<balance, outbox>>

\* The order r names exists and is the caller's.
Owns(r) == /\ req[r].order \in Requests
           /\ orders[req[r].order] # Null
           /\ orders[req[r].order].wallet = req[r].user

\* The payment provider's reference has already confirmed an order.
RefUsed(r) == /\ req[r].ext # Null
              /\ \E o \in Requests : orders[o] # Null /\ orders[o].ext = req[r].ext

Confirm(r) ==
  LET o == req[r].order IN
  /\ Intends(r, "confirm")
  /\ Owns(r)
  /\ orders[o].status = "pending"
  /\ ~RefUsed(r)
  /\ balance[req[r].user] + orders[o].amount <= MaxInt64
  /\ balance' = [balance EXCEPT ![req[r].user] = @ + orders[o].amount]
  /\ orders' = [orders EXCEPT ![o].status = "success", ![o].ext = req[r].ext]
  /\ outbox' = outbox \cup {[type |-> "topup.confirmed", by |-> r,
                              user |-> req[r].user, amount |-> orders[o].amount]}
  /\ Take(r)
  /\ Succeed(r, o)

\* Mutant: the second confirmation notifies again.
AcknowledgeMutant(r) ==
  /\ Intends(r, "confirm")
  /\ Owns(r)
  /\ orders[req[r].order].status = "success"
  /\ outbox' = outbox \cup {[type |-> "topup.confirmed", by |-> r, user |-> req[r].user,
                              amount |-> orders[req[r].order].amount]}
  /\ Take(r)
  /\ Succeed(r, req[r].order)
  /\ UNCHANGED <<balance, orders>>

\* Confirming a credited order again succeeds without a credit.
Acknowledge(r) ==
  /\ Intends(r, "confirm")
  /\ Owns(r)
  /\ orders[req[r].order].status = "success"
  /\ Take(r)
  /\ Succeed(r, req[r].order)
  /\ UNCHANGED <<balance, orders, outbox>>

-----------------------------------------------------------------------------
(* Calls without an effect.                                                 *)

SamePayload(r, s) == /\ req[r].to = req[s].to
                     /\ req[r].amount = req[s].amount
                     /\ req[r].order = req[s].order
                     /\ req[r].ext = req[s].ext

\* A repetition is given the result of the call it repeats.
Replay(r) ==
  LET s == taken[Slot(r)] IN
  /\ s # Null
  /\ SamePayload(r, s)
  /\ Respond(r, "ok", IF req[s].op = "confirm" THEN req[s].order ELSE s)
  /\ UNCHANGED books

\* Wallet w cannot hold this amount more.
Exceeds(w, amount) == balance[w] + amount > MaxInt64

\* A refusal is true when it is given.  "unknown" claims nothing; "internal" is
\* owed to a used key or a used reference; that a key has failed or is still
\* under way is never said.
Justified(r, kind) ==
  LET c == req[r] IN
  \/ kind = "unknown"
  \/ kind = "amount"       /\ c.op # "confirm" /\ c.amount <= 0
  \/ kind = "sameWallet"   /\ c.op = "transfer" /\ c.to = c.user
  \/ kind = "insufficient" /\ c.op = "transfer" /\ c.amount > balance[c.user]
  \/ kind = "notFound"     /\ \/ c.op = "transfer" /\ c.to \notin Wallets
                              \/ c.op = "confirm"  /\ ~Owns(r)
  \/ kind = "overflow"     /\ \/ c.op = "transfer" /\ c.to \in Wallets /\ Exceeds(c.to, c.amount)
                              \/ c.op = "create"   /\ Exceeds(c.user, c.amount)
                              \/ c.op = "confirm"  /\ Owns(r)
                                                   /\ Exceeds(c.user, orders[c.order].amount)
  \/ kind = "orderFailed"  /\ c.op = "confirm" /\ Owns(r) /\ orders[c.order].status = "failed"
  \/ kind = "internal"     /\ \/ taken[Slot(r)] # Null
                              \/ c.op = "confirm" /\ RefUsed(r)
  \/ kind = "conflict"     /\ taken[Slot(r)] # Null /\ ~SamePayload(r, taken[Slot(r)])

Refusals == {"unknown", "amount", "sameWallet", "insufficient", "notFound", "overflow",
             "orderFailed", "internal", "conflict"}

Refuse(r) ==
  /\ \E kind \in Refusals : Justified(r, kind) /\ Respond(r, kind, Null)
  /\ UNCHANGED books

\* The payment back office gives up a pending order.
FailOrder(o) ==
  /\ orders[o] # Null
  /\ orders[o].status = "pending"
  /\ orders' = [orders EXCEPT ![o].status = "failed"]
  /\ UNCHANGED <<balance, taken, outbox, req, reply>>

-----------------------------------------------------------------------------
Execute(r) == Transfer(r) \/ Create(r) \/ Confirm(r) \/ Acknowledge(r)

Next == \E r \in Requests : Execute(r) \/ Replay(r) \/ Refuse(r) \/ FailOrder(r)

Spec == Init /\ [][Next]_atomic

=============================================================================
