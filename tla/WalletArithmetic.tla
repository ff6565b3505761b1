-------------------------- MODULE WalletArithmetic --------------------------
(***************************************************************************)
(* The int64 arithmetic of internal/service/wallet.go and                  *)
(* internal/repository/wallet.go: the overflow checks that decide whether  *)
(* a top up or a transfer may touch a balance.  Go's int64 wraps around;   *)
(* MaxInt64 is a parameter so that TLC can enumerate a narrow machine and  *)
(* the theorems hold for every width.                                      *)
(***************************************************************************)
EXTENDS Integers

CONSTANT MaxInt64    \* largest value of the machine integer (2^63 - 1 in Go)

ASSUME MaxInt64IsNat == MaxInt64 \in Nat

MinInt64 == -MaxInt64 - 1
Int64    == MinInt64 .. MaxInt64
Balances == 0 .. MaxInt64

\* The machine value of the exact sum or difference of two machine integers:
\* two's complement drops the carry.
Wrap(exact) == IF exact > MaxInt64 THEN exact - 2 * (MaxInt64 + 1)
               ELSE IF exact < MinInt64 THEN exact + 2 * (MaxInt64 + 1)
               ELSE exact

-----------------------------------------------------------------------------
\* A verdict names the error a check returns, "none" when there is no error;
\* on an error the balances are returned as they came.

\* Mutant: the overflow comparison dropped.
TopUpUncheckedMutant(currentBalance, amount) ==
  IF amount <= 0
  THEN [err |-> "amount", balance |-> currentBalance]
  ELSE [err |-> "none", balance |-> Wrap(currentBalance + amount)]

validateAndApplyTopUp(currentBalance, amount) ==
  LET newBalance == Wrap(currentBalance + amount)
      answer(err, b) == [err |-> err, balance |-> b]
  IN IF amount <= 0                     THEN answer("amount", currentBalance)
     ELSE IF newBalance < currentBalance THEN answer("overflow", currentBalance)
     ELSE answer("none", newBalance)

\* Mutant: the recipient's overflow comparison dropped.
TransferUncheckedMutant(senderBalance, recipientBalance, amount) ==
  IF amount <= 0 \/ amount > senderBalance
  THEN [err |-> "insufficient", sender |-> senderBalance, recipient |-> recipientBalance]
  ELSE [err |-> "none", sender |-> senderBalance - amount,
        recipient |-> Wrap(recipientBalance + amount)]

validateAndApplyTransfer(senderBalance, recipientBalance, amount) ==
  LET newSender    == Wrap(senderBalance - amount)
      newRecipient == Wrap(recipientBalance + amount)
      refused(err) == [err |-> err, sender |-> senderBalance, recipient |-> recipientBalance]
  IN IF amount <= 0                     THEN refused("amount")
     ELSE IF newSender < 0              THEN refused("insufficient")
     ELSE IF newRecipient < recipientBalance THEN refused("overflow")
     ELSE [err |-> "none", sender |-> newSender, recipient |-> newRecipient]

\* Mutant: a sender may not spend its whole balance.
VerdictStrictMutant(senderBalance, recipientBalance, amount) ==
  IF amount >= senderBalance THEN "insufficient"
  ELSE IF Wrap(recipientBalance + amount) < recipientBalance THEN "overflow"
  ELSE "none"

\* The check that TransferWithMetadataTx really makes on the locked rows.
\* It compares before it subtracts, and leaves amount <= 0 to the service.
transferVerdict(senderBalance, recipientBalance, amount) ==
  IF amount > senderBalance THEN "insufficient"
  ELSE IF Wrap(recipientBalance + amount) < recipientBalance THEN "overflow"
  ELSE "none"

=============================================================================
