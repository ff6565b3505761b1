------------------------- MODULE MCWalletArithmetic -------------------------
(***************************************************************************)
(* Every input of the balance arithmetic on a narrow machine integer: the  *)
(* inputs FuzzValidateAndApplyTopUp and FuzzValidateAndApplyTransfer       *)
(* (internal/service/wallet_fuzz_test.go) draw at random, one state each.  *)
(***************************************************************************)
EXTENDS WalletArithmetic

VARIABLES sender, recipient, amount

vars == <<sender, recipient, amount>>

Init == /\ sender = 0
        /\ recipient = 0
        /\ amount \in Int64

\* Any legal pair of balances.
Draw == /\ sender' \in Balances
        /\ recipient' \in Balances
        /\ UNCHANGED amount

Next == Draw

Spec == Init /\ [][Next]_vars

-----------------------------------------------------------------------------
\* validateAndApplyTopUp refuses exactly the inputs whose exact sum is not an
\* int64 (or whose amount is not positive), and otherwise returns that sum:
\* the wrapped comparison is as good as unbounded arithmetic.
TopUpIsExact ==
  LET got == validateAndApplyTopUp(sender, amount) IN
  /\ amount <= 0 => got = [err |-> "amount", balance |-> sender]
  /\ amount > 0 /\ sender + amount \notin Int64 => got = [err |-> "overflow", balance |-> sender]
  /\ amount > 0 /\ sender + amount \in Int64 => got = [err |-> "none", balance |-> sender + amount]

\* validateAndApplyTransfer moves the amount without creating or destroying
\* money, leaves no balance negative, and refuses only what must be refused.
TransferIsExact ==
  LET got == validateAndApplyTransfer(sender, recipient, amount) IN
  /\ got.sender + got.recipient = sender + recipient
  /\ got.sender \in Balances /\ got.recipient \in Balances
  /\ got.err = "none" <=> amount > 0 /\ amount <= sender /\ recipient + amount <= MaxInt64

\* The inline checks of TransferWithMetadataTx, which the service really runs,
\* agree with validateAndApplyTransfer, which only the fuzz test runs.
InlineChecksAgree ==
  amount > 0 =>
    transferVerdict(sender, recipient, amount)
      = validateAndApplyTransfer(sender, recipient, amount).err
=============================================================================
