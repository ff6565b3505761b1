---------------------- MODULE MCWalletArithmetic_proofs ----------------------
(***************************************************************************)
(* What the fuzz tests of internal/service/wallet_fuzz_test.go sample,     *)
(* proved for every pair of balances, every amount and a machine integer   *)
(* of every width.                                                         *)
(***************************************************************************)
EXTENDS MCWalletArithmetic, TLAPS

Drawn == sender \in Balances /\ recipient \in Balances /\ amount \in Int64

\* Whatever is drawn is a pair of balances and a machine integer.
LEMMA InputsAreLegal == Spec => []Drawn
<1>1. Init => Drawn
  BY MaxInt64IsNat DEF Init, Drawn, Balances
<1>2. Drawn /\ [Next]_vars => Drawn'
  BY DEF Drawn, Next, Draw, vars
<1> QED
  BY <1>1, <1>2, PTL DEF Spec

\* On a machine integer of any width validateAndApplyTopUp is as good as unbounded
\* arithmetic: it returns the exact sum or refuses because there is none.
THEOREM TopUpsAreExact == Spec => []TopUpIsExact
<1>1. Drawn => TopUpIsExact
  BY MaxInt64IsNat
     DEF Drawn, TopUpIsExact, validateAndApplyTopUp, Wrap, Balances, Int64, MinInt64
<1> QED
  BY <1>1, InputsAreLegal, PTL

\* FuzzValidateAndApplyTransfer's properties, for every width: a transfer leaves no
\* balance negative or wrapped, keeps the total, and is refused only if it must be.
THEOREM TransfersAreExact == Spec => []TransferIsExact
<1>1. Drawn => TransferIsExact
  BY MaxInt64IsNat
     DEF Drawn, TransferIsExact, validateAndApplyTransfer, Wrap, Balances, Int64, MinInt64
<1> QED
  BY <1>1, InputsAreLegal, PTL

\* The inline checks of TransferWithMetadataTx and validateAndApplyTransfer, which
\* only the fuzz test runs, give the same verdict on every legal input.
THEOREM InlineChecksAreEquivalent == Spec => []InlineChecksAgree
<1>1. Drawn => InlineChecksAgree
  BY MaxInt64IsNat
     DEF Drawn, InlineChecksAgree, transferVerdict, validateAndApplyTransfer, Wrap, Balances,
         Int64, MinInt64
<1> QED
  BY <1>1, InputsAreLegal, PTL

=============================================================================
