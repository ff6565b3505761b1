SPECIFICATION Spec
CONSTANTS
  r1 = r1
  r2 = r2
  r3 = r3
  r4 = r4
  key1 = key1
  key2 = key2
  ref1 = ref1
  Null = Null
  Requests = {r1, r2, r3, r4}
  Wallets <- MCWallets
  WalletIds <- MCWalletIds
  Keys = {key1, key2}
  ExtRefs = {ref1}
  Calls <- TopUpCalls
  Opening <- TopUpOpening
  MaxInt64 = 3
  TxAbortsOnError = TRUE
SYMMETRY CreatorsAndConfirmers
INVARIANT BalancesInRange
INVARIANT LedgerExplainsBalance
INVARIANT CreditedOnce
INVARIANT ExtRefsUnique
INVARIANT EventPerEffect
INVARIANT NoDeadlock
PROPERTY HistoryImmutable
PROPERTY ImplementsAtomicWallet
