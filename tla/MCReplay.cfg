SPECIFICATION Spec
CONSTANTS
  r1 = r1
  r2 = r2
  r3 = r3
  r4 = r4
  key1 = key1
  key2 = key2
  ref1 = ref1
  Null = Null
  Requests = {r1, r2, r3}
  Wallets <- MCWallets
  WalletIds <- MCWalletIds
  Keys = {key1, key2}
  ExtRefs = {ref1}
  Calls <- ReplayCalls
  Opening <- ReplayOpening
  MaxInt64 = 4
  TxAbortsOnError = FALSE
INVARIANT AnswersAreTrue
PROPERTY ReplayReturnsOriginal
