SPECIFICATION Spec
CONSTANT MaxInt64 = 15
INVARIANT TopUpIsExact
INVARIANT TransferIsExact
INVARIANT InlineChecksAgree
