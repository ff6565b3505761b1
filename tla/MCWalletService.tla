--------------------------- MODULE MCWalletService ---------------------------
(***************************************************************************)
(* Instances of WalletService for TLC.  Wallets 1 and 2 are registered; 3  *)
(* is an id a client may name that no wallet has.                          *)
(***************************************************************************)
EXTENDS WalletProperties, WalletRefinement, TLC

CONSTANTS r1, r2, r3, r4, key1, key2, ref1

Transfers(users, ks, tos, amounts) ==
  [op: {"transfer"}, user: users, key: ks, to: tos, amount: amounts,
   order: {Null}, ext: {Null}]

Creations(users, ks, amounts) ==
  [op: {"create"}, user: users, key: ks, to: {1}, amount: amounts,
   order: {Null}, ext: {Null}]

Confirmations(users, ks, os, exts) ==
  [op: {"confirm"}, user: users, key: ks, to: {1}, amount: {1},
   order: os, ext: exts]

-----------------------------------------------------------------------------
MCWallets   == {1, 2}
MCWalletIds == {1, 2, 3}

\* Transfers both ways between two wallets, to a missing wallet, to oneself,
\* of nothing, of more than there is, and into an overflow; keys shared by
\* equal and by different payloads.
TransferOpening == 1 :> 2 @@ 2 :> 3
TransferCalls ==
  [r \in Requests |-> Transfers({1, 2}, {key1, key2}, {1, 2}, {1, 2}) \cup
                      Transfers({1}, {key1}, {2, 3}, {0, 3})]

\* r1 and r2 create orders of wallet 1; the others confirm them under equal
\* and different keys, with and without an external reference, or as user 2
\* whose orders they are not.  The second credit of 2 overflows.
TopUpOpening == 1 :> 0 @@ 2 :> 0
TopUpCalls ==
  [r \in Requests |->
     IF r \in {r1, r2} THEN Creations({1}, {key1}, {1, 2}) \cup Creations({1}, {key2}, {2})
     ELSE Confirmations({1}, {key1, key2}, {r1, r2}, {Null, ref1}) \cup
          Confirmations({2}, {key1}, {r1}, {Null})]

\* Transfers, an order of wallet 1 and its confirmations.
MixedOpening == 1 :> 1 @@ 2 :> 1
MixedCalls ==
  [r \in Requests |->
     IF r = r1 THEN Creations({1}, {key1}, {2})
     ELSE Transfers({1}, {key1}, {2}, {1}) \cup
          Transfers({2}, {key1}, {1}, {2}) \cup
          Confirmations({1}, {key1, key2}, {r1}, {Null})]

\* Repetitions of transfers and of confirmations: keys shared by equal and by
\* different payloads, a sender whose second transfer is not covered until the
\* other wallet pays back.
ReplayOpening == 1 :> 1 @@ 2 :> 1
ReplayCalls ==
  [r \in Requests |->
     IF r = r1 THEN Creations({1}, {key1}, {1}) \cup Transfers({2}, {key1}, {1}, {1})
     ELSE Creations({1}, {key1}, {1, 2}) \cup
          Transfers({1}, {key1}, {2}, {1, 2}) \cup
          Confirmations({1}, {key1}, {r1}, {Null, ref1})]

\* Requests that may carry the same calls are interchangeable.
AllRequests == Permutations(Requests)
CreatorsAndConfirmers == Permutations({r1, r2}) \cup Permutations(Requests \ {r1, r2})
=============================================================================
