---------------------------- MODULE MCWalletSystem ----------------------------
(***************************************************************************)
(* An instance of WalletSystem for TLC: r1 makes an order, r2 confirms it, *)
(* r3 confirms it too, makes another or transfers, and wallet 1 reads one  *)
(* of its histories in pages of one, with equal and different created_at.  *)
(***************************************************************************)
EXTENDS WalletSystem, TLC

CONSTANTS r1, r2, r3, key1, key2, w1

MCOpening == 1 :> 1 @@ 2 :> 1

Call(op, user, key, to, amount, order) ==
  [op |-> op, user |-> user, key |-> key, to |-> to, amount |-> amount,
   order |-> order, ext |-> Null]

Order(key)    == Call("create", 1, key, 1, 1, Null)
Confirm1(key) == Call("confirm", 1, key, 1, 1, r1)
Pay(from, to) == Call("transfer", from, key1, to, 1, Null)

MCCalls == r1 :> {Order(key1)} @@
           r2 :> {Confirm1(key1)} @@
           r3 :> {Confirm1(key2), Order(key2), Pay(2, 1)}

\* Bound: the faults of the publisher are explored with one of the histories
\* only, since neither sees the other.
FaultsApart == table = "transfers" \/ failures + lost + aborts = 0
=============================================================================
