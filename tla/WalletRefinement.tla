-------------------------- MODULE WalletRefinement --------------------------
(***************************************************************************)
(* WalletService implements AtomicWallet.  The contract sees the committed *)
(* tables: an order without its balance snapshots, and of a key only whose *)
(* it is.  A transaction takes effect in the step that commits it and is   *)
(* answered in the same step; every other step of it is invisible.         *)
(***************************************************************************)
EXTENDS WalletService

\* Orders as the contract keeps them.
OrderViews == [wallet: Wallets, amount: Int64, status: {"pending", "success", "failed"},
               ext: ExtRefs \cup {Null}]

ASSUME NullViewAssumption == Null \notin OrderViews

OrderView(o) == IF orders[o] = Null THEN Null
                ELSE [wallet |-> orders[o].wallet, amount |-> orders[o].amount,
                      status |-> orders[o].status, ext |-> orders[o].ext]

OwnerView(s) == IF keys[s] = Null THEN Null ELSE keys[s].by

Contract == INSTANCE AtomicWallet WITH
              orders <- [o \in Requests |-> OrderView(o)],
              taken  <- [s \in Slots |-> OwnerView(s)]

\* Concurrent transfers, top ups and confirmations are strictly serializable:
\* whatever transactions interleave, wait, abort or lose their answers, clients
\* and tables see calls executed one at a time on exact integers, each at most
\* once per key, and every refusal is justified by the accounts of its moment
\* although the checks are made on locked rows of an earlier one.
ImplementsAtomicWallet == Contract!Spec

=============================================================================
