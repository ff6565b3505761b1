----------------------------- MODULE WalletSystem -----------------------------
(***************************************************************************)
(* The system a user sees: the wallet, whose commits write notifications   *)
(* into the outbox and rows into the histories; the publishers that move   *)
(* the outbox into the Redis stream; and a client that pages through one   *)
(* of its histories.  The wallet is taken at its contract, AtomicWallet,   *)
(* which WalletRefinement shows the code to keep.                          *)
(***************************************************************************)
EXTENDS AtomicWallet, Functions

CONSTANTS
  Workers, BatchSize, MaxPower, Attempts,      \* of OutboxPublisher
  MaxFailures, MaxLost, MaxAborts,
  Events,       \* rows of outbox_events: enough for every call that may owe one
  Times, PageLimit,    \* of Histories
  Owner         \* the wallet whose history is read

Tables == {"topups", "transfers", "ledger"}

ASSUME SystemAssumption == /\ Owner \in Wallets
                           /\ PageLimit \in Nat \ {0}
                           /\ Events \subseteq Nat
                           /\ {BatchSize, Attempts} \subseteq Nat \ {0}
                           /\ {MaxPower, MaxFailures, MaxLost, MaxAborts} \subseteq Nat

VARIABLES
  status, retryCount, waiting, todo, sent, failed, copies, flight, failures, lost, aborts,
  about,        \* the request whose commit wrote the event
  table,        \* the history that is read
  history, page, owed, shown

publisher == <<status, retryCount, waiting, todo, sent, failed, copies, flight, failures, lost,
               aborts>>
pages     == <<table, history, page, owed, shown>>
system    == <<atomic, publisher, about, pages>>

Publisher == INSTANCE OutboxPublisher
History   == INSTANCE Histories WITH Rows <- Requests

SystemInit == /\ Init
              /\ Publisher!Init
              /\ History!Init
              /\ about = [e \in Events |-> Null]
              /\ table \in Tables

-----------------------------------------------------------------------------
\* Mutant: the event is inserted after the commit, and a crash may come between.
NotifyMutant(r) ==
  \/ /\ outbox' # outbox
     /\ \E e \in Events : Publisher!Emit(e) /\ about' = [about EXCEPT ![e] = r]
  \/ UNCHANGED <<publisher, about>>

\* What the commit of r owes the user is a row of outbox_events.
Notify(r) ==
  IF outbox' = outbox THEN UNCHANGED <<publisher, about>>
  ELSE \E e \in Events : Publisher!Emit(e) /\ about' = [about EXCEPT ![e] = r]

\* The commit of r has written a row of the owner's history: a new order, an
\* entry for each balance that changed, or a transfer from or to the wallet.
Lists(r) == \/ table = "topups"    /\ orders'[r] # orders[r] /\ req[r].user = Owner
            \/ table = "ledger"    /\ balance'[Owner] # balance[Owner]
            \/ table = "transfers" /\ balance'[Owner] # balance[Owner] /\ req[r].op = "transfer"

List(r) == IF Lists(r) THEN History!Insert(r) /\ UNCHANGED table ELSE UNCHANGED pages

Commit(r) == Execute(r) /\ Notify(r) /\ List(r)

\* Calls that leave the tables alone, and the payment back office.
Other(r) == (Replay(r) \/ Refuse(r) \/ FailOrder(r)) /\ UNCHANGED <<publisher, about, pages>>

Publish(w) == Publisher!PublishBatch(w) /\ UNCHANGED <<atomic, about, pages>>

Fault(w) == Publisher!Abort(w) /\ UNCHANGED <<atomic, about, pages>>

Expire(e) == Publisher!Expire(e) /\ UNCHANGED <<atomic, about, pages>>

Arrive(e) == Publisher!Arrive(e) /\ UNCHANGED <<atomic, about, pages>>

\* Only the query of the ledger has the id as a tie-break.
Read == History!ReadPage(table = "ledger") /\ UNCHANGED <<atomic, publisher, about, table>>

SystemNext == \/ \E r \in Requests : Commit(r) \/ Other(r)
              \/ \E w \in Workers : Publish(w) \/ Fault(w)
              \/ \E e \in Events : Expire(e) \/ Arrive(e)
              \/ Read

SystemSpec == SystemInit /\ [][SystemNext]_system

\* The publishers keep polling and time passes; nobody has to call anything.
FairSystemSpec == /\ SystemSpec
                  /\ \A w \in Workers : WF_system(Publish(w))
                  /\ \A e \in Events : WF_system(Expire(e))

-----------------------------------------------------------------------------
(* Properties.                                                              *)

\* Transfers that were made and orders that were credited.
Effects == {r \in Requests : req[r].op = "transfer" /\ taken[Slot(r)] = r} \cup
           {o \in Requests : orders[o] # Null /\ orders[o].status = "success"}

\* The transfer or the order an event tells the user of.
Subject(e) == LET r == about[e] IN IF req[r].op = "confirm" THEN req[r].order ELSE r

Notices(s) == {e \in Events : about[e] # Null /\ Subject(e) = s}

\* "No event is lost": whatever a user was debited or credited reaches the
\* stream in the end, also when the answer was lost, Redis failed or a worker
\* died between the commit and the XADD.
CommitsAreNotified ==
  \A s \in Requests : s \in Effects ~> \E e \in Notices(s) : copies[e] >= 1

\* The stream tells of nothing that has not been committed, and of a transfer or
\* an order once, however many calls confirm or repeat it: only a command given up
\* on or a batch rolled back adds an entry.
NotifiedOncePerEffect ==
  \A s \in Requests :
    SumFunctionOnSet(copies, Notices(s)) <= IF s \in Effects THEN 1 + lost + aborts ELSE 0

\* A user that pages through the ledger while money moves misses nothing; in the
\* other histories it misses at most rows that share their created_at.
PagesCoverHistory == History!PagesCoverHistory(table = "ledger")

=============================================================================
