------------------------- MODULE WalletSystem_proofs -------------------------
(***************************************************************************)
(* Proofs about WalletSystem, for every set of calls, wallets, events and  *)
(* workers, every page size and every number of faults: a reader of a      *)
(* growing history misses no row, and a user is told once of every effect. *)
(* PublisherProofs holds the theorems about the publisher alone, which the *)
(* composition inherits because each of its steps is one of the            *)
(* publisher's or leaves the publisher's variables alone.                  *)
(***************************************************************************)
EXTENDS WalletSystem, SequenceTheorems, SumTheorems, TLAPS

-----------------------------------------------------------------------------
(* Reading page by page.                                                    *)

\* From list q to list r the rows before position k keep their places and each of
\* the others moves back by one.
Shifted(q, r, k) ==
  /\ \A i \in DOMAIN q : i < k => i \in DOMAIN r /\ r[i] = q[i]
  /\ \A i \in DOMAIN q : i >= k => i + 1 \in DOMAIN r /\ r[i + 1] = q[i]

\* That is what inserting a row does.
LEMMA InsertedLater ==
  ASSUME NEW S, NEW q \in Seq(S), NEW k \in 1 .. Len(q) + 1, NEW x \in S,
         NEW r, r = SubSeq(q, 1, k - 1) \o <<x>> \o SubSeq(q, k, Len(q))
  PROVE  r \in Seq(S) /\ Shifted(q, r, k)
<1> DEFINE a == SubSeq(q, 1, k - 1)
           b == SubSeq(q, k, Len(q))
           c == a \o <<x>>
           t == c \o b
<1>1. /\ a \in Seq(S) /\ Len(a) = k - 1
      /\ b \in Seq(S) /\ Len(b) = Len(q) - k + 1
      /\ \A i \in 1 .. k - 1 : a[i] = q[i]
      /\ \A i \in 1 .. Len(q) - k + 1 : b[i] = q[k + i - 1]
  OBVIOUS
<1> HIDE DEF a, b
<1>2. /\ c \in Seq(S) /\ Len(c) = k
      /\ \A i \in 1 .. k - 1 : c[i] = a[i]
  BY <1>1
<1> HIDE DEF c
<1>3. t \in Seq(S) /\ Len(t) = Len(q) + 1
  <2>1. t \in Seq(S) /\ Len(t) = Len(c) + Len(b)
    BY <1>1, <1>2, ConcatProperties
  <2>2. k \in Int /\ Len(q) \in Int
    OBVIOUS
  <2>3. Len(c) + Len(b) = Len(q) + 1
    BY <1>1, <1>2, <2>2
  <2> HIDE DEF t
  <2> QED
    BY <2>1, <2>3
<1>4. \A i \in 1 .. Len(c) : t[i] = c[i]
  BY <1>1, <1>2
<1>5. ASSUME NEW i \in 1 .. Len(b) PROVE t[Len(c) + i] = b[i]
  <2>1. Len(c) \in Nat /\ Len(b) \in Nat
    BY <1>1, <1>2
  <2>2. /\ Len(c) + i \in 1 .. Len(c) + Len(b) /\ ~(Len(c) + i <= Len(c))
        /\ (Len(c) + i) - Len(c) = i
    BY <2>1
  <2>3. \A j \in 1 .. Len(c) + Len(b) :
          t[j] = IF j <= Len(c) THEN c[j] ELSE b[j - Len(c)]
    <3> HIDE DEF c, b
    <3> QED
      BY <1>1, <1>2, ConcatProperties
  <2> HIDE DEF t
  <2> QED
    BY <2>2, <2>3
<1> HIDE DEF t
<1>6. ASSUME NEW i \in DOMAIN q, i < k PROVE i \in DOMAIN t /\ t[i] = q[i]
  <2>1. i \in 1 .. Len(q) /\ DOMAIN t = 1 .. Len(q) + 1 /\ Len(q) \in Nat
    BY <1>3
  <2>2. i \in 1 .. k - 1 /\ i \in 1 .. Len(c) /\ i \in DOMAIN t
    BY <1>2, <1>6, <2>1
  <2> QED
    BY <1>1, <1>2, <1>4, <2>2
<1>7. ASSUME NEW i \in DOMAIN q, i >= k PROVE i + 1 \in DOMAIN t /\ t[i + 1] = q[i]
  <2>1. i \in 1 .. Len(q) /\ DOMAIN t = 1 .. Len(q) + 1 /\ Len(q) \in Nat
    BY <1>3
  <2> DEFINE m == i - k + 1
  <2>2. m \in 1 .. Len(b) /\ Len(c) + m = i + 1 /\ k + m - 1 = i
    BY <1>1, <1>2, <1>7, <2>1
  <2>3. t[i + 1] = b[m] /\ b[m] = q[i]
    <3> HIDE DEF m
    <3> QED
      BY <1>1, <1>5, <2>2
  <2>4. i + 1 \in DOMAIN t
    BY <2>1
  <2> QED
    BY <2>3, <2>4
<1> QED
  <2>1. r = t
    BY DEF t, a, b, c
  <2> QED
    BY <1>3, <1>6, <1>7, <2>1 DEF Shifted

-----------------------------------------------------------------------------
(* Histories.                                                               *)

\* The steps of the system, as far as the reader can tell.
LEMMA ReaderSteps ==
  ASSUME [SystemNext]_system
  PROVE  /\ table' = table
         /\ \/ \E r \in Requests : History!Insert(r)
            \/ History!ReadPage(table = "ledger")
            \/ UNCHANGED <<history, page, owed, shown>>
BY DEF SystemNext, system, pages, Commit, List, Other, Publish, Fault, Expire, Arrive, Read

Row == [row: Requests, at: Times]

\* Row x can be relied on to keep its place: its list is the ledger, or it shares
\* its created_at with no other.
Placed(x) == table = "ledger" \/ History!Untied(x)

\* Row x lies behind the pages that have been read.
Ahead(x) == \E i \in DOMAIN history : history[i].row = x /\ i > History!Offset(page)

\* Every row in its place that the client is owed and has not been shown lies
\* behind the pages it has read, wherever rows have been inserted since.
HistoryInv ==
  /\ history \in Seq(Row)
  /\ page \in Nat
  /\ page # 0 => \A x \in owed \ shown : Placed(x) => Ahead(x)
  /\ page = 0 => \A x \in owed \ shown : ~Placed(x)

LEMMA OffsetNext ==
  ASSUME NEW p \in Nat, NEW l \in Nat
  PROVE  /\ (p - 1) * l \in Int /\ (p + 1 - 1) * l = (p - 1) * l + l
         /\ p > 0 => (p - 1) * l >= 0
OBVIOUS

LEMMA InsertKeeps ==
  ASSUME HistoryInv, table' = table, NEW r \in Requests, History!Insert(r)
  PROVE  HistoryInv'
<1>1. PICK k \in 1 .. Len(history) + 1, t \in Times :
        history' = SubSeq(history, 1, k - 1) \o <<[row |-> r, at |-> t]>>
                     \o SubSeq(history, k, Len(history))
  BY DEF History!Insert, History!InsertAt
<1>2. UNCHANGED <<page, owed, shown>>
  BY DEF History!Insert, History!reader
<1>3. [row |-> r, at |-> t] \in Row
  BY DEF Row
<1>4. /\ history' \in Seq(Row)
      /\ \A i \in DOMAIN history : i < k => i \in DOMAIN history' /\ history'[i] = history[i]
      /\ \A i \in DOMAIN history : i >= k => i + 1 \in DOMAIN history' /\ history'[i + 1] = history[i]
  <2>1. PICK x \in Row : x = [row |-> r, at |-> t]
    BY <1>3
  <2>2. PICK next : next = history'
    OBVIOUS
  <2>3. next = SubSeq(history, 1, k - 1) \o <<x>> \o SubSeq(history, k, Len(history))
    BY <1>1, <2>1, <2>2
  <2>4. history \in Seq(Row)
    BY DEF HistoryInv
  <2>5. next \in Seq(Row) /\ Shifted(history, next, k)
    BY <2>3, <2>4, InsertedLater
  <2> QED
    BY <2>2, <2>5 DEF Shifted
<1>5. k \in Int /\ DOMAIN history \subseteq Int
  BY DEF HistoryInv
<1>6. \A x : Placed(x)' => Placed(x)
  <2> SUFFICES ASSUME NEW x, History!Untied(x)', NEW i \in DOMAIN history, NEW j \in DOMAIN history,
                      history[i].row = x, history[j].at = history[i].at
               PROVE  i = j
    BY DEF Placed, History!Untied
  <2>1. PICK m \in DOMAIN history' : /\ history'[m] = history[i]
                                     /\ (i < k /\ m = i) \/ (i >= k /\ m = i + 1)
    BY <1>4, <1>5
  <2>2. PICK n \in DOMAIN history' : /\ history'[n] = history[j]
                                     /\ (j < k /\ n = j) \/ (j >= k /\ n = j + 1)
    BY <1>4, <1>5
  <2>3. m = n
    BY <2>1, <2>2 DEF History!Untied
  <2> QED
    BY <1>5, <2>1, <2>2, <2>3
<1>7. ASSUME NEW x, Ahead(x) PROVE Ahead(x)'
  <2>1. PICK i \in DOMAIN history : history[i].row = x /\ i > History!Offset(page)
    BY <1>7 DEF Ahead
  <2>2. PICK m \in DOMAIN history' : /\ history'[m] = history[i]
                                     /\ m = i \/ m = i + 1
    BY <1>4, <1>5
  <2>3. History!Offset(page) \in Int
    BY OffsetNext, SystemAssumption DEF HistoryInv, History!Offset
  <2>4. m > History!Offset(page)
    BY <1>5, <2>1, <2>2, <2>3
  <2> QED
    BY <1>2, <2>1, <2>2, <2>4 DEF Ahead, History!Offset
<1> QED
  BY <1>2, <1>4, <1>6, <1>7 DEF HistoryInv

\* Whatever order a query finds, a row in its place is where it is in history.
LEMMA PlacesAreKept ==
  ASSUME HistoryInv, NEW list \in History!Orders(table = "ledger")
  PROVE  /\ DOMAIN list = DOMAIN history
         /\ \A i \in DOMAIN history : Placed(history[i].row) => list[i] = history[i]
<1>1. CASE table = "ledger"
  BY <1>1 DEF History!Orders
<1>2. CASE table # "ledger"
  <2>1. PICK p \in History!Ties : list = [i \in DOMAIN history |-> history[p[i]]]
    BY <1>2 DEF History!Orders
  <2>2. \A i \in DOMAIN history : p[i] \in DOMAIN history /\ history[p[i]].at = history[i].at
    BY <2>1 DEF History!Ties, History!Bijection, History!Injection
  <2> QED
    BY <1>2, <2>1, <2>2 DEF Placed, History!Untied
<1> QED
  BY <1>1, <1>2

LEMMA ReadKeeps ==
  ASSUME HistoryInv, table' = table, History!ReadPage(table = "ledger")
  PROVE  HistoryInv'
<1>1. PICK list \in History!Orders(table = "ledger") :
        /\ shown' = shown \cup History!PageRows(list, page)
        /\ page' = IF History!PageRows(list, page) = {} THEN 0 ELSE page + 1
  BY DEF History!ReadPage
<1> DEFINE rows == History!PageRows(list, page)
           before == History!Offset(page)
<1>2. /\ page \in Nat /\ page # 0 /\ history' = history
      /\ owed' = IF page = 1 THEN History!Listed ELSE owed
  BY DEF History!ReadPage, HistoryInv
<1>3. /\ before \in Int /\ PageLimit \in Nat /\ PageLimit > 0
      /\ History!Offset(page + 1) = before + PageLimit
      /\ before >= 0 /\ (page = 1 => before = 0)
  BY <1>2, OffsetNext, SystemAssumption DEF History!Offset
<1>4. /\ DOMAIN list = DOMAIN history
      /\ \A i \in DOMAIN history : Placed(history[i].row) => list[i] = history[i]
  BY PlacesAreKept
<1>5. rows = {list[i].row : i \in DOMAIN history \cap (before + 1 .. before + PageLimit)}
  BY <1>4 DEF History!PageRows
<1>6. DOMAIN history = 1 .. Len(history) /\ Len(history) \in Nat
  BY DEF HistoryInv
<1>7. \A x : Placed(x)' <=> Placed(x)
  BY <1>2 DEF Placed, History!Untied
<1>8. shown' = shown \cup rows /\ page' = IF rows = {} THEN 0 ELSE page + 1
  BY <1>1
<1> HIDE DEF rows, before
<1>9. ASSUME NEW x \in owed' \ shown', Placed(x)
      PROVE  \E i \in DOMAIN history : history[i].row = x /\ i > before
  <2>1. CASE page = 1
    BY <1>2, <1>3, <1>6, <2>1 DEF History!Listed
  <2>2. CASE page # 1
    <3>1. x \in owed \ shown
      BY <1>2, <1>8, <2>2
    <3> QED
      BY <1>2, <1>9, <3>1 DEF HistoryInv, Ahead, before
  <2> QED
    BY <2>1, <2>2
<1>10. ASSUME NEW x \in owed' \ shown', Placed(x)
       PROVE  \E i \in DOMAIN history : history[i].row = x /\ i > before + PageLimit
  <2>1. PICK i \in DOMAIN history : history[i].row = x /\ i > before
    BY <1>9, <1>10
  <2>2. x \notin rows /\ list[i].row = x
    BY <1>4, <1>8, <1>10, <2>1
  <2>3. i \notin before + 1 .. before + PageLimit
    BY <1>5, <2>1, <2>2
  <2>4. i \in Int
    BY <1>6
  <2>5. i > before + PageLimit
    BY <1>3, <2>1, <2>3, <2>4
  <2> QED
    BY <2>1, <2>5
<1>11. CASE rows = {}
  <2>1. ASSUME NEW x \in owed' \ shown', Placed(x) PROVE FALSE
    <3>1. PICK i \in DOMAIN history : i > before
      BY <1>9, <2>1
    <3>2. ~(before + 1 \in DOMAIN history)
      <4>1. before + 1 \in before + 1 .. before + PageLimit
        BY <1>3
      <4> QED
        BY <1>5, <1>11, <4>1
    <3> QED
      BY <1>3, <1>6, <3>1, <3>2
  <2> QED
    BY <1>2, <1>7, <1>8, <1>11, <2>1 DEF HistoryInv
<1>12. CASE rows # {}
  <2>1. page' # 0 /\ page' = page + 1 /\ page' \in Nat
    BY <1>2, <1>8, <1>12
  <2>2. History!Offset(page)' = before + PageLimit
    BY <1>3, <2>1 DEF History!Offset
  <2>3. \A x \in owed' \ shown' : Placed(x) => Ahead(x)'
    BY <1>2, <1>10, <2>2 DEF Ahead
  <2> QED
    BY <1>2, <1>7, <2>1, <2>3 DEF HistoryInv
<1> QED
  BY <1>11, <1>12

\* A user that pages through the ledger while money moves misses nothing that was
\* there when it began, however many rows are inserted meanwhile and wherever; in
\* the other histories it misses no row that has its created_at for itself.
THEOREM ReadersMissNothing == SystemSpec => []PagesCoverHistory
<1>1. SystemInit => HistoryInv
  BY DEF SystemInit, History!Init, HistoryInv
<1>2. HistoryInv /\ [SystemNext]_system => HistoryInv'
  <2>1. ASSUME HistoryInv, table' = table, UNCHANGED <<history, page, owed, shown>>
        PROVE  HistoryInv'
    BY <2>1 DEF HistoryInv, Placed, Ahead, History!Untied, History!Offset
  <2> QED
    BY <2>1, ReaderSteps, InsertKeeps, ReadKeeps
<1>3. HistoryInv => PagesCoverHistory
  BY DEF HistoryInv, Placed, PagesCoverHistory, History!PagesCoverHistory
<1> QED
  BY <1>1, <1>2, <1>3, PTL DEF SystemSpec

-----------------------------------------------------------------------------
(* The publishers of the system behave as OutboxPublisher says.             *)

PublisherProofs == INSTANCE OutboxPublisher_proofs

LEMMA PublisherParameters == PublisherProofs!OutboxAssumption
BY SystemAssumption DEF PublisherProofs!OutboxAssumption

LEMMA EmitIs ==
  ASSUME NEW e
  PROVE  Publisher!Emit(e) => PublisherProofs!Emit(e)
BY DEF Publisher!Emit, PublisherProofs!Emit, Publisher!batch, PublisherProofs!batch,
       Publisher!stream, PublisherProofs!stream

LEMMA PublisherSteps ==
  ASSUME [SystemNext]_system
  PROVE  [PublisherProofs!Next]_PublisherProofs!vars
<1>1. \/ \E e \in Events : Publisher!Emit(e) \/ Publisher!Expire(e) \/ Publisher!Arrive(e)
      \/ \E w \in Workers : Publisher!PublishBatch(w) \/ Publisher!Abort(w)
      \/ UNCHANGED publisher
  BY DEF SystemNext, system, Commit, Notify, Other, Publish, Fault, Expire, Arrive, Read
<1>2. ASSUME NEW e \in Events
      PROVE  /\ Publisher!Expire(e) => PublisherProofs!Expire(e)
             /\ Publisher!Arrive(e) => PublisherProofs!Arrive(e)
  BY DEF Publisher!Expire, PublisherProofs!Expire, Publisher!Arrive, PublisherProofs!Arrive,
         Publisher!table, PublisherProofs!table, Publisher!batch, PublisherProofs!batch,
         Publisher!stream, PublisherProofs!stream
<1>0. ASSUME NEW e, NEW n, NEW more
      PROVE  Publisher!GiveUp(e, n, more) <=> PublisherProofs!GiveUp(e, n, more)
  BY DEF Publisher!GiveUp, PublisherProofs!GiveUp
<1>3. ASSUME NEW w \in Workers PROVE Publisher!Abort(w) => PublisherProofs!Abort(w)
  BY <1>0 DEF Publisher!Abort, PublisherProofs!Abort, Publisher!InBatch, PublisherProofs!InBatch,
         Publisher!Current, PublisherProofs!Current, Publisher!table, PublisherProofs!table,
         Publisher!stream, PublisherProofs!stream
<1>4. ASSUME NEW w \in Workers PROVE Publisher!PublishBatch(w) => PublisherProofs!PublishBatch(w)
  <2>1. \A v : Publisher!InBatch(v) = PublisherProofs!InBatch(v)
    BY DEF Publisher!InBatch, PublisherProofs!InBatch
  <2>2. /\ Publisher!Batch = PublisherProofs!Batch
        /\ Publisher!QueryFails <=> PublisherProofs!QueryFails
    <3>0. \A S : Publisher!Cardinality(S) = PublisherProofs!Cardinality(S)
      BY DEF Publisher!Cardinality, PublisherProofs!Cardinality
    <3>1. Publisher!Overflowed = PublisherProofs!Overflowed
      BY DEF Publisher!Overflowed, PublisherProofs!Overflowed, Publisher!Pending,
             PublisherProofs!Pending
    <3>2. Publisher!Due = PublisherProofs!Due
      BY <3>1 DEF Publisher!Due, PublisherProofs!Due, Publisher!Pending, PublisherProofs!Pending
    <3>3. Publisher!Locked = PublisherProofs!Locked
      BY DEF Publisher!Locked, PublisherProofs!Locked, Publisher!InBatch, PublisherProofs!InBatch
    <3>4. Publisher!Free = PublisherProofs!Free
      BY <3>2, <3>3 DEF Publisher!Free, PublisherProofs!Free
    <3>5. Publisher!Batch = PublisherProofs!Batch
      BY <3>0, <3>4 DEF Publisher!Batch, PublisherProofs!Batch
    <3>6. Publisher!QueryFails <=> PublisherProofs!QueryFails
      BY <3>0, <3>1, <3>4 DEF Publisher!QueryFails, PublisherProofs!QueryFails
    <3> QED
      BY <3>5, <3>6
  <2>3. Publisher!Current(w) = PublisherProofs!Current(w)
    BY DEF Publisher!Current, PublisherProofs!Current
  <2>4. Publisher!EmptyPoll(w) => PublisherProofs!EmptyPoll(w)
    BY <2>1, <2>2 DEF Publisher!EmptyPoll, PublisherProofs!EmptyPoll, Publisher!vars,
       PublisherProofs!vars, Publisher!table, PublisherProofs!table, Publisher!batch,
       PublisherProofs!batch, Publisher!stream, PublisherProofs!stream
  <2>5. Publisher!Select(w) => PublisherProofs!Select(w)
    BY <2>1, <2>2 DEF Publisher!Select, PublisherProofs!Select, Publisher!table,
       PublisherProofs!table, Publisher!stream, PublisherProofs!stream
  <2>6. Publisher!Publish(w) => PublisherProofs!Publish(w)
    BY <1>0, <2>3 DEF Publisher!Publish, PublisherProofs!Publish, Publisher!table,
       PublisherProofs!table
  <2>7. Publisher!Fail(w) => PublisherProofs!Fail(w)
    BY <1>0, <2>3 DEF Publisher!Fail, PublisherProofs!Fail, Publisher!table, PublisherProofs!table
  <2>8. Publisher!Commit(w) => PublisherProofs!Commit(w)
    BY <2>1 DEF Publisher!Commit, PublisherProofs!Commit, Publisher!stream, PublisherProofs!stream
  <2> QED
    BY <2>4, <2>5, <2>6, <2>7, <2>8 DEF Publisher!PublishBatch, PublisherProofs!PublishBatch
<1>5. UNCHANGED publisher => UNCHANGED PublisherProofs!vars
  BY DEF publisher, PublisherProofs!vars, PublisherProofs!table, PublisherProofs!batch,
         PublisherProofs!stream
<1>6. CASE \E e \in Events : Publisher!Emit(e) \/ Publisher!Expire(e) \/ Publisher!Arrive(e)
  BY <1>2, <1>6, EmitIs DEF PublisherProofs!Next
<1>7. CASE \E w \in Workers : Publisher!PublishBatch(w) \/ Publisher!Abort(w)
  BY <1>3, <1>4, <1>7 DEF PublisherProofs!Next
<1> QED
  BY <1>1, <1>5, <1>6, <1>7

\* So everything that is proved of the publisher holds in the system.
THEOREM PublisherRuns == SystemSpec => PublisherProofs!Spec
<1>1. SystemInit => PublisherProofs!Init
  BY DEF SystemInit, Publisher!Init, PublisherProofs!Init
<1>2. [SystemNext]_system => [PublisherProofs!Next]_PublisherProofs!vars
  BY PublisherSteps
<1> QED
  BY <1>1, <1>2, PTL DEF SystemSpec, PublisherProofs!Spec

\* Publishing, reading and the expiry of a backoff never touch an account: with
\* them running the wallet still keeps its contract.
THEOREM WalletRuns == SystemSpec => Spec
<1>1. SystemInit => Init
  BY DEF SystemInit
<1>2. [SystemNext]_system => [Next]_atomic
  <2>1. ASSUME NEW r \in Requests, Commit(r) \/ Other(r) PROVE Next
    BY <2>1 DEF Commit, Other, Next
  <2>2. (\E w \in Workers : Publish(w) \/ Fault(w)) => UNCHANGED atomic
    BY DEF Publish, Fault
  <2>3. (\E e \in Events : Expire(e) \/ Arrive(e)) \/ Read => UNCHANGED atomic
    BY DEF Expire, Arrive, Read
  <2>4. UNCHANGED system => UNCHANGED atomic
    BY DEF system
  <2> QED
    BY <2>1, <2>2, <2>3, <2>4 DEF SystemNext
<1> QED
  BY <1>1, <1>2, PTL DEF SystemSpec, Spec

-----------------------------------------------------------------------------
(* Accounts and notices.                                                    *)

\* What the tables of the contract hold.
AccountsType ==
  /\ \A r \in Requests : req[r] \in Calls[r]
  /\ taken \in [Slots -> Requests \cup {Null}]
  /\ orders \in [Requests -> OrderRow \cup {Null}]
  /\ about \in [Events -> Requests \cup {Null}]
  /\ status \in [Events -> {"none", "PENDING", "PUBLISHED"}]

\* An order is there because the request it is named after made it.
OrdersAreCreated == \A o \in Requests : orders[o] # Null =>
  req[o].op = "create" /\ taken[Slot(o)] = o

\* The order a confirmation has credited.
Succeeded(o) == o \in Requests /\ orders[o] # Null /\ orders[o].status = "success"

\* What an event tells of has happened.
Told(e) == LET r == about[e] IN
  /\ status[e] # "none"
  /\ r \in Requests
  /\ \/ req[r].op = "transfer" /\ taken[Slot(r)] = r
     \/ req[r].op = "confirm" /\ Succeeded(req[r].order)

NoticesAreTrue == \A e \in Events : about[e] # Null => Told(e)

NoticesAreOnce == \A e, f \in Events :
  about[e] # Null /\ about[f] # Null /\ Subject(e) = Subject(f) => e = f

NoticeInv == AccountsType /\ OrdersAreCreated /\ NoticesAreTrue /\ NoticesAreOnce

LEMMA SlotType ==
  ASSUME AccountsType, NEW r \in Requests
  PROVE  Slot(r) \in Slots
BY CallsAssumption DEF AccountsType, Slot, Slots

\* What the operations of the contract do to orders and slots.
LEMMA CreateEffect ==
  ASSUME AccountsType, NEW r \in Requests, Create(r)
  PROVE  /\ req[r].op = "create" /\ taken[Slot(r)] = Null
         /\ orders' = [orders EXCEPT ![r] = orders'[r]]
         /\ orders'[r] \in OrderRow /\ orders'[r].status = "pending"
         /\ taken' = [taken EXCEPT ![Slot(r)] = r]
         /\ UNCHANGED <<outbox, req>>
<1> DEFINE row == [wallet |-> req[r].user, amount |-> req[r].amount,
                   status |-> "pending", ext |-> Null]
<1>1. /\ req[r].op = "create" /\ taken[Slot(r)] = Null
      /\ orders' = [orders EXCEPT ![r] = row]
      /\ taken' = [taken EXCEPT ![Slot(r)] = r]
      /\ UNCHANGED <<outbox, req>>
  BY DEF Create, Intends, Take, Succeed, Respond
<1>2. row \in OrderRow
  BY CallsAssumption DEF AccountsType, OrderRow
<1>3. orders'[r] = row
  BY <1>1 DEF AccountsType
<1>4. row.status = "pending"
  OBVIOUS
<1> HIDE DEF row
<1> QED
  BY <1>1, <1>2, <1>3, <1>4

LEMMA ConfirmEffect ==
  ASSUME AccountsType, NEW r \in Requests, Confirm(r)
  PROVE  LET o == req[r].order IN
         /\ req[r].op = "confirm" /\ taken[Slot(r)] = Null
         /\ o \in Requests /\ orders[o] # Null /\ orders[o].status = "pending"
         /\ orders' = [orders EXCEPT ![o] = orders'[o]]
         /\ orders'[o] \in OrderRow /\ orders'[o].status = "success"
         /\ taken' = [taken EXCEPT ![Slot(r)] = r]
         /\ req' = req
<1> DEFINE o == req[r].order
           row == [orders[o] EXCEPT !.status = "success", !.ext = req[r].ext]
<1>1. /\ req[r].op = "confirm" /\ taken[Slot(r)] = Null
      /\ o \in Requests /\ orders[o] # Null /\ orders[o].status = "pending"
      /\ orders' = [orders EXCEPT ![o].status = "success", ![o].ext = req[r].ext]
      /\ taken' = [taken EXCEPT ![Slot(r)] = r]
      /\ req' = req
  BY DEF Confirm, Intends, Owns, Take, Succeed, Respond
<1>2. orders[o] \in OrderRow
  BY <1>1 DEF AccountsType
<1>3. orders' = [orders EXCEPT ![o] = row]
  BY <1>1, <1>2 DEF AccountsType, OrderRow
<1>4. row \in OrderRow /\ row.status = "success"
  <2>1. req[r].ext \in {c.ext : c \in UNION {Calls[s] : s \in Requests}}
    BY DEF AccountsType
  <2> QED
    BY <1>2, <2>1 DEF OrderRow
<1> HIDE DEF row
<1>5. orders'[o] = row
  BY <1>1, <1>3 DEF AccountsType
<1> QED
  BY <1>1, <1>3, <1>4, <1>5

LEMMA TransferEffect ==
  ASSUME NEW r \in Requests, Transfer(r)
  PROVE  /\ req[r].op = "transfer" /\ taken[Slot(r)] = Null
         /\ taken' = [taken EXCEPT ![Slot(r)] = r]
         /\ UNCHANGED <<orders, req>>
BY DEF Transfer, Intends, Take, Succeed, Respond

LEMMA AcknowledgeEffect ==
  ASSUME NEW r \in Requests, Acknowledge(r)
  PROVE  /\ req[r].op = "confirm" /\ taken[Slot(r)] = Null
         /\ taken' = [taken EXCEPT ![Slot(r)] = r]
         /\ UNCHANGED <<orders, outbox, req>>
BY DEF Acknowledge, Intends, Take, Succeed, Respond

LEMMA FailOrderEffect ==
  ASSUME AccountsType, NEW o \in Requests, FailOrder(o)
  PROVE  /\ orders[o] # Null /\ orders[o].status = "pending"
         /\ orders' = [orders EXCEPT ![o] = orders'[o]]
         /\ orders'[o] \in OrderRow
         /\ UNCHANGED <<taken, outbox, req>>
<1> DEFINE row == [orders[o] EXCEPT !.status = "failed"]
<1>1. /\ orders[o] # Null /\ orders[o].status = "pending"
      /\ orders' = [orders EXCEPT ![o] = row]
      /\ UNCHANGED <<taken, outbox, req>>
  BY DEF FailOrder
<1>2. row \in OrderRow
  BY <1>1 DEF AccountsType, OrderRow
<1>3. orders'[o] = row
  BY <1>1 DEF AccountsType
<1> QED
  BY <1>1, <1>2, <1>3

\* Slots are never given up, orders never vanish, and success is final.
AccountsGrow ==
  /\ req' = req
  /\ taken' \in [Slots -> Requests \cup {Null}]
  /\ orders' \in [Requests -> OrderRow \cup {Null}]
  /\ \A s \in Slots : taken[s] # Null => taken'[s] = taken[s]
  /\ \A o : Succeeded(o) => Succeeded(o)'
  /\ OrdersAreCreated'

\* Taking a slot of one's own is growth.
LEMMA TakenGrows ==
  ASSUME AccountsType, NEW r \in Requests, taken[Slot(r)] = Null,
         taken' = [taken EXCEPT ![Slot(r)] = r]
  PROVE  /\ taken' \in [Slots -> Requests \cup {Null}]
         /\ taken'[Slot(r)] = r
         /\ \A s \in Slots : taken[s] # Null => taken'[s] = taken[s]
BY SlotType DEF AccountsType

LEMMA OrdersKept ==
  ASSUME AccountsType, OrdersAreCreated, UNCHANGED <<orders, req>>,
         \A s \in Slots : taken[s] # Null => taken'[s] = taken[s],
         taken' \in [Slots -> Requests \cup {Null}]
  PROVE  AccountsGrow
<1>1. \A o \in Requests : Slot(o)' = Slot(o)
  BY DEF Slot
<1>2. ASSUME NEW o \in Requests, orders'[o] # Null
      PROVE  req'[o].op = "create" /\ taken'[Slot(o)] = o
  BY <1>2, SlotType, AtomicAssumption DEF OrdersAreCreated
<1>3. OrdersAreCreated'
  BY <1>1, <1>2 DEF OrdersAreCreated
<1> QED
  BY <1>3 DEF AccountsGrow, AccountsType, Succeeded

\* An order moves from pending, or appears for the request that takes its slot.
LEMMA OrderMoves ==
  ASSUME AccountsType, OrdersAreCreated, req' = req, NEW o \in Requests,
         orders' = [orders EXCEPT ![o] = orders'[o]], orders'[o] \in OrderRow,
         \A s \in Slots : taken[s] # Null => taken'[s] = taken[s],
         taken' \in [Slots -> Requests \cup {Null}],
         \/ orders[o] # Null /\ orders[o].status = "pending"
         \/ req[o].op = "create" /\ taken[Slot(o)] = Null /\ taken'[Slot(o)] = o
  PROVE  AccountsGrow
<1>1. \A p \in Requests \ {o} : orders'[p] = orders[p]
  BY DEF AccountsType
<1>2. \A p \in Requests : Slot(p)' = Slot(p) /\ Slot(p) \in Slots
  BY SlotType DEF Slot
<1>3. ASSUME NEW p \in Requests, orders[p] # Null
      PROVE  req[p].op = "create" /\ taken'[Slot(p)] = p /\ taken[Slot(p)] # Null
  BY <1>2, <1>3, AtomicAssumption DEF OrdersAreCreated
<1>4. ~Succeeded(o)
  BY <1>3 DEF Succeeded
<1>5. ASSUME NEW p, Succeeded(p) PROVE Succeeded(p)'
  BY <1>1, <1>4, <1>5 DEF Succeeded
<1>6. ASSUME NEW p \in Requests, orders'[p] # Null
      PROVE  req[p].op = "create" /\ taken'[Slot(p)] = p
  BY <1>1, <1>3, <1>6
<1>7. OrdersAreCreated'
  BY <1>2, <1>6 DEF OrdersAreCreated
<1>8. orders' \in [Requests -> OrderRow \cup {Null}]
  BY DEF AccountsType
<1> QED
  BY <1>5, <1>7, <1>8 DEF AccountsGrow

LEMMA ExecuteGrows ==
  ASSUME AccountsType, OrdersAreCreated, NEW r \in Requests, Execute(r)
  PROVE  AccountsGrow /\ taken[Slot(r)] = Null /\ taken'[Slot(r)] = r
<1>1. CASE Transfer(r)
  BY <1>1, TransferEffect, TakenGrows, OrdersKept
<1>2. CASE Acknowledge(r)
  BY <1>2, AcknowledgeEffect, TakenGrows, OrdersKept
<1>3. CASE Create(r)
  BY <1>3, CreateEffect, TakenGrows, OrderMoves
<1>4. CASE Confirm(r)
  BY <1>4, ConfirmEffect, TakenGrows, OrderMoves
<1> QED
  BY <1>1, <1>2, <1>3, <1>4 DEF Execute

LEMMA OtherGrows ==
  ASSUME AccountsType, OrdersAreCreated, NEW r \in Requests, Replay(r) \/ Refuse(r) \/ FailOrder(r)
  PROVE  AccountsGrow
<1>1. CASE FailOrder(r)
  BY <1>1, FailOrderEffect, OrderMoves DEF AccountsType
<1>2. CASE Replay(r) \/ Refuse(r)
  <2>1. UNCHANGED <<orders, taken, req>>
    BY <1>2 DEF Replay, Refuse, Respond, books
  <2> QED
    BY <2>1, OrdersKept DEF AccountsType
<1> QED
  BY <1>1, <1>2

\* What is told stays told while the accounts grow.
LEMMA ToldStays ==
  ASSUME AccountsType, AccountsGrow, NEW e \in Events, Told(e),
         about'[e] = about[e], status'[e] # "none"
  PROVE  Told(e)' /\ Subject(e)' = Subject(e)
<1> DEFINE r == about[e]
<1>1. r \in Requests /\ Slot(r) \in Slots
  BY SlotType DEF Told
<1>2. Slot(r)' = Slot(r) /\ about'[e] = r /\ req' = req
  BY DEF AccountsGrow, Slot
<1>3. CASE req[r].op = "transfer" /\ taken[Slot(r)] = r
  <2>1. taken'[Slot(r)] = r
    BY <1>1, <1>3, AtomicAssumption DEF AccountsGrow
  <2> QED
    BY <1>1, <1>2, <1>3, <2>1 DEF Told, Subject, Slot
<1>4. CASE req[r].op = "confirm" /\ Succeeded(req[r].order)
  BY <1>1, <1>2, <1>4 DEF Told, Subject, AccountsGrow
<1> QED
  BY <1>3, <1>4 DEF Told

\* A step that writes no event.
LEMMA QuietKeeps ==
  ASSUME NoticeInv, AccountsGrow, about' = about,
         status' \in [Events -> {"none", "PENDING", "PUBLISHED"}],
         \A e \in Events : status[e] # "none" => status'[e] # "none"
  PROVE  NoticeInv'
<1>1. ASSUME NEW e \in Events, about[e] # Null PROVE Told(e)' /\ Subject(e)' = Subject(e)
  <2>1. Told(e)
    BY <1>1 DEF NoticeInv, NoticesAreTrue
  <2> QED
    BY <2>1, ToldStays DEF NoticeInv, Told
<1>2. AccountsType'
  BY DEF NoticeInv, AccountsType, AccountsGrow
<1>3. NoticesAreTrue' /\ NoticesAreOnce'
  BY <1>1 DEF NoticeInv, NoticesAreTrue, NoticesAreOnce
<1> QED
  BY <1>2, <1>3 DEF NoticeInv, AccountsGrow

\* A commit that writes an event tells of something nobody was told of.
LEMMA NoticeIsNew ==
  ASSUME NoticeInv, NEW r \in Requests, Transfer(r) \/ Confirm(r), NEW f \in Events,
         about[f] # Null
  PROVE  Subject(f) # IF req[r].op = "confirm" THEN req[r].order ELSE r
<1> DEFINE q == about[f]
<1>1. /\ q \in Requests
      /\ \/ req[q].op = "transfer" /\ taken[Slot(q)] = q /\ Subject(f) = q
         \/ req[q].op = "confirm" /\ Succeeded(req[q].order) /\ Subject(f) = req[q].order
  BY DEF NoticeInv, NoticesAreTrue, Told, Subject
<1>2. \A o : Succeeded(o) => o \in Requests /\ req[o].op = "create" /\ orders[o].status = "success"
  BY DEF Succeeded, NoticeInv, OrdersAreCreated
<1>3. CASE Transfer(r)
  <2>1. req[r].op = "transfer" /\ taken[Slot(r)] = Null
    BY <1>3, TransferEffect
  <2> QED
    BY <1>1, <1>2, <2>1, AtomicAssumption
<1>4. CASE Confirm(r)
  <2>1. /\ req[r].op = "confirm" /\ req[r].order \in Requests /\ orders[req[r].order] # Null
        /\ orders[req[r].order].status = "pending"
    BY <1>4, ConfirmEffect DEF NoticeInv
  <2>2. req[req[r].order].op = "create"
    BY <2>1 DEF NoticeInv, OrdersAreCreated
  <2> QED
    BY <1>1, <1>2, <2>1, <2>2
<1> QED
  BY <1>3, <1>4

LEMMA CommitNotifies ==
  ASSUME NoticeInv, NEW r \in Requests, Execute(r), outbox' # outbox,
         NEW e \in Events, Publisher!Emit(e), about' = [about EXCEPT ![e] = r]
  PROVE  NoticeInv'
<1>1. /\ AccountsGrow /\ taken'[Slot(r)] = r /\ Slot(r)' = Slot(r) /\ req' = req
  BY ExecuteGrows DEF NoticeInv, AccountsGrow, Slot
<1>2. Transfer(r) \/ Confirm(r)
  BY CreateEffect, AcknowledgeEffect DEF Execute, NoticeInv
<1>3. /\ status[e] = "none" /\ status' = [status EXCEPT ![e] = "PENDING"]
  BY DEF Publisher!Emit
<1>4. AccountsType'
  BY <1>1, <1>3 DEF NoticeInv, AccountsType, AccountsGrow
<1>5. /\ about'[e] = r /\ status'[e] = "PENDING" /\ about[e] = Null
      /\ \A f \in Events \ {e} : about'[f] = about[f] /\ status'[f] = status[f]
  BY <1>3 DEF NoticeInv, AccountsType, NoticesAreTrue, Told
<1>6. Told(e)'
  <2>1. CASE Transfer(r)
    <3>1. req[r].op = "transfer"
      BY <2>1, TransferEffect
    <3> QED
      BY <1>1, <1>5, <3>1 DEF Told
  <2>2. CASE Confirm(r)
    <3>1. req[r].op = "confirm" /\ Succeeded(req[r].order)'
      <4>1. /\ req[r].op = "confirm" /\ req[r].order \in Requests
            /\ orders'[req[r].order] \in OrderRow
            /\ orders'[req[r].order].status = "success"
        BY <2>2, ConfirmEffect DEF NoticeInv
      <4> QED
        BY <1>1, <4>1, CallsAssumption DEF Succeeded
    <3> QED
      BY <1>1, <1>5, <3>1 DEF Told
  <2> QED
    BY <1>2, <2>1, <2>2
<1>7. Subject(e)' = IF req[r].op = "confirm" THEN req[r].order ELSE r
  BY <1>1, <1>5 DEF Subject
<1>8. ASSUME NEW f \in Events \ {e}, about'[f] # Null
      PROVE  Told(f)' /\ Subject(f)' = Subject(f) /\ Subject(f)' # Subject(e)'
  <2>1. Told(f) /\ about[f] # Null /\ about'[f] = about[f] /\ status'[f] # "none"
    BY <1>5, <1>8 DEF NoticeInv, NoticesAreTrue, Told
  <2>2. Told(f)' /\ Subject(f)' = Subject(f)
    BY <1>1, <2>1, ToldStays DEF NoticeInv
  <2> QED
    BY <1>2, <1>7, <2>1, <2>2, NoticeIsNew
<1>9. NoticesAreTrue' /\ NoticesAreOnce'
  BY <1>5, <1>6, <1>8 DEF NoticeInv, NoticesAreTrue, NoticesAreOnce
<1> QED
  BY <1>1, <1>4, <1>9 DEF NoticeInv, AccountsGrow

\* No step of a publisher makes a row of the outbox disappear.
LEMMA RowsStay ==
  ASSUME PublisherProofs!TypeOK, PublisherProofs!TypeOK', AccountsType,
         \/ \E w \in Workers : Publisher!PublishBatch(w) \/ Publisher!Abort(w)
         \/ \E f \in Events : Publisher!Expire(f) \/ Publisher!Arrive(f)
         \/ UNCHANGED publisher
  PROVE  \A e \in Events : status[e] # "none" => status'[e] # "none"
<1>1. \/ status' = status
      \/ \E w \in Workers : status' = [e \in Events |-> IF e \in sent[w] THEN "PUBLISHED" ELSE status[e]]
  BY DEF Publisher!PublishBatch, Publisher!EmptyPoll, Publisher!Select, Publisher!Publish,
         Publisher!Fail, Publisher!Commit, Publisher!Abort, Publisher!Expire, Publisher!Arrive,
         Publisher!vars, Publisher!table, publisher
<1> QED
  BY <1>1

LEMMA StepNotices ==
  ASSUME NoticeInv, PublisherProofs!TypeOK, PublisherProofs!TypeOK', [SystemNext]_system
  PROVE  NoticeInv'
<1>1. status' \in [Events -> {"none", "PENDING", "PUBLISHED"}]
  BY DEF PublisherProofs!TypeOK
<1>2. ASSUME NEW r \in Requests, Commit(r) PROVE NoticeInv'
  <2>1. Execute(r) /\ AccountsGrow /\ Notify(r)
    BY <1>2, ExecuteGrows DEF Commit, NoticeInv
  <2>2. CASE outbox' = outbox
    BY <1>1, <2>1, <2>2, QuietKeeps DEF Notify, publisher
  <2>3. CASE outbox' # outbox
    BY <2>1, <2>3, CommitNotifies DEF Notify
  <2> QED
    BY <2>2, <2>3
<1>3. ASSUME NEW r \in Requests, Other(r) PROVE NoticeInv'
  <2>1. AccountsGrow /\ UNCHANGED <<publisher, about>>
    BY <1>3, OtherGrows DEF Other, NoticeInv
  <2> QED
    BY <1>1, <2>1, QuietKeeps DEF publisher
<1>4. ASSUME UNCHANGED <<atomic, about>>,
             \/ \E w \in Workers : Publisher!PublishBatch(w) \/ Publisher!Abort(w)
             \/ \E f \in Events : Publisher!Expire(f) \/ Publisher!Arrive(f)
             \/ UNCHANGED publisher
      PROVE  NoticeInv'
  <2>1. UNCHANGED <<orders, taken, req, about>>
    BY <1>4 DEF atomic, books
  <2>2. AccountsGrow
    BY <2>1, OrdersKept DEF NoticeInv, AccountsType
  <2> QED
    BY <1>1, <1>4, <2>1, <2>2, RowsStay, QuietKeeps DEF NoticeInv
<1> QED
  BY <1>2, <1>3, <1>4 DEF SystemNext, system, Publish, Fault, Expire, Arrive, Read

LEMMA InitNotices == SystemInit => NoticeInv
<1> SUFFICES ASSUME SystemInit PROVE NoticeInv
  OBVIOUS
<1>1. /\ \A r \in Requests : req[r] \in Calls[r] /\ orders[r] = Null
      /\ taken = [s \in Slots |-> Null] /\ orders = [r \in Requests |-> Null]
      /\ about = [e \in Events |-> Null] /\ status = [e \in Events |-> "none"]
  BY DEF SystemInit, Init, Publisher!Init
<1> QED
  BY <1>1 DEF NoticeInv, AccountsType, OrdersAreCreated, NoticesAreTrue, NoticesAreOnce

\* The events of one transfer or order number at most one, so that its entries
\* in the stream are those of that event.
LEMMA NoticesAdd ==
  ASSUME NoticeInv, PublisherProofs!TypeOK, PublisherProofs!DuplicatesNeedFaults,
         MaxLost \in Nat, MaxAborts \in Nat
  PROVE  NotifiedOncePerEffect
<1> SUFFICES ASSUME NEW s \in Requests
             PROVE  SumFunctionOnSet(copies, Notices(s)) <=
                      IF s \in Effects THEN 1 + lost + aborts ELSE 0
  BY DEF NotifiedOncePerEffect
<1>1. lost \in Nat /\ aborts \in Nat /\ \A e \in Events : copies[e] \in Nat
  BY DEF PublisherProofs!TypeOK
<1>2. CASE Notices(s) = {}
  <2>1. SumFunctionOnSet(copies, Notices(s)) = 0
    BY <1>2, SumEmpty
  <2>2. 0 <= 1 + lost + aborts
    BY <1>1
  <2> QED
    BY <2>1, <2>2
<1>3. CASE Notices(s) # {}
  <2>1. PICK e \in Events : about[e] # Null /\ Subject(e) = s
    BY <1>3 DEF Notices
  <2>2. Notices(s) = {e}
    BY <2>1 DEF Notices, NoticeInv, NoticesAreOnce
  <2>3. s \in Effects
    BY <2>1 DEF NoticeInv, NoticesAreTrue, Told, Subject, Succeeded, Effects
  <2>4. SumFunctionOnSet(copies, {e}) = copies[e]
    <3> DEFINE g == [x \in {e} |-> copies[x]]
    <3>1. g \in [{e} -> Int] /\ g[e] = copies[e] /\ {e} = {} \cup {e}
      BY <1>1
    <3>2. SumFunctionOnSet(copies, {e}) = SumFunctionOnSet(g, {e})
      BY FS_Singleton, SumAgree
    <3> HIDE DEF g
    <3>3. SumFunctionOnSet(g, {} \cup {e}) = SumFunctionOnSet(g, {}) + g[e]
      BY <3>1, FS_EmptySet, SumAdd
    <3> QED
      BY <1>1, <3>1, <3>2, <3>3, SumEmpty
  <2>5. copies[e] <= 1 + lost + aborts
    BY DEF PublisherProofs!DuplicatesNeedFaults
  <2> QED
    BY <2>2, <2>3, <2>4, <2>5
<1> QED
  BY <1>2, <1>3

\* The stream tells of nothing that has not been committed, and of a transfer or
\* an order once, however many calls confirm or repeat it and however many
\* publishers run: only a command given up on or a batch rolled back adds an entry.
THEOREM OneNoticePerEffect == SystemSpec => []NotifiedOncePerEffect
<1>1. NoticeInv /\ PublisherProofs!TypeOK /\ PublisherProofs!TypeOK' /\ [SystemNext]_system
        => NoticeInv'
  BY StepNotices
<1>2. MaxLost \in Nat /\ MaxAborts \in Nat
  BY SystemAssumption
<1>3. NoticeInv /\ PublisherProofs!TypeOK /\ PublisherProofs!DuplicatesNeedFaults
        => NotifiedOncePerEffect
  BY <1>2, NoticesAdd
<1>4. PublisherProofs!Spec => []PublisherProofs!TypeOK
  BY PublisherParameters, PublisherProofs!PublisherTypeCorrect
<1>5. PublisherProofs!Spec => []PublisherProofs!DuplicatesNeedFaults
  BY PublisherParameters, PublisherProofs!DeliveryIsOnceButForFaults
<1> QED
  BY <1>1, <1>3, <1>4, <1>5, InitNotices, PublisherRuns, PTL DEF SystemSpec

=============================================================================
