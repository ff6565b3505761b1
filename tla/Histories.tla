------------------------------ MODULE Histories ------------------------------
(***************************************************************************)
(* The paged histories (internal/repository: TopUpRepository.History,      *)
(* LedgerRepository.History, WalletRepository.TransferHistory and their    *)
(* handlers): one list of one owner, and a client that reads it page by    *)
(* page while rows are being added.  Each page is a query of its own, with *)
(* LIMIT and OFFSET, on the rows committed at that moment.                 *)
(*                                                                         *)
(* A row has the created_at of its transaction's beginning, so that it may *)
(* appear anywhere in the order when it commits.  Rows are never deleted   *)
(* and never change their created_at.  The ledger breaks ties by id; the   *)
(* other lists do not, and each of their queries may order rows of equal   *)
(* created_at anew.                                                        *)
(***************************************************************************)
EXTENDS Integers, SequencesExt

CONSTANTS
  Rows,        \* names of rows
  Times,       \* values of created_at
  PageLimit    \* the parameter "limit", at least 1

VARIABLES
  history,     \* the committed rows, newest first, and by id where times are equal
  page,        \* the page the client asks for next; 0 when it has seen the end
  owed,        \* rows committed when the client asked for the first page
  shown        \* rows it has been shown

reader == <<page, owed, shown>>
pages  == <<history, reader>>

Init == /\ history = <<>>
        /\ page = 1
        /\ owed = {}
        /\ shown = {}

NewestFirst(list) == \A i, j \in DOMAIN list : i < j => list[i].at >= list[j].at

\* A transaction commits with a new row.
Insert(row) ==
  /\ \E i \in 1 .. Len(history) + 1, t \in Times :
       history' = InsertAt(history, i, [row |-> row, at |-> t])
  /\ NewestFirst(history')
  /\ UNCHANGED reader

Listed == {history[i].row : i \in DOMAIN history}

\* Rearrangements of the list among equal created_at.
Ties == {p \in Bijection(DOMAIN history, DOMAIN history) :
          \A i \in DOMAIN history : history[p[i]].at = history[i].at}

\* Mutant: the ledger is sorted by created_at alone.
OrdersMutant(byId) == {[i \in DOMAIN history |-> history[p[i]]] : p \in Ties}

\* The orders in which a query may find the list.
Orders(byId) == IF byId THEN {history}
                ELSE {[i \in DOMAIN history |-> history[p[i]]] : p \in Ties}

\* OFFSET (page-1)*limit
Offset(p) == (p - 1) * PageLimit

\* The rows of page p of the list in this order.
PageRows(list, p) ==
  {list[i].row : i \in DOMAIN list \cap (Offset(p) + 1 .. Offset(p) + PageLimit)}

\* The client asks for the next page, until it is given an empty one.
ReadPage(byId) ==
  /\ page > 0
  /\ owed' = IF page = 1 THEN Listed ELSE owed
  /\ \E list \in Orders(byId) :
       /\ shown' = shown \cup PageRows(list, page)
       /\ page' = IF PageRows(list, page) = {} THEN 0 ELSE page + 1
  /\ UNCHANGED history

\* No other row of the list has the created_at of x.
Untied(x) == \A i, j \in DOMAIN history :
               history[i].row = x /\ history[j].at = history[i].at => i = j

\* A client that has read to the end has been shown every row that was there
\* when it began, however many were added meanwhile and wherever: rows that move
\* between pages may be shown twice but are never skipped.  Without the id as a
\* tie-break this is so of the rows that share their created_at with no other.
PagesCoverHistory(byId) == page = 0 => \A x \in owed : byId \/ Untied(x) => x \in shown

=============================================================================
