--------------------------- MODULE OutboxPublisher ---------------------------
(***************************************************************************)
(* The outbox worker (internal/service/outbox_publisher.go) with the rows  *)
(* of outbox_events it polls (internal/repository/outbox.go) and the Redis *)
(* stream it appends to.  Every process of the service runs one worker.    *)
(*                                                                         *)
(* publishBatch is one transaction: it locks a batch of due rows, sends    *)
(* them in order, and commits their new status and retry count together.   *)
(* Redis takes no part in that transaction.                                *)
(*                                                                         *)
(* One call of XAdd is up to Attempts commands: the client sends again     *)
(* when a reply does not come in time.  A command it has given up on may   *)
(* have been executed, may still be executed, or may be lost: it stays in  *)
(* flight until its entry is in the stream, if that ever happens.          *)
(*                                                                         *)
(* Time is abstract: a row that has been retried is waiting until its      *)
(* backoff window expires.                                                 *)
(***************************************************************************)
EXTENDS Integers, FiniteSets

CONSTANTS
  Workers,      \* processes that run a publisher
  Events,       \* rows of outbox_events, numbered by created_at
  BatchSize,    \* LIMIT of the polling query
  MaxPower,     \* largest n for which POWER(2, n) is a double: 1023
  Attempts,     \* commands of one XAdd call: 1 + MaxRetries of go-redis, 4
  MaxFailures,  \* bound: XAdd calls that return an error
  MaxLost,      \* bound: commands given up on without a reply
  MaxAborts     \* bound: batches that are rolled back

ASSUME OutboxAssumption == /\ Events \subseteq Nat
                           /\ BatchSize \in Nat \ {0}
                           /\ MaxPower \in Nat
                           /\ Attempts \in Nat \ {0}
                           /\ MaxFailures \in Nat
                           /\ MaxLost \in Nat
                           /\ MaxAborts \in Nat

VARIABLES
  status,       \* outbox_events.status, or "none" before the INSERT commits
  retryCount,   \* outbox_events.retry_count
  waiting,      \* rows whose backoff window is open
  todo,         \* rows of each worker's batch it has yet to send
  sent,         \* rows of the batch it has sent and marked, uncommitted
  failed,       \* rows of the batch whose retry it has recorded, uncommitted
  copies,       \* entries of each event in the stream notification:events
  flight,       \* commands in flight for each event: nobody waits for a reply
  failures,     \* XAdd calls that returned an error so far
  lost,         \* commands given up on so far
  aborts        \* batches rolled back so far

table  == <<status, retryCount, waiting>>
batch  == <<todo, sent, failed>>
stream == <<copies, flight, lost>>
vars   == <<table, batch, stream, failures, aborts>>

Init ==
  /\ status = [e \in Events |-> "none"]
  /\ retryCount = [e \in Events |-> 0]
  /\ waiting = {}
  /\ todo = [w \in Workers |-> {}]
  /\ sent = [w \in Workers |-> {}]
  /\ failed = [w \in Workers |-> {}]
  /\ copies = [e \in Events |-> 0]
  /\ flight = [e \in Events |-> 0]
  /\ failures = 0
  /\ lost = 0
  /\ aborts = 0

\* A wallet transaction commits with its event (OutboxRepository.CreateTx).
\* created_at is the time that transaction began, so rows appear in any order.
Emit(e) ==
  /\ status[e] = "none"
  /\ status' = [status EXCEPT ![e] = "PENDING"]
  /\ UNCHANGED <<retryCount, waiting, batch, stream, failures, aborts>>

\* The window of LEAST(POWER(2, retry_count), 300) seconds has passed.
Expire(e) ==
  /\ e \in waiting
  /\ waiting' = waiting \ {e}
  /\ UNCHANGED <<status, retryCount, batch, stream, failures, aborts>>

\* Redis executes a command that nobody waits for any more.
Arrive(e) ==
  /\ flight[e] > 0
  /\ flight' = [flight EXCEPT ![e] = @ - 1]
  /\ copies' = [copies EXCEPT ![e] = @ + 1]
  /\ UNCHANGED <<table, batch, lost, failures, aborts>>

-----------------------------------------------------------------------------
(* The poll.                                                                *)

InBatch(w) == todo[w] \cup sent[w] \cup failed[w]

\* Mutant: the rows are selected without FOR UPDATE.
LockedMutant == {}

\* FOR UPDATE: rows held by the transaction of any worker.
Locked == UNION {InBatch(w) : w \in Workers}

Pending == {e \in Events : status[e] = "PENDING"}

\* Rows for which PostgreSQL cannot evaluate the backoff: POWER(2, retry_count)
\* is out of range, which is an error of the whole query.
Overflowed == {e \in Pending : retryCount[e] > MaxPower}

Due == {e \in Pending \ Overflowed : retryCount[e] = 0 \/ e \notin waiting}

\* Rows SKIP LOCKED leaves to this poll.
Free == Due \ Locked

\* ORDER BY created_at LIMIT: the oldest of the free rows.
Batch == {e \in Free : Cardinality({f \in Free : f < e}) < BatchSize}

\* The scan follows idx_outbox_events_pending and stops at a full batch, so it
\* meets an overflowed row unless the batch is filled by older ones.
QueryFails == \E e \in Overflowed : Cardinality({f \in Free : f < e}) < BatchSize

\* An empty batch, or a failed query: publishBatch returns.
EmptyPoll(w) ==
  /\ InBatch(w) = {}
  /\ QueryFails \/ Batch = {}
  /\ UNCHANGED vars

\* BeginTx and GetPendingForPublish.
Select(w) ==
  /\ InBatch(w) = {}
  /\ ~QueryFails
  /\ Batch # {}
  /\ todo' = [todo EXCEPT ![w] = Batch]
  /\ UNCHANGED <<table, sent, failed, stream, failures, aborts>>

-----------------------------------------------------------------------------
(* The loop over the batch.                                                 *)

\* The event the worker sends next.
Current(w) == {e \in todo[w] : \A f \in todo[w] : e <= f}

\* n commands for e have been given up on, and are in flight with those of
\* "more", which are not.
GiveUp(e, n, more) ==
  /\ lost + n <= MaxLost
  /\ lost' = lost + n
  /\ flight' = [flight EXCEPT ![e] = @ + n + more]

\* XAdd returns nil: the last of its commands is answered, the others are given
\* up on.  MarkPublished sets the status.
Publish(w) ==
  \E e \in Current(w), n \in 0 .. Attempts - 1 :
    /\ GiveUp(e, n, 0)
    /\ copies' = [copies EXCEPT ![e] = @ + 1]
    /\ todo' = [todo EXCEPT ![w] = @ \ {e}]
    /\ sent' = [sent EXCEPT ![w] = @ \cup {e}]
    /\ UNCHANGED <<table, failed, failures, aborts>>

\* Mutant: an event is marked although XADD failed.
FailMutant(w) ==
  /\ failures < MaxFailures
  /\ failures' = failures + 1
  /\ \E e \in Current(w) :
       /\ todo' = [todo EXCEPT ![w] = @ \ {e}]
       /\ sent' = [sent EXCEPT ![w] = @ \cup {e}]
  /\ UNCHANGED <<table, failed, stream, aborts>>

\* XAdd returns an error: none of its commands is answered, and those that left
\* the client are given up on.  RecordRetry counts, and the loop goes on.
Fail(w) ==
  /\ failures < MaxFailures
  /\ failures' = failures + 1
  /\ \E e \in Current(w), n \in 0 .. Attempts :
       /\ GiveUp(e, n, 0)
       /\ todo' = [todo EXCEPT ![w] = @ \ {e}]
       /\ failed' = [failed EXCEPT ![w] = @ \cup {e}]
  /\ UNCHANGED <<table, sent, copies, aborts>>

\* Mutant: an event is given up after its second failure.
CommitMutant(w) ==
  /\ todo[w] = {}
  /\ InBatch(w) # {}
  /\ status' = [e \in Events |-> IF e \in sent[w] THEN "PUBLISHED"
                                ELSE IF e \in failed[w] /\ retryCount[e] = 1 THEN "FAILED"
                                ELSE status[e]]
  /\ retryCount' = [e \in Events |-> IF e \in failed[w] THEN retryCount[e] + 1 ELSE retryCount[e]]
  /\ waiting' = waiting \cup failed[w]
  /\ sent' = [sent EXCEPT ![w] = {}]
  /\ failed' = [failed EXCEPT ![w] = {}]
  /\ UNCHANGED <<todo, stream, failures, aborts>>

\* COMMIT.  updated_at is the time the transaction began, so the window of a
\* retried row may have passed by now.
Commit(w) ==
  /\ todo[w] = {}
  /\ InBatch(w) # {}
  /\ status' = [e \in Events |-> IF e \in sent[w] THEN "PUBLISHED" ELSE status[e]]
  /\ retryCount' = [e \in Events |-> IF e \in failed[w] THEN retryCount[e] + 1 ELSE retryCount[e]]
  /\ \E late \in SUBSET failed[w] : waiting' = waiting \cup (failed[w] \ late)
  /\ sent' = [sent EXCEPT ![w] = {}]
  /\ failed' = [failed EXCEPT ![w] = {}]
  /\ UNCHANGED <<todo, stream, failures, aborts>>

\* The transaction is rolled back and its rows are free again: a statement or
\* COMMIT fails, the process dies, the context is cancelled or the database
\* drops the session.  The worker may be in, or on its way to, the XAdd of its
\* current event, and finds out only from the statement after it: that call is
\* still made, and its commands are in flight with nobody to record them.
Abort(w) ==
  /\ aborts < MaxAborts
  /\ aborts' = aborts + 1
  /\ InBatch(w) # {}
  /\ \/ UNCHANGED stream
     \/ /\ \E e \in Current(w), n \in 0 .. Attempts - 1 : GiveUp(e, n, 1)
        /\ UNCHANGED copies
  /\ todo' = [todo EXCEPT ![w] = {}]
  /\ sent' = [sent EXCEPT ![w] = {}]
  /\ failed' = [failed EXCEPT ![w] = {}]
  /\ UNCHANGED <<table, failures>>

PublishBatch(w) == EmptyPoll(w) \/ Select(w) \/ Publish(w) \/ Fail(w) \/ Commit(w)

Next == \/ \E e \in Events : Emit(e) \/ Expire(e) \/ Arrive(e)
        \/ \E w \in Workers : PublishBatch(w) \/ Abort(w)

Spec == Init /\ [][Next]_vars

\* The ticker keeps calling publishBatch, a batch runs to its end unless it is
\* aborted, and time passes.
FairSpec == /\ Spec
            /\ \A w \in Workers : WF_vars(PublishBatch(w))
            /\ \A e \in Events : WF_vars(Expire(e))

-----------------------------------------------------------------------------
(* Properties.                                                              *)

\* Every variable holds a value of its column; 'FAILED', which the table allows,
\* is never written: "events are never marked as FAILED automatically".
TypeOK ==
  /\ status \in [Events -> {"none", "PENDING", "PUBLISHED"}]
  /\ retryCount \in [Events -> Nat]
  /\ waiting \subseteq Events
  /\ todo \in [Workers -> SUBSET Events]
  /\ sent \in [Workers -> SUBSET Events]
  /\ failed \in [Workers -> SUBSET Events]
  /\ copies \in [Events -> Nat]
  /\ flight \in [Events -> Nat]
  /\ failures \in 0 .. MaxFailures
  /\ lost \in 0 .. MaxLost
  /\ aborts \in 0 .. MaxAborts

\* "Zero event loss": an event the table calls published is in the stream,
\* although the table and the stream are never written together.
PublishedIsDelivered == \A e \in Events : status[e] = "PUBLISHED" => copies[e] >= 1

\* Delivery is at least once, and only a fault makes it more: every entry of an
\* event but one is owed to a command the client gave up on or to a batch that
\* was rolled back, and each of these adds one at most.  Workers that merely run
\* side by side, and calls that merely fail, send nothing twice.
DuplicatesNeedFaults == \A e \in Events : copies[e] <= 1 + lost + aborts

\* A published event is over: no later poll, of any worker, changes its row or
\* sends it again.  The stream may still grow by its commands in flight, those
\* given up on or of a worker whose transaction was rolled back, but no other.
PublishedIsFinal ==
  [][\A e \in Events : status[e] = "PUBLISHED" =>
       /\ status'[e] = "PUBLISHED"
       /\ copies'[e] + flight'[e] = copies[e] + flight[e]]_vars

\* "Events retry forever": an event that has been committed is published in the
\* end, whatever the failures of Redis and of the workers, as long as they stop.
EventsArePublished == \A e \in Events : status[e] = "PENDING" ~> status[e] = "PUBLISHED"

=============================================================================
