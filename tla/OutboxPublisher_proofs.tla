----------------------- MODULE OutboxPublisher_proofs -----------------------
(***************************************************************************)
(* Proofs about OutboxPublisher for every number of workers and events,    *)
(* every batch size and every number of faults.                            *)
(***************************************************************************)
EXTENDS OutboxPublisher, TLAPS

\* The rows of a batch are pending and locked by nobody else, and the batch is
\* split into what is to be sent, what was sent and what failed.
BatchInv ==
  /\ \A w \in Workers : \A e \in InBatch(w) : status[e] = "PENDING"
  /\ \A v, w \in Workers : v # w => InBatch(v) \cap InBatch(w) = {}
  /\ \A w \in Workers : /\ todo[w] \cap sent[w] = {}
                        /\ todo[w] \cap failed[w] = {}
                        /\ sent[w] \cap failed[w] = {}

\* The row of e says, or will say once its batch commits, that e is published.
Marked(e) == status[e] = "PUBLISHED" \/ \E w \in Workers : e \in sent[w]

\* A marked event has an entry, and every further entry, in the stream or in
\* flight, is owed to a fault.
CopiesInv ==
  \A e \in Events :
    /\ Marked(e) => copies[e] >= 1
    /\ copies[e] + flight[e] <= lost + aborts + (IF Marked(e) THEN 1 ELSE 0)

OutboxInv == TypeOK /\ BatchInv /\ CopiesInv

-----------------------------------------------------------------------------
LEMMA OutboxInit == Init => OutboxInv
BY OutboxAssumption DEF Init, OutboxInv, TypeOK, BatchInv, CopiesInv, Marked, InBatch

\* A poll takes free pending rows only.
LEMMA BatchIsFree ==
  ASSUME NEW e \in Batch
  PROVE  e \in Events /\ status[e] = "PENDING" /\ \A w \in Workers : e \notin InBatch(w)
BY DEF Batch, Free, Due, Pending, Locked

LEMMA EmitKeeps ==
  ASSUME OutboxInv, NEW e \in Events, Emit(e)
  PROVE  OutboxInv'
<1> USE DEF OutboxInv, Emit, table, batch, stream
<1>1. TypeOK'
  BY DEF TypeOK
<1>2. \A f \in Events : (status'[f] = "PUBLISHED") = (status[f] = "PUBLISHED")
  BY DEF TypeOK
<1>3. BatchInv'
  BY DEF BatchInv, InBatch, TypeOK
<1>4. CopiesInv'
  BY <1>2 DEF CopiesInv, Marked
<1> QED
  BY <1>1, <1>3, <1>4

LEMMA ExpireKeeps ==
  ASSUME OutboxInv, NEW e \in Events, Expire(e)
  PROVE  OutboxInv'
BY DEF OutboxInv, Expire, batch, stream, TypeOK, BatchInv, InBatch, CopiesInv, Marked

LEMMA ArriveKeeps ==
  ASSUME OutboxInv, NEW e \in Events, Arrive(e)
  PROVE  OutboxInv'
<1>1. /\ flight[e] > 0
      /\ flight' = [flight EXCEPT ![e] = @ - 1]
      /\ copies' = [copies EXCEPT ![e] = @ + 1]
      /\ UNCHANGED <<status, retryCount, waiting, todo, sent, failed, lost, failures, aborts>>
  BY DEF Arrive, table, batch
<1>2. \A f \in Events : /\ copies[f] \in Nat /\ flight[f] \in Nat
                        /\ copies'[f] \in Nat /\ flight'[f] \in Nat
                        /\ copies'[f] + flight'[f] = copies[f] + flight[f]
                        /\ copies'[f] >= copies[f]
  BY <1>1 DEF OutboxInv, TypeOK
<1>3. TypeOK'
  BY <1>1, <1>2 DEF OutboxInv, TypeOK
<1>4. BatchInv'
  BY <1>1 DEF OutboxInv, BatchInv, InBatch
<1>5. \A f \in Events : Marked(f)' <=> Marked(f)
  BY <1>1 DEF Marked
<1>6. CopiesInv'
  BY <1>1, <1>2, <1>5 DEF OutboxInv, CopiesInv
<1> QED
  BY <1>3, <1>4, <1>6 DEF OutboxInv

LEMMA SelectKeeps ==
  ASSUME OutboxInv, NEW w \in Workers, Select(w)
  PROVE  OutboxInv'
<1>1. /\ todo' = [todo EXCEPT ![w] = Batch]
      /\ UNCHANGED <<status, retryCount, waiting, sent, failed, copies, flight, lost, failures,
                     aborts>>
      /\ sent[w] = {} /\ failed[w] = {}
  BY DEF Select, table, stream, InBatch
<1>2. Batch \subseteq Events
  BY BatchIsFree
<1>3. TypeOK'
  BY <1>1, <1>2 DEF OutboxInv, TypeOK
<1>4. todo'[w] = Batch /\ \A v \in Workers \ {w} : todo'[v] = todo[v]
  BY <1>1 DEF OutboxInv, TypeOK
<1>5. InBatch(w)' = Batch /\ \A v \in Workers \ {w} : InBatch(v)' = InBatch(v)
  BY <1>1, <1>4 DEF InBatch
<1>6. BatchInv'
  BY <1>1, <1>4, <1>5, BatchIsFree DEF OutboxInv, BatchInv
<1>7. CopiesInv'
  BY <1>1 DEF OutboxInv, CopiesInv, Marked
<1> QED
  BY <1>3, <1>6, <1>7 DEF OutboxInv

\* Sending moves one event of the batch from todo to another part of it.
LEMMA SendKeepsBatch ==
  ASSUME OutboxInv, NEW w \in Workers, NEW e \in Current(w),
         todo' = [todo EXCEPT ![w] = @ \ {e}],
         \/ sent' = [sent EXCEPT ![w] = @ \cup {e}] /\ failed' = failed
         \/ failed' = [failed EXCEPT ![w] = @ \cup {e}] /\ sent' = sent,
         status' = status
  PROVE  /\ e \in Events /\ e \in todo[w]
         /\ todo' \in [Workers -> SUBSET Events]
         /\ sent' \in [Workers -> SUBSET Events]
         /\ failed' \in [Workers -> SUBSET Events]
         /\ BatchInv'
<1>1. e \in todo[w] /\ e \in Events
  BY DEF Current, OutboxInv, TypeOK
<1>2. /\ todo' \in [Workers -> SUBSET Events]
      /\ sent' \in [Workers -> SUBSET Events]
      /\ failed' \in [Workers -> SUBSET Events]
  BY <1>1 DEF OutboxInv, TypeOK
<1>3. \A v \in Workers : InBatch(v)' = InBatch(v)
  BY <1>1 DEF InBatch, OutboxInv, TypeOK
<1>4. \A v \in Workers : /\ todo'[v] \cap sent'[v] = {}
                         /\ todo'[v] \cap failed'[v] = {}
                         /\ sent'[v] \cap failed'[v] = {}
  BY <1>1 DEF OutboxInv, TypeOK, BatchInv
<1> QED
  BY <1>1, <1>2, <1>3, <1>4 DEF OutboxInv, BatchInv

\* The event a worker is about to send is not marked.
LEMMA CurrentUnmarked ==
  ASSUME OutboxInv, NEW w \in Workers, NEW e \in todo[w]
  PROVE  ~Marked(e)
BY DEF OutboxInv, BatchInv, InBatch, Marked

\* What is given up on is in flight, and counted.
LEMMA GiveUpCounts ==
  ASSUME OutboxInv, NEW e \in Events, NEW n \in Nat, NEW more \in Nat, GiveUp(e, n, more)
  PROVE  /\ lost' \in 0 .. MaxLost /\ lost' = lost + n
         /\ flight' \in [Events -> Nat]
         /\ flight'[e] = flight[e] + n + more
         /\ \A f \in Events \ {e} : flight'[f] = flight[f]
BY OutboxAssumption DEF OutboxInv, TypeOK, GiveUp

LEMMA PublishKeeps ==
  ASSUME OutboxInv, NEW w \in Workers, Publish(w)
  PROVE  OutboxInv'
<1>1. PICK e \in Current(w), n \in 0 .. Attempts - 1 :
        /\ GiveUp(e, n, 0)
        /\ copies' = [copies EXCEPT ![e] = @ + 1]
        /\ todo' = [todo EXCEPT ![w] = @ \ {e}]
        /\ sent' = [sent EXCEPT ![w] = @ \cup {e}]
        /\ UNCHANGED <<status, retryCount, waiting, failed, failures, aborts>>
  BY DEF Publish, table
<1>2. /\ e \in Events /\ e \in todo[w]
      /\ todo' \in [Workers -> SUBSET Events]
      /\ sent' \in [Workers -> SUBSET Events]
      /\ failed' \in [Workers -> SUBSET Events]
      /\ BatchInv'
  BY <1>1, SendKeepsBatch
<1>3. n \in Nat /\ lost \in Nat /\ aborts \in Nat
  BY OutboxAssumption DEF OutboxInv, TypeOK
<1>4. /\ lost' \in 0 .. MaxLost /\ lost' = lost + n
      /\ flight' \in [Events -> Nat]
      /\ flight'[e] = flight[e] + n + 0
      /\ \A f \in Events \ {e} : flight'[f] = flight[f]
  BY <1>1, <1>2, <1>3, GiveUpCounts
<1>5. TypeOK'
  <2>1. copies' \in [Events -> Nat]
    BY <1>1, <1>2 DEF OutboxInv, TypeOK
  <2>2. /\ status' = status /\ retryCount' = retryCount /\ waiting' = waiting
        /\ failures' = failures /\ aborts' = aborts
    BY <1>1
  <2> QED
    BY <1>2, <1>4, <2>1, <2>2 DEF OutboxInv, TypeOK
<1>6. ~Marked(e) /\ Marked(e)'
  BY <1>1, <1>2, CurrentUnmarked DEF Marked, OutboxInv, TypeOK
<1>7. \A f \in Events \ {e} : (Marked(f)' <=> Marked(f)) /\ copies'[f] = copies[f]
  BY <1>1 DEF Marked, OutboxInv, TypeOK
<1>8. /\ copies'[e] = copies[e] + 1
      /\ \A f \in Events : copies[f] \in Nat /\ flight[f] \in Nat
  BY <1>1, <1>2 DEF OutboxInv, TypeOK
<1>9. CopiesInv'
  <2> SUFFICES ASSUME NEW f \in Events
               PROVE  /\ Marked(f)' => copies'[f] >= 1
                      /\ copies'[f] + flight'[f] <=
                           lost' + aborts' + (IF Marked(f)' THEN 1 ELSE 0)
    BY DEF CopiesInv
  <2>1. CASE f = e
    BY <1>1, <1>3, <1>4, <1>6, <1>8, <2>1 DEF OutboxInv, CopiesInv
  <2>2. CASE f # e
    BY <1>1, <1>3, <1>4, <1>7, <1>8, <2>2 DEF OutboxInv, CopiesInv
  <2> QED
    BY <2>1, <2>2
<1> QED
  BY <1>2, <1>5, <1>9 DEF OutboxInv

LEMMA FailKeeps ==
  ASSUME OutboxInv, NEW w \in Workers, Fail(w)
  PROVE  OutboxInv'
<1>1. PICK e \in Current(w), n \in 0 .. Attempts :
        /\ GiveUp(e, n, 0)
        /\ todo' = [todo EXCEPT ![w] = @ \ {e}]
        /\ failed' = [failed EXCEPT ![w] = @ \cup {e}]
        /\ failures < MaxFailures
        /\ failures' = failures + 1
        /\ UNCHANGED <<status, retryCount, waiting, sent, copies, aborts>>
  BY DEF Fail, table
<1>2. /\ e \in Events /\ e \in todo[w]
      /\ todo' \in [Workers -> SUBSET Events]
      /\ sent' \in [Workers -> SUBSET Events]
      /\ failed' \in [Workers -> SUBSET Events]
      /\ BatchInv'
  BY <1>1, SendKeepsBatch
<1>3. n \in Nat /\ lost \in Nat /\ aborts \in Nat /\ failures' \in 0 .. MaxFailures
  BY <1>1, OutboxAssumption DEF OutboxInv, TypeOK
<1>4. /\ lost' \in 0 .. MaxLost /\ lost' = lost + n
      /\ flight' \in [Events -> Nat]
      /\ flight'[e] = flight[e] + n + 0
      /\ \A f \in Events \ {e} : flight'[f] = flight[f]
  BY <1>1, <1>2, <1>3, GiveUpCounts
<1>5. TypeOK'
  BY <1>1, <1>2, <1>3, <1>4 DEF OutboxInv, TypeOK
<1>6. \A f \in Events : /\ Marked(f)' <=> Marked(f)
                        /\ copies[f] \in Nat /\ flight[f] \in Nat /\ flight'[f] \in Nat
                        /\ flight'[f] <= flight[f] + n
  BY <1>1, <1>3, <1>4 DEF Marked, OutboxInv, TypeOK
<1>7. CopiesInv'
  BY <1>1, <1>3, <1>4, <1>6 DEF OutboxInv, CopiesInv
<1> QED
  BY <1>2, <1>5, <1>7 DEF OutboxInv

LEMMA CommitKeeps ==
  ASSUME OutboxInv, NEW w \in Workers, Commit(w)
  PROVE  OutboxInv'
<1>1. /\ todo[w] = {}
      /\ status' = [e \in Events |-> IF e \in sent[w] THEN "PUBLISHED" ELSE status[e]]
      /\ retryCount' = [e \in Events |-> IF e \in failed[w] THEN retryCount[e] + 1 ELSE retryCount[e]]
      /\ waiting' \subseteq waiting \cup failed[w]
      /\ sent' = [sent EXCEPT ![w] = {}]
      /\ failed' = [failed EXCEPT ![w] = {}]
      /\ UNCHANGED <<todo, copies, flight, lost, failures, aborts>>
  BY DEF Commit, stream
<1>2. TypeOK'
  BY <1>1 DEF OutboxInv, TypeOK
<1>3. InBatch(w)' = {} /\ \A v \in Workers \ {w} : InBatch(v)' = InBatch(v)
  BY <1>1 DEF InBatch, OutboxInv, TypeOK
<1>4. \A v \in Workers \ {w} : \A e \in InBatch(v) : e \in Events /\ e \notin sent[w]
  BY DEF OutboxInv, BatchInv, InBatch, TypeOK
<1>5. BatchInv'
  BY <1>1, <1>3, <1>4 DEF OutboxInv, BatchInv, TypeOK
<1>6. \A e \in Events : Marked(e)' <=> Marked(e)
  BY <1>1 DEF Marked, OutboxInv, TypeOK
<1>7. CopiesInv'
  BY <1>1, <1>6 DEF OutboxInv, CopiesInv
<1> QED
  BY <1>2, <1>5, <1>7 DEF OutboxInv

LEMMA AbortKeeps ==
  ASSUME OutboxInv, NEW w \in Workers, Abort(w)
  PROVE  OutboxInv'
<1>1. /\ aborts < MaxAborts /\ aborts' = aborts + 1
      /\ todo' = [todo EXCEPT ![w] = {}]
      /\ sent' = [sent EXCEPT ![w] = {}]
      /\ failed' = [failed EXCEPT ![w] = {}]
      /\ UNCHANGED <<status, retryCount, waiting, copies, failures>>
  BY DEF Abort, table, stream
<1>2. aborts \in Nat /\ lost \in Nat /\ aborts' \in 0 .. MaxAborts
  BY <1>1, OutboxAssumption DEF OutboxInv, TypeOK
<1>0. PICK n \in Nat : /\ lost' \in 0 .. MaxLost /\ lost' = lost + n
                       /\ flight' \in [Events -> Nat]
                       /\ \A f \in Events :
                            /\ flight'[f] <= flight[f] + n + 1
                            /\ flight'[f] <= flight[f] + n \/ f \in todo[w]
  <2>1. CASE UNCHANGED stream
    <3>1. /\ lost' \in 0 .. MaxLost /\ lost' = lost + 0
          /\ flight' \in [Events -> Nat]
          /\ \A f \in Events : /\ flight'[f] <= flight[f] + 0 + 1
                               /\ flight'[f] <= flight[f] + 0
      BY <2>1 DEF stream, OutboxInv, TypeOK
    <3> QED
      BY <3>1
  <2>2. CASE \E e \in Current(w), n \in 0 .. Attempts - 1 : GiveUp(e, n, 1)
    <3>1. PICK e \in Current(w), n \in 0 .. Attempts - 1 : GiveUp(e, n, 1)
      BY <2>2
    <3>2. e \in todo[w] /\ e \in Events /\ n \in Nat
      BY OutboxAssumption DEF Current, OutboxInv, TypeOK
    <3>3. /\ lost' \in 0 .. MaxLost /\ lost' = lost + n
          /\ flight' \in [Events -> Nat]
          /\ flight'[e] = flight[e] + n + 1
          /\ \A f \in Events \ {e} : flight'[f] = flight[f]
      BY <3>1, <3>2, GiveUpCounts
    <3>4. ASSUME NEW f \in Events
          PROVE  /\ flight'[f] <= flight[f] + n + 1
                 /\ flight'[f] <= flight[f] + n \/ f \in todo[w]
      <4>1. flight[f] \in Nat /\ flight[e] \in Nat
        BY <3>2 DEF OutboxInv, TypeOK
      <4> QED
        BY <3>2, <3>3, <4>1
    <3> QED
      BY <3>2, <3>3, <3>4
  <2> QED
    BY <2>1, <2>2 DEF Abort
<1>3. TypeOK'
  BY <1>0, <1>1, <1>2 DEF OutboxInv, TypeOK
<1>4. InBatch(w)' = {} /\ \A v \in Workers \ {w} : InBatch(v)' = InBatch(v)
  BY <1>1 DEF InBatch, OutboxInv, TypeOK
<1>5. BatchInv'
  BY <1>1, <1>4 DEF OutboxInv, BatchInv, TypeOK
<1>6. \A e \in Events : Marked(e)' => Marked(e)
  BY <1>1 DEF Marked, OutboxInv, TypeOK
<1>7. \A e \in Events : copies[e] \in Nat /\ flight[e] \in Nat /\ flight'[e] \in Nat
  BY <1>0 DEF OutboxInv, TypeOK
<1>8. CopiesInv'
  <2> SUFFICES ASSUME NEW e \in Events
               PROVE  /\ Marked(e)' => copies'[e] >= 1
                      /\ copies'[e] + flight'[e] <=
                           lost' + aborts' + (IF Marked(e)' THEN 1 ELSE 0)
    BY DEF CopiesInv
  <2>1. CASE e \in todo[w]
    <3>1. ~Marked(e) /\ ~Marked(e)'
      BY <1>6, <2>1, CurrentUnmarked
    <3> QED
      BY <1>0, <1>1, <1>2, <1>7, <3>1 DEF OutboxInv, CopiesInv
  <2>2. CASE e \notin todo[w]
    BY <1>0, <1>1, <1>2, <1>6, <1>7, <2>2 DEF OutboxInv, CopiesInv
  <2> QED
    BY <2>1, <2>2
<1> QED
  BY <1>3, <1>5, <1>8 DEF OutboxInv

LEMMA OutboxStep ==
  ASSUME OutboxInv, [Next]_vars
  PROVE  OutboxInv'
<1>1. CASE UNCHANGED vars
  BY <1>1 DEF vars, table, batch, stream, OutboxInv, TypeOK, BatchInv, InBatch, CopiesInv, Marked
<1>2. CASE Next
  BY <1>1, <1>2, EmitKeeps, ExpireKeeps, ArriveKeeps, SelectKeeps, PublishKeeps, FailKeeps, CommitKeeps,
     AbortKeeps DEF Next, PublishBatch, EmptyPoll
<1> QED
  BY <1>1, <1>2

-----------------------------------------------------------------------------
\* The batches of the workers are disjoint and pending, and the stream holds
\* what the marks say.
THEOREM OutboxInvariant == Spec => []OutboxInv
<1> QED
  BY OutboxInit, OutboxStep, PTL DEF Spec

\* An event the table calls published is in the stream.
THEOREM NoEventIsLost == Spec => []PublishedIsDelivered
<1>1. OutboxInv => PublishedIsDelivered
  BY DEF OutboxInv, CopiesInv, Marked, PublishedIsDelivered
<1> QED
  BY <1>1, OutboxInvariant, PTL

\* Types; in particular no event is ever marked FAILED.
THEOREM PublisherTypeCorrect == Spec => []TypeOK
<1>1. OutboxInv => TypeOK
  BY DEF OutboxInv
<1> QED
  BY <1>1, OutboxInvariant, PTL

\* Without faults every event is in the stream at most once, however many workers
\* run; each command given up on and each batch rolled back accounts for at most
\* one entry more.
THEOREM DeliveryIsOnceButForFaults == Spec => []DuplicatesNeedFaults
<1>1. OutboxInv => DuplicatesNeedFaults
  <2> SUFFICES ASSUME OutboxInv, NEW e \in Events PROVE copies[e] <= 1 + lost + aborts
    BY DEF DuplicatesNeedFaults
  <2>1. copies[e] \in Nat /\ flight[e] \in Nat /\ lost \in Nat /\ aborts \in Nat
    BY OutboxAssumption DEF OutboxInv, TypeOK
  <2> QED
    BY <2>1 DEF OutboxInv, CopiesInv
<1> QED
  BY <1>1, OutboxInvariant, PTL

\* The row of a published event never changes again, and the event is never sent
\* again: only what was in flight when it was marked may still arrive.
THEOREM NoneIsSentAfterItsMark == Spec => PublishedIsFinal
<1>1. ASSUME OutboxInv, [Next]_vars, NEW e \in Events, status[e] = "PUBLISHED"
      PROVE  status'[e] = "PUBLISHED" /\ copies'[e] + flight'[e] = copies[e] + flight[e]
  <2>0. copies[e] \in Nat /\ flight[e] \in Nat
    BY <1>1 DEF OutboxInv, TypeOK
  <2>1. \A w \in Workers : e \notin InBatch(w)
    BY <1>1 DEF OutboxInv, BatchInv
  <2>2. ASSUME NEW w \in Workers, Publish(w) \/ Fail(w)
        PROVE  status' = status /\ copies'[e] = copies[e] /\ flight'[e] = flight[e]
    <3>1. PICK f \in Current(w), n \in Int :
            /\ copies' = copies \/ copies' = [copies EXCEPT ![f] = @ + 1]
            /\ flight' = [flight EXCEPT ![f] = @ + n + 0]
      BY <2>2, OutboxAssumption DEF Publish, Fail, GiveUp
    <3>2. f # e
      BY <2>1 DEF Current, InBatch
    <3>3. status' = status
      BY <2>2 DEF Publish, Fail, table
    <3> QED
      BY <1>1, <3>1, <3>2, <3>3 DEF OutboxInv, TypeOK
  <2>3. ASSUME NEW w \in Workers, Commit(w)
        PROVE  status'[e] = "PUBLISHED" /\ copies' = copies /\ flight' = flight
    BY <1>1, <2>3 DEF Commit, stream
  <2>4. ASSUME NEW w \in Workers, EmptyPoll(w) \/ Select(w)
        PROVE  status' = status /\ copies' = copies /\ flight' = flight
    BY <2>4 DEF EmptyPoll, Select, vars, table, stream
  <2>5. ASSUME NEW f \in Events, Emit(f) \/ Expire(f)
        PROVE  status'[e] = "PUBLISHED" /\ copies' = copies /\ flight' = flight
    BY <1>1, <2>5 DEF Emit, Expire, stream, OutboxInv, TypeOK
  <2>6. ASSUME NEW f \in Events, Arrive(f)
        PROVE  status' = status /\ copies'[e] + flight'[e] = copies[e] + flight[e]
    BY <1>1, <2>0, <2>6 DEF Arrive, table, OutboxInv, TypeOK
  <2>7. ASSUME NEW w \in Workers, Abort(w)
        PROVE  status' = status /\ copies' = copies /\ flight'[e] = flight[e]
    <3>1. /\ status' = status /\ copies' = copies
          /\ \/ flight' = flight
             \/ \E f \in Current(w), n \in Int : flight' = [flight EXCEPT ![f] = @ + n + 1]
      BY <2>7, OutboxAssumption DEF Abort, GiveUp, table, stream
    <3>2. \A f \in Current(w) : f # e
      BY <2>1 DEF Current, InBatch
    <3> QED
      BY <1>1, <3>1, <3>2 DEF OutboxInv, TypeOK
  <2>8. CASE UNCHANGED vars
    BY <1>1, <2>8 DEF vars, table, stream
  <2> QED
    BY <1>1, <2>2, <2>3, <2>4, <2>5, <2>6, <2>7, <2>8 DEF Next, PublishBatch
<1>2. OutboxInv /\ [Next]_vars =>
        [\A e \in Events : status[e] = "PUBLISHED" =>
           /\ status'[e] = "PUBLISHED"
           /\ copies'[e] + flight'[e] = copies[e] + flight[e]]_vars
  BY <1>1
<1> QED
  BY <1>2, OutboxInvariant, PTL DEF Spec, PublishedIsFinal
=============================================================================
