-------------------------- MODULE IngestLane_proofs --------------------------
(***************************************************************************)
(* The safety invariants of IngestLane, for any batch size and any number  *)
(* of rows, and that every step of it is a step of Publication.            *)
(***************************************************************************)
EXTENDS IngestLane, TLAPS

-----------------------------------------------------------------------------
(* Batches.                                                                *)

LEMMA DivisionFacts ==
  ASSUME NEW a \in Nat
  PROVE  /\ a \div BatchSize \in Nat
         /\ BatchSize * (a \div BatchSize) <= a
         /\ a < BatchSize * (a \div BatchSize) + BatchSize
  BY BatchSizeAssumption, SMTT(30)

LEMMA ProductMonotone ==
  ASSUME NEW a \in Nat, NEW b \in Nat, a <= b
  PROVE  BatchSize * a <= BatchSize * b
  BY BatchSizeAssumption, SMTT(30)

\* The batches cover the rows: every one of n rows is in one of NumChunks(n).
LEMMA ChunksCover ==
  ASSUME NEW n \in Nat, NEW r \in 1 .. n
  PROVE  NumChunks(n) \in Nat /\ \E b \in 1 .. NumChunks(n) : r \in Chunk(n, b)
<1> DEFINE x == (r - 1) \div BatchSize
           q == (n + BatchSize - 1) \div BatchSize
<1>1. /\ r - 1 \in Nat
      /\ n + BatchSize - 1 \in Nat
      /\ BatchSize \in Nat
  BY BatchSizeAssumption
<1>2. x \in Nat /\ BatchSize * x <= r - 1 /\ r - 1 < BatchSize * x + BatchSize
  BY <1>1, DivisionFacts
<1>3. q \in Nat /\ n + BatchSize - 1 < BatchSize * q + BatchSize
  BY <1>1, DivisionFacts
<1>4. x < q
  <2>1. SUFFICES ASSUME q <= x PROVE FALSE
    BY <1>2, <1>3
  <2>2. BatchSize * q <= BatchSize * x
    BY <1>2, <1>3, <2>1, ProductMonotone
  <2>3. BatchSize * q \in Nat /\ BatchSize * x \in Nat
    BY <1>1, <1>2, <1>3
  <2> HIDE DEF x, q
  <2> QED
    BY <1>1, <1>2, <1>3, <2>2, <2>3
<1>5. /\ (x + 1) * BatchSize = BatchSize * x + BatchSize
      /\ ((x + 1) - 1) * BatchSize = BatchSize * x
  <2> HIDE DEF x
  <2> QED
    BY <1>1, <1>2
<1>6. x + 1 \in 1 .. q /\ r \in Chunk(n, x + 1)
  <2>1. BatchSize * x \in Nat
    BY <1>1, <1>2
  <2> HIDE DEF x, q
  <2> QED
    BY <1>1, <1>2, <1>3, <1>4, <1>5, <2>1 DEF Chunk
<1> QED
  BY <1>3, <1>6 DEF NumChunks

-----------------------------------------------------------------------------
(* The inductive invariant.                                                *)

\* Nothing is sent before Tally has been read.
ReadBeforeSend ==
    phase \in {"ledgers", "reading"} =>
        /\ rows = 0 /\ total = 0 /\ i = 0 /\ ~doubt /\ after = "ok"
        /\ res = NoResult
        /\ server = NothingStored
        /\ phase = "ledgers" => kind \in Snapshots

\* The batches planned are the chunks of the rows, unless there is no row.
BatchesMatchRows == phase # "ledgers" /\ phase # "reading" /\ rows > 0 => total = NumChunks(rows)

\* A batch is left to send exactly while the run is sending.
LoopInOrder ==
    /\ phase = "sending" => /\ i < total /\ ~res.unsupported /\ ~res.fatal
                            /\ kind \in Snapshots => after = "check" \/ rows = 0
    /\ phase = "sent" => \/ i = total
                         \/ res.unsupported
                         \/ ctxDone /\ (after = "check" \/ rows = 0)
    /\ phase = "ended" /\ ~res.fatal => i = total \/ res.unsupported \/ rows = 0

\* The claim is that of the last batch, which only the run's last request makes.
ClaimIsLast ==
    /\ server.claim # "none" => i = total /\ total \in server.landed
    /\ server.claim = "complete" =>
           ~doubt /\ kind \in Snapshots /\ \A b \in 1 .. total : b \in server.landed

\* A lane that is no snapshot has an empty batch to send only when a request
\* asked for it and the parser handed on nothing.
EmptyBatchIsAsked == kind \notin Snapshots /\ rows = 0 /\ total > 0 => items = 0 /\ forRequest

\* A rejected credential is a batch that failed, too.
DenialsCount == res.auth => res.failed > 0

IInv == TypeOK /\ ReadBeforeSend /\ BatchesMatchRows /\ LoopInOrder /\ ClaimIsLast
        /\ BatchesAccountedFor /\ EmptyBatchIsAsked /\ DenialsCount

LEMMA NoRowsNoChunk == NumChunks(0) = 0
<1> DEFINE q == (BatchSize - 1) \div BatchSize
<1>1. BatchSize - 1 \in Nat /\ BatchSize \in Nat \ {0}
  BY BatchSizeAssumption
<1>2. q \in Nat /\ BatchSize * q <= BatchSize - 1
  BY <1>1, DivisionFacts
<1>3. q = 0
  <2>1. SUFFICES ASSUME 1 <= q PROVE FALSE
    BY <1>2
  <2>2. BatchSize * 1 <= BatchSize * q
    BY <1>2, <2>1, ProductMonotone
  <2>3. BatchSize * 1 = BatchSize /\ BatchSize * q \in Nat
    BY <1>1, <1>2
  <2> HIDE DEF q
  <2> QED
    BY <1>1, <1>2, <2>2, <2>3
<1>4. 0 + BatchSize - 1 = BatchSize - 1
  BY <1>1
<1> QED
  BY <1>3, <1>4 DEF NumChunks

LEMMA ChunkCount ==
  ASSUME NEW n \in Nat
  PROVE  NumChunks(n) \in Nat /\ (n > 0 => NumChunks(n) > 0)
<1>1. n + BatchSize - 1 \in Nat
  BY BatchSizeAssumption
<1>2. NumChunks(n) \in Nat
  BY <1>1, DivisionFacts DEF NumChunks
<1>3. ASSUME n > 0 PROVE NumChunks(n) > 0
  BY <1>2, <1>3, ChunksCover
<1> QED
  BY <1>2, <1>3

\* A run about to start, whose context may have ended already: the walk's, when
\* the run is one of many.
Fresh ==
    /\ kind \in Kinds /\ forRequest \in BOOLEAN /\ ctxDone \in BOOLEAN
    /\ phase = FirstPhase(kind)
    /\ items = 0 /\ rows = 0 /\ ~doubt /\ doubt \in BOOLEAN /\ after = "ok"
    /\ total = 0 /\ i = 0
    /\ res = NoResult
    /\ server = NothingStored

LEMMA FreshInv == Fresh => IInv
<1> SUFFICES ASSUME Fresh PROVE IInv
  OBVIOUS
<1>1. TypeOK
  <2>1. res \in Result
    BY DEF Fresh, NoResult, Result
  <2>2. server \in ServerView
    BY DEF Fresh, NothingStored, ServerView
  <2>3. phase \in Phases
    BY DEF Fresh, FirstPhase, Phases
  <2>4. /\ items \in 0 .. MaxItems /\ rows \in 0 .. MaxItems
        /\ total \in Nat /\ i \in 0 .. total
    BY MaxItemsAssumption DEF Fresh
  <2>5. /\ kind \in Kinds /\ forRequest \in BOOLEAN /\ ctxDone \in BOOLEAN
        /\ doubt \in BOOLEAN /\ after \in {"ok", "fail", "check"}
    BY DEF Fresh
  <2> QED
    BY <2>1, <2>2, <2>3, <2>4, <2>5 DEF TypeOK
<1>2. ReadBeforeSend /\ BatchesMatchRows /\ LoopInOrder
  BY DEF Fresh, ReadBeforeSend, BatchesMatchRows, LoopInOrder, FirstPhase
<1>3. ClaimIsLast /\ BatchesAccountedFor
  BY DEF Fresh, NoResult, NothingStored, ClaimIsLast, BatchesAccountedFor
<1>4. EmptyBatchIsAsked /\ DenialsCount
  BY DEF Fresh, NoResult, EmptyBatchIsAsked, DenialsCount
<1> QED
  BY <1>1, <1>2, <1>3, <1>4 DEF IInv

LEMMA InitInv == Init => IInv
<1>1. Init => Fresh
  BY DEF Init, Fresh
<1> QED
  BY <1>1, FreshInv

-----------------------------------------------------------------------------
(* Reading: nothing has been counted or stored before a step of it.        *)

LEMMA ReadStep ==
  ASSUME IInv, Read
  PROVE  IInv'
<1>1. TypeOK /\ ReadBeforeSend /\ res \in Result
  BY DEF IInv, TypeOK
<1>2. /\ rows = 0 /\ total = 0 /\ i = 0 /\ ~doubt
      /\ res = NoResult /\ server = NothingStored
      /\ server' = server /\ i' = i
  BY <1>1 DEF Read, ReadFails, LedgersRead, SnapshotUnreadable, NoTaxLedgers,
              SendIncomplete, VouchersRead, SnapshotRead, ReadBeforeSend
<1>3. /\ res' \in Result
      /\ res'.sent = 0 /\ res'.failed = 0 /\ ~res'.unsupported /\ ~res'.auth
  <2>1. CASE ReadFails
    BY <1>1, <1>2, <2>1 DEF ReadFails, NoResult, Result
  <2>2. CASE \E n, r, d \in 0 .. MaxItems : VouchersRead(n, r, d)
    <3>1. PICK n \in 0 .. MaxItems, r \in 0 .. MaxItems, d \in 0 .. MaxItems :
              VouchersRead(n, r, d)
      BY <2>2
    <3>2. d \in Nat /\ (kind = "invoice" /\ d > 0) \in BOOLEAN
      BY MaxItemsAssumption
    <3> QED
      BY <1>1, <1>2, <3>1, <3>2 DEF VouchersRead, NoResult, Result
  <2>3. CASE res' = res
    BY <1>1, <1>2, <2>3 DEF NoResult
  <2> QED
    BY <2>1, <2>2, <2>3 DEF Read, LedgersRead, SnapshotUnreadable, NoTaxLedgers,
                            SendIncomplete, SnapshotRead
<1>4. BatchesAccountedFor' /\ ClaimIsLast'
  BY <1>2, <1>3 DEF BatchesAccountedFor, ClaimIsLast, NothingStored
<1>5. \A r \in 0 .. MaxItems : NumChunks(r) \in Nat /\ (r > 0 => NumChunks(r) > 0)
  BY ChunkCount, MaxItemsAssumption
<1>6. TypeOK'
  <2> USE <1>1, <1>2, <1>3 DEF TypeOK, Phases
  <2>1. CASE ReadFails \/ LedgersRead
    BY <2>1 DEF ReadFails, LedgersRead
  <2>2. ASSUME NEW next \in {"fail", "ok"}, SendIncomplete(next)
        PROVE  TypeOK'
    <3>1. total' \in Nat /\ i' \in 0 .. total' /\ doubt' \in BOOLEAN
      BY <2>2 DEF SendIncomplete
    <3> QED
      BY <2>2, <3>1 DEF SendIncomplete
  <2>3. ASSUME NEW n \in 0 .. MaxItems, NEW r \in 0 .. MaxItems, NEW d \in 0 .. MaxItems,
               VouchersRead(n, r, d)
        PROVE  TypeOK'
    BY <1>5, <2>3 DEF VouchersRead
  <2>4. ASSUME NEW n \in 0 .. MaxItems, NEW r \in 0 .. MaxItems, NEW strange \in BOOLEAN,
               SnapshotRead(n, r, strange)
        PROVE  TypeOK'
    BY <1>5, <2>4 DEF SnapshotRead
  <2> QED
    BY <2>1, <2>2, <2>3, <2>4 DEF Read, SnapshotUnreadable, NoTaxLedgers
<1>7. ReadBeforeSend' /\ BatchesMatchRows' /\ LoopInOrder'
  <2> USE <1>1, <1>2, <1>3, MaxItemsAssumption
      DEF ReadBeforeSend, BatchesMatchRows, LoopInOrder, NoResult
  <2>1. CASE ReadFails \/ LedgersRead
    BY <2>1 DEF ReadFails, LedgersRead, Result
  <2>2. CASE SnapshotUnreadable \/ NoTaxLedgers
    BY <2>2 DEF SnapshotUnreadable, NoTaxLedgers, SendIncomplete
  <2>3. ASSUME NEW n \in 0 .. MaxItems, NEW r \in 0 .. MaxItems, NEW d \in 0 .. MaxItems,
               VouchersRead(n, r, d)
        PROVE  ReadBeforeSend' /\ BatchesMatchRows' /\ LoopInOrder'
    BY <1>5, <2>3 DEF VouchersRead, ZeroRowLane, Result
  <2>4. ASSUME NEW n \in 0 .. MaxItems, NEW r \in 0 .. MaxItems, NEW strange \in BOOLEAN,
               SnapshotRead(n, r, strange)
        PROVE  ReadBeforeSend' /\ BatchesMatchRows' /\ LoopInOrder'
    BY <1>5, <2>4 DEF SnapshotRead
  <2> QED
    BY <2>1, <2>2, <2>3, <2>4 DEF Read
<1>8. EmptyBatchIsAsked'
  <2> USE <1>1, <1>2 DEF EmptyBatchIsAsked
  <2>1. CASE ReadFails \/ LedgersRead
    BY <2>1 DEF ReadFails, LedgersRead
  <2>2. CASE SnapshotUnreadable \/ NoTaxLedgers
    BY <2>2 DEF SnapshotUnreadable, NoTaxLedgers, SendIncomplete
  <2>3. ASSUME NEW n \in 0 .. MaxItems, NEW r \in 0 .. MaxItems, NEW d \in 0 .. MaxItems,
               VouchersRead(n, r, d)
        PROVE  EmptyBatchIsAsked'
    BY <2>3, NoRowsNoChunk DEF VouchersRead, ZeroRowLane
  <2>4. ASSUME NEW n \in 0 .. MaxItems, NEW r \in 0 .. MaxItems, NEW strange \in BOOLEAN,
               SnapshotRead(n, r, strange)
        PROVE  EmptyBatchIsAsked'
    BY <2>4 DEF SnapshotRead
  <2> QED
    BY <2>1, <2>2, <2>3, <2>4 DEF Read
<1>9. DenialsCount'
  BY <1>3 DEF DenialsCount
<1> QED
  BY <1>4, <1>6, <1>7, <1>8, <1>9 DEF IInv

-----------------------------------------------------------------------------
(* Sending.                                                                *)

\* What an attempt does to the counters and to the server, whatever its end.
LEMMA SendEffect ==
  ASSUME IInv, Send
  PROVE  /\ phase = "sending" /\ i < total /\ i' = i + 1 /\ total' = total
         /\ UNCHANGED <<kind, forRequest, ctxDone, items, rows, doubt, after>>
         /\ phase' = "sent" \/ (phase' = "sending" /\ i' < total /\ ~res'.unsupported)
         /\ res' \in Result /\ ~res'.fatal
         /\ \/ /\ res'.sent = res.sent + 1 /\ res'.failed = res.failed
               /\ ~res'.unsupported /\ Store(i + 1)
            \/ /\ res'.sent = res.sent /\ res'.failed = res.failed + 1
               /\ ~res'.unsupported /\ (Store(i + 1) \/ server' = server)
            \/ /\ res'.sent = res.sent /\ res'.failed = res.failed
               /\ res'.unsupported /\ server' = server
         /\ phase' = "sent" => i' = total \/ res'.unsupported
         /\ res'.auth => res.auth \/ res'.failed > 0
<1>1. Attempt /\ res \in Result
  BY DEF IInv, TypeOK, Send, BatchAccepted, AnswerLost, BatchRefused, LaneUnsupported
<1>2. /\ phase = "sending" /\ i < total /\ i' = i + 1 /\ total' = total
      /\ UNCHANGED <<kind, forRequest, ctxDone, items, rows, doubt, after>>
      /\ ~res.unsupported /\ ~res.fatal
      /\ total \in Nat /\ i \in 0 .. total
  BY <1>1 DEF Attempt, IInv, LoopInOrder, TypeOK
<1>3. res.sent \in Nat /\ res.failed \in Nat /\ res.serverErrors \in Nat /\ res.auth \in BOOLEAN
  BY <1>1 DEF Result
<1>4. ASSUME NEW e \in 0 .. 1, BatchAccepted(e)
      PROVE  /\ res' \in Result /\ ~res'.fatal /\ ~res'.unsupported
             /\ res'.sent = res.sent + 1 /\ res'.failed = res.failed
             /\ res'.auth = res.auth
  <2>1. res.sent + 1 \in Nat /\ res.serverErrors + e \in Nat
    BY <1>3
  <2> QED
    BY <1>1, <1>2, <1>4, <2>1 DEF BatchAccepted, Result
<1>5. ASSUME AnswerLost
      PROVE  /\ res' \in Result /\ ~res'.fatal /\ ~res'.unsupported
             /\ res'.sent = res.sent /\ res'.failed = res.failed + 1
  <2>1. res.failed + 1 \in Nat
    BY <1>3
  <2> QED
    BY <1>1, <1>2, <1>5, <2>1 DEF AnswerLost, Result
<1>6. ASSUME NEW isAuth \in BOOLEAN, BatchRefused(isAuth)
      PROVE  /\ res' \in Result /\ ~res'.fatal /\ ~res'.unsupported
             /\ res'.sent = res.sent /\ res'.failed = res.failed + 1
  <2>1. res.failed + 1 \in Nat /\ (res.auth \/ isAuth) \in BOOLEAN
    BY <1>3
  <2> QED
    BY <1>1, <1>2, <1>6, <2>1 DEF BatchRefused, Result
<1>7. ASSUME LaneUnsupported
      PROVE  /\ res' \in Result /\ ~res'.fatal /\ res'.unsupported
             /\ res'.sent = res.sent /\ res'.failed = res.failed
             /\ res'.auth = res.auth
  BY <1>1, <1>2, <1>7 DEF LaneUnsupported, Result
<1>8. CASE \E e \in 0 .. 1 : BatchAccepted(e)
  <2>1. PICK e \in 0 .. 1 : BatchAccepted(e)
    BY <1>8
  <2>2. /\ res' \in Result /\ ~res'.fatal /\ ~res'.unsupported
        /\ res'.sent = res.sent + 1 /\ res'.failed = res.failed
        /\ res'.auth = res.auth
    BY <1>4, <2>1
  <2>3. Store(i + 1) /\ phase' = IF i' = total THEN "sent" ELSE phase
    BY <2>1 DEF BatchAccepted
  <2> QED
    BY <1>2, <2>2, <2>3
<1>9. CASE AnswerLost
  BY <1>2, <1>3, <1>5, <1>9 DEF AnswerLost
<1>10. CASE \E isAuth \in BOOLEAN : BatchRefused(isAuth)
  <2>1. PICK isAuth \in BOOLEAN : BatchRefused(isAuth)
    BY <1>10
  <2>2. /\ res' \in Result /\ ~res'.fatal /\ ~res'.unsupported
        /\ res'.sent = res.sent /\ res'.failed = res.failed + 1
    BY <1>6, <2>1
  <2>3. server' = server /\ phase' = IF i' = total THEN "sent" ELSE phase
    BY <2>1 DEF BatchRefused
  <2> QED
    BY <1>2, <1>3, <2>2, <2>3
<1>11. CASE LaneUnsupported
  BY <1>2, <1>7, <1>11 DEF LaneUnsupported
<1> QED
  BY <1>8, <1>9, <1>10, <1>11 DEF Send

LEMMA SendStep ==
  ASSUME IInv, Send
  PROVE  IInv'
<1>1. /\ TypeOK /\ LoopInOrder /\ ClaimIsLast /\ BatchesAccountedFor /\ BatchesMatchRows
      /\ i \in Nat /\ total \in Nat
      /\ res.sent \in Nat /\ res.failed \in Nat
      /\ server.landed \subseteq 1 .. i /\ server.named \in BOOLEAN /\ res.warned \in BOOLEAN
  BY DEF IInv, TypeOK, Result, ServerView, BatchesAccountedFor
<1>2. /\ phase = "sending" /\ i < total /\ i' = i + 1 /\ total' = total
      /\ UNCHANGED <<kind, forRequest, ctxDone, items, rows, doubt, after>>
      /\ phase' = "sent" \/ (phase' = "sending" /\ i' < total /\ ~res'.unsupported)
      /\ phase' = "sent" => i' = total \/ res'.unsupported
      /\ res' \in Result /\ ~res'.fatal
  BY SendEffect
<1>3. /\ server.claim = "none"
      /\ ~res.unsupported
      /\ res.sent + res.failed = i
      /\ res.failed = 0 => \A b \in 1 .. i : b \in server.landed
      /\ kind \in Snapshots => after = "check" \/ rows = 0
  BY <1>1, <1>2 DEF LoopInOrder, ClaimIsLast, BatchesAccountedFor
<1>4. \/ Store(i + 1)
      \/ server' = server
  BY SendEffect
<1>5. ASSUME Store(i + 1)
      PROVE  /\ server'.landed = server.landed \cup {i + 1}
             /\ server'.claim = ClaimOf(i + 1)
             /\ server' \in ServerView
  <2>1. ClaimOf(i + 1) \in {"none", "closed", "incomplete", "complete"}
    BY DEF ClaimOf
  <2>2. server.landed \cup {i + 1} \in SUBSET Nat /\ (server.named \/ res.warned) \in BOOLEAN
    BY <1>1
  <2> QED
    BY <1>5, <2>1, <2>2 DEF Store, ServerView
<1>6. TypeOK'
  <2>1. server' \in ServerView
    BY <1>1, <1>4, <1>5 DEF TypeOK
  <2>2. total' \in Nat /\ i' \in 0 .. total' /\ phase' \in Phases
    BY <1>1, <1>2 DEF Phases
  <2> QED
    BY <1>1, <1>2, <2>1, <2>2 DEF TypeOK
<1>7. ReadBeforeSend' /\ BatchesMatchRows' /\ LoopInOrder'
  BY <1>1, <1>2, <1>3 DEF ReadBeforeSend, BatchesMatchRows, LoopInOrder
<1>8. ClaimIsLast'
  <2>1. CASE server' = server
    BY <1>3, <2>1 DEF ClaimIsLast
  <2>2. CASE Store(i + 1)
    BY <1>1, <1>2, <1>3, <1>5, <2>2 DEF ClaimIsLast, ClaimOf, IsFinal
  <2> QED
    BY <1>4, <2>1, <2>2
<1>9. BatchesAccountedFor'
  <2>1. CASE /\ res'.sent = res.sent + 1 /\ res'.failed = res.failed
             /\ ~res'.unsupported /\ Store(i + 1)
    BY <1>1, <1>2, <1>3, <1>5, <2>1 DEF BatchesAccountedFor
  <2>2. CASE /\ res'.sent = res.sent /\ res'.failed = res.failed + 1
             /\ ~res'.unsupported /\ (Store(i + 1) \/ server' = server)
    BY <1>1, <1>2, <1>3, <1>5, <2>2 DEF BatchesAccountedFor
  <2>3. CASE /\ res'.sent = res.sent /\ res'.failed = res.failed
             /\ res'.unsupported /\ server' = server
    BY <1>1, <1>2, <1>3, <2>3 DEF BatchesAccountedFor
  <2> QED
    BY SendEffect, <2>1, <2>2, <2>3
<1>10. EmptyBatchIsAsked' /\ DenialsCount'
  BY <1>1, <1>2, SendEffect DEF IInv, EmptyBatchIsAsked, DenialsCount
<1> QED
  BY <1>6, <1>7, <1>8, <1>9, <1>10 DEF IInv

LEMMA EndStep ==
  ASSUME IInv, ContextEnds \/ Abort \/ Return
  PROVE  IInv'
<1>1. TypeOK /\ res \in Result /\ ClaimIsLast /\ BatchesAccountedFor /\ LoopInOrder
      /\ BatchesMatchRows /\ ReadBeforeSend /\ EmptyBatchIsAsked /\ DenialsCount
  BY DEF IInv, TypeOK
<1>2. /\ res' \in Result
      /\ res'.sent = res.sent /\ res'.failed = res.failed /\ res'.unsupported = res.unsupported
      /\ res'.auth = res.auth
  <2>1. CASE ContextEnds
    BY <1>1, <2>1 DEF ContextEnds
  <2>2. CASE Abort
    BY <1>1, <2>2 DEF Abort, Result
  <2>3. CASE Return
    <3>1. (after = "fail" \/ (after = "check" /\ ctxDone)) \in BOOLEAN
      OBVIOUS
    <3> QED
      BY <1>1, <2>3, <3>1 DEF Return, Result
  <2> QED
    BY <2>1, <2>2, <2>3
<1>3. UNCHANGED <<kind, forRequest, items, rows, doubt, after, total, i, server>>
  BY DEF ContextEnds, Abort, Return
<1>4. TypeOK'
  BY <1>1, <1>2, <1>3 DEF TypeOK, Phases, ContextEnds, Abort, Return
<1>5. ClaimIsLast' /\ BatchesAccountedFor'
  BY <1>1, <1>2, <1>3 DEF ClaimIsLast, BatchesAccountedFor
<1>6. ReadBeforeSend' /\ BatchesMatchRows'
  BY <1>1, <1>3 DEF ReadBeforeSend, BatchesMatchRows, ContextEnds, Abort, Return
<1>7. LoopInOrder'
  <2>1. CASE ContextEnds
    BY <1>1, <1>3, <2>1 DEF LoopInOrder, ContextEnds
  <2>2. CASE Abort
    BY <1>1, <1>2, <1>3, <2>2 DEF LoopInOrder, Abort, Result
  <2>3. CASE Return
    BY <1>1, <1>2, <1>3, <2>3 DEF LoopInOrder, Return, Result
  <2> QED
    BY <2>1, <2>2, <2>3
<1>8. EmptyBatchIsAsked' /\ DenialsCount'
  BY <1>1, <1>2, <1>3 DEF EmptyBatchIsAsked, DenialsCount
<1> QED
  BY <1>4, <1>5, <1>6, <1>7, <1>8 DEF IInv

\* The context ends because the caller's did, at any point of the run.
LEMMA CallerEnds ==
  ASSUME IInv, ctxDone' \in BOOLEAN, ctxDone => ctxDone',
         UNCHANGED <<kind, forRequest, phase, items, rows, doubt, after, total, i, res, server>>
  PROVE  IInv'
  BY DEF IInv, TypeOK, ReadBeforeSend, BatchesMatchRows, LoopInOrder, ClaimIsLast,
         BatchesAccountedFor, EmptyBatchIsAsked, DenialsCount

\* A rejected credential is not forgotten while the run lasts.
LEMMA DenialStays == IInv /\ [Next]_vars => (res.auth => res'.auth)
<1> SUFFICES ASSUME IInv, [Next]_vars, res.auth PROVE res'.auth
  OBVIOUS
<1>1. res \in Result /\ ReadBeforeSend
  BY DEF IInv, TypeOK
<1>2. CASE Read
  BY <1>1, <1>2 DEF Read, ReadFails, LedgersRead, SnapshotUnreadable, NoTaxLedgers,
              SendIncomplete, VouchersRead, SnapshotRead, ReadBeforeSend, NoResult
<1>3. CASE Send
  BY <1>1, <1>3 DEF Send, BatchAccepted, AnswerLost, BatchRefused, LaneUnsupported, Result
<1>4. CASE ContextEnds \/ Abort \/ Return \/ UNCHANGED vars
  BY <1>1, <1>4 DEF ContextEnds, Abort, Return, vars, Result
<1> QED
  BY <1>2, <1>3, <1>4 DEF Next

\* A run gets on: it leaves a phase, or attempts a batch, or its context ends.
PhaseRank == [ledgers |-> 4, reading |-> 3, sending |-> 2, sent |-> 1, ended |-> 0]
ToGo == <<PhaseRank[phase], total - i, IF ctxDone THEN 0 ELSE 1>>

\* Of two tuples of numbers, u is the lesser where they differ first.
Below(u, v) == \E k \in DOMAIN v : u[k] < v[k] /\ \A j \in 1 .. k - 1 : u[j] = v[j]

Descends == Below(ToGo', ToGo)

LEMMA ToGoIsNatural == IInv => ToGo \in Nat \X Nat \X {0, 1}
<1> SUFFICES ASSUME IInv PROVE ToGo \in Nat \X Nat \X {0, 1}
  OBVIOUS
<1>1. phase \in Phases /\ ctxDone \in BOOLEAN /\ total \in Nat /\ i \in 0 .. total
  BY DEF IInv, TypeOK
<1>2. PhaseRank[phase] \in Nat /\ total - i \in Nat
  BY <1>1 DEF PhaseRank, Phases
<1> QED
  BY <1>1, <1>2 DEF ToGo

LEMMA RunDescends ==
  ASSUME IInv, Next
  PROVE  Descends
<1>1. /\ phase \in Phases /\ ctxDone \in BOOLEAN
      /\ total \in Nat /\ i \in 0 .. total /\ phase' \in Phases
  BY ReadStep, SendStep, EndStep DEF IInv, TypeOK, Next
<1>2. ASSUME PhaseRank[phase'] < PhaseRank[phase] PROVE Descends
  BY <1>2 DEF Descends, Below, ToGo
<1>3. ASSUME phase' = phase, total' - i' < total - i PROVE Descends
  BY <1>3 DEF Descends, Below, ToGo
<1>4. ASSUME UNCHANGED <<phase, total, i>>, ~ctxDone, ctxDone' PROVE Descends
  BY <1>4 DEF Descends, Below, ToGo
<1>5. CASE ContextEnds
  BY <1>4, <1>5 DEF ContextEnds
<1>6. CASE Read
  <2>1. \/ phase = "ledgers" /\ phase' \in {"reading", "sending", "ended"}
        \/ phase = "reading" /\ phase' \in {"sending", "ended"}
    BY <1>6 DEF Read, ReadFails, LedgersRead, SnapshotUnreadable, NoTaxLedgers,
       SendIncomplete, VouchersRead, SnapshotRead
  <2> QED
    BY <1>2, <2>1 DEF PhaseRank
<1>7. CASE Send
  <2>1. /\ phase = "sending" /\ i' = i + 1 /\ total' = total
        /\ phase' = "sent" \/ phase' = "sending"
    BY <1>7, SendEffect
  <2>2. CASE phase' = "sent"
    BY <1>2, <2>1, <2>2 DEF PhaseRank
  <2>3. CASE phase' = "sending"
    BY <1>1, <1>3, <2>1, <2>3
  <2> QED
    BY <2>1, <2>2, <2>3
<1>8. CASE Abort \/ Return
  BY <1>2, <1>8 DEF Abort, Return, PhaseRank
<1> QED
  BY <1>5, <1>6, <1>7, <1>8 DEF Next

LEMMA Stutter == IInv /\ UNCHANGED vars => IInv'
  BY DEF vars, IInv, TypeOK, ReadBeforeSend, BatchesMatchRows, LoopInOrder, ClaimIsLast,
         BatchesAccountedFor, EmptyBatchIsAsked, DenialsCount

-----------------------------------------------------------------------------
(* The theorems.                                                           *)

LEMMA Step == IInv /\ [Next]_vars => IInv'
  BY ReadStep, SendStep, EndStep, Stutter DEF Next

\* The inductive invariant holds in every reachable state.
THEOREM Invariance == Spec => []IInv
  BY InitInv, Step, PTL DEF Spec

\* Every variable stays in its type.
THEOREM TypeCorrect == Spec => []TypeOK
  BY Invariance, PTL DEF IInv

\* Each batch attempted is counted once, and none is counted as sent that the
\* server does not hold.
THEOREM BatchesCounted == Spec => []BatchesAccountedFor
  BY Invariance, PTL DEF IInv

LEMMA WholeSnapshot == IInv => CompleteSnapshotIsWhole
<1> SUFFICES ASSUME IInv, server.claim = "complete", NEW r \in 1 .. rows
             PROVE  ~doubt /\ \E b \in server.landed : r \in Chunk(rows, b)
  BY DEF CompleteSnapshotIsWhole, IInv, ClaimIsLast
<1>1. ~doubt /\ (\A b \in 1 .. total : b \in server.landed) /\ i = total /\ total \in server.landed
  BY DEF IInv, ClaimIsLast
<1>2. total = NumChunks(rows)
  BY <1>1 DEF IInv, TypeOK, BatchesMatchRows, ReadBeforeSend, NothingStored
<1>3. \E b \in 1 .. NumChunks(rows) : r \in Chunk(rows, b)
  BY ChunksCover DEF IInv, TypeOK
<1> QED
  BY <1>1, <1>2, <1>3

\* A month the server believes complete is complete, whatever the number of
\* rows and the batch size: the batches cover the rows, and the final one claims
\* completeness only when no earlier one failed.
THEOREM SnapshotIsWhole == Spec => []CompleteSnapshotIsWhole
  BY WholeSnapshot, Invariance, PTL

\* The empty final batch of a lane that is no snapshot is sent only when a
\* request asked for the lane and the parser handed on nothing of Tally's answer.
THEOREM ZeroRowsHideNothing == Spec => []ZeroRowsHideNothingRead
<1>1. IInv => ZeroRowsHideNothingRead
  BY DEF IInv, TypeOK, ClaimIsLast, BatchesAccountedFor, EmptyBatchIsAsked,
         ZeroRowsHideNothingRead
<1> QED
  BY <1>1, Invariance, PTL

\* A run that reports no failure left every one of its rows on the server.
LEMMA CleanRun == IInv => CleanRunLandedEveryRow
<1> SUFFICES ASSUME IInv, phase = "ended", ~res.fatal, res.failed = 0, ~res.unsupported,
                    NEW r \in 1 .. rows
             PROVE  \E b \in server.landed : r \in Chunk(rows, b)
  BY DEF CleanRunLandedEveryRow
<1>1. rows \in Nat /\ res.sent \in Nat /\ i \in Nat
  BY DEF IInv, TypeOK, Result
<1>2. i = total /\ total = NumChunks(rows)
  BY <1>1 DEF IInv, LoopInOrder, BatchesMatchRows
<1>3. \A b \in 1 .. i : b \in server.landed
  BY <1>1 DEF IInv, BatchesAccountedFor
<1>4. \E b \in 1 .. NumChunks(rows) : r \in Chunk(rows, b)
  BY <1>1, ChunksCover
<1> QED
  BY <1>2, <1>3, <1>4

\* The same of every state of a run.
THEOREM CleanRunIsWhole == Spec => []CleanRunLandedEveryRow
  BY CleanRun, Invariance, PTL

\* No run goes on for ever, however often Tally and the server fail it: each of
\* its steps lowers a tuple of natural numbers.
THEOREM RunGetsOn == Spec => [](ToGo \in Nat \X Nat \X {0, 1}) /\ [][Descends]_vars
<1>1. IInv /\ [Next]_vars => [Descends]_vars
  BY RunDescends
<1> QED
  BY <1>1, ToGoIsNatural, Invariance, PTL DEF Spec

\* Every lane keeps the promise of Publication: reading Tally plans the chunks,
\* a request whose batch the server stored delivers one, all else is a stutter.
THEOREM Refinement == Spec => ImplementsPublication
<1>1. Init => Abstract!Init
  BY DEF Init, Abstract!Init, PublishedClaim, NothingStored
<1>2. IInv /\ IInv' /\ [Next]_vars
        => [Abstract!Next]_<<1 .. total, server.landed, PublishedClaim>>
  <2> SUFFICES ASSUME IInv, IInv', [Next]_vars
               PROVE  [Abstract!Next]_<<1 .. total, server.landed, PublishedClaim>>
    OBVIOUS
  <2>1. CASE Read
    <3>1. server' = server /\ total = 0
      BY <2>1 DEF Read, ReadFails, LedgersRead, SnapshotUnreadable, NoTaxLedgers,
                  SendIncomplete, VouchersRead, SnapshotRead, IInv, ReadBeforeSend
    <3>2. total' \in Nat
      BY DEF IInv, TypeOK
    <3> QED
      BY <3>1, <3>2 DEF Abstract!Next, Abstract!Plan, PublishedClaim
  <2>2. CASE Send
    <3>1. CASE server' = server
      BY <2>2, <3>1, SendEffect DEF PublishedClaim
    <3>2. CASE Store(i + 1)
      <4>1. /\ total' = total /\ i + 1 \in 1 .. total \ server.landed
            /\ server.claim = "none" /\ server'.landed = server.landed \cup {i + 1}
        BY <2>2, <3>2, SendEffect
           DEF IInv, TypeOK, ServerView, ClaimIsLast, BatchesAccountedFor, Store
      <4>2. server'.claim = "complete" => server'.landed = 1 .. total
        BY <4>1 DEF IInv, TypeOK, ServerView, ClaimIsLast, BatchesAccountedFor
      <4>3. Abstract!Deliver(i + 1)
        BY <4>1, <4>2 DEF Abstract!Deliver, Abstract!Claims, PublishedClaim
      <4> QED
        BY <4>1, <4>3 DEF Abstract!Next
    <3> QED
      BY <2>2, <3>1, <3>2, SendEffect
  <2>3. CASE ContextEnds \/ Abort \/ Return \/ UNCHANGED vars
    BY <2>3 DEF ContextEnds, Abort, Return, vars, PublishedClaim
  <2> QED
    BY <2>1, <2>2, <2>3 DEF Next
<1> QED
  BY <1>1, <1>2, Invariance, PTL DEF Spec, ImplementsPublication, Abstract!Spec
=============================================================================
