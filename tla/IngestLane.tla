----------------------------- MODULE IngestLane -----------------------------
(***************************************************************************)
(* One run of the pipeline, RunOne in internal/syncrun: read one lane      *)
(* (voucher kind) of one company from Tally, cut the rows into batches,    *)
(* send them one by one, mark the last one final.                          *)
(*                                                                         *)
(* The four invoice kinds share one function, and journal and payment are  *)
(* two copies of the same one, so they are the lanes "invoice" and         *)
(* "journal".  A row is its position in the run; what the rows say is      *)
(* left out.  The server's side is the part of its state the run writes:   *)
(* the batches it stored, the claim the final batch made, and whether a    *)
(* sync warning naming the vouchers that were dropped has reached it.      *)
(***************************************************************************)
EXTENDS Naturals

CONSTANTS
    BatchSize,   \* Request.BatchSize: rows per ingest request
    MaxItems     \* bound on the items Tally answers and on the rows made of them

ASSUME BatchSizeAssumption == BatchSize \in Nat \ {0}
ASSUME MaxItemsAssumption == MaxItems \in Nat

VARIABLES
    kind,        \* Request.KindName
    forRequest,  \* Request.SyncRequestID # ""
    ctxDone,     \* ctx.Err() # nil: the run's timeout, or its caller's context
    phase,       \* the point the run has reached
    items,       \* len(parsed.Vouchers), len(parsed.Ledgers): what the parser kept
    rows,        \* Result.RowCount
    doubt,       \* the snapshot's own Complete is false
    after,       \* what follows the batch loop: "ok", "fail" or "check"
    total,       \* len(batches)
    i,           \* the loop's index: batches attempted
    res,         \* the other counters of Result
    server       \* what the server holds of this run

vars == <<kind, forRequest, ctxDone, phase, items, rows, doubt, after, total, i,
          res, server>>

Kinds == {"invoice", "journal", "tax_ledger", "tax_ledger_voucher"}
Snapshots == {"tax_ledger_voucher"}
Phases == {"ledgers", "reading", "sending", "sent", "ended"}

Result == [sent : Nat, failed : Nat, serverErrors : Nat, dropped : Nat,
           warned : BOOLEAN, auth : BOOLEAN, unsupported : BOOLEAN, fatal : BOOLEAN]
ServerView == [landed : SUBSET Nat, named : BOOLEAN,
               claim : {"none", "closed", "incomplete", "complete"}]

TypeOK ==
    /\ kind \in Kinds
    /\ forRequest \in BOOLEAN
    /\ ctxDone \in BOOLEAN
    /\ phase \in Phases
    /\ items \in 0 .. MaxItems
    /\ rows \in 0 .. MaxItems
    /\ doubt \in BOOLEAN
    /\ after \in {"ok", "fail", "check"}
    /\ total \in Nat
    /\ i \in 0 .. total
    /\ res \in Result
    /\ server \in ServerView

NoResult == [sent |-> 0, failed |-> 0, serverErrors |-> 0, dropped |-> 0,
             warned |-> FALSE, auth |-> FALSE, unsupported |-> FALSE, fatal |-> FALSE]
NothingStored == [landed |-> {}, named |-> FALSE, claim |-> "none"]

\* The dispatch on Request.KindName: only the snapshot lane reads the ledger
\* list before the vouchers.
FirstPhase(k) == IF k \in Snapshots THEN "ledgers" ELSE "reading"

Init ==
    /\ kind \in Kinds
    /\ forRequest \in BOOLEAN
    /\ ctxDone = FALSE
    /\ phase = FirstPhase(kind)
    /\ items = 0
    /\ rows = 0
    /\ doubt = FALSE
    /\ after = "ok"
    /\ total = 0
    /\ i = 0
    /\ res = NoResult
    /\ server = NothingStored

-----------------------------------------------------------------------------
(* Batches.                                                                *)

\* SplitRows and splitGenericRows: the rows of the b-th batch of n rows.
Chunk(n, b) == {r \in 1 .. n : (b - 1) * BatchSize < r /\ r <= b * BatchSize}
NumChunks(n) == (n + BatchSize - 1) \div BatchSize

\* Mutant: what could not be read is reported as nothing to read.
ZeroRowLaneUnread(n, r) == forRequest /\ r = 0

\* A lane served for a sync request that found nothing in Tally says so with
\* one empty final batch.
ZeroRowLane(n, r) == forRequest /\ r = 0 /\ n = 0

-----------------------------------------------------------------------------
(* Reading Tally.                                                          *)

\* The run's ten minutes are over, or the daemon or the poller cancelled.
ContextEnds ==
    /\ phase # "ended"
    /\ ~ctxDone
    /\ ctxDone' = TRUE
    /\ UNCHANGED <<kind, forRequest, phase, items, rows, doubt, after, total, i,
                   res, server>>

\* Tally does not answer, or a lane that is no snapshot cannot parse the answer.
ReadFails ==
    /\ phase \in {"ledgers", "reading"}
    /\ phase' = "ended"
    /\ res' = [res EXCEPT !.fatal = TRUE]
    /\ UNCHANGED <<kind, forRequest, ctxDone, items, rows, doubt, after, total,
                   i, server>>

LedgersRead ==
    /\ phase = "ledgers"
    /\ ~ctxDone
    /\ phase' = "reading"
    /\ UNCHANGED <<kind, forRequest, ctxDone, items, rows, doubt, after, total, i,
                   res, server>>

\* incomplete(): one empty final batch withdraws what an earlier snapshot
\* claimed.  The run then fails when an answer could not be parsed, and
\* succeeds when Tally merely listed no tax ledger.
SendIncomplete(next) ==
    /\ kind \in Snapshots
    /\ ~ctxDone
    /\ phase' = "sending"
    /\ doubt' = TRUE
    /\ after' = next
    /\ total' = 1
    /\ UNCHANGED <<kind, forRequest, ctxDone, items, rows, i, res, server>>

SnapshotUnreadable == phase \in {"ledgers", "reading"} /\ SendIncomplete("fail")
NoTaxLedgers == phase = "ledgers" /\ SendIncomplete("ok")

\* The parser handed on n vouchers (tax ledgers); d of them could not be turned
\* into rows and the others gave r rows.  Only the invoice lane records a warning
\* that names the dropped ones.  n is not what Tally has: the parser leaves out a
\* voucher that does not decode or has no identity and a ledger without a name,
\* and an error Tally answered with reads as nothing; the lane cannot know of
\* either.  A lane with nothing to send ends here.
VouchersRead(n, r, d) ==
    /\ kind \notin Snapshots
    /\ phase = "reading"
    /\ ~ctxDone
    /\ d <= n
    /\ n = d => r = 0                            \* rows come from vouchers kept
    /\ kind # "invoice" => r + d <= n            \* one row a voucher, at most
    /\ kind = "tax_ledger" => d = 0
    /\ items' = n
    /\ rows' = r
    /\ res' = [res EXCEPT !.dropped = d, !.warned = (kind = "invoice" /\ d > 0)]
    /\ total' = IF ZeroRowLane(n, r) THEN 1 ELSE NumChunks(r)
    /\ phase' = IF r = 0 /\ ~ZeroRowLane(n, r) THEN "ended" ELSE "sending"
    /\ UNCHANGED <<kind, forRequest, ctxDone, doubt, after, i, server>>

\* SelectTaxLedgerVouchers kept r of n vouchers; strange says some were dated
\* outside the window or unreadably.  This lane's parser refuses an answer it
\* cannot read in full.  With no row there is still one batch.
SnapshotRead(n, r, strange) ==
    /\ kind \in Snapshots
    /\ phase = "reading"
    /\ ~ctxDone
    /\ r <= n
    /\ strange => n > 0
    /\ items' = n
    /\ rows' = r
    /\ doubt' = strange
    /\ total' = IF r = 0 THEN 1 ELSE NumChunks(r)
    /\ after' = "check"
    /\ phase' = "sending"
    /\ UNCHANGED <<kind, forRequest, ctxDone, i, res, server>>

-----------------------------------------------------------------------------
(* Sending the batches, in order, whatever became of the earlier ones.     *)

\* BuildBatches: the last batch is the final one.
IsFinal(b) == b = total

\* Mutants: the batches that failed are forgotten; every batch is the last.
ClaimOfForgetsFailures(b) ==
    IF ~IsFinal(b) THEN "none"
    ELSE IF kind \notin Snapshots THEN "closed"
    ELSE IF doubt THEN "incomplete"
    ELSE "complete"

ClaimOfEveryBatch(b) ==
    IF kind \notin Snapshots THEN "closed"
    ELSE IF doubt \/ res.failed > 0 THEN "incomplete"
    ELSE "complete"

\* The claim the batch makes when the server stores it.
ClaimOf(b) ==
    IF ~IsFinal(b) THEN "none"
    ELSE IF kind \notin Snapshots THEN "closed"
    ELSE IF doubt \/ res.failed > 0 THEN "incomplete"
    ELSE "complete"

Store(b) == server' = [landed |-> server.landed \cup {b},
                       named |-> server.named \/ res.warned,
                       claim |-> ClaimOf(b)]

\* Mutant: the loop's index moves twice.
AttemptTwice ==
    /\ phase = "sending"
    /\ i < total
    /\ ~ctxDone
    /\ i' = i + 2
    /\ UNCHANGED <<kind, forRequest, ctxDone, items, rows, doubt, after, total>>

Attempt ==
    /\ phase = "sending"
    /\ i < total
    /\ ~ctxDone
    /\ i' = i + 1
    /\ UNCHANGED <<kind, forRequest, ctxDone, items, rows, doubt, after, total>>

\* A 2xx the agent could read.  e is what the server counts as rejected rows,
\* which only the invoice lane's answer type lets the agent add up.
BatchAccepted(e) ==
    /\ Attempt
    /\ kind # "invoice" => e = 0
    /\ Store(i + 1)
    /\ res' = [res EXCEPT !.sent = @ + 1, !.serverErrors = @ + e]
    /\ phase' = IF i' = total THEN "sent" ELSE phase

\* Mutant: the batch counts as sent and as failed.
AnswerLostTwice ==
    /\ Attempt
    /\ Store(i + 1)
    /\ res' = [res EXCEPT !.sent = @ + 1, !.failed = @ + 1]
    /\ phase' = IF i' = total THEN "sent" ELSE phase

\* The server stored the batch but its answer was lost or could not be read.
AnswerLost ==
    /\ Attempt
    /\ Store(i + 1)
    /\ res' = [res EXCEPT !.failed = @ + 1]
    /\ phase' = IF i' = total THEN "sent" ELSE phase

\* Mutant: a rejected credential is noted and not counted.
BatchRefusedUncounted(isAuth) ==
    /\ Attempt
    /\ res' = [res EXCEPT !.failed = IF isAuth THEN @ ELSE @ + 1, !.auth = @ \/ isAuth]
    /\ phase' = IF i' = total THEN "sent" ELSE phase
    /\ UNCHANGED server

\* The server refused the batch, or was never reached.
BatchRefused(isAuth) ==
    /\ Attempt
    /\ res' = [res EXCEPT !.failed = @ + 1, !.auth = @ \/ isAuth]
    /\ phase' = IF i' = total THEN "sent" ELSE phase
    /\ UNCHANGED server

\* 404 or 405 from a server that predates the snapshot lane.
LaneUnsupported ==
    /\ kind \in Snapshots
    /\ Attempt
    /\ res' = [res EXCEPT !.unsupported = TRUE]
    /\ phase' = "sent"
    /\ UNCHANGED server

\* The check at the top of the loop.
Abort ==
    /\ phase = "sending"
    /\ i < total
    /\ ctxDone
    /\ phase' = IF kind \in Snapshots THEN "sent" ELSE "ended"
    /\ res' = [res EXCEPT !.fatal = kind \notin Snapshots]
    /\ UNCHANGED <<kind, forRequest, ctxDone, items, rows, doubt, after, total, i,
                   server>>

Return ==
    /\ phase = "sent"
    /\ phase' = "ended"
    /\ res' = [res EXCEPT !.fatal = after = "fail" \/ (after = "check" /\ ctxDone)]
    /\ UNCHANGED <<kind, forRequest, ctxDone, items, rows, doubt, after, total, i,
                   server>>

-----------------------------------------------------------------------------
Read ==
    \/ ReadFails
    \/ LedgersRead
    \/ SnapshotUnreadable
    \/ NoTaxLedgers
    \/ \E n, r, d \in 0 .. MaxItems : VouchersRead(n, r, d)
    \/ \E n, r \in 0 .. MaxItems, strange \in BOOLEAN : SnapshotRead(n, r, strange)

Send ==
    \/ \E e \in 0 .. 1 : BatchAccepted(e)
    \/ AnswerLost
    \/ \E isAuth \in BOOLEAN : BatchRefused(isAuth)
    \/ LaneUnsupported

Next == ContextEnds \/ Read \/ Send \/ Abort \/ Return

Spec == Init /\ [][Next]_vars

-----------------------------------------------------------------------------
\* A month the server believes complete is complete: every row the agent
\* selected is in a batch the server stored, and no voucher's date was strange.
\* The server retires what a complete snapshot does not list, so a wrong claim
\* would delete good vouchers (run_kinds.go:612-622, 716-789).
CompleteSnapshotIsWhole ==
    server.claim = "complete" =>
        /\ ~doubt
        /\ \A r \in 1 .. rows : \E b \in server.landed : r \in Chunk(rows, b)

\* The empty final batch of a lane that is no snapshot reports zero rows only
\* for a sync request and only when the parser handed on nothing: vouchers that
\* were read and could not be turned into rows are never reported as zero
\* (run_kinds.go:95-100, 536-543).
ZeroRowsHideNothingRead ==
    kind \notin Snapshots /\ server.claim = "closed" /\ rows = 0
        => items = 0 /\ forRequest

\* A run that reports no failure and no unsupported lane left every one of its
\* rows on the server: the walk's counters, from which the connection status
\* is made, hide no lost batch (run_kinds.go:123-160, 771-788).
CleanRunLandedEveryRow ==
    phase = "ended" /\ ~res.fatal /\ res.failed = 0 /\ ~res.unsupported
        => \A r \in 1 .. rows : \E b \in server.landed : r \in Chunk(rows, b)

\* Every batch attempted is counted once, as sent, as failed or as the one that
\* showed the lane unsupported; a batch counted as sent is one the server
\* stored (run_kinds.go:123-160, 737-788).
BatchesAccountedFor ==
    /\ res.sent + res.failed + (IF res.unsupported THEN 1 ELSE 0) = i
    /\ server.landed \subseteq 1 .. i
    /\ res.failed = 0 => \A b \in 1 .. res.sent : b \in server.landed

\* Every lane keeps the promise stated in Publication.
PublishedClaim ==
    IF server.claim = "none" THEN "none"
    ELSE IF server.claim = "complete" THEN "whole" ELSE "partial"

Abstract == INSTANCE Publication WITH
    chunks <- 1 .. total,
    delivered <- server.landed,
    claim <- PublishedClaim

ImplementsPublication == Abstract!Spec

\* The comment on the invoice lane: "A voucher the agent cannot turn into a row
\* is never dropped silently: sync health names it" (run_kinds.go:81-82).
DroppedVouchersAreNamed ==
    kind = "invoice" /\ phase = "ended" /\ ~res.fatal /\ res.failed = 0
        => (res.dropped > 0 => server.named)
=============================================================================
