------------------------------ MODULE Normalise ------------------------------
(***************************************************************************)
(* How an invoice voucher becomes rows, Normalize in internal/tally: every *)
(* ledger leg gets one role, each role's amounts are summed, the sums are  *)
(* rounded and cut at zero, and a voucher that settles several bills is    *)
(* split into one row per bill.                                            *)
(*                                                                         *)
(* Amounts are whole paise, which rounds what Go's float64 adds up, and a  *)
(* share of the party amount is exact until it is rounded.  A leg is what  *)
(* is known of it: the marks of its name, its GST class and its master.    *)
(* Kind, side, keys, names and dates of a row are left out.                *)
(***************************************************************************)
EXTENDS Integers

CONSTANTS
    MaxAmount,   \* bound on the amounts, in paise, of either sign
    MaxLegs,     \* bound on the legs beside the party's
    MaxBills     \* bound on the bills the party's leg settles

VARIABLES
    at,          \* the point Normalize has reached
    book,        \* the duty ledgers known: none, from the group tree, from the masters
    rcm,         \* RawVoucher.ReverseCharge
    party,       \* the amount of the party's leg
    read,        \* legs read beside the party's
    sums,        \* roleSums, the party's amount left out
    flags,       \* what the row will be flagged with
    wire,        \* wireAmounts
    bills,       \* bills the party's leg settles
    cut,         \* bills that have their row
    acc,         \* the parts given away
    row,         \* the amounts of the last row
    sent,        \* history: what the rows carry, added up
    legsum       \* history: the legs read, added up as they face the party

readVars == <<book, rcm, party, read, sums, legsum>>
rowVars == <<bills, cut, acc, row, sent>>
vars == <<at, readVars, flags, wire, rowVars>>

Heads == {"IGST", "CGST", "SGST", "CESS"}
NoHead == "none"
Amounts == -MaxAmount .. MaxAmount
Books == {"none", "groups", "masters"}
Buckets == Heads \cup {"gross", "taxable", "tds", "tcs", "net"}
\* What InvoiceValue, TaxableValue and the four tax fields are filled from.
ValueBuckets == Heads \cup {"gross", "taxable"}

Flags == {"evidence", "book", "zero_party", "netted", "rcm", "inventory", "unbalanced",
          "tax_legs_uncertain", "gst_exceeds", "negative", "bills"}

-----------------------------------------------------------------------------
(* The role of a leg: classifyLeg.                                         *)

\* What a leg shows: whether the book has its ledger, the master's type of duty
\* and head, the GST class's head, and what the words of its name mention.  A type
\* of duty that is empty or "Others" is "".
Facts == [member : BOOLEAN, taxType : {"", "GST", "TDS", "TCS", "other"},
          dutyHead : Heads \cup {NoHead}, classHead : Heads \cup {NoHead},
          nameHead : Heads \cup {NoHead}, withheld : {"none", "tds", "tcs"},
          word : {"base", "freight", "discount", "rounding"}, commercial : BOOLEAN]

Sums == Heads \cup {"base", "freight", "discount", "adjustment", "rounding", "other_duty",
                    "uncertain", "tds", "tcs", "rcmLiability", "inventory"}
\* The roles a leg can be summed under: a tax leg under its head, a withholding
\* leg under its kind.
Roles == Heads \cup {"base", "freight", "discount", "rounding", "other_duty", "uncertain",
                     "tds", "tcs"}

Decision(role, flagged) == [role |-> role, flagged |-> flagged]

\* classifyByName: what is not GST by its evidence.
ByWord(f) == IF f.withheld # "none" THEN f.withheld ELSE f.word

\* The ledger is none of the company's duty ledgers: never tax, whatever it says.
NotADuty(f) ==
    Decision(ByWord(f), f.withheld = "none" /\ (\/ f.nameHead # NoHead /\ ~f.commercial
                                                \/ f.classHead # NoHead))

\* The master decides; GST withheld from the party is known by its name alone.
DutyHeadOrName(f) == IF f.dutyHead # NoHead THEN f.dutyHead ELSE f.nameHead

ByMaster(f) ==
    IF f.taxType \in {"TDS", "TCS"} THEN Decision(IF f.taxType = "TDS" THEN "tds" ELSE "tcs", FALSE)
    ELSE IF f.withheld # "none" THEN Decision(f.withheld, TRUE)
    ELSE IF f.taxType = "GST" /\ f.dutyHead # NoHead THEN Decision(f.dutyHead, FALSE)
    ELSE IF f.taxType = "GST" /\ f.nameHead # NoHead THEN Decision(f.nameHead, TRUE)
    ELSE IF f.taxType = "GST" THEN Decision("uncertain", TRUE)
    ELSE IF f.taxType = "" /\ DutyHeadOrName(f) # NoHead THEN Decision(DutyHeadOrName(f), TRUE)
    ELSE Decision("other_duty", f.nameHead # NoHead)

\* classifyDutyGroupLeg: the group tree says that it is a duty ledger, not which.
ByGroup(f) ==
    IF f.withheld # "none" THEN Decision(f.withheld, FALSE)
    ELSE IF f.nameHead # NoHead THEN Decision(f.nameHead, TRUE)
    ELSE Decision("other_duty", FALSE)

\* Without a book the GST class is the only evidence.
WithoutBook(f) ==
    IF f.classHead # NoHead
    THEN IF f.withheld # "none" THEN Decision(f.withheld, TRUE) ELSE Decision(f.classHead, FALSE)
    ELSE IF f.nameHead # NoHead /\ f.withheld = "none" /\ ~f.commercial
    THEN Decision("uncertain", TRUE)
    ELSE Decision(ByWord(f), FALSE)

classifyLeg(f, b) ==
    IF b = "none" THEN WithoutBook(f)
    ELSE IF ~f.member THEN NotADuty(f)
    ELSE IF b = "groups" THEN ByGroup(f)
    ELSE ByMaster(f)

\* What can come of a leg.
Decisions == [b \in Books |-> {classifyLeg(f, b) : f \in Facts}]

-----------------------------------------------------------------------------
(* The sums.                                                               *)

total(s) == s["IGST"] + s["CGST"] + s["SGST"] + s["CESS"]
taxable(s) == s["base"] + s["freight"] + s["discount"] + s["adjustment"] + s["inventory"]
gross(s) == taxable(s) + total(s) + s["rounding"] + s["other_duty"] + s["uncertain"]
\* What the legs establish against the party.
Established(s) == gross(s) - s["tds"] + s["tcs"] - s["rcmLiability"]

Abs(n) == IF n < 0 THEN -n ELSE n
\* The side opposite the party is positive; a party of nothing counts as a debit.
Facing(n) == IF party > 0 THEN -n ELSE n

Nothing == [b \in Buckets |-> 0]

TypeOK ==
    /\ at \in {"legs", "wire", "rows", "sent", "dropped"}
    /\ book \in Books
    /\ rcm \in BOOLEAN
    /\ party \in Int
    /\ read \in Int
    /\ sums \in [Sums -> Int]
    /\ flags \subseteq Flags
    /\ wire \in [Buckets -> Int]
    /\ bills \in Int /\ cut \in Int
    /\ acc \in [Buckets -> Int] /\ row \in [Buckets -> Int] /\ sent \in [Buckets -> Int]
    /\ legsum \in Int

\* A cancelled voucher gives no row; the others have a party, or are dropped.
\* The party is the ledger Tally marks, or else the leg with the largest amount
\* among those that settle bills and are no duty: any leg can be it.
Init ==
    /\ at \in {"legs", "dropped"}
    /\ book \in Books
    /\ rcm \in BOOLEAN
    /\ party \in Amounts
    /\ read = 0
    /\ sums = [r \in Sums |-> 0]
    /\ flags = {f \in {"book", "zero_party"} : IF f = "book" THEN book # "masters" ELSE party = 0}
    /\ wire = Nothing
    /\ bills = 0 /\ cut = 0
    /\ acc = Nothing /\ row = Nothing /\ sent = Nothing
    /\ legsum = 0

\* Where an amount that faces the party is added, with its sign: a purchase or a
\* freight on the party's side is an adjustment, reverse-charge GST there is the
\* party's own liability, and tax is withheld from the party.
Under(role, n) ==
    IF role \in {"base", "freight"} /\ n < 0 THEN "adjustment"
    ELSE IF role \in Heads /\ n < 0 /\ rcm THEN "rcmLiability"
    ELSE role

Signed(slot, n) == IF slot \in {"tds", "rcmLiability"} THEN -n ELSE n

\* The legs that lie on the side their role is not expected on.
Netted(role, n) == (role \in Heads \cup {"base", "freight", "tcs"} /\ n < 0) \/ (role = "tds" /\ n > 0)

ReadLeg(d, amount) ==
    /\ at = "legs"
    /\ read < MaxLegs
    /\ read' = read + 1
    /\ LET n == Facing(amount)
           slot == Under(d.role, n)
       IN  /\ sums' = [sums EXCEPT ![slot] = @ + Signed(slot, n)]
           /\ legsum' = legsum + n
           /\ flags' = flags \cup (IF d.flagged THEN {"evidence"} ELSE {})
                             \cup (IF d.role = "uncertain" THEN {"tax_legs_uncertain"} ELSE {})
                             \cup (IF slot = "rcmLiability" THEN {"rcm"}
                                   ELSE IF Netted(d.role, n) THEN {"netted"} ELSE {})
    /\ UNCHANGED <<at, book, rcm, party, wire, rowVars>>

\* The base stands in the inventory when it closes the gap the legs leave.
TakesInventory(items) ==
    Abs(Facing(party) + legsum) > 1 /\ Abs(Facing(party) + legsum + items) <= 1

LegsEnd(items) ==
    /\ at = "legs"
    /\ at' = "wire"
    /\ LET s == IF TakesInventory(items) THEN [sums EXCEPT !["inventory"] = items] ELSE sums
       IN  /\ sums' = s
           /\ flags' = flags
                \cup (IF TakesInventory(items) THEN {"inventory"} ELSE {})
                \cup (IF Abs(Established(s) - Abs(party)) > 1 THEN {"unbalanced"} ELSE {})
                \cup (IF total(s) > taxable(s) + 1 THEN {"gst_exceeds"} ELSE {})
    /\ UNCHANGED <<book, rcm, party, read, legsum, wire, rowVars>>

\* wireAmounts: nothing below zero, and what is cut is flagged.
Bucket(b, s) ==
    CASE b = "gross" -> gross(s)
      [] b = "taxable" -> taxable(s)
      [] b = "net" -> Abs(party)
      [] OTHER -> s[b]

AtLeastZero(n) == IF n < 0 THEN 0 ELSE n

wireAmounts ==
    /\ at = "wire"
    /\ at' = "rows"
    /\ wire' = [b \in Buckets |-> AtLeastZero(Bucket(b, sums))]
    /\ flags' = flags \cup (IF \E b \in Buckets : Bucket(b, sums) < 0 THEN {"negative"} ELSE {})
    /\ bills' \in 0 .. MaxBills
    /\ UNCHANGED <<readVars, cut, acc, row, sent>>

-----------------------------------------------------------------------------
(* The rows.                                                               *)

\* round2 of n * k / d: to the nearest paisa, halves away from zero.
Nearest(m, d) == IF m < 0 THEN -((d - 2 * m) \div (2 * d)) ELSE (d + 2 * m) \div (2 * d)
scaled(n, k, d) == IF d = 0 THEN 0 ELSE Nearest(n * k * (IF d < 0 THEN -1 ELSE 1), Abs(d))

plus(a, b) == [x \in Buckets |-> a[x] + b[x]]
minus(a, b) == [x \in Buckets |-> a[x] - b[x]]

\* setSourceAmounts leaves out a TDS or TCS amount that is not positive.
Carried(part) == [b \in Buckets |-> IF b \in {"tds", "tcs"} THEN AtLeastZero(part[b]) ELSE part[b]]

Emit(part) ==
    /\ row' = Carried(part)
    /\ sent' = plus(sent, Carried(part))

\* One bill, or none: the row carries the voucher.
OneRow ==
    /\ at = "rows"
    /\ bills <= 1
    /\ Emit(wire)
    /\ at' = "sent"
    /\ UNCHANGED <<readVars, flags, wire, bills, cut, acc>>

\* A bill that is not the last takes its signed share of the party's amount.
BillRow(bill) ==
    /\ at = "rows"
    /\ cut < bills - 1
    /\ LET part == [b \in Buckets |-> scaled(wire[b], bill, party)]
       IN  Emit(part) /\ acc' = plus(acc, part)
    /\ cut' = cut + 1
    /\ UNCHANGED <<at, readVars, flags, wire, bills>>

\* The last takes what is left, whatever its own amount, so the bills may add up to
\* the party's amount or not; when they do not, every row is flagged.
LastRow(differ) ==
    /\ at = "rows"
    /\ bills > 1 /\ cut = bills - 1
    /\ Emit(minus(wire, acc))
    /\ flags' = flags \cup (IF differ THEN {"bills"} ELSE {})
    /\ at' = "sent"
    /\ UNCHANGED <<readVars, wire, bills, cut, acc>>

Next ==
    \/ \E d \in Decisions[book], amount \in Amounts : ReadLeg(d, amount)
    \/ \E items \in Amounts : LegsEnd(items)
    \/ wireAmounts
    \/ OneRow
    \/ \E bill \in Amounts : BillRow(bill)
    \/ \E differ \in BOOLEAN : LastRow(differ)

Spec == Init /\ [][Next]_vars

-----------------------------------------------------------------------------
\* Every leg counts once, with its sign, under one role, whatever its evidence:
\* what the legs establish against the party is what they are, plus the base
\* taken from the inventory.  Else an unbalanced voucher could look balanced.
EveryLegCountsOnce == Established(sums) = legsum + sums["inventory"]

\* A row without a flag can be trusted: what it carries adds up to the party's
\* amount within a paisa, nothing of it was cut, guessed or netted.
UnflaggedRowsBalance ==
    at \in {"rows", "sent"} /\ flags = {} =>
        Abs(wire["gross"] - wire["tds"] + wire["tcs"] - wire["net"]) <= 1

\* "Residual assignment on the last row guarantees every tax + value bucket sums
\* exactly" (internal/tally/normalize.go:112-119): also for shares that are
\* negative, above one or of a party's amount of nothing.  TDS and TCS are no such
\* buckets: a negative residual of theirs is left out of the last row.
RowsAddUp == at = "sent" => \A b \in ValueBuckets \cup {"net"} : sent[b] = wire[b]

\* "A name alone never makes a leg GST" (internal/tally/ledger_roles.go:262-267):
\* a leg that counts as GST is a duty ledger of the company, or has a GST class
\* where no duty ledgers are known; and one whose head is only its name's is flagged.
TaxHasEvidence ==
    \A f \in Facts, b \in Books :
        classifyLeg(f, b).role \in Heads =>
            /\ IF b = "none" THEN f.classHead # NoHead ELSE f.member
            /\ \/ classifyLeg(f, b).flagged
               \/ b = "none" /\ classifyLeg(f, b).role = f.classHead
               \/ b = "masters" /\ classifyLeg(f, b).role = f.dutyHead

\* "Nothing negative goes out" (internal/tally/normalize.go:374-376): cut at zero
\* are the voucher's sums, not the rows they are split into.
NothingNegativeGoesOut == \A b \in ValueBuckets : row[b] >= 0
==============================================================================
