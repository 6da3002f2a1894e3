-------------------------- MODULE Normalise_proofs --------------------------
(***************************************************************************)
(* What Normalise's rows can be trusted for, for amounts, legs and bills   *)
(* of any number and size.                                                 *)
(***************************************************************************)
EXTENDS Normalise, TLAPS

Exact == ValueBuckets \cup {"net"}

\* The base is taken from the inventory once, behind the last leg.
NoInventoryYet == at = "legs" => sums["inventory"] = 0

\* What a missing flag says of the sums and of the amounts made of them.
FlagsTell ==
    /\ "rcm" \notin flags => sums["rcmLiability"] = 0
    /\ at \in {"wire", "rows", "sent"} /\ "unbalanced" \notin flags
         => Abs(Established(sums) - Abs(party)) <= 1
    /\ at \in {"rows", "sent"} /\ "negative" \notin flags
         => \A b \in Buckets : wire[b] = Bucket(b, sums)

\* The rows before the last carry what has been given away.
PartsCounted ==
    /\ cut >= 0
    /\ at # "sent" => \A b \in Exact : sent[b] = acc[b]
    /\ at # "sent" /\ (at # "rows" \/ bills <= 1) => \A b \in Buckets : sent[b] = 0

IInv == TypeOK /\ NoInventoryYet /\ EveryLegCountsOnce /\ FlagsTell /\ PartsCounted /\ RowsAddUp

-----------------------------------------------------------------------------
\* What classifyLeg decides is a role the sums know.
LEMMA DecisionsAreRoles ==
    \A b \in Books : \A d \in Decisions[b] : d.role \in Roles /\ d.flagged \in BOOLEAN
<1> SUFFICES ASSUME NEW b \in Books, NEW f \in Facts
             PROVE  classifyLeg(f, b).role \in Roles /\ classifyLeg(f, b).flagged \in BOOLEAN
  BY DEF Decisions
<1> USE DEF Facts, Roles, Heads, NoHead, Decision
<1>1. ByWord(f) \in Roles
  BY DEF ByWord
<1>2. NotADuty(f).role \in Roles /\ NotADuty(f).flagged \in BOOLEAN
  BY <1>1 DEF NotADuty
<1>3. ByGroup(f).role \in Roles /\ ByGroup(f).flagged \in BOOLEAN
  BY DEF ByGroup
<1>4. ByMaster(f).role \in Roles /\ ByMaster(f).flagged \in BOOLEAN
  BY DEF ByMaster, DutyHeadOrName
<1>5. WithoutBook(f).role \in Roles /\ WithoutBook(f).flagged \in BOOLEAN
  BY <1>1 DEF WithoutBook
<1> HIDE DEF Facts, Roles, Heads, NoHead, Decision
<1>6. classifyLeg(f, b) \in {WithoutBook(f), NotADuty(f), ByGroup(f), ByMaster(f)}
  BY DEF classifyLeg
<1> QED
  BY <1>2, <1>3, <1>4, <1>5, <1>6

\* A name alone never makes a leg GST.
THEOREM NameIsNoEvidence == TaxHasEvidence
<1> SUFFICES ASSUME NEW f \in Facts, NEW b \in Books, classifyLeg(f, b).role \in Heads
             PROVE  /\ IF b = "none" THEN f.classHead # NoHead ELSE f.member
                    /\ \/ classifyLeg(f, b).flagged
                       \/ b = "none" /\ classifyLeg(f, b).role = f.classHead
                       \/ b = "masters" /\ classifyLeg(f, b).role = f.dutyHead
  BY DEF TaxHasEvidence
<1> USE DEF Facts, Heads, NoHead, Decision
<1>1. ByWord(f) \notin Heads
  BY DEF ByWord
<1>2. CASE b = "none"
  BY <1>1, <1>2 DEF classifyLeg, WithoutBook
<1>3. CASE b # "none" /\ ~f.member
  BY <1>1, <1>3 DEF classifyLeg, NotADuty
<1>4. CASE b = "groups" /\ f.member
  BY <1>4 DEF classifyLeg, ByGroup
<1>5. CASE b = "masters" /\ f.member
  BY <1>5 DEF classifyLeg, ByMaster, DutyHeadOrName
<1> QED
  BY <1>2, <1>3, <1>4, <1>5 DEF Books

-----------------------------------------------------------------------------
(* Arithmetic.                                                             *)

\* A leg added under one of the slots moves what is established by its amount.
LEMMA OneLeg ==
    ASSUME NEW s \in [Sums -> Int], NEW role \in Roles, NEW n \in Int
    PROVE  LET slot == Under(role, n)
               t == [s EXCEPT ![slot] = @ + Signed(slot, n)]
           IN  /\ t \in [Sums -> Int]
               /\ slot \in Sums \ {"inventory"}
               /\ Established(t) = Established(s) + n
<1> DEFINE slot == Under(role, n)
           t == [s EXCEPT ![slot] = @ + Signed(slot, n)]
<1>1. slot \in (Sums \ {"inventory"}) /\ Signed(slot, n) \in Int
  BY DEF Under, Signed, Roles, Sums, Heads
<1>2. t \in [Sums -> Int]
  BY <1>1
<1>3. Established(t) = Established(s) + n
  <2>1. /\ t[slot] = s[slot] + Signed(slot, n)
        /\ \A r \in Sums : r # slot => t[r] = s[r]
        /\ \A r \in Sums : s[r] \in Int /\ t[r] \in Int
    BY <1>1, <1>2
  <2> HIDE DEF slot, t
  <2>2. CASE slot \in {"tds", "rcmLiability"}
    BY <1>1, <2>1, <2>2 DEF Signed, Established, gross, taxable, total, Sums, Heads
  <2>3. CASE slot \in {"base", "freight", "discount", "adjustment"}
    BY <1>1, <2>1, <2>3 DEF Signed, Established, gross, taxable, total, Sums, Heads
  <2>4. CASE slot \in Heads
    BY <1>1, <2>1, <2>4 DEF Signed, Established, gross, taxable, total, Sums, Heads
  <2>5. CASE slot \in {"rounding", "other_duty", "uncertain", "tcs"}
    BY <1>1, <2>1, <2>5 DEF Signed, Established, gross, taxable, total, Sums, Heads
  <2> QED
    BY <1>1, <2>2, <2>3, <2>4, <2>5 DEF Sums
<1> QED
  BY <1>1, <1>2, <1>3

\* A share rounded to a paisa is a whole number of them.
LEMMA SharesAreInt ==
    ASSUME NEW n \in Int, NEW k \in Int, NEW d \in Int
    PROVE  scaled(n, k, d) \in Int
<1> DEFINE m == n * k * (IF d < 0 THEN -1 ELSE 1)
           e == Abs(d)
<1>1. m \in Int /\ e \in Int /\ (d # 0 => e > 0)
  BY DEF Abs
<1> HIDE DEF m, e
<1>2. d # 0 => Nearest(m, e) \in Int
  BY <1>1 DEF Nearest
<1> QED
  BY <1>2 DEF scaled, m, e

\* The amounts made of the sums are whole paise.
LEMMA BucketsAreInt ==
    ASSUME NEW s \in [Sums -> Int], party \in Int, NEW b \in Buckets
    PROVE  Bucket(b, s) \in Int
<1>1. gross(s) \in Int /\ taxable(s) \in Int /\ Abs(party) \in Int
  BY DEF gross, taxable, total, Sums, Heads, Abs
<1>2. b \notin {"gross", "taxable", "net"} => b \in Sums
  BY DEF Buckets, Sums
<1> QED
  BY <1>1, <1>2 DEF Bucket

-----------------------------------------------------------------------------
\* The initial states satisfy the invariant: nothing is read or sent.
LEMMA InitInv == Init => IInv
<1> SUFFICES ASSUME Init PROVE IInv
  OBVIOUS
<1> USE DEF Init, Nothing
<1>1. TypeOK
  BY DEF TypeOK, Flags, Amounts
<1>2. \A r \in Sums : sums[r] = 0
  OBVIOUS
<1>3. NoInventoryYet /\ EveryLegCountsOnce
  BY <1>2 DEF NoInventoryYet, EveryLegCountsOnce, Established, gross, taxable, total, Sums, Heads
<1>4. FlagsTell
  BY <1>2 DEF FlagsTell, Sums
<1>5. PartsCounted /\ RowsAddUp
  BY DEF PartsCounted, RowsAddUp, Exact, ValueBuckets, Buckets
<1> QED
  BY <1>1, <1>3, <1>4, <1>5 DEF IInv

\* A leg keeps it: its amount moves the sums and what is established alike.
LEMMA ReadLegInv ==
    ASSUME IInv, NEW d, d.role \in Roles, d.flagged \in BOOLEAN, NEW amount \in Amounts,
           ReadLeg(d, amount)
    PROVE  IInv'
<1> DEFINE n == Facing(amount)
           slot == Under(d.role, n)
<1>1. TypeOK /\ n \in Int
  BY DEF IInv, TypeOK, Facing, Amounts
<1>2. /\ sums' \in [Sums -> Int]
      /\ slot \in Sums \ {"inventory"}
      /\ Established(sums') = Established(sums) + n
  <2> HIDE DEF n
  <2> QED
    BY <1>1, OneLeg DEF ReadLeg, TypeOK, n
<1>3. /\ at = "legs" /\ legsum' = legsum + n
      /\ sums' = [sums EXCEPT ![slot] = @ + Signed(slot, n)]
      /\ slot = "rcmLiability" => "rcm" \in flags'
      /\ flags \subseteq flags' /\ flags' \subseteq Flags
      /\ UNCHANGED <<at, book, rcm, party, wire, bills, cut, acc, row, sent>>
      /\ read' = read + 1
  BY <1>1 DEF ReadLeg, rowVars, TypeOK, Flags
<1> HIDE DEF n, slot
<1>4. TypeOK'
  BY <1>1, <1>2, <1>3 DEF TypeOK
<1>5. NoInventoryYet' /\ EveryLegCountsOnce'
  <2>1. sums'["inventory"] = sums["inventory"] /\ sums["inventory"] = 0
    BY <1>1, <1>2, <1>3 DEF IInv, NoInventoryYet, Sums, TypeOK
  <2>2. legsum \in Int /\ Established(sums) = legsum + 0
    BY <1>1, <2>1 DEF IInv, EveryLegCountsOnce, TypeOK
  <2>3. legsum' + 0 = Established(sums')
    BY <1>1, <1>2, <1>3, <2>2
  <2> QED
    BY <1>1, <1>3, <2>1, <2>3 DEF NoInventoryYet, EveryLegCountsOnce, Established, gross, taxable, total
<1>6. FlagsTell'
  <2>1. slot # "rcmLiability" => sums'["rcmLiability"] = sums["rcmLiability"]
    BY <1>1, <1>2, <1>3 DEF TypeOK, Sums
  <2> QED
    BY <1>3, <2>1 DEF IInv, FlagsTell
<1>7. PartsCounted' /\ RowsAddUp'
  BY <1>3 DEF IInv, PartsCounted, RowsAddUp
<1> QED
  BY <1>4, <1>5, <1>6, <1>7 DEF IInv

\* The last leg: the inventory and the flags of the whole voucher.
LEMMA LegsEndInv ==
    ASSUME IInv, NEW items \in Amounts, LegsEnd(items)
    PROVE  IInv'
<1>1. /\ TypeOK /\ items \in Int /\ at = "legs" /\ at' = "wire"
      /\ sums["inventory"] = 0 /\ Established(sums) = legsum
      /\ UNCHANGED <<book, rcm, party, read, legsum, wire, bills, cut, acc, row, sent>>
  BY DEF IInv, LegsEnd, NoInventoryYet, EveryLegCountsOnce, TypeOK, rowVars, Amounts
<1>2. /\ sums' \in [Sums -> Int]
      /\ Established(sums') = legsum + sums'["inventory"]
      /\ sums'["rcmLiability"] = sums["rcmLiability"]
  <2>1. CASE sums' = sums
    BY <1>1, <2>1 DEF TypeOK
  <2>2. CASE sums' = [sums EXCEPT !["inventory"] = items]
    <3>1. /\ sums' \in [Sums -> Int]
          /\ sums'["inventory"] = items
          /\ \A r \in Sums : r # "inventory" => sums'[r] = sums[r]
          /\ \A r \in Sums : sums[r] \in Int
      BY <1>1, <2>2 DEF TypeOK, Sums
    <3>2. Established(sums') = Established(sums) + items
      BY <1>1, <3>1 DEF Established, gross, taxable, total, Sums, Heads
    <3> QED
      BY <1>1, <3>1, <3>2 DEF Sums
  <2> QED
    BY <2>1, <2>2 DEF LegsEnd
<1>3. /\ flags \subseteq flags' /\ flags' \subseteq Flags
      /\ "unbalanced" \notin flags' => ~(Abs(Established(sums') - Abs(party)) > 1)
  BY <1>1 DEF LegsEnd, TypeOK, Flags
<1>4. Abs(Established(sums') - Abs(party)) \in Int
  BY <1>1, <1>2 DEF TypeOK, Abs, Sums
<1>5. TypeOK'
  BY <1>1, <1>2, <1>3 DEF TypeOK
<1>6. NoInventoryYet' /\ EveryLegCountsOnce'
  BY <1>1, <1>2 DEF NoInventoryYet, EveryLegCountsOnce, Established, gross, taxable, total
<1>7. FlagsTell'
  <2>1. "unbalanced" \notin flags' => Abs(Established(sums') - Abs(party)) <= 1
    BY <1>3, <1>4
  <2> QED
    BY <1>1, <1>2, <1>3, <2>1 DEF IInv, FlagsTell, Established, Abs, gross, taxable, total
<1>8. PartsCounted' /\ RowsAddUp'
  BY <1>1 DEF IInv, PartsCounted, RowsAddUp
<1> QED
  BY <1>5, <1>6, <1>7, <1>8 DEF IInv

\* The amounts of the wire are those of the sums, or a flag says which were cut.
LEMMA WireInv == ASSUME IInv, wireAmounts PROVE IInv'
<1>1. /\ TypeOK /\ at = "wire" /\ at' = "rows" /\ bills' \in Int
      /\ UNCHANGED <<book, rcm, party, read, sums, legsum, cut, acc, row, sent>>
      /\ flags \subseteq flags' /\ flags' \subseteq Flags
      /\ "negative" \notin flags' => \A b \in Buckets : ~(Bucket(b, sums) < 0)
  BY DEF IInv, wireAmounts, readVars, TypeOK, Flags
<1>2. \A b \in Buckets : Bucket(b, sums) \in Int
  BY <1>1, BucketsAreInt DEF TypeOK
<1>3. /\ wire' \in [Buckets -> Int]
      /\ \A b \in Buckets : ~(Bucket(b, sums) < 0) => wire'[b] = Bucket(b, sums)
  BY <1>2 DEF wireAmounts, AtLeastZero
<1>4. TypeOK'
  BY <1>1, <1>3 DEF TypeOK
<1>5. NoInventoryYet' /\ EveryLegCountsOnce'
  BY <1>1 DEF IInv, NoInventoryYet, EveryLegCountsOnce, Established, gross, taxable, total
<1>6. FlagsTell'
  <2>1. sums' = sums /\ party' = party
    BY <1>1
  <2>2. \A b \in Buckets : Bucket(b, sums)' = Bucket(b, sums)
    BY <2>1 DEF Bucket, gross, taxable, total, Abs
  <2>3. (Abs(Established(sums) - Abs(party)))' = Abs(Established(sums) - Abs(party))
    BY <2>1 DEF Established, Abs, gross, taxable, total
  <2>4. /\ "rcm" \notin flags => sums["rcmLiability"] = 0
        /\ "unbalanced" \notin flags => Abs(Established(sums) - Abs(party)) <= 1
    BY <1>1 DEF IInv, FlagsTell
  <2> QED
    BY <1>1, <1>3, <2>1, <2>2, <2>3, <2>4 DEF FlagsTell
<1>7. PartsCounted' /\ RowsAddUp'
  BY <1>1 DEF IInv, PartsCounted, RowsAddUp
<1> QED
  BY <1>4, <1>5, <1>6, <1>7 DEF IInv

\* The rows leave the sums alone.
LEMMA RowsKeepSums ==
    ASSUME IInv, UNCHANGED <<readVars, wire>>, at = "rows", at' \in {"rows", "sent"},
           flags \subseteq flags'
    PROVE  NoInventoryYet' /\ EveryLegCountsOnce' /\ FlagsTell'
<1>1. sums' = sums /\ party' = party /\ legsum' = legsum /\ wire' = wire
  BY DEF readVars
<1>2. NoInventoryYet' /\ EveryLegCountsOnce'
  BY <1>1 DEF IInv, NoInventoryYet, EveryLegCountsOnce, Established, gross, taxable, total
<1>3. FlagsTell'
  <2>1. \A b \in Buckets : Bucket(b, sums)' = Bucket(b, sums)
    BY <1>1 DEF Bucket, gross, taxable, total, Abs
  <2>2. (Abs(Established(sums) - Abs(party)))' = Abs(Established(sums) - Abs(party))
    BY <1>1 DEF Established, Abs, gross, taxable, total
  <2>3. /\ "rcm" \notin flags => sums["rcmLiability"] = 0
        /\ "unbalanced" \notin flags => Abs(Established(sums) - Abs(party)) <= 1
        /\ "negative" \notin flags => \A b \in Buckets : wire[b] = Bucket(b, sums)
    BY DEF IInv, FlagsTell
  <2> QED
    BY <1>1, <2>1, <2>2, <2>3 DEF FlagsTell
<1> QED
  BY <1>2, <1>3

\* What a row carries, added to what the rows before it carried.
LEMMA EmitAdds ==
    ASSUME TypeOK, NEW part \in [Buckets -> Int], Emit(part)
    PROVE  /\ row' \in [Buckets -> Int] /\ sent' \in [Buckets -> Int]
           /\ \A b \in Exact : sent'[b] = sent[b] + part[b]
<1>1. Carried(part) \in [Buckets -> Int] /\ \A b \in Exact : Carried(part)[b] = part[b]
  BY DEF Carried, AtLeastZero, Exact, ValueBuckets, Buckets, Heads
<1> HIDE DEF Carried
<1> QED
  BY <1>1 DEF Emit, plus, TypeOK, Exact, ValueBuckets, Buckets

LEMMA OneRowInv == ASSUME IInv, OneRow PROVE IInv'
<1>1. /\ TypeOK /\ at = "rows" /\ bills <= 1 /\ at' = "sent" /\ Emit(wire)
      /\ wire \in [Buckets -> Int]
      /\ UNCHANGED <<readVars, flags, wire, bills, cut, acc>>
  BY DEF IInv, OneRow, TypeOK
<1>2. /\ row' \in [Buckets -> Int] /\ sent' \in [Buckets -> Int]
      /\ \A b \in Exact : sent'[b] = sent[b] + wire[b]
  BY <1>1, EmitAdds
<1>3. TypeOK'
  BY <1>1, <1>2 DEF TypeOK, readVars
<1>4. NoInventoryYet' /\ EveryLegCountsOnce' /\ FlagsTell'
  BY <1>1, RowsKeepSums
<1>5. \A b \in Exact : sent[b] = 0 /\ wire[b] \in Int
  BY <1>1 DEF IInv, PartsCounted, Exact, ValueBuckets, Buckets
<1>6. PartsCounted' /\ RowsAddUp'
  BY <1>1, <1>2, <1>5 DEF IInv, PartsCounted, RowsAddUp, Exact
<1> QED
  BY <1>3, <1>4, <1>6 DEF IInv

LEMMA BillRowInv == ASSUME IInv, NEW bill \in Amounts, BillRow(bill) PROVE IInv'
<1> DEFINE part == [b \in Buckets |-> scaled(wire[b], bill, party)]
<1>1. /\ TypeOK /\ at = "rows" /\ at' = "rows" /\ Emit(part) /\ acc' = plus(acc, part)
      /\ cut \in Int /\ cut >= 0 /\ bills \in Int /\ cut < bills - 1 /\ cut' = cut + 1
      /\ UNCHANGED <<readVars, flags, wire, bills>>
  BY DEF IInv, BillRow, TypeOK, PartsCounted
<1>2. part \in [Buckets -> Int]
  BY <1>1, SharesAreInt DEF TypeOK, Amounts
<1> HIDE DEF part
<1>3. /\ row' \in [Buckets -> Int] /\ sent' \in [Buckets -> Int]
      /\ \A b \in Exact : sent'[b] = sent[b] + part[b]
  BY <1>1, <1>2, EmitAdds
<1>4. acc' \in [Buckets -> Int] /\ \A b \in Exact : acc'[b] = acc[b] + part[b]
  BY <1>1, <1>2 DEF plus, TypeOK, Exact, ValueBuckets, Buckets
<1>5. TypeOK'
  BY <1>1, <1>3, <1>4 DEF TypeOK, readVars
<1>6. NoInventoryYet' /\ EveryLegCountsOnce' /\ FlagsTell'
  BY <1>1, RowsKeepSums
<1>7. PartsCounted'
  <2>1. \A b \in Exact : sent[b] = acc[b]
    BY <1>1 DEF IInv, PartsCounted
  <2> QED
    BY <1>1, <1>3, <1>4, <2>1 DEF PartsCounted
<1>8. RowsAddUp'
  BY <1>1 DEF RowsAddUp
<1> QED
  BY <1>5, <1>6, <1>7, <1>8 DEF IInv

LEMMA LastRowInv == ASSUME IInv, NEW differ \in BOOLEAN, LastRow(differ) PROVE IInv'
<1>1. /\ TypeOK /\ at = "rows" /\ at' = "sent" /\ Emit(minus(wire, acc))
      /\ flags \subseteq flags' /\ flags' \subseteq Flags
      /\ UNCHANGED <<readVars, wire, bills, cut, acc>>
  BY DEF IInv, LastRow, TypeOK, Flags
<1>2. minus(wire, acc) \in [Buckets -> Int]
  BY <1>1 DEF minus, TypeOK
<1>3. /\ row' \in [Buckets -> Int] /\ sent' \in [Buckets -> Int]
      /\ \A b \in Exact : sent'[b] = sent[b] + minus(wire, acc)[b]
  BY <1>1, <1>2, EmitAdds
<1>4. TypeOK'
  BY <1>1, <1>3 DEF TypeOK, readVars
<1>5. NoInventoryYet' /\ EveryLegCountsOnce' /\ FlagsTell'
  BY <1>1, RowsKeepSums
<1>6. \A b \in Exact : sent'[b] = wire[b]
  <2>1. \A b \in Exact : /\ b \in Buckets /\ sent[b] = acc[b]
                        /\ wire[b] \in Int /\ acc[b] \in Int
    BY <1>1 DEF IInv, PartsCounted, TypeOK, Exact, ValueBuckets, Buckets
  <2>2. \A b \in Exact : minus(wire, acc)[b] = wire[b] - acc[b]
    BY <2>1 DEF minus
  <2> QED
    BY <1>3, <2>1, <2>2
<1>7. PartsCounted' /\ RowsAddUp'
  BY <1>1, <1>6 DEF IInv, PartsCounted, RowsAddUp, Exact
<1> QED
  BY <1>4, <1>5, <1>7 DEF IInv

\* A step that changes nothing keeps it.
LEMMA StutterInv == ASSUME IInv, UNCHANGED vars PROVE IInv'
<1> USE DEF vars, readVars, rowVars
<1>1. TypeOK' /\ NoInventoryYet' /\ PartsCounted' /\ RowsAddUp'
  BY DEF IInv, TypeOK, NoInventoryYet, PartsCounted, RowsAddUp
<1>2. EveryLegCountsOnce'
  BY DEF IInv, EveryLegCountsOnce, Established, gross, taxable, total
<1>3. FlagsTell'
  BY DEF IInv, FlagsTell, Bucket, Established, gross, taxable, total, Abs
<1> QED
  BY <1>1, <1>2, <1>3 DEF IInv

\* Every step keeps it.
LEMMA StepInv == IInv /\ [Next]_vars => IInv'
<1> SUFFICES ASSUME IInv, [Next]_vars PROVE IInv'
  OBVIOUS
<1>1. ASSUME NEW d \in Decisions[book], NEW amount \in Amounts, ReadLeg(d, amount)
      PROVE  IInv'
  <2>1. d.role \in Roles /\ d.flagged \in BOOLEAN
    BY DecisionsAreRoles DEF IInv, TypeOK
  <2> QED
    BY <1>1, <2>1, ReadLegInv
<1>2. ASSUME NEW items \in Amounts, LegsEnd(items) PROVE IInv'
  BY <1>2, LegsEndInv
<1>3. CASE wireAmounts
  BY <1>3, WireInv
<1>4. CASE OneRow
  BY <1>4, OneRowInv
<1>5. ASSUME NEW bill \in Amounts, BillRow(bill) PROVE IInv'
  BY <1>5, BillRowInv
<1>6. ASSUME NEW differ \in BOOLEAN, LastRow(differ) PROVE IInv'
  BY <1>6, LastRowInv
<1>7. CASE UNCHANGED vars
  BY <1>7, StutterInv
<1> QED
  BY <1>1, <1>2, <1>3, <1>4, <1>5, <1>6, <1>7 DEF Next

-----------------------------------------------------------------------------
\* The inductive invariant.
THEOREM Invariance == Spec => []IInv
<1> QED
  BY InitInv, StepInv, PTL DEF Spec

\* No leg is lost, counted twice or counted with the wrong sign.
THEOREM LegsCountOnce == Spec => []EveryLegCountsOnce
<1>1. IInv => EveryLegCountsOnce
  BY DEF IInv
<1> QED
  BY <1>1, Invariance, PTL

\* The rows of a voucher add up to it, whatever its bills.
THEOREM RowsAddUpToTheVoucher == Spec => []RowsAddUp
<1>1. IInv => RowsAddUp
  BY DEF IInv
<1> QED
  BY <1>1, Invariance, PTL

\* A row without a flag adds up to the party's amount.
THEOREM UnflaggedRowsAreRight == Spec => []UnflaggedRowsBalance
<1>1. IInv => UnflaggedRowsBalance
  <2> SUFFICES ASSUME IInv, at \in {"rows", "sent"}, flags = {}
               PROVE  Abs(wire["gross"] - wire["tds"] + wire["tcs"] - wire["net"]) <= 1
    BY DEF UnflaggedRowsBalance
  <2>1. /\ wire["gross"] = gross(sums) /\ wire["net"] = Abs(party)
        /\ wire["tds"] = sums["tds"] /\ wire["tcs"] = sums["tcs"]
    <3>1. \A b \in Buckets : wire[b] = Bucket(b, sums)
      BY DEF IInv, FlagsTell
    <3> QED
      BY <3>1 DEF Buckets, Bucket
  <2>2. sums["rcmLiability"] = 0 /\ Abs(Established(sums) - Abs(party)) <= 1
    BY DEF IInv, FlagsTell
  <2>3. Established(sums) = gross(sums) - sums["tds"] + sums["tcs"]
    <3>1. gross(sums) \in Int /\ sums["tds"] \in Int /\ sums["tcs"] \in Int
      BY DEF IInv, TypeOK, gross, taxable, total, Sums, Heads
    <3> HIDE DEF gross
    <3> QED
      BY <2>2, <3>1 DEF Established
  <2>4. Established(sums) \in Int /\ Abs(party) \in Int /\ gross(sums) \in Int
        /\ sums["tds"] \in Int /\ sums["tcs"] \in Int
    BY DEF IInv, TypeOK, Established, gross, taxable, total, Abs, Sums, Heads
  <2>5. wire["gross"] - wire["tds"] + wire["tcs"] - wire["net"] = Established(sums) - Abs(party)
    <3> HIDE DEF Established, gross, Abs
    <3> QED
      BY <2>1, <2>3, <2>4
  <2> QED
    BY <2>2, <2>5
<1> QED
  BY <1>1, Invariance, PTL
=============================================================================
