-------------------------- MODULE ReportingProofs --------------------------
(***************************************************************************)
(* Proofs about Reporting, for every number of connections, setters,       *)
(* leaves and data sets and for all bounds of the buffer.                  *)
(***************************************************************************)
EXTENDS Reporting, SequenceTheorems, FunctionTheorems, FiniteSetTheorems,
        WellFoundedInduction, TLAPS

----------------------------------------------------------------------------
(* Sizes                                                                   *)

(***************************************************************************)
(* The data sets are finitely many finite sequences.                       *)
(***************************************************************************)
LEMMA PlacesFinite == IsFiniteSet(Places)
<1> DEFINE S == {DOMAIN DataSets[d] : d \in DOMAIN DataSets}
           f == [d \in DOMAIN DataSets |-> DOMAIN DataSets[d]]
<1>1. IsFiniteSet(S)
  <2>1. f \in Surjection(DOMAIN DataSets, S)
    BY DEF Surjection
  <2> QED
    BY <2>1, FS_Surjection, ReportingAssumption
<1>2. \A T \in S : IsFiniteSet(T)
  <2> SUFFICES ASSUME NEW d \in DOMAIN DataSets
               PROVE  IsFiniteSet(DOMAIN DataSets[d])
    OBVIOUS
  <2>1. Len(DataSets[d]) \in Nat /\ DOMAIN DataSets[d] = 1 .. Len(DataSets[d])
    BY ReportingAssumption, LenProperties
  <2> QED
    BY <2>1, FS_Interval
<1> QED
  BY <1>1, <1>2, FS_UNION DEF Places

(***************************************************************************)
(* _Entry.size is a number.                                                *)
(***************************************************************************)
LEMMA SizeType == ASSUME NEW e PROVE Size(e) \in Nat
<1>1. Includes(e.values) \in SUBSET Places
  BY DEF Includes
<1> QED
  BY <1>1, PlacesFinite, FS_Subset, FS_CardinalityType DEF Size

(***************************************************************************)
(* So is the sum of the sizes of a sequence of entries.                    *)
(***************************************************************************)
LEMMA SizeOfType ==
  ASSUME NEW s \in Seq(Entry) PROVE SizeOf(s) \in Nat
<1> DEFINE S == {kp \in (DOMAIN s) \X Places : s[kp[1]].values[kp[2]] # None}
<1>1. Len(s) \in Nat /\ DOMAIN s = 1 .. Len(s)
  BY LenProperties
<1>2. IsFiniteSet(DOMAIN s)
  BY <1>1, FS_Interval
<1>3. IsFiniteSet((DOMAIN s) \X Places)
  BY <1>2, PlacesFinite, FS_Product
<1>4. S \in SUBSET ((DOMAIN s) \X Places)
  OBVIOUS
<1>5. IsFiniteSet(S)
  BY <1>3, <1>4, FS_Subset
<1> QED
  BY <1>5, FS_CardinalityType DEF SizeOf

(***************************************************************************)
(* The loop of keep() stops before the newest entry, with the buffer       *)
(* within its number of entries, and within its size unless the newest     *)
(* entry alone is left.                                                    *)
(***************************************************************************)
LEMMA DropCountType ==
  ASSUME NEW s \in Seq(Entry), s # <<>>, NEW bytes \in Int
  PROVE  /\ DropCount(s, bytes) \in 0 .. Len(s) - 1
         /\ Len(s) - DropCount(s, bytes) <= MaxEntries
         /\ \/ DropCount(s, bytes) = Len(s) - 1
            \/ bytes - SizeOf(SubSeq(s, 1, DropCount(s, bytes))) <= MaxBytes
<1> DEFINE fits(k) == /\ Len(s) - k <= MaxEntries
                      /\ bytes - SizeOf(SubSeq(s, 1, k)) <= MaxBytes
           T == {k \in 0 .. Len(s) - 1 : k = Len(s) - 1 \/ fits(k)}
           R == OpToRel(<, Nat)
<1>1. Len(s) \in Nat \ {0}
  BY LenProperties, EmptySeq
<1>2. T \subseteq Nat /\ T # {}
  <2>1. Len(s) - 1 \in 0 .. Len(s) - 1 /\ 0 .. Len(s) - 1 \subseteq Nat
    BY <1>1
  <2> HIDE DEF fits
  <2> QED
    BY <2>1
<1>3. PICK n \in T : \A k \in T : <<k, n>> \notin R
  BY <1>2, WFMin, NatLessThanWellFounded
<1>4. \A k \in 0 .. n - 1 : ~fits(k)
  <2> SUFFICES ASSUME NEW k \in 0 .. n - 1, fits(k) PROVE FALSE
    OBVIOUS
  <2>1. k \in T /\ k \in Nat /\ n \in Nat /\ k < n
    BY <1>1
  <2>2. <<k, n>> \in R
    BY <2>1 DEF OpToRel
  <2> QED
    BY <2>1, <2>2, <1>3
<1>5. \E m \in 0 .. Len(s) - 1 : /\ m = Len(s) - 1 \/ fits(m)
                                 /\ \A k \in 0 .. m - 1 : ~fits(k)
  BY <1>3, <1>4
<1>6. /\ DropCount(s, bytes) \in 0 .. Len(s) - 1
      /\ DropCount(s, bytes) = Len(s) - 1 \/ fits(DropCount(s, bytes))
  BY <1>5 DEF DropCount
<1> QED
  BY <1>1, <1>6, ReportingAssumption

----------------------------------------------------------------------------
(* The block                                                               *)

(***************************************************************************)
(* What each operation of the block preserves.  It is BufferContiguous,    *)
(* SessionContiguous and OverflowExact, and two bounds they rest on: what  *)
(* was sent or dropped is older than the next entry, and what was dropped  *)
(* is older than what is buffered.                                         *)
(***************************************************************************)
BlockInv(r) ==
    /\ r \in Rcb
    /\ Len(r.buffer) <= MaxEntries
    /\ \A k \in 1 .. Len(r.buffer) :
          r.buffer[k].id = r.nextEntry - Len(r.buffer) + k - 1
    /\ r.rptEna => \A k \in 1 .. Len(r.out) :
                      r.out[k].id = r.nextEntry - Len(r.out) + k - 1
    /\ r.overflowed <=> r.dropped > r.sent
    /\ r.sent < r.nextEntry
    /\ r.dropped + Len(r.buffer) < r.nextEntry
    /\ ~Buffered => r.buffer = <<>>

(***************************************************************************)
(* What the reservation needs to know of an operation on the block.        *)
(***************************************************************************)
SameMode(q, r) ==
    /\ q.rptEna = r.rptEna
    /\ q.integrityDue = r.integrityDue
    /\ q.integrityTimers = r.integrityTimers
    /\ q.config = r.config

(***************************************************************************)
(* keep() of the entry just numbered.                                      *)
(***************************************************************************)
LEMMA KeepInv ==
  ASSUME NEW r, BlockInv(r), NEW values \in Values
  PROVE  LET e == [id |-> r.nextEntry, values |-> values]
             q == Keep([r EXCEPT !.nextEntry = @ + 1], e)
         IN  /\ q \in Rcb
             /\ SameMode(q, r)
             /\ Len(q.buffer) <= MaxEntries
             /\ q.nextEntry = r.nextEntry + 1
             /\ q.sent = r.sent /\ q.out = r.out /\ q.pending = r.pending
             /\ q.overflowed <=> q.dropped > q.sent
             /\ q.dropped + Len(q.buffer) < q.nextEntry
             /\ \A k \in 1 .. Len(q.buffer) :
                   q.buffer[k].id = q.nextEntry - Len(q.buffer) + k - 1
<1> DEFINE e == [id |-> r.nextEntry, values |-> values]
           r1 == [r EXCEPT !.nextEntry = @ + 1]
           s == Append(r.buffer, e)
           n == DropCount(s, r.bytes + Size(e))
           t == SubSeq(s, n + 1, Len(s))
           q == Keep(r1, e)
<1>0. /\ r \in Rcb
      /\ \A k \in 1 .. Len(r.buffer) :
            r.buffer[k].id = r.nextEntry - Len(r.buffer) + k - 1
      /\ r.overflowed <=> r.dropped > r.sent
      /\ r.dropped + Len(r.buffer) < r.nextEntry
  BY DEF BlockInv
<1>a. /\ r.nextEntry \in Nat /\ r.sent \in Nat /\ r.dropped \in Nat
      /\ r.bytes \in Int /\ r.buffer \in Seq(Entry)
      /\ r.overflowed \in BOOLEAN
  BY <1>0 DEF Rcb
<1>1. r \in Rcb /\ r1 \in Rcb /\ e \in Entry
  <2>1. r.nextEntry + 1 \in Nat
    BY <1>a
  <2>2. r1 \in Rcb
    BY <2>1, <1>0 DEF Rcb
  <2>3. e \in Entry
    BY <1>a DEF Entry
  <2> QED
    BY <1>0, <2>2, <2>3
<1>2. /\ s \in Seq(Entry) /\ s # <<>> /\ Len(s) = Len(r.buffer) + 1
      /\ Len(r.buffer) \in Nat
      /\ \A k \in 1 .. Len(s) : s[k] \in Entry
      /\ \A k \in 1 .. Len(r.buffer) : s[k] = r.buffer[k]
      /\ s[Len(s)] = e
  <2>1. r.buffer \in Seq(Entry)
    BY <1>1 DEF Rcb
  <2>2. s \in Seq(Entry) /\ s # <<>> /\ Len(s) = Len(r.buffer) + 1
        /\ (\A k \in 1 .. Len(r.buffer) : s[k] = r.buffer[k])
        /\ s[Len(r.buffer) + 1] = e
    BY <1>1, <2>1, AppendProperties
  <2> QED
    BY <2>1, <2>2, LenProperties, ElementOfSeq
<1>3. \A k \in 1 .. Len(s) : s[k].id = r.nextEntry - Len(s) + k
  <2> SUFFICES ASSUME NEW k \in 1 .. Len(s)
               PROVE  s[k].id = r.nextEntry - Len(s) + k
    OBVIOUS
  <2>1. CASE k = Len(s)
    BY <2>1, <1>a, <1>2
  <2>2. CASE k \in 1 .. Len(r.buffer)
    BY <2>2, <1>0, <1>a, <1>2
  <2> QED
    BY <2>1, <2>2, <1>2
<1>4. r.bytes + Size(e) \in Int
  <2>1. Size(e) \in Int
    BY <1>1, SizeType
  <2> HIDE DEF e
  <2> QED
    BY <1>a, <2>1
<1>5. n \in 0 .. Len(s) - 1 /\ Len(s) - n <= MaxEntries
  BY <1>2, <1>4, DropCountType
<1>6. /\ t \in Seq(Entry) /\ Len(t) = Len(s) - n
      /\ \A k \in 1 .. Len(t) : t[k] = s[n + k]
  <2> HIDE DEF n, s
  <2>1. Len(s) \in Nat /\ n + 1 \in Int /\ n \in Nat
    BY <1>2, <1>5
  <2>2. \A k \in n + 1 .. Len(s) : s[k] \in Entry
    BY <1>2, <1>5, <2>1
  <2>3. /\ t \in Seq(Entry)
        /\ Len(t) = IF n + 1 <= Len(s) THEN Len(s) - (n + 1) + 1 ELSE 0
        /\ \A k \in 1 .. Len(s) - (n + 1) + 1 : t[k] = s[(n + 1) + k - 1]
    BY <2>1, <2>2, SubSeqProperties
  <2> QED
    BY <1>5, <2>1, <2>3
<1> DEFINE d == SizeOf(SubSeq(s, 1, n))
<1>7. d \in Nat
  <2>1. \A k \in 1 .. n : s[k] \in Entry
    BY <1>2, <1>5
  <2>2. SubSeq(s, 1, n) \in Seq(Entry)
    BY <2>1, <1>5, SubSeqProperties
  <2> QED
    BY <2>2, SizeOfType
<1> HIDE DEF s, n, t, d
<1>b. r1.sent = r.sent /\ r1.dropped = r.dropped /\ r1.bytes = r.bytes
  BY <1>0 DEF Rcb
<1>8. q = [r1 EXCEPT
              !.buffer = t,
              !.bytes = r1.bytes + Size(e) - d,
              !.overflowed = @ \/ \E k \in 1 .. n : s[k].id > r1.sent,
              !.dropped = IF n > 0 THEN s[n].id ELSE @]
  BY <1>1 DEF Keep, s, n, t, d, Rcb
<1>9. n > 0 => s[n].id \in Nat
  BY <1>2, <1>5 DEF Entry
<1>10. q \in Rcb
  <2>1. r1.bytes + Size(e) - d \in Int
    <3>1. r1.bytes \in Int /\ Size(e) \in Int
      BY <1>1, SizeType DEF Rcb
    <3> HIDE DEF r1, e
    <3> QED
      BY <1>7, <3>1
  <2>2. (IF n > 0 THEN s[n].id ELSE r1.dropped) \in Nat
    BY <1>1, <1>9 DEF Rcb
  <2>3. (r1.overflowed \/ \E k \in 1 .. n : s[k].id > r1.sent) \in BOOLEAN
    OBVIOUS
  <2> DEFINE q1 == [r1 EXCEPT !.buffer = t, !.bytes = r1.bytes + Size(e) - d]
  <2>4. q1 \in Rcb /\ q1.overflowed = r1.overflowed /\ q1.dropped = r1.dropped
    BY <1>1, <1>6, <2>1 DEF Rcb
  <2>5. q = [q1 EXCEPT
                !.overflowed = r1.overflowed \/ \E k \in 1 .. n : s[k].id > r1.sent,
                !.dropped = IF n > 0 THEN s[n].id ELSE r1.dropped]
    BY <1>8, <1>1 DEF Rcb
  <2> HIDE DEF q, q1, r1
  <2> QED
    BY <2>2, <2>3, <2>4, <2>5 DEF Rcb
<1>11. /\ SameMode(q, r) /\ q.nextEntry = r.nextEntry + 1
       /\ q.sent = r.sent /\ q.out = r.out /\ q.pending = r.pending
       /\ q.buffer = t
       /\ q.dropped = IF n > 0 THEN s[n].id ELSE r.dropped
       /\ q.overflowed = (r.overflowed \/ \E k \in 1 .. n : s[k].id > r.sent)
  BY <1>1, <1>8 DEF Rcb, SameMode
<1> HIDE DEF q, e, r1
<1>12. Len(s) \in Nat /\ n \in Nat
  BY <1>2, <1>5
<1>13. \A k \in 1 .. Len(q.buffer) :
          q.buffer[k].id = q.nextEntry - Len(q.buffer) + k - 1
  <2> SUFFICES ASSUME NEW k \in 1 .. Len(t)
               PROVE  t[k].id = (r.nextEntry + 1) - Len(t) + k - 1
    BY <1>11
  <2>1. t[k] = s[n + k] /\ n + k \in 1 .. Len(s)
    BY <1>5, <1>6, <1>12
  <2>2. s[n + k].id = r.nextEntry - Len(s) + (n + k)
    BY <2>1, <1>3
  <2>3. Len(t) = Len(s) - n /\ k \in Nat
    BY <1>6, <1>12
  <2> QED
    BY <2>1, <2>2, <2>3, <1>12, <1>a
<1>14. q.dropped + Len(q.buffer) < q.nextEntry
  <2>1. CASE n = 0
    BY <2>1, <1>0, <1>a, <1>2, <1>6, <1>11, <1>12
  <2>2. CASE n > 0
    <3>1. n \in 1 .. Len(s)
      BY <2>2, <1>5, <1>12
    <3>2. s[n].id = r.nextEntry - Len(s) + n
      BY <3>1, <1>3
    <3>3. /\ q.dropped = s[n].id /\ Len(q.buffer) = Len(s) - n
          /\ q.nextEntry = r.nextEntry + 1
      BY <2>2, <1>6, <1>11
    <3> QED
      BY <3>2, <3>3, <1>12, <1>a
  <2> QED
    BY <2>1, <2>2, <1>12
<1>15. q.overflowed <=> q.dropped > q.sent
  <2>1. CASE n = 0
    <3>1. ~ \E k \in 1 .. n : s[k].id > r.sent
      BY <2>1
    <3>2. q.overflowed = r.overflowed /\ q.dropped = r.dropped
      BY <2>1, <3>1, <1>11, <1>a
    <3> QED
      BY <3>2, <1>0, <1>11
  <2>2. CASE n > 0
    <3>0. /\ 1 .. n \subseteq 1 .. Len(s) /\ n \in 1 .. n
          /\ s[n].id = r.nextEntry - Len(s) + n
      BY <1>3, <1>5, <1>12, <2>2
    <3>1. \A k \in 1 .. n : s[k].id <= s[n].id
      <4> SUFFICES ASSUME NEW k \in 1 .. n PROVE s[k].id <= s[n].id
        OBVIOUS
      <4>1. s[k].id = r.nextEntry - Len(s) + k
        BY <3>0, <1>3
      <4> QED
        BY <4>1, <3>0, <1>12, <1>a
    <3>2. r.dropped < s[n].id
      BY <3>0, <1>0, <1>2, <1>12, <1>a, <2>2
    <3>3. s[n].id \in Nat /\ \A k \in 1 .. n : s[k].id \in Nat
      BY <3>0, <1>2 DEF Entry
    <3> QED
      <4>1. q.dropped = s[n].id /\ n \in 1 .. n
        BY <2>2, <1>11, <1>12
      <4>2. (\E k \in 1 .. n : s[k].id > r.sent) <=> s[n].id > r.sent
        BY <4>1, <3>1, <3>3, <1>a
      <4>3. r.overflowed => s[n].id > r.sent
        BY <3>2, <3>3, <1>0, <1>a
      <4> QED
        BY <4>1, <4>2, <4>3, <1>11, <1>a
  <2> QED
    BY <2>1, <2>2, <1>12
<1> QED
  BY <1>5, <1>6, <1>10, <1>11, <1>13, <1>14, <1>15 DEF q, r1, e

(***************************************************************************)
(* The reports _send makes.                                                *)
(***************************************************************************)
LEMMA ReportType ==
  ASSUME NEW r \in Rcb, NEW e \in Entry
  PROVE  ReportOf(r, e) \in Report /\ ReportOf(r, e).id = e.id
<1>1. Included(r, e) \in SUBSET Places
  BY DEF Included, Includes
<1>2. e.id \in Nat /\ e.values \in Values /\ r.sqNum \in Nat
  BY DEF Entry, Rcb
<1>3. (Buffered /\ r.overflowed) \in BOOLEAN
  OBVIOUS
<1> QED
  BY <1>1, <1>2, <1>3 DEF ReportOf, Report

(***************************************************************************)
(* _new_entry and _deliver preserve the block's invariant.                 *)
(***************************************************************************)
LEMMA NewEntryInv ==
  ASSUME NEW r, BlockInv(r), NEW values \in Values
  PROVE  /\ BlockInv(NewEntry(r, values))
         /\ SameMode(NewEntry(r, values), r)
         /\ NewEntry(r, values).pending = r.pending
<1> DEFINE e == [id |-> r.nextEntry, values |-> values]
           r1 == [r EXCEPT !.nextEntry = @ + 1]
           q == IF Buffered THEN [Keep(r1, e) EXCEPT !.entryID = e.id] ELSE r1
           d == NewEntry(r, values)
<1>1. /\ r \in Rcb
      /\ Len(r.buffer) <= MaxEntries
      /\ \A k \in 1 .. Len(r.buffer) :
            r.buffer[k].id = r.nextEntry - Len(r.buffer) + k - 1
      /\ r.rptEna => \A k \in 1 .. Len(r.out) :
                        r.out[k].id = r.nextEntry - Len(r.out) + k - 1
      /\ r.overflowed <=> r.dropped > r.sent
      /\ r.sent < r.nextEntry
      /\ r.dropped + Len(r.buffer) < r.nextEntry
      /\ ~Buffered => r.buffer = <<>>
  BY DEF BlockInv
<1>2. /\ r.nextEntry \in Nat /\ r.sent \in Nat /\ r.dropped \in Nat
      /\ r.out \in Seq(Report) /\ Len(r.out) \in Nat
      /\ r.rptEna \in BOOLEAN /\ r.sqNum \in Nat
  BY <1>1, LenProperties DEF Rcb
<1>3. r1 \in Rcb /\ e \in Entry /\ SameMode(r1, r) /\ r1.sent = r.sent
      /\ r1.nextEntry = r.nextEntry + 1 /\ r1.out = r.out
      /\ r1.buffer = r.buffer /\ r1.pending = r.pending
      /\ r1.dropped = r.dropped /\ r1.overflowed = r.overflowed
  <2>1. r.nextEntry + 1 \in Nat
    BY <1>2
  <2>2. e \in Entry
    BY <1>2 DEF Entry
  <2> QED
    BY <2>1, <2>2, <1>1 DEF Rcb, SameMode
<1>4. /\ q \in Rcb /\ SameMode(q, r) /\ q.pending = r.pending
      /\ Len(q.buffer) <= MaxEntries
      /\ \A k \in 1 .. Len(q.buffer) :
            q.buffer[k].id = q.nextEntry - Len(q.buffer) + k - 1
      /\ q.nextEntry = r.nextEntry + 1 /\ q.sent = r.sent /\ q.out = r.out
      /\ q.overflowed <=> q.dropped > q.sent
      /\ q.dropped + Len(q.buffer) < q.nextEntry
      /\ ~Buffered => q.buffer = <<>>
  <2>1. CASE Buffered
    <3> DEFINE K == Keep(r1, e)
    <3>1. /\ K \in Rcb /\ SameMode(K, r) /\ K.pending = r.pending
          /\ Len(K.buffer) <= MaxEntries
          /\ K.nextEntry = r.nextEntry + 1 /\ K.sent = r.sent
          /\ K.out = r.out
          /\ K.overflowed <=> K.dropped > K.sent
          /\ K.dropped + Len(K.buffer) < K.nextEntry
          /\ \A k \in 1 .. Len(K.buffer) :
                K.buffer[k].id = K.nextEntry - Len(K.buffer) + k - 1
      BY KeepInv
    <3> HIDE DEF K
    <3>2. q = [K EXCEPT !.entryID = r.nextEntry]
      BY <2>1 DEF K
    <3>3. q \in Rcb
      BY <3>1, <3>2, <1>2 DEF Rcb
    <3>4. /\ q.buffer = K.buffer /\ q.nextEntry = K.nextEntry
          /\ q.sent = K.sent /\ q.dropped = K.dropped
          /\ q.overflowed = K.overflowed /\ q.out = K.out
          /\ q.pending = K.pending /\ SameMode(q, K)
      BY <3>1, <3>2 DEF Rcb, SameMode
    <3> HIDE DEF q
    <3> QED
      BY <2>1, <3>1, <3>3, <3>4 DEF SameMode
  <2>2. CASE ~Buffered
    <3>1. q = r1 /\ r1.buffer = <<>> /\ Len(r1.buffer) = 0
      BY <2>2, <1>1, <1>3
    <3> HIDE DEF q, r1
    <3> QED
      BY <3>1, <1>1, <1>2, <1>3
  <2> QED
    BY <2>1, <2>2, ReportingAssumption
<1>5. d = IF r.rptEna THEN Send(q, e) ELSE q
  <2>1. r1.rptEna = r.rptEna
    BY <1>3 DEF SameMode
  <2> QED
    BY <2>1 DEF NewEntry, Deliver
<1> HIDE DEF q, r1
<1>6. CASE ~r.rptEna
  <2>1. d = q /\ q.rptEna = r.rptEna
    BY <1>4, <1>5, <1>6 DEF SameMode
  <2>2. BlockInv(q)
    BY <2>1, <1>6, <1>4, <1>2, <1>1 DEF BlockInv
  <2> QED
    BY <2>1, <2>2, <1>4
<1>7. CASE r.rptEna
  <2> DEFINE rep == ReportOf(q, e)
             out == Append(q.out, rep)
  <2>1. rep \in Report /\ rep.id = r.nextEntry
    BY <1>3, <1>4, ReportType
  <2> HIDE DEF rep
  <2>2. /\ out \in Seq(Report) /\ Len(out) = Len(r.out) + 1
        /\ \A k \in 1 .. Len(r.out) : out[k] = r.out[k]
        /\ out[Len(r.out) + 1] = rep
    BY <2>1, <1>2, <1>4, AppendProperties
  <2> HIDE DEF out
  <2>3. d = [q EXCEPT !.out = out, !.sqNum = (q.sqNum + 1) % SqMod,
                      !.overflowed = FALSE,
                      !.sent = MaxOf(q.sent, r.nextEntry)]
    BY <1>5, <1>7 DEF Send, out, rep
  <2>4. (q.sqNum + 1) % SqMod \in 0 .. SqMod - 1
    <3>1. q.sqNum \in 0 .. SqMod - 1 /\ SqMod \in Nat \ {0}
      BY <1>4, ReportingAssumption DEF Rcb
    <3> HIDE DEF q
    <3> QED
      BY <3>1
  <2>5. MaxOf(q.sent, r.nextEntry) = r.nextEntry
    BY <1>1, <1>2, <1>4 DEF MaxOf
  <2>6. d \in Rcb
    <3> DEFINE d1 == [q EXCEPT !.out = out, !.sqNum = (q.sqNum + 1) % SqMod]
    <3>1. d1 \in Rcb
      BY <2>2, <2>4, <1>4 DEF Rcb
    <3>2. d = [d1 EXCEPT !.overflowed = FALSE, !.sent = r.nextEntry]
      BY <2>3, <2>5
    <3> HIDE DEF d, d1
    <3> QED
      BY <3>1, <3>2, <1>2 DEF Rcb
  <2>7. /\ d.out = out /\ d.overflowed = FALSE /\ d.sent = r.nextEntry
        /\ d.buffer = q.buffer /\ d.nextEntry = q.nextEntry
        /\ d.dropped = q.dropped /\ d.pending = q.pending /\ SameMode(d, q)
    BY <2>3, <2>5, <1>4 DEF Rcb, SameMode
  <2>8. \A k \in 1 .. Len(out) : out[k].id = q.nextEntry - Len(out) + k - 1
    <3> SUFFICES ASSUME NEW k \in 1 .. Len(out)
                 PROVE  out[k].id = q.nextEntry - Len(out) + k - 1
      OBVIOUS
    <3>1. /\ r.nextEntry \in Nat /\ q.nextEntry = r.nextEntry + 1
          /\ Len(r.out) \in Nat /\ Len(out) = Len(r.out) + 1
      BY <2>2, <1>2, <1>4
    <3>2. CASE k \in 1 .. Len(r.out)
      <4>1. out[k].id = r.nextEntry - Len(r.out) + k - 1
        BY <3>2, <2>2, <1>1, <1>7
      <4> QED
        BY <4>1, <3>1
    <3>3. CASE k = Len(r.out) + 1
      <4>1. out[k].id = r.nextEntry
        BY <3>3, <2>1, <2>2
      <4> QED
        BY <4>1, <3>1, <3>3
    <3> QED
      BY <3>1, <3>2, <3>3
  <2>9. q.dropped \in Nat /\ Len(q.buffer) \in Nat
    BY <1>4, LenProperties DEF Rcb
  <2>10. ~(d.dropped > d.sent) /\ d.sent < d.nextEntry
         /\ d.dropped + Len(d.buffer) < d.nextEntry
    BY <2>7, <2>9, <1>2, <1>4
  <2>11. BlockInv(d)
    BY <2>6, <2>7, <2>8, <2>10, <1>4 DEF BlockInv
  <2> QED
    BY <2>7, <2>11, <1>4 DEF SameMode
<1> QED
  BY <1>6, <1>7

(***************************************************************************)
(* The values read of a data set.                                          *)
(***************************************************************************)
LEMMA CurrentType ==
  ASSUME NEW r \in Rcb, val \in [Leaves -> Nat],
         NEW places, places \subseteq DOMAIN Members(r)
  PROVE  Current(r, places) \in Values
<1>1. r.config.DatSet \in DOMAIN DataSets
  BY ReportingAssumption DEF Rcb, Config
<1>2. Members(r) \in Seq(Leaves)
  BY <1>1, ReportingAssumption DEF Members
<1>3. \A p \in places : Members(r)[p] \in Leaves
  BY <1>2, LenProperties
<1> HIDE DEF Members
<1> QED
  BY <1>3 DEF Current, Values, Value

(***************************************************************************)
(* _flush, _report_all and _add preserve the block's invariant, whatever   *)
(* current values they read.                                               *)
(***************************************************************************)
LEMMA FlushInv ==
  ASSUME NEW r, BlockInv(r)
  PROVE  /\ BlockInv(Flush(r)) /\ SameMode(Flush(r), r)
         /\ Flush(r).pending = NoValues
<1>1. CASE r.pending = NoValues
  BY <1>1 DEF Flush, SameMode
<1>2. CASE r.pending # NoValues
  <2> DEFINE q == [r EXCEPT !.pending = NoValues, !.gathering = 0]
  <2>1. r \in Rcb /\ r.pending \in Values /\ NoValues \in Values
    BY DEF BlockInv, Rcb, NoValues, Values
  <2>2. q \in Rcb
    BY <2>1 DEF Rcb
  <2>3. /\ q.buffer = r.buffer /\ q.nextEntry = r.nextEntry
        /\ q.out = r.out /\ q.sent = r.sent /\ q.dropped = r.dropped
        /\ q.overflowed = r.overflowed /\ SameMode(q, r)
        /\ q.pending = NoValues
    BY <2>1 DEF Rcb, SameMode
  <2> HIDE DEF q
  <2>4. BlockInv(q)
    BY <2>2, <2>3 DEF BlockInv, SameMode
  <2>5. Flush(r) = NewEntry(q, r.pending)
    BY <1>2 DEF Flush, q
  <2>6. BlockInv(NewEntry(q, r.pending)) /\ SameMode(NewEntry(q, r.pending), q)
        /\ NewEntry(q, r.pending).pending = NoValues
    BY <2>1, <2>3, <2>4, NewEntryInv
  <2> QED
    BY <2>3, <2>5, <2>6 DEF SameMode
<1> QED
  BY <1>1, <1>2

(***************************************************************************)
(* A report of all members.                                                *)
(***************************************************************************)
LEMMA ReportAllInv ==
  ASSUME NEW r, BlockInv(r), val \in [Leaves -> Nat]
  PROVE  BlockInv(ReportAll(r)) /\ SameMode(ReportAll(r), r)
<1>1. Current(r, DOMAIN Members(r)) \in Values
  BY CurrentType DEF BlockInv
<1> QED
  BY <1>1, NewEntryInv DEF ReportAll

(***************************************************************************)
(* A new object to gather in, and its timer, change nothing else.          *)
(***************************************************************************)
LEMMA NewGatheredKeeps ==
  ASSUME NEW r \in Rcb
  PROVE  LET q == NewGathered(r)
         IN  /\ q \in Rcb /\ q.pending = r.pending /\ q.bytes = r.bytes
             /\ q.buffer = r.buffer /\ q.nextEntry = r.nextEntry
             /\ q.out = r.out /\ q.sent = r.sent /\ q.dropped = r.dropped
             /\ q.overflowed = r.overflowed /\ SameMode(q, r)
<1>1. r.nextEntry \in Nat /\ r.bufTimers \in SUBSET Nat
  BY DEF Rcb
<1>2. r.bufTimers \cup {r.nextEntry} \in SUBSET Nat
  BY <1>1
<1> QED
  BY <1>1, <1>2 DEF NewGathered, Rcb, SameMode

(***************************************************************************)
(* So does a BufTm timer that fires.                                       *)
(***************************************************************************)
LEMMA BufTimerFires ==
  ASSUME NEW r, BlockInv(r), NEW g
  PROVE  LET q == [r EXCEPT !.bufTimers = @ \ {g}]
         IN  /\ BlockInv(q) /\ SameMode(q, r) /\ q.buffer = r.buffer
             /\ q.bytes = r.bytes /\ q.pending = r.pending /\ q.out = r.out
             /\ q.everEnabled = r.everEnabled
<1> DEFINE q == [r EXCEPT !.bufTimers = @ \ {g}]
<1>1. r \in Rcb
  BY DEF BlockInv
<1>2. r.bufTimers \ {g} \in SUBSET Nat
  BY <1>1 DEF Rcb
<1>3. q \in Rcb
  BY <1>1, <1>2 DEF Rcb
<1>4. /\ q.buffer = r.buffer /\ q.nextEntry = r.nextEntry
      /\ q.out = r.out /\ q.sent = r.sent /\ q.dropped = r.dropped
      /\ q.overflowed = r.overflowed /\ SameMode(q, r) /\ q.bytes = r.bytes
      /\ q.pending = r.pending /\ q.everEnabled = r.everEnabled
  BY <1>1 DEF Rcb, SameMode
<1> HIDE DEF q
<1>5. BlockInv(q)
  BY <1>3, <1>4 DEF BlockInv, SameMode
<1>6. /\ BlockInv(q) /\ SameMode(q, r) /\ q.buffer = r.buffer
      /\ q.bytes = r.bytes /\ q.pending = r.pending /\ q.out = r.out
      /\ q.everEnabled = r.everEnabled
  BY <1>4, <1>5
<1> QED
  BY <1>6 DEF q

(***************************************************************************)
(* And an integrity timer that fires.                                      *)
(***************************************************************************)
LEMMA IntegrityTimerFires ==
  ASSUME NEW r, BlockInv(r), NEW due
  PROVE  LET q == [r EXCEPT !.integrityTimers = @ \ {due}]
         IN  /\ BlockInv(q) /\ q.buffer = r.buffer /\ q.bytes = r.bytes
             /\ q.pending = r.pending /\ q.out = r.out
             /\ q.everEnabled = r.everEnabled /\ q.rptEna = r.rptEna
             /\ q.config = r.config /\ q.integrityDue = r.integrityDue
             /\ q.integrityTimers = r.integrityTimers \ {due}
<1> DEFINE q == [r EXCEPT !.integrityTimers = @ \ {due}]
<1>1. r \in Rcb
  BY DEF BlockInv
<1>2. r.integrityTimers \ {due} \in SUBSET (1 .. MaxTimers)
  BY <1>1 DEF Rcb
<1>3. q \in Rcb
  BY <1>1, <1>2 DEF Rcb
<1>4. /\ q.buffer = r.buffer /\ q.nextEntry = r.nextEntry
      /\ q.out = r.out /\ q.sent = r.sent /\ q.dropped = r.dropped
      /\ q.overflowed = r.overflowed /\ q.bytes = r.bytes
      /\ q.pending = r.pending /\ q.everEnabled = r.everEnabled
      /\ q.rptEna = r.rptEna /\ q.config = r.config
      /\ q.integrityDue = r.integrityDue
      /\ q.integrityTimers = r.integrityTimers \ {due}
  BY <1>1 DEF Rcb
<1> HIDE DEF q
<1>5. BlockInv(q)
  BY <1>3, <1>4 DEF BlockInv
<1>6. /\ BlockInv(q) /\ q.buffer = r.buffer /\ q.bytes = r.bytes
      /\ q.pending = r.pending /\ q.out = r.out
      /\ q.everEnabled = r.everEnabled /\ q.rptEna = r.rptEna
      /\ q.config = r.config /\ q.integrityDue = r.integrityDue
      /\ q.integrityTimers = r.integrityTimers \ {due}
  BY <1>4, <1>5
<1> QED
  BY <1>6 DEF q

(***************************************************************************)
(* A change, gathered or not.                                              *)
(***************************************************************************)
LEMMA AddInv ==
  ASSUME NEW r, BlockInv(r), NEW values \in Values
  PROVE  BlockInv(Add(r, values)) /\ SameMode(Add(r, values), r)
<1>1. CASE r.config.BufTm > 0 /\ r.rptEna
  <2> DEFINE b == IF Includes(r.pending) \cap Includes(values) # {}
                  THEN Flush(r) ELSE r
             g == IF b.pending = NoValues THEN NewGathered(b) ELSE b
             m == Merge(g.pending, values)
             q == [g EXCEPT !.pending = m]
  <2>1. BlockInv(b) /\ SameMode(b, r)
    BY FlushInv DEF SameMode
  <2> HIDE DEF b
  <2>a. /\ g \in Rcb /\ g.pending \in Values
        /\ g.buffer = b.buffer /\ g.nextEntry = b.nextEntry
        /\ g.out = b.out /\ g.sent = b.sent /\ g.dropped = b.dropped
        /\ g.overflowed = b.overflowed /\ SameMode(g, b)
    BY <2>1, NewGatheredKeeps DEF BlockInv, Rcb, SameMode
  <2> HIDE DEF g
  <2>3. m \in Values
    BY <2>a DEF Merge, Values
  <2> HIDE DEF m
  <2>4. q \in Rcb
    BY <2>a, <2>3 DEF Rcb
  <2>5. /\ q.buffer = b.buffer /\ q.nextEntry = b.nextEntry
        /\ q.out = b.out /\ q.sent = b.sent /\ q.dropped = b.dropped
        /\ q.overflowed = b.overflowed /\ SameMode(q, b)
    BY <2>a DEF Rcb, SameMode
  <2>6. Add(r, values) = q
    BY <1>1 DEF Add, Gather, b, g, m
  <2> HIDE DEF q
  <2>7. BlockInv(q)
    BY <2>1, <2>4, <2>5 DEF BlockInv, SameMode
  <2> QED
    BY <2>1, <2>5, <2>6, <2>7 DEF SameMode
<1>2. CASE ~(r.config.BufTm > 0 /\ r.rptEna)
  <2>1. Add(r, values) = NewEntry(r, values)
    BY <1>2 DEF Add
  <2> QED
    BY <2>1, NewEntryInv
<1> QED
  BY <1>1, <1>2

(***************************************************************************)
(* A purge.                                                                *)
(***************************************************************************)
LEMMA PurgeInv ==
  ASSUME NEW r, BlockInv(r)
  PROVE  BlockInv(Purge(r)) /\ SameMode(Purge(r), r)
<1> DEFINE q == Purge(r)
<1>1. r \in Rcb /\ r.sent \in Nat /\ r.nextEntry \in Nat
  BY DEF BlockInv, Rcb
<1>2. <<>> \in Seq(Entry) /\ Len(<<>>) = 0
  BY EmptySeq
<1>3. q \in Rcb
  <2>1. 0 \in Int /\ 0 \in Nat /\ FALSE \in BOOLEAN
    OBVIOUS
  <2>2. [r EXCEPT !.buffer = <<>>, !.bytes = 0] \in Rcb
    BY <1>1, <1>2, <2>1 DEF Rcb
  <2>3. [[r EXCEPT !.buffer = <<>>, !.bytes = 0] EXCEPT
            !.overflowed = FALSE, !.dropped = 0] \in Rcb
    BY <2>1, <2>2 DEF Rcb
  <2> QED
    BY <2>3 DEF Purge
<1>4. /\ q.buffer = <<>> /\ q.overflowed = FALSE /\ q.dropped = 0
      /\ q.sent = r.sent /\ q.nextEntry = r.nextEntry /\ q.out = r.out
      /\ SameMode(q, r)
  BY <1>1 DEF Purge, Rcb, SameMode
<1>5. r.sent < r.nextEntry /\ 0 + 0 < r.nextEntry /\ ~(0 > r.sent)
      /\ 0 <= MaxEntries
  BY <1>1, ReportingAssumption DEF BlockInv
<1>6. r.rptEna => \A k \in 1 .. Len(r.out) :
                    r.out[k].id = r.nextEntry - Len(r.out) + k - 1
  BY DEF BlockInv
<1>7. \A k \in 1 .. Len(q.buffer) :
        q.buffer[k].id = q.nextEntry - Len(q.buffer) + k - 1
  BY <1>2, <1>4
<1> QED
  BY <1>2, <1>3, <1>4, <1>5, <1>6, <1>7 DEF BlockInv, SameMode

(***************************************************************************)
(* The replay starts after the entries up to EntryID: since the EntryIDs   *)
(* of the buffer are consecutive, there is one such place.                 *)
(***************************************************************************)
LEMMA SkipCountType ==
  ASSUME NEW r, BlockInv(r)
  PROVE  SkipCount(r) \in 0 .. Len(r.buffer)
<1> DEFINE b == r.buffer
           base == r.nextEntry - Len(b) - 1
           n == IF r.entryID <= base THEN 0
                ELSE IF r.entryID >= r.nextEntry - 1 THEN Len(b)
                ELSE r.entryID - base
<1>1. /\ r.nextEntry \in Nat /\ r.entryID \in Nat /\ b \in Seq(Entry)
  BY DEF BlockInv, Rcb
<1>2. Len(b) \in Nat /\ DOMAIN b = 1 .. Len(b)
  BY <1>1, LenProperties
<1>3. \A k \in 1 .. Len(b) : b[k].id = r.nextEntry - Len(b) + k - 1
  BY DEF BlockInv
<1>4. n \in 0 .. Len(b)
  BY <1>1, <1>2
<1>5. \A k \in DOMAIN b : k <= n <=> b[k].id <= r.entryID
  <2> SUFFICES ASSUME NEW k \in 1 .. Len(b)
               PROVE  k <= n <=> b[k].id <= r.entryID
    BY <1>2
  <2>1. b[k].id = r.nextEntry - Len(b) + k - 1 /\ k \in Nat
    BY <1>2, <1>3
  <2> HIDE DEF b
  <2> QED
    BY <2>1, <1>1, <1>2
<1> HIDE DEF n
<1> QED
  BY <1>4, <1>5 DEF SkipCount

(***************************************************************************)
(* The replay of an enabling, whose log of reports is empty.               *)
(***************************************************************************)
LEMMA ReplayInv ==
  ASSUME NEW r, BlockInv(r), r.out = <<>>
  PROVE  BlockInv(Replay(r)) /\ SameMode(Replay(r), r)
<1> DEFINE b == r.buffer
           n == SkipCount(r)
           report(k) == [ReportOf(r, b[n + k]) EXCEPT
                            !.sq = (r.sqNum + k - 1) % SqMod,
                            !.bufOvfl = @ /\ k = 1]
           count == Len(b) - n
           out == [k \in 1 .. count |-> report(k)]
           q == Replay(r)
<1>1. /\ r \in Rcb /\ b \in Seq(Entry) /\ r.nextEntry \in Nat
      /\ r.sqNum \in Nat /\ r.sent \in Nat /\ r.dropped \in Nat
  BY DEF BlockInv, Rcb
<1>2. Len(b) \in Nat /\ \A k \in 1 .. Len(b) : b[k] \in Entry
  BY <1>1, LenProperties, ElementOfSeq
<1>3. /\ \A k \in 1 .. Len(b) : b[k].id = r.nextEntry - Len(b) + k - 1
      /\ r.sent < r.nextEntry /\ r.dropped + Len(b) < r.nextEntry
  BY DEF BlockInv
<1>4. n \in 0 .. Len(b)
  BY SkipCountType
<1>5. CASE count = 0
  <2>1. q = r
    BY <1>5 DEF Replay
  <2> QED
    BY <2>1 DEF SameMode
<1>6. CASE count # 0
  <2>0. count \in Nat \ {0} /\ Len(b) \in 1 .. Len(b)
    BY <1>2, <1>4, <1>6
  <2>1. \A k \in 1 .. count :
          report(k) \in Report /\ report(k).id = b[n + k].id
    <3> SUFFICES ASSUME NEW k \in 1 .. count
                 PROVE  report(k) \in Report /\ report(k).id = b[n + k].id
      OBVIOUS
    <3>1. n + k \in 1 .. Len(b) /\ r.sqNum + k - 1 \in Nat
      BY <1>1, <1>2, <1>4
    <3>2. ReportOf(r, b[n + k]) \in Report
          /\ ReportOf(r, b[n + k]).id = b[n + k].id
      BY <3>1, <1>1, <1>2, ReportType
    <3>3. (r.sqNum + k - 1) % SqMod \in Nat
      BY <3>1, ReportingAssumption
    <3> QED
      BY <3>2, <3>3 DEF Report
  <2> HIDE DEF report
  <2>2. out \in Seq(Report) /\ Len(out) = count
    BY <2>0, <2>1
  <2>3. \A k \in 1 .. count : out[k].id = b[n + k].id
    BY <2>1
  <2> HIDE DEF out
  <2>4. b[Len(b)].id = r.nextEntry - 1
    <3>1. b[Len(b)].id = r.nextEntry - Len(b) + Len(b) - 1
      BY <2>0, <1>3
    <3>2. r.nextEntry \in Nat /\ Len(b) \in Nat
      BY <1>1, <1>2
    <3> QED
      BY <3>1, <3>2
  <2>5. MaxOf(r.sent, b[Len(b)].id) = r.nextEntry - 1
        /\ r.nextEntry - 1 \in Nat
    <3>1. r.sent \in Nat /\ r.nextEntry \in Nat /\ r.sent < r.nextEntry
      BY <1>1, <1>3
    <3> QED
      BY <2>4, <3>1 DEF MaxOf
  <2>6. q = [r EXCEPT !.out = out, !.sqNum = (r.sqNum + count) % SqMod,
                      !.overflowed = FALSE, !.sent = r.nextEntry - 1]
    BY <2>5, <1>6 DEF Replay, out, report
  <2>7. (r.sqNum + count) % SqMod \in 0 .. SqMod - 1
    BY <2>0, <1>1, ReportingAssumption
  <2>8. q \in Rcb
    <3> DEFINE q1 == [r EXCEPT !.out = out, !.sqNum = (r.sqNum + count) % SqMod]
    <3>1. q1 \in Rcb
      BY <2>2, <2>7, <1>1 DEF Rcb
    <3>2. q = [q1 EXCEPT !.overflowed = FALSE, !.sent = r.nextEntry - 1]
      BY <2>6
    <3> HIDE DEF q, q1
    <3> QED
      BY <3>1, <3>2, <2>5 DEF Rcb
  <2>9. /\ q.out = out /\ q.overflowed = FALSE /\ q.sent = r.nextEntry - 1
        /\ q.buffer = b /\ q.nextEntry = r.nextEntry
        /\ q.dropped = r.dropped /\ SameMode(q, r)
    BY <2>6, <1>1 DEF Rcb, SameMode
  <2>10. \A k \in 1 .. Len(q.out) :
            q.out[k].id = q.nextEntry - Len(q.out) + k - 1
    <3> SUFFICES ASSUME NEW k \in 1 .. count
                 PROVE  out[k].id = r.nextEntry - count + k - 1
      BY <2>2, <2>9
    <3>1. n + k \in 1 .. Len(b)
      BY <1>2, <1>4
    <3>2. b[n + k].id = r.nextEntry - Len(b) + (n + k) - 1
      BY <3>1, <1>3
    <3> QED
      BY <3>2, <2>3, <1>1, <1>2, <1>4
  <2>11. ~(q.dropped > q.sent) /\ q.sent < q.nextEntry
    BY <2>9, <1>1, <1>2, <1>3
  <2> HIDE DEF count, n
  <2> QED
    BY <2>8, <2>9, <2>10, <2>11 DEF BlockInv, SameMode
<1> QED
  BY <1>5, <1>6

\* Integrity reports are asked for.
Periodic(r) == r.config.IntgPd > 0 /\ "integrity" \in r.config.TrgOps

\* An integrity report is due only of an enabled block that is configured
\* for them, and has its timer.
Scheduled(r) ==
    r.integrityDue # 0 =>
        /\ r.rptEna /\ Periodic(r) /\ r.integrityDue \in r.integrityTimers

(***************************************************************************)
(* The next integrity report is scheduled, if the configuration asks for   *)
(* any, for a time that no timer left over has.                            *)
(***************************************************************************)
LEMMA ScheduleInv ==
  ASSUME NEW r, BlockInv(r), r.integrityTimers # 1 .. MaxTimers
  PROVE  LET q == ScheduleIntegrity(r)
         IN  /\ BlockInv(q) /\ q.buffer = r.buffer /\ q.bytes = r.bytes
             /\ q.pending = r.pending /\ q.out = r.out
             /\ q.everEnabled = r.everEnabled
             /\ q.rptEna = r.rptEna /\ q.config = r.config
             /\ Periodic(r) => q.integrityDue \in q.integrityTimers
             /\ ~Periodic(r) => q = r
<1> DEFINE q == ScheduleIntegrity(r)
           due == NewDue(r)
<1>1. r \in Rcb /\ r.integrityTimers \in SUBSET (1 .. MaxTimers)
  BY DEF BlockInv, Rcb
<1>2. due \in 1 .. MaxTimers
  BY <1>1 DEF NewDue
<1> HIDE DEF due
<1>3. CASE Periodic(r)
  <2>1. q = [r EXCEPT !.integrityDue = due, !.integrityTimers = @ \cup {due}]
    BY <1>3 DEF ScheduleIntegrity, Periodic, due
  <2>2. due \in 0 .. MaxTimers
        /\ r.integrityTimers \cup {due} \in SUBSET (1 .. MaxTimers)
    BY <1>1, <1>2, ReportingAssumption
  <2> HIDE DEF q
  <2>3. q \in Rcb
    BY <1>1, <2>1, <2>2 DEF Rcb
  <2>4. /\ q.buffer = r.buffer /\ q.nextEntry = r.nextEntry
        /\ q.out = r.out /\ q.sent = r.sent /\ q.dropped = r.dropped
        /\ q.overflowed = r.overflowed /\ q.rptEna = r.rptEna
        /\ q.config = r.config /\ q.bytes = r.bytes /\ q.pending = r.pending
        /\ q.everEnabled = r.everEnabled
        /\ q.integrityDue \in q.integrityTimers
    BY <1>1, <2>1 DEF Rcb
  <2>5. BlockInv(q)
    BY <2>3, <2>4 DEF BlockInv
  <2> QED
    BY <1>3, <2>4, <2>5 DEF q
<1>4. CASE ~Periodic(r)
  BY <1>4 DEF ScheduleIntegrity, Periodic
<1> QED
  BY <1>3, <1>4

(***************************************************************************)
(* _enabled.                                                               *)
(***************************************************************************)
LEMMA EnabledInv ==
  ASSUME NEW r, BlockInv(r), r.integrityTimers # 1 .. MaxTimers,
         r.integrityDue = 0
  PROVE  LET q == Enabled(r)
         IN  /\ BlockInv(q) /\ q.rptEna /\ q.config = r.config
             /\ Scheduled(q)
<1> DEFINE on == [r EXCEPT !.rptEna = TRUE, !.everEnabled = TRUE, !.out = <<>>]
           p == IF Buffered THEN Replay(on) ELSE on
           q == Enabled(r)
<1>1. r \in Rcb
  BY DEF BlockInv
<1>2. <<>> \in Seq(Report) /\ Len(<<>>) = 0
  BY EmptySeq
<1>3. on \in Rcb
  BY <1>1, <1>2 DEF Rcb
<1>4. /\ on.buffer = r.buffer /\ on.nextEntry = r.nextEntry
      /\ on.out = <<>> /\ on.sent = r.sent /\ on.dropped = r.dropped
      /\ on.overflowed = r.overflowed /\ on.rptEna = TRUE
      /\ on.config = r.config /\ on.integrityDue = 0
      /\ on.integrityTimers = r.integrityTimers
  BY <1>1 DEF Rcb
<1> HIDE DEF on
<1>5. BlockInv(on)
  BY <1>2, <1>3, <1>4 DEF BlockInv
<1>6. /\ BlockInv(p) /\ p.rptEna /\ p.config = r.config
      /\ p.integrityDue = 0 /\ p.integrityTimers # 1 .. MaxTimers
  BY <1>4, <1>5, ReplayInv DEF SameMode
<1> HIDE DEF p
<1>7. q = ScheduleIntegrity(p)
  BY DEF Enabled, p, on
<1> HIDE DEF q
<1>8. /\ BlockInv(q) /\ q.rptEna /\ q.config = r.config
      /\ Periodic(p) => q.integrityDue \in q.integrityTimers
      /\ ~Periodic(p) => q.integrityDue = 0
  BY <1>6, <1>7, ScheduleInv
<1>9. Scheduled(q)
  BY <1>6, <1>8 DEF Scheduled, Periodic
<1> QED
  BY <1>8, <1>9 DEF q

----------------------------------------------------------------------------
(* The specification                                                       *)

(***************************************************************************)
(* A configuration attribute takes one of its values.                      *)
(***************************************************************************)
LEMMA ConfigInv ==
  ASSUME NEW r, BlockInv(r), NEW a \in DOMAIN ConfigValues,
         NEW v \in ConfigValues[a]
  PROVE  LET q == [r EXCEPT !.config[a] = v]
         IN  /\ BlockInv(q)
             /\ q.rptEna = r.rptEna /\ q.integrityDue = r.integrityDue
<1> DEFINE c == [r.config EXCEPT ![a] = v]
           q == [r EXCEPT !.config = c]
<1>1. r \in Rcb /\ r.config \in Config
  BY DEF BlockInv, Rcb
<1>2. a \in {"DatSet", "BufTm", "TrgOps", "IntgPd"}
  BY ReportingAssumption
<1>3. c \in Config
  BY <1>1, <1>2 DEF Config
<1> HIDE DEF c
<1>4. q \in Rcb
  BY <1>1, <1>3 DEF Rcb
<1>5. /\ q.buffer = r.buffer /\ q.nextEntry = r.nextEntry
      /\ q.out = r.out /\ q.sent = r.sent /\ q.dropped = r.dropped
      /\ q.overflowed = r.overflowed /\ q.rptEna = r.rptEna
      /\ q.integrityDue = r.integrityDue
  BY <1>1 DEF Rcb
<1>6. q = [r EXCEPT !.config[a] = v]
  BY DEF c
<1> HIDE DEF q
<1>7. BlockInv(q)
  BY <1>4, <1>5 DEF BlockInv
<1> QED
  BY <1>5, <1>6, <1>7

(***************************************************************************)
(* So does EntryID.                                                        *)
(***************************************************************************)
LEMMA WriteEntryIDInv ==
  ASSUME NEW r, BlockInv(r), NEW id \in Nat
  PROVE  LET q == [r EXCEPT !.entryID = id]
         IN  BlockInv(q) /\ SameMode(q, r)
<1> DEFINE q == [r EXCEPT !.entryID = id]
<1>1. r \in Rcb
  BY DEF BlockInv
<1>2. q \in Rcb
  BY <1>1 DEF Rcb
<1>3. /\ q.buffer = r.buffer /\ q.nextEntry = r.nextEntry
      /\ q.out = r.out /\ q.sent = r.sent /\ q.dropped = r.dropped
      /\ q.overflowed = r.overflowed /\ SameMode(q, r)
  BY <1>1 DEF Rcb, SameMode
<1> HIDE DEF q
<1>4. BlockInv(q) /\ SameMode(q, r)
  BY <1>2, <1>3 DEF BlockInv, SameMode
<1> QED
  BY <1>4 DEF q

(***************************************************************************)
(* RptEna written FALSE, or cleared by _on_close.                          *)
(***************************************************************************)
LEMMA SwitchInv ==
  ASSUME NEW r, BlockInv(r)
  PROVE  LET q == [r EXCEPT !.rptEna = FALSE, !.integrityDue = 0]
             p == [Flush([r EXCEPT !.rptEna = FALSE]) EXCEPT !.integrityDue = 0]
         IN  /\ BlockInv(q) /\ q.rptEna = FALSE /\ q.integrityDue = 0
             /\ BlockInv(p) /\ p.rptEna = FALSE /\ p.integrityDue = 0
<1> DEFINE q == [r EXCEPT !.rptEna = FALSE, !.integrityDue = 0]
           o == [r EXCEPT !.rptEna = FALSE]
           f == Flush(o)
           p == [f EXCEPT !.integrityDue = 0]
<1>1. r \in Rcb /\ 0 \in 0 .. MaxTimers
  BY ReportingAssumption DEF BlockInv
<1>2. BlockInv(q) /\ q.rptEna = FALSE /\ q.integrityDue = 0
  <2>1. q \in Rcb
    BY <1>1 DEF Rcb
  <2>2. /\ q.buffer = r.buffer /\ q.nextEntry = r.nextEntry
        /\ q.out = r.out /\ q.sent = r.sent /\ q.dropped = r.dropped
        /\ q.overflowed = r.overflowed /\ q.rptEna = FALSE
        /\ q.integrityDue = 0
    BY <1>1 DEF Rcb
  <2> HIDE DEF q
  <2> QED
    BY <2>1, <2>2 DEF BlockInv
<1>3. BlockInv(o) /\ o.rptEna = FALSE
  <2>1. o \in Rcb
    BY <1>1 DEF Rcb
  <2>2. /\ o.buffer = r.buffer /\ o.nextEntry = r.nextEntry
        /\ o.out = r.out /\ o.sent = r.sent /\ o.dropped = r.dropped
        /\ o.overflowed = r.overflowed /\ o.rptEna = FALSE
    BY <1>1 DEF Rcb
  <2> HIDE DEF o
  <2> QED
    BY <2>1, <2>2 DEF BlockInv
<1> HIDE DEF o
<1>4. BlockInv(f) /\ f.rptEna = FALSE
  BY <1>3, FlushInv DEF SameMode
<1> HIDE DEF f
<1>5. BlockInv(p) /\ p.rptEna = FALSE /\ p.integrityDue = 0
  <2>0. f \in Rcb
    BY <1>4 DEF BlockInv
  <2>1. p \in Rcb
    BY <1>1, <2>0 DEF Rcb
  <2>2. /\ p.buffer = f.buffer /\ p.nextEntry = f.nextEntry
        /\ p.out = f.out /\ p.sent = f.sent /\ p.dropped = f.dropped
        /\ p.overflowed = f.overflowed /\ p.rptEna = f.rptEna
        /\ p.integrityDue = 0
    BY <2>0 DEF Rcb
  <2> HIDE DEF p
  <2> QED
    BY <1>4, <2>1, <2>2 DEF BlockInv
<1> QED
  BY <1>2, <1>5 DEF o, f

(***************************************************************************)
(* The inductive invariant.  ReservationSound is inductive once the type   *)
(* of the block is known; BlockInv is inductive by itself.                 *)
(***************************************************************************)
Inv == TypeOK /\ BlockInv(rcb) /\ ReservationSound /\ Scheduled(rcb)

(***************************************************************************)
(* It holds of a block as the model's SCL file configures it.              *)
(***************************************************************************)
LEMMA InvInit == Init => Inv
<1> SUFFICES ASSUME Init PROVE Inv
  OBVIOUS
<1>1. PICK config \in Config :
          rcb = [config |-> config, rptEna |-> FALSE, everEnabled |-> FALSE,
                 entryID |-> 0, sqNum |-> 0, pending |-> NoValues,
                 buffer |-> <<>>, bytes |-> 0, overflowed |-> FALSE,
                 sent |-> 0, nextEntry |-> 1, gathering |-> 0,
                 bufTimers |-> {}, integrityDue |-> 0, integrityTimers |-> {},
                 out |-> <<>>, dropped |-> 0]
  BY DEF Init
<1>2. /\ <<>> \in Seq(Entry) /\ <<>> \in Seq(Report) /\ Len(<<>>) = 0
      /\ NoValues \in Values /\ 0 \in 0 .. SqMod - 1 /\ 0 \in 0 .. MaxTimers
  BY EmptySeq, ReportingAssumption DEF NoValues, Values
<1>3. rcb \in Rcb
  BY <1>1, <1>2 DEF Rcb
<1>4. /\ rcb.buffer = <<>> /\ rcb.nextEntry = 1 /\ rcb.out = <<>>
      /\ rcb.sent = 0 /\ rcb.dropped = 0 /\ rcb.overflowed = FALSE
      /\ rcb.rptEna = FALSE /\ rcb.integrityDue = 0
  BY <1>1
<1>5. BlockInv(rcb)
  BY <1>2, <1>3, <1>4, ReportingAssumption DEF BlockInv
<1>6. TypeOK
  BY <1>3 DEF Init, TypeOK, NoChange
<1>7. ReservationSound
  BY <1>4 DEF Init, ReservationSound
<1>8. Scheduled(rcb)
  BY <1>4 DEF Scheduled
<1> QED
  BY <1>5, <1>6, <1>7, <1>8 DEF Inv

(***************************************************************************)
(* What remains to prove of an action that leaves the reservation alone.   *)
(***************************************************************************)
LEMMA SameReservation ==
  ASSUME Inv, UNCHANGED <<conn, reservation>>, BlockInv(rcb'),
         rcb'.rptEna = rcb.rptEna, Scheduled(rcb'),
         val' \in [Leaves -> Nat], setting' \in [Setters -> [Leaves -> Nat]]
  PROVE  Inv'
<1>1. rcb' \in Rcb
  BY DEF BlockInv
<1>2. TypeOK'
  BY <1>1 DEF Inv, TypeOK, reservation
<1>3. ReservationSound'
  BY DEF Inv, ReservationSound, Scheduled, reservation
<1>4. BlockInv(rcb)' /\ Scheduled(rcb)'
  BY DEF BlockInv, Scheduled, Periodic
<1> QED
  BY <1>2, <1>3, <1>4 DEF Inv

(***************************************************************************)
(* The other writes of a client: reservation, enabling.                    *)
(***************************************************************************)
LEMMA WriteStep ==
  ASSUME Inv, NEW c \in Conns, WriteOther(c) \/ WriteResume(c)
  PROVE  Inv'
<1> USE DEF Inv
<1>1. rcb.rptEna \in BOOLEAN /\ rcb.integrityDue \in Nat
      /\ rcb.nextEntry \in Nat
  BY DEF BlockInv, Rcb
<1>2. ASSUME NEW wanted \in BOOLEAN, WriteResv(c, wanted) PROVE Inv'
  <2>1. TypeOK' /\ BlockInv(rcb)' /\ Scheduled(rcb)'
    BY <1>2 DEF WriteResv, TypeOK, Take, Release, BlockInv, Scheduled, Periodic
  <2>2. ReservationSound'
    BY <1>2, ConnAssumption
    DEF WriteResv, MayWrite, HeldByOther, Take, Release, ReservationSound, TypeOK
  <2> QED
    BY <2>1, <2>2
<1>3. ASSUME NEW seconds \in ResvTmsValues, WriteResvTms(c, seconds) PROVE Inv'
  <2>1. TypeOK' /\ BlockInv(rcb)' /\ Scheduled(rcb)'
    BY <1>3 DEF WriteResvTms, TypeOK, Take, Release, BlockInv, Scheduled, Periodic
  <2>2. ReservationSound'
    BY <1>3, ConnAssumption, ReportingAssumption
    DEF WriteResvTms, MayWrite, HeldByOther, Take, Release, ReservationSound, TypeOK
  <2> QED
    BY <2>1, <2>2
<1>4. CASE WritePurgeBuf(c)
  <2>1. BlockInv(rcb') /\ SameMode(rcb', rcb)
    BY <1>4, PurgeInv DEF WritePurgeBuf
  <2> QED
    BY <1>4, <2>1, SameReservation
    DEF WritePurgeBuf, SameMode, TypeOK, ReservationSound, Scheduled, Periodic
<1>5. ASSUME NEW id \in 0 .. rcb.nextEntry - 1, WriteEntryID(c, id) PROVE Inv'
  <2>1. id \in Nat
    BY <1>1
  <2>2. BlockInv(rcb') /\ SameMode(rcb', rcb)
    BY <1>5, <2>1, WriteEntryIDInv DEF WriteEntryID
  <2> QED
    BY <1>5, <2>2, SameReservation
    DEF WriteEntryID, SameMode, TypeOK, ReservationSound, Scheduled, Periodic
<1>6. ASSUME NEW a \in DOMAIN ConfigValues, NEW v \in ConfigValues[a],
             WriteConfig(c, a, v)
      PROVE  Inv'
  <2>1. BlockInv(rcb') /\ rcb'.rptEna = rcb.rptEna
        /\ rcb'.integrityDue = rcb.integrityDue /\ ~rcb.rptEna
    BY <1>6, ConfigInv DEF WriteConfig
  <2> QED
    BY <1>6, <2>1, SameReservation
    DEF WriteConfig, TypeOK, ReservationSound, Scheduled, Periodic
<1>7. CASE WriteGI(c)
  <2>1. BlockInv(Flush(rcb)) /\ SameMode(Flush(rcb), rcb)
    BY FlushInv
  <2>2. BlockInv(rcb') /\ SameMode(rcb', Flush(rcb))
    BY <1>7, <2>1, ReportAllInv DEF WriteGI, TypeOK
  <2> QED
    BY <1>7, <2>1, <2>2, SameReservation
    DEF WriteGI, SameMode, TypeOK, ReservationSound, Scheduled, Periodic
<1>8. CASE Enable(c)
  <2>0. rcb.integrityDue = 0 /\ rcb.integrityTimers # 1 .. MaxTimers
    BY <1>8 DEF Enable, ReservationSound
  <2>1. BlockInv(rcb') /\ rcb'.rptEna /\ Scheduled(rcb')
    BY <1>8, <2>0, EnabledInv DEF Enable
  <2>2. TypeOK' /\ BlockInv(rcb)' /\ Scheduled(rcb)'
    BY <1>8, <2>1 DEF Enable, TypeOK, Take, BlockInv, Scheduled, Periodic
  <2>3. ReservationSound'
    BY <1>8, <2>1, ConnAssumption
    DEF Enable, MayWrite, HeldByOther, Take, ReservationSound, Scheduled, TypeOK
  <2> QED
    BY <2>2, <2>3
<1>9. CASE Disable(c)
  <2>1. BlockInv(rcb') /\ rcb'.rptEna = FALSE /\ rcb'.integrityDue = 0
    BY <1>9, SwitchInv DEF Disable
  <2>2. TypeOK' /\ BlockInv(rcb)' /\ Scheduled(rcb)'
    BY <1>9, <2>1 DEF Disable, TypeOK, reservation, BlockInv, Scheduled
  <2>3. ReservationSound'
    BY <1>9, <2>1 DEF Disable, reservation, ReservationSound
  <2> QED
    BY <2>2, <2>3
<1> QED
  BY <1>2, <1>3, <1>4, <1>5, <1>6, <1>7, <1>8, <1>9 DEF WriteOther, WriteResume

(***************************************************************************)
(* Connections, and the timers of reservations.                            *)
(***************************************************************************)
LEMMA ConnectionStep ==
  ASSUME Inv, NEW c \in Conns, Connection(c) \/ LapseTimer(c)
  PROVE  Inv'
<1> USE DEF Inv
<1>1. CASE Accept(c)
  <2>1. TypeOK' /\ BlockInv(rcb)' /\ Scheduled(rcb)'
    BY <1>1 DEF Accept, TypeOK, reservation, BlockInv, Scheduled, Periodic
  <2>2. ReservationSound'
    BY <1>1, ConnAssumption DEF Accept, reservation, ReservationSound, TypeOK
  <2> QED
    BY <2>1, <2>2
<1>2. CASE Lose(c)
  <2>1. TypeOK' /\ BlockInv(rcb)' /\ Scheduled(rcb)'
    BY <1>2 DEF Lose, TypeOK, reservation, BlockInv, Scheduled, Periodic
  <2>2. ReservationSound'
    BY <1>2, ConnAssumption DEF Lose, reservation, ReservationSound, TypeOK
  <2> QED
    BY <2>1, <2>2
<1>3. CASE Forget(c) /\ owner # c
  <2>1. TypeOK' /\ BlockInv(rcb)' /\ Scheduled(rcb)'
    BY <1>3 DEF Forget, TypeOK, reservation, BlockInv, Scheduled, Periodic
  <2>2. ReservationSound'
    BY <1>3, ConnAssumption DEF Forget, reservation, ReservationSound, TypeOK
  <2> QED
    BY <2>1, <2>2
<1>4. CASE Forget(c) /\ owner = c
  <2>1. BlockInv(rcb') /\ rcb'.rptEna = FALSE /\ rcb'.integrityDue = 0
    BY <1>4, SwitchInv DEF Forget
  <2>2. TypeOK' /\ BlockInv(rcb)' /\ Scheduled(rcb)'
    BY <1>4, <2>1 DEF Forget, TypeOK, KeepFor, Release, BlockInv, Scheduled
  <2>3. ReservationSound'
    BY <1>4, <2>1, ConnAssumption
    DEF Forget, KeepFor, Release, ReservationSound, TypeOK
  <2> QED
    BY <2>2, <2>3
<1>5. CASE DeadlinePasses(c)
  <2>1. TypeOK' /\ BlockInv(rcb)' /\ Scheduled(rcb)'
    BY <1>5 DEF DeadlinePasses, TypeOK, BlockInv, Scheduled, Periodic
  <2>2. ReservationSound'
    BY <1>5, ConnAssumption DEF DeadlinePasses, ReservationSound, TypeOK
  <2> QED
    BY <2>1, <2>2
<1>6. CASE Lapse(c)
  <2>1. TypeOK' /\ BlockInv(rcb)' /\ Scheduled(rcb)'
    BY <1>6 DEF Lapse, TypeOK, Release, BlockInv, Scheduled, Periodic
  <2>2. ReservationSound'
    BY <1>6, ConnAssumption DEF Lapse, Release, ReservationSound, TypeOK
  <2> QED
    BY <2>1, <2>2
<1> QED
  BY <1>1, <1>2, <1>3, <1>4, <1>5, <1>6 DEF Connection, LapseTimer

(***************************************************************************)
(* A BufTm timer: that of what is gathered now, or one left over.          *)
(***************************************************************************)
LEMMA BufTmInv ==
  ASSUME BlockInv(rcb), BufTmExpires
  PROVE  BlockInv(rcb') /\ SameMode(rcb', rcb)
<1>1. PICK g : rcb' = IF rcb.gathering = g
                      THEN Flush([rcb EXCEPT !.bufTimers = @ \ {g}])
                      ELSE [rcb EXCEPT !.bufTimers = @ \ {g}]
  BY DEF BufTmExpires
<1> DEFINE fired == [rcb EXCEPT !.bufTimers = @ \ {g}]
<1>2. BlockInv(fired) /\ SameMode(fired, rcb)
  BY BufTimerFires
<1> HIDE DEF fired
<1>3. BlockInv(Flush(fired)) /\ SameMode(Flush(fired), fired)
  BY <1>2, FlushInv
<1>4. rcb' = fired \/ rcb' = Flush(fired)
  BY <1>1 DEF fired
<1> QED
  BY <1>2, <1>3, <1>4 DEF SameMode

(***************************************************************************)
(* An integrity timer: the one that is due makes a report and schedules    *)
(* the next, one left over of an earlier enabling does nothing.            *)
(***************************************************************************)
LEMMA IntegrityInv ==
  ASSUME BlockInv(rcb), Scheduled(rcb), val \in [Leaves -> Nat],
         NEW due \in 1 .. MaxTimers, IntegrityFires(due)
  PROVE  /\ BlockInv(rcb') /\ rcb'.rptEna = rcb.rptEna
         /\ rcb'.config = rcb.config /\ Scheduled(rcb')
<1> DEFINE fired == [rcb EXCEPT !.integrityTimers = @ \ {due}]
           a == ReportAll(Flush(fired))
<1>1. /\ BlockInv(fired) /\ fired.rptEna = rcb.rptEna
      /\ fired.config = rcb.config /\ fired.integrityDue = rcb.integrityDue
      /\ fired.integrityTimers = rcb.integrityTimers \ {due}
  BY IntegrityTimerFires
<1>2. IF rcb.rptEna /\ rcb.integrityDue = due
      THEN rcb' = ScheduleIntegrity(a) ELSE rcb' = fired
  BY DEF IntegrityFires
<1> HIDE DEF fired
<1>3. CASE rcb.rptEna /\ rcb.integrityDue = due
  <2>1. BlockInv(Flush(fired)) /\ SameMode(Flush(fired), fired)
    BY <1>1, FlushInv
  <2>2. BlockInv(a) /\ SameMode(a, Flush(fired))
    BY <2>1, ReportAllInv
  <2> HIDE DEF a
  <2>3. /\ a.rptEna = rcb.rptEna /\ a.config = rcb.config
        /\ a.integrityTimers = rcb.integrityTimers \ {due}
    BY <1>1, <2>1, <2>2 DEF SameMode
  <2>4. a.integrityTimers # 1 .. MaxTimers
    BY <2>3
  <2>5. Periodic(a)
    BY <1>3, <2>3 DEF Scheduled, Periodic
  <2>6. /\ BlockInv(rcb') /\ rcb'.rptEna = a.rptEna
        /\ rcb'.config = a.config /\ rcb'.integrityDue \in rcb'.integrityTimers
    BY <1>2, <1>3, <2>2, <2>4, <2>5, ScheduleInv
  <2> QED
    BY <1>3, <2>3, <2>5, <2>6 DEF Scheduled, Periodic
<1>4. CASE ~(rcb.rptEna /\ rcb.integrityDue = due)
  BY <1>1, <1>2, <1>4 DEF Scheduled, Periodic
<1> QED
  BY <1>3, <1>4

(***************************************************************************)
(* The BufTm and integrity timers, and changes of values.                  *)
(***************************************************************************)
LEMMA ReportStep ==
  ASSUME Inv, Timers \/ \E s \in Setters : Change(s)
  PROVE  Inv'
<1> USE DEF Inv
<1>1. CASE BufTmExpires
  <2>1. BlockInv(rcb') /\ SameMode(rcb', rcb)
    BY <1>1, BufTmInv
  <2> QED
    BY <1>1, <2>1, SameReservation
    DEF BufTmExpires, SameMode, TypeOK, Scheduled, Periodic
<1>2. ASSUME NEW due \in 1 .. MaxTimers, IntegrityFires(due) PROVE Inv'
  <2>1. BlockInv(rcb') /\ rcb'.rptEna = rcb.rptEna /\ Scheduled(rcb')
    BY <1>2, IntegrityInv DEF TypeOK
  <2> QED
    BY <1>2, <2>1, SameReservation DEF IntegrityFires, TypeOK
<1>3. ASSUME NEW s \in Setters, NEW leaf \in Leaves, Assign(s, leaf)
      PROVE  Inv'
  <2>1. /\ val' \in [Leaves -> Nat]
        /\ setting' \in [Setters -> [Leaves -> Nat]]
    BY <1>3 DEF Assign, TypeOK
  <2> QED
    BY <1>3, <2>1, SameReservation DEF Assign
<1>4. ASSUME NEW s \in Setters, Notify(s) PROVE Inv'
  <2> DEFINE places == {p \in DOMAIN Members(rcb) :
                           setting[s][Members(rcb)[p]] > 0}
  <2>1. Current(rcb, places) \in Values
    BY CurrentType DEF TypeOK, BlockInv
  <2> HIDE DEF places
  <2>2. /\ BlockInv(Add(rcb, Current(rcb, places)))
        /\ SameMode(Add(rcb, Current(rcb, places)), rcb)
    BY <2>1, AddInv
  <2>3. rcb' = rcb \/ rcb' = Add(rcb, Current(rcb, places))
    BY <1>4 DEF Notify, places
  <2>4. BlockInv(rcb') /\ SameMode(rcb', rcb)
    BY <2>2, <2>3 DEF SameMode
  <2>5. setting' \in [Setters -> [Leaves -> Nat]]
    BY <1>4 DEF Notify, NoChange, TypeOK
  <2> QED
    BY <1>4, <2>4, <2>5, SameReservation
    DEF Notify, SameMode, TypeOK, Scheduled, Periodic
<1> QED
  BY <1>1, <1>2, <1>3, <1>4 DEF Timers, Change

(***************************************************************************)
(* The invariant holds of every behaviour.                                 *)
(***************************************************************************)
THEOREM Invariance == Spec => []Inv
<1>1. Inv /\ [Next]_vars => Inv'
  <2> SUFFICES ASSUME Inv, [Next]_vars PROVE Inv'
    OBVIOUS
  <2>1. CASE UNCHANGED vars
    BY <2>1 DEF vars, reservation, Inv, TypeOK, BlockInv, ReservationSound,
                Scheduled, Periodic
  <2>2. CASE Next
    BY <2>2, WriteStep, ConnectionStep, ReportStep DEF Next, Others
  <2> QED
    BY <2>1, <2>2
<1> QED
  BY <1>1, InvInit, PTL DEF Spec

(***************************************************************************)
(* The variables keep their types: with it, that every report and every    *)
(* entry is one of the data set's members.                                 *)
(***************************************************************************)
THEOREM TypeCorrect == Spec => []TypeOK
BY Invariance, PTL DEF Inv

(***************************************************************************)
(* server/reporting.py's reservation never dangles, for any number of      *)
(* connections and in any order of writes, closings and timers.            *)
(***************************************************************************)
THEOREM ReservationIsSound == Spec => []ReservationSound
BY Invariance, PTL DEF Inv

(***************************************************************************)
(* The buffer holds consecutive entries, within its bound.                 *)
(***************************************************************************)
THEOREM BufferIsContiguous == Spec => []BufferContiguous
<1>1. Inv => BufferContiguous
  <2> SUFFICES ASSUME Inv PROVE BufferContiguous
    OBVIOUS
  <2>1. rcb.buffer \in Seq(Entry)
    BY DEF Inv, BlockInv, Rcb
  <2>2. DOMAIN rcb.buffer = 1 .. Len(rcb.buffer)
    BY <2>1, LenProperties
  <2> QED
    BY <2>2 DEF Inv, BlockInv, BufferContiguous
<1> QED
  BY <1>1, Invariance, PTL

(***************************************************************************)
(* The reports of one enabling are all the entries since its first, in     *)
(* order, each once.                                                       *)
(***************************************************************************)
THEOREM SessionIsContiguous == Spec => []SessionContiguous
<1>1. Inv => SessionContiguous
  <2> SUFFICES ASSUME Inv PROVE SessionContiguous
    OBVIOUS
  <2>1. rcb.out \in Seq(Report)
    BY DEF Inv, BlockInv, Rcb
  <2>2. DOMAIN rcb.out = 1 .. Len(rcb.out)
    BY <2>1, LenProperties
  <2> QED
    BY <2>2 DEF Inv, BlockInv, SessionContiguous
<1> QED
  BY <1>1, Invariance, PTL

(***************************************************************************)
(* BufOvfl is announced exactly when an entry later than the last one sent *)
(* has been dropped.                                                       *)
(***************************************************************************)
THEOREM OverflowIsExact == Spec => []OverflowExact
<1>1. Inv => OverflowExact
  BY DEF Inv, BlockInv, OverflowExact
<1> QED
  BY <1>1, Invariance, PTL

----------------------------------------------------------------------------
(* The reservation implements Lease                                        *)

(***************************************************************************)
(* A step that changes neither the owner, RptEna, what is kept, the lapse  *)
(* timers nor the connections is a stuttering step of Lease.               *)
(***************************************************************************)
LEMMA LeaseStutter ==
  ASSUME UNCHANGED <<conn, owner, reservedUntil, lapse>>,
         rcb'.rptEna = rcb.rptEna
  PROVE  UNCHANGED L!lvars
BY DEF L!lvars

(***************************************************************************)
(* A connection that takes a block nobody holds acquires the lease.        *)
(***************************************************************************)
LEMMA LeaseAcquire ==
  ASSUME Inv, Inv', NEW c \in Conns, MayWrite(c), Take(c), owner = None,
         UNCHANGED <<conn, lapse>>
  PROVE  L!LeaseNext
<1>1. L!Acquire(c)
  <2>1. c \notin {d \in Conns : conn[d] = "gone"}
    BY DEF MayWrite
  <2>2. L!Free(c)
    BY ConnAssumption
    DEF L!Free, MayWrite, HeldByOther, Inv, ReservationSound, TypeOK
  <2>3. rcb'.rptEna \in BOOLEAN
    BY DEF Inv, BlockInv, Rcb
  <2> QED
    BY <2>1, <2>2, <2>3 DEF L!Acquire, Take
<1> QED
  BY <1>1 DEF L!LeaseNext

(***************************************************************************)
(* Every write of a client is a step of Lease, or changes nothing of it.   *)
(***************************************************************************)
LEMMA LeaseWrite ==
  ASSUME Inv, Inv', NEW c \in Conns, WriteOther(c) \/ WriteResume(c)
  PROVE  L!LeaseNext \/ UNCHANGED L!lvars
<1>0. BlockInv(rcb) /\ rcb.rptEna \in BOOLEAN
  BY DEF Inv, BlockInv, Rcb
<1>1. ASSUME NEW wanted \in BOOLEAN, WriteResv(c, wanted)
      PROVE  L!LeaseNext \/ UNCHANGED L!lvars
  <2>1. CASE wanted /\ owner = None
    BY <1>1, <2>1, LeaseAcquire DEF WriteResv
  <2>2. CASE wanted /\ owner # None
    BY <1>1, <2>2, LeaseStutter
    DEF WriteResv, MayWrite, HeldByOther, Take, Inv, ReservationSound
  <2>3. CASE ~wanted /\ owner # None
    <3>1. L!GiveUp(c)
      BY <1>1, <2>3, ConnAssumption
      DEF WriteResv, MayWrite, HeldByOther, Release, Inv, ReservationSound,
          L!GiveUp
    <3> QED
      BY <3>1 DEF L!LeaseNext
  <2>4. CASE ~wanted /\ owner = None
    <3>1. reservedUntil = None
      BY <1>1, ReportingAssumption, ConnAssumption
      DEF WriteResv, Inv, ReservationSound, TypeOK
    <3> QED
      BY <1>1, <2>4, <3>1, LeaseStutter DEF WriteResv, Release
  <2> QED
    BY <2>1, <2>2, <2>3, <2>4
<1>2. ASSUME NEW seconds \in ResvTmsValues, WriteResvTms(c, seconds)
      PROVE  L!LeaseNext \/ UNCHANGED L!lvars
  <2>1. CASE seconds # 0 /\ owner = None
    BY <1>2, <2>1, LeaseAcquire DEF WriteResvTms
  <2>2. CASE seconds # 0 /\ owner # None
    BY <1>2, <2>2, LeaseStutter
    DEF WriteResvTms, MayWrite, HeldByOther, Take, Inv, ReservationSound
  <2>3. CASE seconds = 0 /\ owner = c
    <3>1. L!GiveUp(c)
      BY <1>2, <2>3, ConnAssumption
      DEF WriteResvTms, Release, Inv, ReservationSound, L!GiveUp
    <3> QED
      BY <3>1 DEF L!LeaseNext
  <2>4. CASE seconds = 0 /\ owner # c
    BY <1>2, <2>4, LeaseStutter DEF WriteResvTms
  <2> QED
    BY <2>1, <2>2, <2>3, <2>4
<1>3. CASE WritePurgeBuf(c)
  BY <1>0, <1>3, PurgeInv, LeaseStutter
  DEF WritePurgeBuf, SameMode, reservation
<1>4. ASSUME NEW id \in 0 .. rcb.nextEntry - 1, WriteEntryID(c, id)
      PROVE  L!LeaseNext \/ UNCHANGED L!lvars
  <2>1. rcb'.rptEna = rcb.rptEna
    BY <1>0, <1>4 DEF WriteEntryID, BlockInv, Rcb
  <2> QED
    BY <1>4, <2>1, LeaseStutter DEF WriteEntryID, reservation
<1>5. ASSUME NEW a \in DOMAIN ConfigValues, NEW v \in ConfigValues[a],
             WriteConfig(c, a, v)
      PROVE  L!LeaseNext \/ UNCHANGED L!lvars
  BY <1>0, <1>5, ConfigInv, LeaseStutter DEF WriteConfig, reservation
<1>6. CASE WriteGI(c)
  <2>1. BlockInv(Flush(rcb)) /\ SameMode(Flush(rcb), rcb)
    BY <1>0, FlushInv
  <2>2. SameMode(rcb', Flush(rcb))
    BY <1>6, <2>1, ReportAllInv DEF WriteGI, Inv, TypeOK
  <2> QED
    BY <1>6, <2>1, <2>2, LeaseStutter DEF WriteGI, SameMode, reservation
<1>7. CASE Enable(c)
  <2>1. CASE owner = None
    BY <1>7, <2>1, LeaseAcquire DEF Enable
  <2>2. CASE owner # None
    <3>1. rcb'.rptEna = TRUE /\ rcb.rptEna = FALSE
      <4>1. rcb.integrityTimers # 1 .. MaxTimers /\ rcb.integrityDue = 0
        BY <1>7 DEF Enable, Inv, ReservationSound
      <4>2. Enabled(rcb).rptEna /\ Enabled(rcb) \in Rcb
        BY <1>0, <4>1, EnabledInv DEF BlockInv
      <4>3. Enabled(rcb).rptEna \in BOOLEAN /\ rcb.rptEna \in BOOLEAN
        BY <1>0, <4>2 DEF BlockInv, Rcb
      <4> QED
        BY <1>7, <4>2, <4>3 DEF Enable
    <3>2. L!Use(c)
      BY <1>7, <2>2, <3>1
      DEF Enable, MayWrite, HeldByOther, Take, Inv, ReservationSound, L!Use
    <3> QED
      BY <3>2 DEF L!LeaseNext
  <2> QED
    BY <2>1, <2>2
<1>8. CASE Disable(c)
  <2>1. rcb'.rptEna = FALSE
    BY <1>0, <1>8, SwitchInv DEF Disable
  <2>2. owner = c /\ rcb.rptEna = TRUE
    BY <1>0, <1>8 DEF Disable, MayWrite, HeldByOther, Inv, ReservationSound
  <2>3. L!Use(c)
    BY <1>8, <2>1, <2>2 DEF Disable, reservation, L!Use
  <2> QED
    BY <2>3 DEF L!LeaseNext
<1> QED
  BY <1>1, <1>2, <1>3, <1>4, <1>5, <1>6, <1>7, <1>8 DEF WriteOther, WriteResume

(***************************************************************************)
(* A connection that is forgotten leaves; a lapse ends what was kept.      *)
(***************************************************************************)
LEMMA LeaseConnection ==
  ASSUME Inv, Inv', NEW c \in Conns, Connection(c) \/ LapseTimer(c)
  PROVE  L!LeaseNext \/ UNCHANGED L!lvars
<1>1. CASE Accept(c) \/ Lose(c)
  <2>1. {d \in Conns : conn'[d] = "gone"} = {d \in Conns : conn[d] = "gone"}
    BY <1>1 DEF Accept, Lose, Inv, TypeOK
  <2> QED
    BY <1>1, <2>1 DEF Accept, Lose, reservation, L!lvars
<1>2. CASE Forget(c)
  <2>1. {d \in Conns : conn'[d] = "gone"}
           = {d \in Conns : conn[d] = "gone"} \cup {c}
        /\ c \notin {d \in Conns : conn[d] = "gone"}
    BY <1>2 DEF Forget, Inv, TypeOK
  <2>2. CASE owner # c
    <3>1. L!Leave(c)
      BY <1>2, <2>1, <2>2 DEF Forget, reservation, L!Leave
    <3> QED
      BY <3>1 DEF L!LeaseNext
  <2>3. CASE owner = c
    <3>1. rcb'.rptEna = FALSE
      BY <1>2, <2>3, SwitchInv DEF Forget, Inv
    <3>2. owner' = None /\ reservedUntil' \in {None, c}
          /\ (reservedUntil' # None => lapse'[reservedUntil'] = "armed")
      BY <1>2, <2>3 DEF Forget, KeepFor, Release, Inv, TypeOK
    <3>3. L!Leave(c)
      BY <2>1, <2>3, <3>1, <3>2 DEF L!Leave
    <3> QED
      BY <3>3 DEF L!LeaseNext
  <2> QED
    BY <2>2, <2>3
<1>3. CASE DeadlinePasses(c)
  <2>1. CASE reservedUntil = c
    <3>1. L!TimePasses
      BY <1>3, <2>1, ConnAssumption DEF DeadlinePasses, Inv, TypeOK, L!TimePasses
    <3> QED
      BY <3>1 DEF L!LeaseNext
  <2>2. CASE reservedUntil # c
    BY <1>3, <2>2 DEF DeadlinePasses, Inv, TypeOK, L!lvars
  <2> QED
    BY <2>1, <2>2
<1>4. CASE Lapse(c)
  <2>1. CASE owner = None /\ reservedUntil = c
    <3>1. L!Expire
      BY <1>4, <2>1, ConnAssumption DEF Lapse, Release, L!Expire
    <3> QED
      BY <3>1 DEF L!LeaseNext
  <2>2. CASE ~(owner = None /\ reservedUntil = c)
    <3>1. reservedUntil # c
      BY <2>2, ConnAssumption DEF Inv, ReservationSound
    <3> QED
      BY <1>4, <2>2, <3>1 DEF Lapse, Inv, TypeOK, L!lvars
  <2> QED
    BY <2>1, <2>2
<1> QED
  BY <1>1, <1>2, <1>3, <1>4 DEF Connection, LapseTimer

(***************************************************************************)
(* Timers and changes never touch the reservation.                         *)
(***************************************************************************)
LEMMA LeaseReport ==
  ASSUME Inv, Inv', Timers \/ \E s \in Setters : Change(s)
  PROVE  UNCHANGED L!lvars
<1>1. CASE BufTmExpires
  BY <1>1, BufTmInv, LeaseStutter DEF Inv, BufTmExpires, SameMode, reservation
<1>2. ASSUME NEW due \in 1 .. MaxTimers, IntegrityFires(due)
      PROVE  UNCHANGED L!lvars
  <2>1. rcb'.rptEna = rcb.rptEna
    BY <1>2, IntegrityInv DEF Inv, TypeOK
  <2> QED
    BY <1>2, <2>1, LeaseStutter DEF IntegrityFires, reservation
<1>3. ASSUME NEW s \in Setters, NEW leaf \in Leaves, Assign(s, leaf)
      PROVE  UNCHANGED L!lvars
  BY <1>3, LeaseStutter DEF Assign, reservation
<1>4. ASSUME NEW s \in Setters, Notify(s) PROVE UNCHANGED L!lvars
  <2> DEFINE places == {p \in DOMAIN Members(rcb) :
                           setting[s][Members(rcb)[p]] > 0}
  <2>1. Current(rcb, places) \in Values
    BY CurrentType DEF Inv, TypeOK, BlockInv
  <2> HIDE DEF places
  <2>2. SameMode(Add(rcb, Current(rcb, places)), rcb)
    BY <2>1, AddInv DEF Inv
  <2>3. rcb' = rcb \/ rcb' = Add(rcb, Current(rcb, places))
    BY <1>4 DEF Notify, places
  <2> QED
    BY <1>4, <2>2, <2>3, LeaseStutter DEF Notify, SameMode, reservation
<1> QED
  BY <1>1, <1>2, <1>3, <1>4 DEF Timers, Change

(***************************************************************************)
(* The reservation of server/reporting.py is a lease: one holder at a      *)
(* time, who keeps the block while it is enabled and until it leaves, and  *)
(* after it only its station until the time has passed.                    *)
(***************************************************************************)
THEOREM ReservationImplementsLease == Spec => ReservationIsLease
<1>1. Init => L!LeaseInit
  <2> SUFFICES ASSUME Init PROVE L!LeaseInit
    OBVIOUS
  <2>1. rcb.rptEna = FALSE
    BY DEF Init
  <2> QED
    BY <2>1 DEF Init, L!LeaseInit
<1>2. Inv /\ Inv' /\ [Next]_vars => [L!LeaseNext]_(L!lvars)
  <2> SUFFICES ASSUME Inv, Inv', [Next]_vars
               PROVE  L!LeaseNext \/ UNCHANGED L!lvars
    OBVIOUS
  <2>1. CASE UNCHANGED vars
    BY <2>1, LeaseStutter DEF vars, reservation
  <2>2. CASE Next
    BY <2>2, LeaseWrite, LeaseConnection, LeaseReport DEF Next, Others
  <2> QED
    BY <2>1, <2>2
<1> QED
  BY <1>1, <1>2, Invariance, PTL DEF Spec, ReservationIsLease, L!LeaseSpec

----------------------------------------------------------------------------
(* The size of the buffer                                                  *)

(***************************************************************************)
(* What SizeOf counts: the members included in the entries of a sequence.  *)
(***************************************************************************)
Pairs(s) == {kp \in (DOMAIN s) \X Places : s[kp[1]].values[kp[2]] # None}

(***************************************************************************)
(* They are finitely many.                                                 *)
(***************************************************************************)
LEMMA PairsFinite == ASSUME NEW s \in Seq(Entry) PROVE IsFiniteSet(Pairs(s))
<1>1. Len(s) \in Nat /\ DOMAIN s = 1 .. Len(s)
  BY LenProperties
<1>2. IsFiniteSet(DOMAIN s)
  BY <1>1, FS_Interval
<1>3. IsFiniteSet((DOMAIN s) \X Places)
  BY <1>2, PlacesFinite, FS_Product
<1>4. Pairs(s) \in SUBSET ((DOMAIN s) \X Places)
  BY DEF Pairs
<1> QED
  BY <1>3, <1>4, FS_Subset

(***************************************************************************)
(* Sequences cut in two: the sizes of the parts add up.                    *)
(***************************************************************************)
LEMMA SizeOfSplit ==
  ASSUME NEW s \in Seq(Entry), NEW n \in 0 .. Len(s)
  PROVE  /\ SubSeq(s, 1, n) \in Seq(Entry)
         /\ SubSeq(s, n + 1, Len(s)) \in Seq(Entry)
         /\ Len(SubSeq(s, n + 1, Len(s))) = Len(s) - n
         /\ SizeOf(s) = SizeOf(SubSeq(s, 1, n))
                          + SizeOf(SubSeq(s, n + 1, Len(s)))
<1> DEFINE a == SubSeq(s, 1, n)
           b == SubSeq(s, n + 1, Len(s))
           Low == {kp \in Pairs(s) : kp[1] <= n}
           High == {kp \in Pairs(s) : kp[1] > n}
           f == [kp \in Pairs(b) |-> <<kp[1] + n, kp[2]>>]
<1>1. /\ Len(s) \in Nat /\ n \in Nat /\ n <= Len(s) /\ DOMAIN s = 1 .. Len(s)
      /\ \A k \in 1 .. Len(s) : s[k] \in Entry
  BY LenProperties, ElementOfSeq
<1>2. /\ a \in Seq(Entry) /\ DOMAIN a = 1 .. n
      /\ \A k \in 1 .. n : a[k] = s[k]
  <2>1. \A k \in 1 .. n : s[k] \in Entry
    BY <1>1
  <2>2. /\ a \in Seq(Entry)
        /\ Len(a) = IF 1 <= n THEN n - 1 + 1 ELSE 0
        /\ \A k \in 1 .. n - 1 + 1 : a[k] = s[1 + k - 1]
    BY <1>1, <2>1, SubSeqProperties
  <2> QED
    BY <1>1, <2>2, LenProperties
<1>3. /\ b \in Seq(Entry) /\ Len(b) = Len(s) - n
      /\ DOMAIN b = 1 .. Len(s) - n
      /\ \A k \in 1 .. Len(s) - n : b[k] = s[n + k]
  <2>1. \A k \in n + 1 .. Len(s) : s[k] \in Entry
    BY <1>1
  <2>2. /\ b \in Seq(Entry)
        /\ Len(b) = IF n + 1 <= Len(s) THEN Len(s) - (n + 1) + 1 ELSE 0
        /\ \A k \in 1 .. Len(s) - (n + 1) + 1 : b[k] = s[(n + 1) + k - 1]
    BY <1>1, <2>1, SubSeqProperties
  <2> HIDE DEF b
  <2>3. Len(b) = Len(s) - n /\ Len(s) - (n + 1) + 1 = Len(s) - n
    <3>1. Len(b) = IF n + 1 <= Len(s) THEN Len(s) - (n + 1) + 1 ELSE 0
      BY <2>2
    <3>2. Len(s) \in Nat /\ n \in Nat /\ n <= Len(s)
      BY <1>1
    <3> QED
      BY <3>1, <3>2
  <2>4. \A k \in 1 .. Len(s) - n : (n + 1) + k - 1 = n + k
    BY <1>1
  <2>5. DOMAIN b = 1 .. Len(b)
    BY <2>2, LenProperties
  <2>6. ASSUME NEW k \in 1 .. Len(s) - n PROVE b[k] = s[n + k]
    BY <2>2, <2>3, <2>4
  <2> QED
    BY <2>2, <2>3, <2>5, <2>6
<1> HIDE DEF a, b
<1>4. Low = Pairs(a)
  <2>1. ASSUME NEW kp PROVE kp \in Low <=> kp \in Pairs(a)
    <3>1. kp \in Low <=> /\ kp \in (1 .. Len(s)) \X Places
                         /\ s[kp[1]].values[kp[2]] # None
                         /\ kp[1] <= n
      BY <1>1 DEF Pairs
    <3>2. kp \in Pairs(a) <=> /\ kp \in (1 .. n) \X Places
                              /\ a[kp[1]].values[kp[2]] # None
      BY <1>2 DEF Pairs
    <3>3. kp \in (1 .. n) \X Places
            <=> kp \in (1 .. Len(s)) \X Places /\ kp[1] <= n
      BY <1>1
    <3>4. kp \in (1 .. n) \X Places => a[kp[1]] = s[kp[1]]
      BY <1>2
    <3> HIDE DEF Low
    <3> QED
      BY <3>1, <3>2, <3>3, <3>4
  <2> HIDE DEF Low
  <2> QED
    BY <2>1
<1>5. f \in Bijection(Pairs(b), High)
  <2>1. ASSUME NEW kp \in Pairs(b) PROVE f[kp] \in High
    <3>1. kp[1] \in 1 .. Len(s) - n /\ kp[2] \in Places
          /\ b[kp[1]].values[kp[2]] # None
      BY <2>1, <1>3 DEF Pairs
    <3>2. kp[1] + n \in 1 .. Len(s) /\ kp[1] + n > n /\ n + kp[1] = kp[1] + n
      BY <1>1, <3>1
    <3>3. b[kp[1]] = s[kp[1] + n]
      BY <1>3, <3>1, <3>2
    <3>4. <<kp[1] + n, kp[2]>> \in Pairs(s)
      BY <1>1, <3>1, <3>2, <3>3 DEF Pairs
    <3> QED
      BY <3>2, <3>4
  <2>2. ASSUME NEW x \in Pairs(b), NEW y \in Pairs(b), f[x] = f[y]
        PROVE  x = y
    <3>1. /\ x = <<x[1], x[2]>> /\ y = <<y[1], y[2]>>
          /\ x[1] \in Int /\ y[1] \in Int
      BY <1>1, <1>3 DEF Pairs
    <3>2. x[1] + n = y[1] + n /\ x[2] = y[2]
      BY <2>2
    <3>3. x[1] = y[1]
      BY <1>1, <3>1, <3>2
    <3> QED
      BY <3>1, <3>2, <3>3
  <2>3. ASSUME NEW kp \in High PROVE \E x \in Pairs(b) : f[x] = kp
    <3>1. /\ kp[1] \in 1 .. Len(s) /\ kp[2] \in Places /\ kp[1] > n
          /\ kp = <<kp[1], kp[2]>> /\ s[kp[1]].values[kp[2]] # None
      BY <1>1, <2>3 DEF Pairs
    <3> DEFINE k == kp[1] - n
    <3>2. k \in 1 .. Len(s) - n /\ n + k = kp[1] /\ k + n = kp[1]
      BY <1>1, <3>1
    <3> HIDE DEF k
    <3>3. b[k] = s[kp[1]]
      BY <1>3, <3>2
    <3>4. <<k, kp[2]>> \in Pairs(b)
      BY <1>3, <3>1, <3>2, <3>3 DEF Pairs
    <3>5. f[<<k, kp[2]>>] = kp
      BY <3>1, <3>2, <3>4
    <3> QED
      BY <3>4, <3>5
  <2> HIDE DEF High
  <2>4. f \in [Pairs(b) -> High]
    BY <2>1
  <2> HIDE DEF f
  <2> QED
    BY <2>2, <2>3, <2>4, Fun_IsBij
<1>6. IsFiniteSet(Pairs(a)) /\ IsFiniteSet(Pairs(b)) /\ IsFiniteSet(Pairs(s))
  BY <1>2, <1>3, PairsFinite
<1>7. IsFiniteSet(High) /\ Cardinality(High) = Cardinality(Pairs(b))
  <2>1. ExistsBijection(Pairs(b), High)
    BY <1>5 DEF ExistsBijection
  <2> QED
    BY <1>6, <2>1, FS_Bijection
<1>8. Low \cup High = Pairs(s) /\ Low \cap High = {}
  BY <1>1 DEF Pairs
<1>9. Cardinality(Pairs(s)) = Cardinality(Pairs(a)) + Cardinality(Pairs(b))
  <2> HIDE DEF High, Low
  <2>1. Cardinality(Low \cup High)
          = Cardinality(Low) + Cardinality(High) - Cardinality(Low \cap High)
    BY <1>4, <1>6, <1>7, FS_Union
  <2>2. Cardinality(Low \cap High) = 0
    BY <1>8, FS_EmptySet
  <2>3. Cardinality(Low) \in Nat /\ Cardinality(High) \in Nat
    BY <1>4, <1>6, <1>7, FS_CardinalityType
  <2>4. Cardinality(Low \cup High) = Cardinality(Low) + Cardinality(High)
    BY <2>1, <2>2, <2>3
  <2> QED
    BY <2>4, <1>4, <1>7, <1>8
<1>10. /\ SizeOf(s) = Cardinality(Pairs(s))
       /\ SizeOf(a) = Cardinality(Pairs(a))
       /\ SizeOf(b) = Cardinality(Pairs(b))
  BY DEF Pairs, SizeOf
<1> QED
  BY <1>2, <1>3, <1>9, <1>10 DEF a, b

(***************************************************************************)
(* An entry appended adds its own size.                                    *)
(***************************************************************************)
LEMMA SizeOfAppend ==
  ASSUME NEW s \in Seq(Entry), NEW e \in Entry
  PROVE  SizeOf(Append(s, e)) = SizeOf(s) + Size(e)
<1> DEFINE t == Append(s, e)
           n == Len(s) + 1
           I == Includes(e.values)
           New == {kp \in Pairs(t) : kp[1] = n}
           Old == {kp \in Pairs(t) : kp[1] # n}
           f == [p \in I |-> <<n, p>>]
<1>1. /\ Len(s) \in Nat /\ DOMAIN s = 1 .. Len(s) /\ n \in Nat
      /\ n \notin 1 .. Len(s) /\ 1 .. n = (1 .. Len(s)) \cup {n}
  BY LenProperties
<1>2. /\ t \in Seq(Entry) /\ Len(t) = n /\ t[n] = e
      /\ \A k \in 1 .. Len(s) : t[k] = s[k]
  BY AppendProperties
<1> HIDE DEF t
<1>3. DOMAIN t = (1 .. Len(s)) \cup {n}
  BY <1>1, <1>2, LenProperties
<1> HIDE DEF n
<1>4. Old = Pairs(s)
  <2>1. ASSUME NEW kp PROVE kp \in Old <=> kp \in Pairs(s)
    <3>1. kp \in Old <=> /\ kp \in (1 .. Len(s)) \X Places
                         /\ t[kp[1]].values[kp[2]] # None
      BY <1>1, <1>3 DEF Pairs
    <3>2. kp \in Pairs(s) <=> /\ kp \in (1 .. Len(s)) \X Places
                              /\ s[kp[1]].values[kp[2]] # None
      BY <1>1 DEF Pairs
    <3>3. kp \in (1 .. Len(s)) \X Places => t[kp[1]] = s[kp[1]]
      BY <1>2
    <3> HIDE DEF Old
    <3> QED
      BY <3>1, <3>2, <3>3
  <2> HIDE DEF Old
  <2> QED
    BY <2>1
<1>5. f \in Bijection(I, New)
  <2>1. ASSUME NEW p \in I PROVE f[p] \in New
    <3>1. p \in Places /\ t[n].values[p] # None /\ n \in DOMAIN t
      BY <2>1, <1>2, <1>3 DEF Includes
    <3> QED
      BY <2>1, <3>1 DEF Pairs
  <2>2. ASSUME NEW x \in I, NEW y \in I, f[x] = f[y] PROVE x = y
    BY <2>2
  <2>3. ASSUME NEW kp \in New PROVE \E x \in I : f[x] = kp
    <3>1. kp[1] = n /\ kp[2] \in Places /\ kp = <<kp[1], kp[2]>>
          /\ t[kp[1]].values[kp[2]] # None
      BY <2>3 DEF Pairs
    <3>2. kp[2] \in I
      BY <3>1, <1>2 DEF Includes
    <3>3. f[kp[2]] = kp
      BY <3>1, <3>2
    <3> QED
      BY <3>2, <3>3
  <2> HIDE DEF New, I
  <2>4. f \in [I -> New]
    BY <2>1
  <2> HIDE DEF f
  <2> QED
    BY <2>2, <2>3, <2>4, Fun_IsBij
<1>6. IsFiniteSet(Pairs(s)) /\ IsFiniteSet(I)
  <2>1. I \in SUBSET Places
    BY DEF Includes
  <2> QED
    BY <2>1, PairsFinite, PlacesFinite, FS_Subset
<1>7. IsFiniteSet(New) /\ Cardinality(New) = Cardinality(I)
  <2>1. ExistsBijection(I, New)
    BY <1>5 DEF ExistsBijection
  <2> QED
    BY <1>6, <2>1, FS_Bijection
<1>8. Old \cup New = Pairs(t) /\ Old \cap New = {}
  OBVIOUS
<1> HIDE DEF New, Old, I, f
<1>9. Cardinality(Old \cup New)
        = Cardinality(Old) + Cardinality(New) - Cardinality(Old \cap New)
  BY <1>4, <1>6, <1>7, FS_Union
<1>10. /\ Cardinality(Old \cap New) = 0
       /\ Cardinality(Old) \in Nat /\ Cardinality(New) \in Nat
  BY <1>4, <1>6, <1>7, <1>8, FS_EmptySet, FS_CardinalityType
<1>11. Cardinality(Old \cup New) = Cardinality(Old) + Cardinality(New)
  BY <1>9, <1>10
<1>12. Cardinality(Pairs(t)) = Cardinality(Pairs(s)) + Cardinality(I)
  BY <1>4, <1>7, <1>8, <1>11
<1> QED
  BY <1>12 DEF Pairs, SizeOf, Size, I, t

----------------------------------------------------------------------------
(* The block, whose byte count is the size of its buffer                   *)

(***************************************************************************)
(* BytesExact, said of any value of the block.                             *)
(***************************************************************************)
SizeInv(r) ==
    /\ r.bytes = SizeOf(r.buffer)
    /\ r.bytes <= MaxBytes \/ Len(r.buffer) = 1

(***************************************************************************)
(* The operations that leave the buffer and its size alone.                *)
(***************************************************************************)
LEMMA SameBufferSize ==
  ASSUME NEW r, NEW q, SizeInv(r), q.buffer = r.buffer, q.bytes = r.bytes
  PROVE  SizeInv(q)
BY DEF SizeInv

(***************************************************************************)
(* keep(): what is added and what is subtracted is what the buffer gains   *)
(* and loses.                                                              *)
(***************************************************************************)
LEMMA KeepSize ==
  ASSUME NEW r \in Rcb, SizeInv(r), NEW e \in Entry
  PROVE  SizeInv(Keep(r, e))
<1> DEFINE s == Append(r.buffer, e)
           b == r.bytes + Size(e)
           n == DropCount(s, b)
           a == SubSeq(s, 1, n)
           t == SubSeq(s, n + 1, Len(s))
           q == Keep(r, e)
<1>1. r.buffer \in Seq(Entry) /\ r.bytes \in Int /\ Size(e) \in Nat
  BY SizeType DEF Rcb
<1>2. s \in Seq(Entry) /\ s # <<>> /\ Len(s) \in Nat
  BY <1>1, AppendProperties, LenProperties
<1>3. SizeOf(s) = b
  BY <1>1, SizeOfAppend DEF SizeInv
<1>4. b \in Int
  BY <1>1
<1> DEFINE d == SizeOf(a)
<1> HIDE DEF s, b, n, a, t, d
<1>0. q = [r EXCEPT
              !.buffer = t,
              !.bytes = r.bytes + Size(e) - d,
              !.overflowed = @ \/ \E k \in 1 .. n : s[k].id > r.sent,
              !.dropped = IF n > 0 THEN s[n].id ELSE @]
  BY DEF Keep, s, b, n, a, t, d, Rcb
<1> HIDE DEF q
<1>5. /\ n \in 0 .. Len(s) - 1
      /\ n = Len(s) - 1 \/ b - d <= MaxBytes
  BY <1>2, <1>4, DropCountType DEF n, a, d
<1>6. n \in 0 .. Len(s)
  BY <1>2, <1>5
<1>7. /\ a \in Seq(Entry) /\ t \in Seq(Entry) /\ Len(t) = Len(s) - n
      /\ SizeOf(s) = d + SizeOf(t)
  BY <1>2, <1>6, SizeOfSplit DEF a, t, d
<1>8. d \in Nat /\ SizeOf(t) \in Nat
  BY <1>7, SizeOfType DEF d
<1>9. q.buffer = t /\ q.bytes = b - d
  <2>1. q.buffer = t /\ q.bytes = r.bytes + Size(e) - d
    BY <1>0 DEF Rcb
  <2>2. b = r.bytes + Size(e)
    BY DEF b
  <2> QED
    BY <2>1, <2>2, <1>1, <1>8
<1>10. q.bytes = SizeOf(q.buffer)
  BY <1>3, <1>9, <1>7, <1>8
<1>11. q.bytes <= MaxBytes \/ Len(q.buffer) = 1
  <2>1. CASE n = Len(s) - 1
    BY <2>1, <1>2, <1>9, <1>7
  <2>2. CASE b - d <= MaxBytes
    BY <2>2, <1>9
  <2> QED
    BY <2>1, <2>2, <1>5
<1> QED
  BY <1>10, <1>11 DEF SizeInv, q

(***************************************************************************)
(* _new_entry and _deliver.                                                *)
(***************************************************************************)
LEMMA NewEntrySize ==
  ASSUME NEW r, BlockInv(r), SizeInv(r), NEW values \in Values
  PROVE  SizeInv(NewEntry(r, values))
<1> DEFINE e == [id |-> r.nextEntry, values |-> values]
           r1 == [r EXCEPT !.nextEntry = @ + 1]
           K == Keep(r1, e)
           q == IF Buffered THEN [K EXCEPT !.entryID = e.id] ELSE r1
           d == NewEntry(r, values)
<1>1. r \in Rcb /\ r.nextEntry \in Nat /\ r.nextEntry + 1 \in Nat
  BY DEF BlockInv, Rcb
<1>2. e \in Entry
  BY <1>1 DEF Entry
<1>3. r1 \in Rcb /\ r1.buffer = r.buffer /\ r1.bytes = r.bytes
  BY <1>1 DEF Rcb
<1>4. K \in Rcb
  BY KeepInv
<1>5. d = IF r1.rptEna THEN Send(q, e) ELSE q
  BY DEF NewEntry, Deliver
<1> HIDE DEF r1, e
<1>6. SizeInv(r1)
  BY <1>3, SameBufferSize
<1>7. SizeInv(K)
  BY <1>2, <1>3, <1>6, KeepSize
<1> HIDE DEF K
<1>8. q \in Rcb /\ SizeInv(q)
  <2>1. CASE Buffered
    <3>1. q = [K EXCEPT !.entryID = e.id] /\ e.id \in Nat
      BY <2>1, <1>2 DEF Entry
    <3>2. q \in Rcb /\ q.buffer = K.buffer /\ q.bytes = K.bytes
      BY <3>1, <1>4 DEF Rcb
    <3> HIDE DEF q
    <3> QED
      BY <3>2, <1>7, SameBufferSize
  <2>2. CASE ~Buffered
    BY <2>2, <1>3, <1>6
  <2> QED
    BY <2>1, <2>2
<1> HIDE DEF q, d
<1>9. Send(q, e).buffer = q.buffer /\ Send(q, e).bytes = q.bytes
  BY <1>8 DEF Send, Rcb
<1>10. SizeInv(Send(q, e))
  BY <1>8, <1>9, SameBufferSize
<1> QED
  BY <1>5, <1>8, <1>10 DEF d

(***************************************************************************)
(* _flush: the pending values it clears are not part of the buffer.        *)
(***************************************************************************)
LEMMA FlushSize ==
  ASSUME NEW r, BlockInv(r), SizeInv(r) PROVE SizeInv(Flush(r))
<1>1. CASE r.pending = NoValues
  BY <1>1 DEF Flush
<1>2. CASE r.pending # NoValues
  <2> DEFINE q == [r EXCEPT !.pending = NoValues, !.gathering = 0]
  <2>1. r \in Rcb /\ r.pending \in Values /\ NoValues \in Values
    BY DEF BlockInv, Rcb, NoValues, Values
  <2>2. q \in Rcb
    BY <2>1 DEF Rcb
  <2>3. /\ q.buffer = r.buffer /\ q.bytes = r.bytes
        /\ q.nextEntry = r.nextEntry /\ q.out = r.out /\ q.sent = r.sent
        /\ q.dropped = r.dropped /\ q.overflowed = r.overflowed
        /\ q.rptEna = r.rptEna
    BY <2>1 DEF Rcb
  <2>4. Flush(r) = NewEntry(q, r.pending)
    BY <1>2 DEF Flush
  <2> HIDE DEF q
  <2>5. BlockInv(q)
    BY <2>2, <2>3 DEF BlockInv
  <2>6. SizeInv(q)
    BY <2>3, SameBufferSize
  <2> QED
    BY <2>1, <2>4, <2>5, <2>6, NewEntrySize
<1> QED
  BY <1>1, <1>2

(***************************************************************************)
(* _report_all reads the values and makes an entry of them.                *)
(***************************************************************************)
LEMMA ReportAllSize ==
  ASSUME NEW r, BlockInv(r), SizeInv(r), val \in [Leaves -> Nat]
  PROVE  SizeInv(ReportAll(r))
<1>1. Current(r, DOMAIN Members(r)) \in Values
  BY CurrentType DEF BlockInv
<1> QED
  BY <1>1, NewEntrySize DEF ReportAll

(***************************************************************************)
(* _add gathers, flushes what was gathered first, or makes an entry.       *)
(***************************************************************************)
LEMMA AddSize ==
  ASSUME NEW r, BlockInv(r), SizeInv(r), NEW values \in Values
  PROVE  SizeInv(Add(r, values))
<1>1. CASE r.config.BufTm > 0 /\ r.rptEna
  <2> DEFINE b == IF Includes(r.pending) \cap Includes(values) # {}
                  THEN Flush(r) ELSE r
             g == IF b.pending = NoValues THEN NewGathered(b) ELSE b
             m == Merge(g.pending, values)
             q == [g EXCEPT !.pending = m]
  <2>1. BlockInv(b) /\ SizeInv(b)
    BY FlushInv, FlushSize
  <2>2. Add(r, values) = q
    BY <1>1 DEF Add, Gather
  <2> HIDE DEF b
  <2>a. g \in Rcb /\ g.buffer = b.buffer /\ g.bytes = b.bytes
    BY <2>1, NewGatheredKeeps DEF BlockInv
  <2> HIDE DEF g, m
  <2>3. q.buffer = b.buffer /\ q.bytes = b.bytes
    BY <2>a DEF Rcb
  <2> HIDE DEF q
  <2> QED
    BY <2>1, <2>2, <2>3, SameBufferSize
<1>2. CASE ~(r.config.BufTm > 0 /\ r.rptEna)
  BY <1>2, NewEntrySize DEF Add
<1> QED
  BY <1>1, <1>2

(***************************************************************************)
(* Nothing has no size.                                                    *)
(***************************************************************************)
LEMMA EmptySize == SizeOf(<<>>) = 0
<1>1. {kp \in (DOMAIN <<>>) \X Places :
          <<>>[kp[1]].values[kp[2]] # None} = {}
  OBVIOUS
<1> QED
  BY <1>1, FS_EmptySet DEF SizeOf

(***************************************************************************)
(* purge() empties the buffer and clears its size.                         *)
(***************************************************************************)
LEMMA PurgeSize == ASSUME NEW r \in Rcb PROVE SizeInv(Purge(r))
<1>1. Purge(r).buffer = <<>> /\ Purge(r).bytes = 0
  BY DEF Purge, Rcb
<1> QED
  BY <1>1, EmptySize, ReportingAssumption DEF SizeInv

(***************************************************************************)
(* _schedule_integrity touches the timer only.                             *)
(***************************************************************************)
LEMMA ScheduleSize ==
  ASSUME NEW r, BlockInv(r), SizeInv(r), r.integrityTimers # 1 .. MaxTimers
  PROVE  SizeInv(ScheduleIntegrity(r))
<1>1. /\ ScheduleIntegrity(r).buffer = r.buffer
      /\ ScheduleIntegrity(r).bytes = r.bytes
  BY ScheduleInv
<1> QED
  BY <1>1, SameBufferSize

(***************************************************************************)
(* _enabled replays the buffer and keeps it.                               *)
(***************************************************************************)
LEMMA EnabledSize ==
  ASSUME NEW r \in Rcb, BlockInv(r), SizeInv(r),
         r.integrityTimers # 1 .. MaxTimers
  PROVE  SizeInv(Enabled(r))
<1> DEFINE on == [r EXCEPT !.rptEna = TRUE, !.everEnabled = TRUE, !.out = <<>>]
           p == IF Buffered THEN Replay(on) ELSE on
<1>1. <<>> \in Seq(Report) /\ Len(<<>>) = 0
  BY EmptySeq
<1>2. on \in Rcb
  BY <1>1 DEF Rcb
<1>3. /\ on.buffer = r.buffer /\ on.bytes = r.bytes
      /\ on.nextEntry = r.nextEntry
      /\ on.out = <<>> /\ on.sent = r.sent /\ on.dropped = r.dropped
      /\ on.overflowed = r.overflowed /\ on.rptEna = TRUE
      /\ on.integrityTimers = r.integrityTimers
  BY DEF Rcb
<1>4. Enabled(r) = ScheduleIntegrity(p)
  BY DEF Enabled
<1> HIDE DEF on
<1>5. BlockInv(on) /\ SizeInv(on)
  BY <1>1, <1>2, <1>3, SameBufferSize DEF BlockInv
<1>6. BlockInv(Replay(on)) /\ SameMode(Replay(on), on)
  BY <1>3, <1>5, ReplayInv
<1>7. Replay(on).buffer = on.buffer /\ Replay(on).bytes = on.bytes
  BY <1>2 DEF Replay, Rcb
<1>8. BlockInv(p) /\ SizeInv(p) /\ p.integrityTimers # 1 .. MaxTimers
  BY <1>3, <1>5, <1>6, <1>7, SameBufferSize DEF SameMode
<1> HIDE DEF p
<1> QED
  BY <1>4, <1>8, ScheduleSize

(***************************************************************************)
(* RptEna written FALSE.                                                   *)
(***************************************************************************)
LEMMA DisabledSize ==
  ASSUME NEW r, BlockInv(r), SizeInv(r)
  PROVE  SizeInv([Flush([r EXCEPT !.rptEna = FALSE]) EXCEPT !.integrityDue = 0])
<1> DEFINE o == [r EXCEPT !.rptEna = FALSE]
           f == Flush(o)
<1>1. r \in Rcb
  BY DEF BlockInv
<1>2. o \in Rcb
  BY <1>1 DEF Rcb
<1>3. /\ o.buffer = r.buffer /\ o.bytes = r.bytes
      /\ o.nextEntry = r.nextEntry /\ o.out = r.out /\ o.sent = r.sent
      /\ o.dropped = r.dropped /\ o.overflowed = r.overflowed
      /\ o.rptEna = FALSE
  BY <1>1 DEF Rcb
<1> HIDE DEF o
<1>4. BlockInv(o) /\ SizeInv(o)
  BY <1>2, <1>3, SameBufferSize DEF BlockInv
<1>5. f \in Rcb /\ SizeInv(f)
  BY <1>4, FlushInv, FlushSize DEF BlockInv
<1> HIDE DEF f
<1>6. [f EXCEPT !.integrityDue = 0].buffer = f.buffer
      /\ [f EXCEPT !.integrityDue = 0].bytes = f.bytes
  BY <1>5 DEF Rcb
<1>7. SizeInv([f EXCEPT !.integrityDue = 0])
  BY <1>5, <1>6, SameBufferSize
<1> QED
  BY <1>7 DEF o, f

----------------------------------------------------------------------------
(* The steps of the specification                                          *)

(***************************************************************************)
(* A client's write, action by action.                                     *)
(***************************************************************************)
LEMMA WriteSize ==
  ASSUME Inv, SizeInv(rcb), NEW c \in Conns, WriteOther(c) \/ WriteResume(c)
  PROVE  SizeInv(rcb')
<1>0. rcb \in Rcb /\ BlockInv(rcb) /\ val \in [Leaves -> Nat]
  BY DEF Inv, TypeOK
<1>1. ASSUME NEW wanted \in BOOLEAN, WriteResv(c, wanted)
      PROVE  SizeInv(rcb')
  BY <1>1 DEF WriteResv
<1>2. ASSUME NEW seconds \in ResvTmsValues, WriteResvTms(c, seconds)
      PROVE  SizeInv(rcb')
  BY <1>2 DEF WriteResvTms
<1>3. CASE WritePurgeBuf(c)
  BY <1>0, <1>3, PurgeSize DEF WritePurgeBuf
<1>4. ASSUME NEW id \in 0 .. rcb.nextEntry - 1, WriteEntryID(c, id)
      PROVE  SizeInv(rcb')
  <2>1. rcb'.buffer = rcb.buffer /\ rcb'.bytes = rcb.bytes
    BY <1>0, <1>4 DEF WriteEntryID, Rcb
  <2> QED
    BY <2>1, SameBufferSize
<1>5. ASSUME NEW a \in DOMAIN ConfigValues, NEW v \in ConfigValues[a],
             WriteConfig(c, a, v)
      PROVE  SizeInv(rcb')
  <2>1. rcb'.buffer = rcb.buffer /\ rcb'.bytes = rcb.bytes
    BY <1>0, <1>5 DEF WriteConfig, Rcb
  <2> QED
    BY <2>1, SameBufferSize
<1>6. CASE WriteGI(c)
  <2>1. BlockInv(Flush(rcb)) /\ SizeInv(Flush(rcb))
    BY <1>0, FlushInv, FlushSize
  <2> QED
    BY <1>0, <1>6, <2>1, ReportAllSize DEF WriteGI
<1>7. CASE Enable(c)
  BY <1>0, <1>7, EnabledSize DEF Enable
<1>8. CASE Disable(c)
  BY <1>0, <1>8, DisabledSize DEF Disable
<1> QED
  BY <1>1, <1>2, <1>3, <1>4, <1>5, <1>6, <1>7, <1>8
  DEF WriteOther, WriteResume

(***************************************************************************)
(* Connections and timers, and changes of values.                          *)
(***************************************************************************)
LEMMA OtherSize ==
  ASSUME Inv, SizeInv(rcb),
         \/ \E c \in Conns : Connection(c) \/ LapseTimer(c)
         \/ Timers
         \/ \E s \in Setters : Change(s)
  PROVE  SizeInv(rcb')
<1>0. rcb \in Rcb /\ BlockInv(rcb) /\ val \in [Leaves -> Nat]
  BY DEF Inv, TypeOK
<1>2. ASSUME NEW c \in Conns, Connection(c) \/ LapseTimer(c)
      PROVE  SizeInv(rcb')
  <2>1. CASE Forget(c)
    <3>1. rcb'.buffer = rcb.buffer /\ rcb'.bytes = rcb.bytes
      BY <1>0, <2>1 DEF Forget, Rcb
    <3> QED
      BY <3>1, SameBufferSize
  <2>2. CASE ~Forget(c)
    <3>1. rcb' = rcb
      BY <1>2, <2>2
      DEF Connection, LapseTimer, Accept, Lose, DeadlinePasses, Lapse
    <3> QED
      BY <3>1
  <2> QED
    BY <2>1, <2>2
<1>3. CASE BufTmExpires
  <2>1. PICK g : rcb' = IF rcb.gathering = g
                        THEN Flush([rcb EXCEPT !.bufTimers = @ \ {g}])
                        ELSE [rcb EXCEPT !.bufTimers = @ \ {g}]
    BY <1>3 DEF BufTmExpires
  <2> DEFINE fired == [rcb EXCEPT !.bufTimers = @ \ {g}]
  <2>2. BlockInv(fired) /\ fired.buffer = rcb.buffer /\ fired.bytes = rcb.bytes
    BY <1>0, BufTimerFires
  <2>3. rcb' = fired \/ rcb' = Flush(fired)
    BY <2>1
  <2> HIDE DEF fired
  <2>4. SizeInv(fired)
    BY <2>2, SameBufferSize
  <2> QED
    BY <2>2, <2>3, <2>4, FlushSize
<1>4. ASSUME NEW due \in 1 .. MaxTimers, IntegrityFires(due)
      PROVE  SizeInv(rcb')
  <2> DEFINE fired == [rcb EXCEPT !.integrityTimers = @ \ {due}]
             a == ReportAll(Flush(fired))
  <2>1. /\ BlockInv(fired) /\ fired.buffer = rcb.buffer
        /\ fired.bytes = rcb.bytes
        /\ fired.integrityTimers = rcb.integrityTimers \ {due}
    BY <1>0, IntegrityTimerFires
  <2>2. rcb' = fired \/ rcb' = ScheduleIntegrity(a)
    BY <1>4 DEF IntegrityFires
  <2> HIDE DEF fired
  <2>3. SizeInv(fired)
    BY <2>1, SameBufferSize
  <2>4. /\ BlockInv(Flush(fired)) /\ SizeInv(Flush(fired))
        /\ SameMode(Flush(fired), fired)
    BY <2>1, <2>3, FlushInv, FlushSize
  <2>5. BlockInv(a) /\ SizeInv(a) /\ SameMode(a, Flush(fired))
    BY <1>0, <2>4, ReportAllInv, ReportAllSize
  <2> HIDE DEF a
  <2>6. a.integrityTimers # 1 .. MaxTimers
    BY <2>1, <2>4, <2>5 DEF SameMode
  <2> QED
    BY <2>2, <2>3, <2>5, <2>6, ScheduleSize
<1>5. ASSUME NEW s \in Setters, Change(s) PROVE SizeInv(rcb')
  <2> DEFINE places == {p \in DOMAIN Members(rcb) :
                           setting[s][Members(rcb)[p]] > 0}
             added == Add(rcb, Current(rcb, places))
  <2>1. Current(rcb, places) \in Values
    BY <1>0, CurrentType
  <2>2. SizeInv(added)
    BY <1>0, <2>1, AddSize
  <2>3. rcb' = rcb \/ rcb' = added
    BY <1>5 DEF Change, Assign, Notify
  <2> QED
    BY <2>2, <2>3
<1> QED
  BY <1>2, <1>3, <1>4, <1>5 DEF Timers

(***************************************************************************)
(* buffer_bytes is the size of the buffered entries, and exceeds its bound *)
(* only for a single entry that does, for every bound and however          *)
(* additions, drops, purges and replays follow each other.                 *)
(***************************************************************************)
THEOREM BytesAreExact == Spec => []BytesExact
<1>1. Init => SizeInv(rcb)
  <2> SUFFICES ASSUME Init PROVE SizeInv(rcb)
    OBVIOUS
  <2>1. rcb.buffer = <<>> /\ rcb.bytes = 0
    BY DEF Init
  <2> QED
    BY <2>1, EmptySize, ReportingAssumption DEF SizeInv
<1>2. Inv /\ SizeInv(rcb) /\ [Next]_vars => SizeInv(rcb)'
  <2> SUFFICES ASSUME Inv, SizeInv(rcb), [Next]_vars PROVE SizeInv(rcb')
    BY DEF SizeInv
  <2>1. CASE UNCHANGED vars
    BY <2>1 DEF vars
  <2>2. CASE Next
    BY <2>2, WriteSize, OtherSize DEF Next, Others
  <2> QED
    BY <2>1, <2>2
<1>3. SizeInv(rcb) => BytesExact
  BY DEF SizeInv, BytesExact
<1> QED
  BY <1>1, <1>2, <1>3, Invariance, PTL DEF Spec

----------------------------------------------------------------------------
(* The last value reported                                                 *)

\* The leaves whose changes have all been told of.
QuietLeaves == {leaf \in Leaves : \A s \in Setters : setting[s][leaf] = 0}

LeavesOf(r) == {Members(r)[p] : p \in DOMAIN Members(r)}

\* The last element of s that has a value of the leaf has its n-th one.
Fresh(s, leaf, n) ==
    \A k \in DOMAIN s :
        /\ ChangesOf(leaf, s[k].values) # {}
        /\ \A j \in DOMAIN s : j > k => ChangesOf(leaf, s[j].values) = {}
        => n \in ChangesOf(leaf, s[k].values)

(***************************************************************************)
(* The entries or reports s of the block r have values of its data set,    *)
(* and if it reports changes the last ones of the quiet leaves are v's.    *)
(***************************************************************************)
Tracks(s, r, quiet, v) ==
    /\ \A k \in DOMAIN s, leaf \in Leaves :
          ChangesOf(leaf, s[k].values) # {} => leaf \in LeavesOf(r)
    /\ "dchg" \in r.config.TrgOps =>
          \A leaf \in quiet : Fresh(s, leaf, v[leaf])

(***************************************************************************)
(* There is a last element with a value of the leaf, if there is any.      *)
(***************************************************************************)
LEMMA LatestIsFresh ==
  ASSUME NEW S, NEW s \in Seq(S), NEW leaf, NEW n, Fresh(s, leaf, n)
  PROVE  LET with == {k \in DOMAIN s : ChangesOf(leaf, s[k].values) # {}}
         IN  with # {} =>
                n \in ChangesOf(leaf, s[CHOOSE k \in with :
                                          \A j \in with : j <= k].values)
<1> DEFINE with == {k \in DOMAIN s : ChangesOf(leaf, s[k].values) # {}}
           after == {Len(s) - k : k \in with}
           R == OpToRel(<, Nat)
           last == CHOOSE k \in with : \A j \in with : j <= k
<1> SUFFICES ASSUME with # {} PROVE n \in ChangesOf(leaf, s[last].values)
  OBVIOUS
<1>1. DOMAIN s = 1 .. Len(s) /\ Len(s) \in Nat
  BY LenProperties
<1>2. with \subseteq 1 .. Len(s)
  BY <1>1
<1> HIDE DEF with
<1>3. after \subseteq Nat /\ after # {}
  <2>1. \A k \in with : Len(s) - k \in Nat
    BY <1>1, <1>2
  <2> QED
    BY <2>1
<1>4. PICK m \in after : \A k \in after : <<k, m>> \notin R
  BY <1>3, WFMin, NatLessThanWellFounded
<1>5. PICK k \in with : m = Len(s) - k
  OBVIOUS
<1>6. \A j \in with : j <= k
  <2> SUFFICES ASSUME NEW j \in with, ~(j <= k) PROVE FALSE
    OBVIOUS
  <2>1. /\ Len(s) - j \in after /\ Len(s) - j \in Nat /\ m \in Nat
        /\ Len(s) - j < m
    <3>1. j \in Nat /\ k \in Nat /\ j <= Len(s) /\ k <= Len(s) /\ j > k
      BY <1>1, <1>2
    <3> QED
      BY <3>1, <1>1, <1>5
  <2>2. <<Len(s) - j, m>> \in R
    BY <2>1 DEF OpToRel
  <2> QED
    BY <2>1, <2>2, <1>4
<1>7. last \in with /\ \A j \in with : j <= last
  BY <1>6
<1> HIDE DEF last
<1>8. /\ last \in DOMAIN s /\ ChangesOf(leaf, s[last].values) # {}
      /\ \A j \in DOMAIN s : j > last => ChangesOf(leaf, s[j].values) = {}
  <2>1. last \in DOMAIN s /\ ChangesOf(leaf, s[last].values) # {}
    BY <1>7 DEF with
  <2>2. ASSUME NEW j \in DOMAIN s, j > last, ChangesOf(leaf, s[j].values) # {}
        PROVE  FALSE
    <3>1. j \in with
      BY <2>2 DEF with
    <3>2. j <= last
      BY <1>7, <3>1
    <3> QED
      BY <1>1, <2>1, <2>2, <3>2
  <2> QED
    BY <2>1, <2>2
<1> QED
  BY <1>8 DEF Fresh

(***************************************************************************)
(* What was read of the places of a data set has the current values of     *)
(* their leaves, and of no other.                                          *)
(***************************************************************************)
LEMMA CurrentChanges ==
  ASSUME NEW r \in Rcb, val \in [Leaves -> Nat],
         NEW places \in SUBSET DOMAIN Members(r), NEW leaf \in Leaves
  PROVE  ChangesOf(leaf, Current(r, places)) =
            IF leaf \in {Members(r)[p] : p \in places} THEN {val[leaf]} ELSE {}
<1> DEFINE m == Members(r)
           values == Current(r, places)
<1>1. r.config.DatSet \in DOMAIN DataSets
  BY ReportingAssumption DEF Rcb, Config
<1>2. m \in Seq(Leaves) /\ DOMAIN m \subseteq Places
  BY <1>1, ReportingAssumption DEF Members, Places
<1>3. \A p \in places : m[p] \in Leaves /\ p \in Places
  BY <1>2, LenProperties
<1> HIDE DEF m
<1>4. values = [p \in Places |->
                  IF p \notin places THEN None
                  ELSE [leaf |-> m[p], change |-> val[m[p]]]]
  BY DEF Current, m
<1> HIDE DEF values
<1>5. \A p \in places : /\ values[p].leaf = m[p]
                        /\ values[p].change = val[m[p]]
                        /\ values[p] # None
  <2> SUFFICES ASSUME NEW p \in places
               PROVE  /\ values[p].leaf = m[p]
                      /\ values[p].change = val[m[p]]
                      /\ values[p] # None
    OBVIOUS
  <2> DEFINE value == [leaf |-> m[p], change |-> val[m[p]]]
  <2>1. values[p] = value /\ value \in [leaf : Leaves, change : Nat]
    BY <1>3, <1>4
  <2>2. value.leaf = m[p] /\ value.change = val[m[p]]
    OBVIOUS
  <2> HIDE DEF value
  <2> QED
    BY <2>1, <2>2, NoneAssumption
<1>6. Includes(values) = places
  BY <1>3, <1>4, <1>5 DEF Includes
<1>7. ChangesOf(leaf, values)
         = {values[p].change : p \in {q \in places : m[q] = leaf}}
  <2>1. {q \in places : values[q].leaf = leaf} = {q \in places : m[q] = leaf}
    BY <1>5
  <2> QED
    BY <1>6, <2>1 DEF ChangesOf
<1>8. \A p \in {q \in places : m[q] = leaf} : values[p].change = val[leaf]
  BY <1>5
<1> QED
  BY <1>7, <1>8 DEF m, values
(***************************************************************************)
(* An element of current values follows the others: the leaves that it has *)
(* may be quiet from now on, and those that no element has.                *)
(***************************************************************************)
LEMMA TracksAppend ==
  ASSUME NEW r \in Rcb, val \in [Leaves -> Nat],
         NEW S, NEW s \in Seq(S), NEW e \in S,
         NEW places \in SUBSET DOMAIN Members(r), e.values = Current(r, places),
         NEW quiet \in SUBSET Leaves, NEW quiet2 \in SUBSET Leaves,
         \A leaf \in quiet2 \ quiet : \A p \in DOMAIN Members(r) :
            Members(r)[p] = leaf => p \in places,
         Tracks(s, r, quiet, val)
  PROVE  Tracks(Append(s, e), r, quiet2, val)
<1> DEFINE t == Append(s, e)
           last == Len(s) + 1
           read == {Members(r)[p] : p \in places}
<1>1. /\ DOMAIN s = 1 .. Len(s) /\ Len(s) \in Nat
      /\ t \in Seq(S) /\ Len(t) = last
      /\ \A k \in 1 .. Len(s) : t[k] = s[k]
      /\ t[last] = e
  BY LenProperties, AppendProperties
<1>2. DOMAIN t = 1 .. last
  BY <1>1, LenProperties
<1> HIDE DEF t
<1>3. \A k \in DOMAIN t : k = last \/ (k \in DOMAIN s /\ k < last)
  BY <1>1, <1>2
<1>4. \A k \in DOMAIN s : k \in DOMAIN t /\ k # last /\ t[k] = s[k] /\ last > k
  BY <1>1, <1>2
<1>5. last \in DOMAIN t
  BY <1>1, <1>2
<1> HIDE DEF last
<1>6. \A leaf \in Leaves :
         ChangesOf(leaf, t[last].values)
            = IF leaf \in read THEN {val[leaf]} ELSE {}
  BY <1>1, CurrentChanges
<1>7. read \subseteq LeavesOf(r)
  BY DEF LeavesOf
<1>8. \A leaf \in quiet2 : leaf \in quiet \/ leaf \in read \/ leaf \notin LeavesOf(r)
  BY DEF LeavesOf
<1> HIDE DEF read
<1>9. ASSUME NEW k \in DOMAIN t, NEW leaf \in Leaves,
             ChangesOf(leaf, t[k].values) # {}
      PROVE  leaf \in LeavesOf(r)
  BY <1>3, <1>4, <1>6, <1>7, <1>9 DEF Tracks
<1>10. ASSUME "dchg" \in r.config.TrgOps, NEW leaf \in quiet2
       PROVE  Fresh(t, leaf, val[leaf])
  <2> SUFFICES ASSUME NEW k \in DOMAIN t, ChangesOf(leaf, t[k].values) # {},
                      \A j \in DOMAIN t :
                         j > k => ChangesOf(leaf, t[j].values) = {}
               PROVE  val[leaf] \in ChangesOf(leaf, t[k].values)
    BY DEF Fresh
  <2>1. CASE k = last
    BY <1>6, <2>1
  <2>2. CASE k \in DOMAIN s
    <3>1. leaf \notin read
      BY <1>4, <1>5, <1>6, <2>2
    <3>2. leaf \in quiet
      BY <1>8, <1>9, <3>1
    <3>3. Fresh(s, leaf, val[leaf])
      BY <1>10, <3>2 DEF Tracks
    <3>4. \A j \in DOMAIN s : j > k => ChangesOf(leaf, s[j].values) = {}
      BY <1>4
    <3> QED
      BY <1>4, <2>2, <3>3, <3>4 DEF Fresh
  <2> QED
    BY <1>3, <2>1, <2>2
<1> QED
  BY <1>9, <1>10 DEF Tracks, t

(***************************************************************************)
(* The end of a sequence tracks what it tracks: what keep() has left of    *)
(* the buffer, and the reports of a replay.                                *)
(***************************************************************************)
LEMMA TracksSuffix ==
  ASSUME NEW r, NEW S, NEW T, NEW s \in Seq(S), NEW t \in Seq(T),
         NEW n \in 0 .. Len(s), Len(t) = Len(s) - n,
         \A k \in 1 .. Len(t) : t[k].values = s[n + k].values,
         NEW quiet, NEW v, Tracks(s, r, quiet, v)
  PROVE  Tracks(t, r, quiet, v)
<1>1. /\ DOMAIN s = 1 .. Len(s) /\ Len(s) \in Nat
      /\ DOMAIN t = 1 .. Len(t) /\ Len(t) \in Nat
  BY LenProperties
<1>2. \A k \in DOMAIN t : n + k \in DOMAIN s /\ t[k].values = s[n + k].values
  BY <1>1
<1>3. \A k \in DOMAIN t, j \in DOMAIN s :
         j > n + k => j - n \in DOMAIN t /\ j - n > k /\ n + (j - n) = j
  BY <1>1
<1>4. ASSUME NEW leaf, NEW m, Fresh(s, leaf, m) PROVE Fresh(t, leaf, m)
  <2> SUFFICES ASSUME NEW k \in DOMAIN t, ChangesOf(leaf, t[k].values) # {},
                      \A j \in DOMAIN t :
                         j > k => ChangesOf(leaf, t[j].values) = {}
               PROVE  m \in ChangesOf(leaf, t[k].values)
    BY DEF Fresh
  <2>1. \A j \in DOMAIN s : j > n + k => ChangesOf(leaf, s[j].values) = {}
    <3> SUFFICES ASSUME NEW j \in DOMAIN s, j > n + k
                 PROVE  ChangesOf(leaf, s[j].values) = {}
      OBVIOUS
    <3>1. j - n \in DOMAIN t /\ j - n > k /\ n + (j - n) = j
      BY <1>3
    <3>2. t[j - n].values = s[n + (j - n)].values
      BY <1>2, <3>1
    <3> QED
      BY <3>1, <3>2
  <2> QED
    BY <1>2, <1>4, <2>1 DEF Fresh
<1> QED
  BY <1>2, <1>4 DEF Tracks

(***************************************************************************)
(* Nothing tracks everything.                                              *)
(***************************************************************************)
LEMMA TracksNothing == \A r, quiet, v : Tracks(<<>>, r, quiet, v)
<1>1. DOMAIN <<>> = {}
  OBVIOUS
<1> QED
  BY <1>1 DEF Tracks, Fresh

(***************************************************************************)
(* Other leaves are quiet and others have changed: those that stay quiet   *)
(* keep their values, and the data set has no others.                      *)
(***************************************************************************)
LEMMA TracksOthers ==
  ASSUME NEW r, NEW q, NEW s, NEW quiet, NEW v, NEW quiet2 \in SUBSET Leaves,
         NEW w, Tracks(s, r, quiet, v), LeavesOf(q) = LeavesOf(r),
         "dchg" \in q.config.TrgOps =>
            /\ "dchg" \in r.config.TrgOps
            /\ \A leaf \in quiet2 : \/ leaf \in quiet /\ w[leaf] = v[leaf]
                                    \/ leaf \notin LeavesOf(r)
  PROVE  Tracks(s, q, quiet2, w)
<1>1. ASSUME "dchg" \in q.config.TrgOps, NEW leaf \in quiet2
      PROVE  Fresh(s, leaf, w[leaf])
  <2>1. CASE leaf \in quiet /\ w[leaf] = v[leaf]
    BY <1>1, <2>1 DEF Tracks
  <2>2. CASE leaf \notin LeavesOf(r)
    BY <2>2 DEF Tracks, Fresh
  <2> QED
    BY <1>1, <2>1, <2>2
<1> QED
  BY <1>1 DEF Tracks
----------------------------------------------------------------------------
(* The block, whose buffer and reports track the values                    *)

(***************************************************************************)
(* What each operation preserves, of a block without BufTm.                *)
(***************************************************************************)
CurrentInv(r, quiet, v) ==
    /\ r.config.BufTm = 0 /\ r.pending = NoValues
    /\ r.rptEna => r.everEnabled
    /\ ~r.everEnabled => r.buffer = <<>>
    /\ Tracks(r.buffer, r, quiet, v)
    /\ r.rptEna => Tracks(r.out, r, quiet, v)

(***************************************************************************)
(* An entry made of some values: where it goes, and what it leaves alone.  *)
(***************************************************************************)
LEMMA NewEntryDoes ==
  ASSUME NEW r, BlockInv(r), NEW values \in Values
  PROVE  LET q == NewEntry(r, values)
         IN  /\ q.config = r.config /\ q.rptEna = r.rptEna
             /\ q.everEnabled = r.everEnabled /\ q.pending = r.pending
             /\ ~Buffered => q.buffer = r.buffer
             /\ Buffered =>
                   \E e \in Entry : \E n \in 0 .. Len(r.buffer) :
                      /\ e.values = values
                      /\ q.buffer = SubSeq(Append(r.buffer, e), n + 1,
                                           Len(Append(r.buffer, e)))
             /\ r.rptEna =>
                   \E e \in Report : /\ e.values = values
                                     /\ q.out = Append(r.out, e)
<1> DEFINE e == [id |-> r.nextEntry, values |-> values]
           r1 == [r EXCEPT !.nextEntry = @ + 1]
           K == Keep(r1, e)
           p == IF Buffered THEN [K EXCEPT !.entryID = e.id] ELSE r1
           q == NewEntry(r, values)
           Same(x) == /\ x.config = r.config /\ x.rptEna = r.rptEna
                      /\ x.everEnabled = r.everEnabled /\ x.pending = r.pending
           Made(x) ==
              /\ ~Buffered => x.buffer = r.buffer
              /\ Buffered => \E n \in 0 .. Len(r.buffer) :
                    x.buffer = SubSeq(Append(r.buffer, e), n + 1,
                                      Len(Append(r.buffer, e)))
<1>1. r \in Rcb /\ r.nextEntry \in Nat /\ r.nextEntry + 1 \in Nat
      /\ r.buffer \in Seq(Entry) /\ r.bytes \in Int /\ r.rptEna \in BOOLEAN
  BY DEF BlockInv, Rcb
<1>2. e \in Entry /\ e.values = values /\ e.id \in Nat
  BY <1>1 DEF Entry
<1>3. /\ r1 \in Rcb /\ Same(r1) /\ r1.buffer = r.buffer
      /\ r1.bytes = r.bytes /\ r1.out = r.out
  BY <1>1 DEF Rcb
<1>4. K \in Rcb
  BY KeepInv
<1>5. q = IF r1.rptEna THEN Send(p, e) ELSE p
  BY DEF NewEntry, Deliver
<1> HIDE DEF r1, e
<1>6. /\ Same(K) /\ K.out = r.out
      /\ \E n \in 0 .. Len(r.buffer) :
            K.buffer = SubSeq(Append(r.buffer, e), n + 1,
                              Len(Append(r.buffer, e)))
  <2> DEFINE s == Append(r.buffer, e)
             b == r.bytes + Size(e)
             n == DropCount(s, b)
  <2>1. /\ s \in Seq(Entry) /\ s # <<>> /\ Len(s) = Len(r.buffer) + 1
        /\ Len(r.buffer) \in Nat
    BY <1>1, <1>2, AppendProperties, LenProperties
  <2>2. b \in Int
    BY <1>1, SizeType
  <2> HIDE DEF s, b
  <2>3. n \in 0 .. Len(r.buffer)
    <3>1. n \in 0 .. Len(s) - 1
      BY <2>1, <2>2, DropCountType
    <3> HIDE DEF n
    <3> QED
      BY <2>1, <3>1
  <2>4. K.buffer = SubSeq(s, n + 1, Len(s)) /\ K.out = r1.out
        /\ K.config = r1.config /\ K.rptEna = r1.rptEna
        /\ K.everEnabled = r1.everEnabled /\ K.pending = r1.pending
    BY <1>3 DEF Keep, Rcb, s, b
  <2> HIDE DEF n
  <2> QED
    BY <2>3, <2>4, <1>3 DEF s
<1> HIDE DEF K
<1>7. p \in Rcb /\ Same(p) /\ Made(p) /\ p.out = r.out
  <2>1. CASE Buffered
    <3>1. p = [K EXCEPT !.entryID = e.id]
      BY <2>1
    <3>2. /\ p \in Rcb /\ p.buffer = K.buffer /\ p.out = K.out
          /\ p.config = K.config /\ p.rptEna = K.rptEna
          /\ p.everEnabled = K.everEnabled /\ p.pending = K.pending
      BY <3>1, <1>2, <1>4 DEF Rcb
    <3> HIDE DEF p
    <3> QED
      BY <2>1, <3>2, <1>6
  <2>2. CASE ~Buffered
    BY <2>2, <1>3
  <2> QED
    BY <2>1, <2>2
<1> HIDE DEF p
<1>8. CASE ~r.rptEna
  <2>1. q = p
    BY <1>3, <1>5, <1>8
  <2> HIDE DEF q
  <2> QED
    BY <2>1, <1>2, <1>7, <1>8 DEF q
<1>9. CASE r.rptEna
  <2> DEFINE report == ReportOf(p, e)
  <2>1. report \in Report /\ report.values = values
    BY <1>2, <1>7, ReportType DEF ReportOf
  <2> HIDE DEF report
  <2>2. q = Send(p, e)
    BY <1>3, <1>5, <1>9
  <2>3. /\ q.out = Append(p.out, report) /\ q.buffer = p.buffer
        /\ q.config = p.config /\ q.rptEna = p.rptEna
        /\ q.everEnabled = p.everEnabled /\ q.pending = p.pending
    BY <2>2, <1>7 DEF Send, Rcb, report
  <2> HIDE DEF q
  <2> QED
    BY <2>1, <2>3, <1>2, <1>7, <1>9 DEF q
<1> QED
  BY <1>8, <1>9

(***************************************************************************)
(* An entry of the current values of some places, of a block that has been *)
(* enabled: the leaves that it tells of become quiet.                      *)
(***************************************************************************)
LEMMA EntryIsCurrent ==
  ASSUME NEW r, BlockInv(r), val \in [Leaves -> Nat], r.everEnabled,
         NEW places \in SUBSET DOMAIN Members(r),
         NEW quiet \in SUBSET Leaves, NEW quiet2 \in SUBSET Leaves,
         \A leaf \in quiet2 \ quiet : \A p \in DOMAIN Members(r) :
            Members(r)[p] = leaf => p \in places,
         CurrentInv(r, quiet, val)
  PROVE  CurrentInv(NewEntry(r, Current(r, places)), quiet2, val)
<1> DEFINE values == Current(r, places)
           q == NewEntry(r, values)
<1>1. /\ r \in Rcb /\ r.buffer \in Seq(Entry) /\ r.out \in Seq(Report)
      /\ ~Buffered => r.buffer = <<>>
  BY DEF BlockInv, Rcb
<1>2. values \in Values
  BY <1>1, CurrentType
<1>3. \A S : \A s \in Seq(S), e \in S :
         e.values = values /\ Tracks(s, r, quiet, val)
            => Tracks(Append(s, e), r, quiet2, val)
  BY <1>1, TracksAppend
<1>4. /\ q.config = r.config /\ q.rptEna = r.rptEna
      /\ q.everEnabled = r.everEnabled /\ q.pending = r.pending
      /\ ~Buffered => q.buffer = r.buffer
      /\ Buffered =>
            \E e \in Entry : \E n \in 0 .. Len(r.buffer) :
               /\ e.values = values
               /\ q.buffer = SubSeq(Append(r.buffer, e), n + 1,
                                    Len(Append(r.buffer, e)))
      /\ r.rptEna =>
            \E e \in Report : e.values = values /\ q.out = Append(r.out, e)
  BY <1>2, NewEntryDoes
<1> HIDE DEF q, values
<1>5. \A s : Tracks(s, q, quiet2, val) <=> Tracks(s, r, quiet2, val)
  BY <1>4 DEF Tracks, LeavesOf, Members
<1>6. Tracks(q.buffer, r, quiet2, val)
  <2>1. CASE ~Buffered
    BY <2>1, <1>1, <1>4, TracksNothing
  <2>2. CASE Buffered
    <3>1. PICK e \in Entry, n \in 0 .. Len(r.buffer) :
             /\ e.values = values
             /\ q.buffer = SubSeq(Append(r.buffer, e), n + 1,
                                  Len(Append(r.buffer, e)))
      BY <2>2, <1>4
    <3> DEFINE s == Append(r.buffer, e)
    <3>2. Tracks(s, r, quiet2, val)
      BY <1>1, <1>3, <3>1 DEF CurrentInv
    <3>3. /\ s \in Seq(Entry) /\ Len(s) = Len(r.buffer) + 1
          /\ Len(r.buffer) \in Nat
      BY <1>1, AppendProperties, LenProperties
    <3>4. q.buffer = SubSeq(s, n + 1, Len(s))
      BY <3>1
    <3> HIDE DEF s
    <3>5. \A i \in n + 1 .. Len(s) : s[i] \in Entry
      BY <3>3, LenProperties, ElementOfSeq
    <3>6. /\ q.buffer \in Seq(Entry)
          /\ Len(q.buffer) = Len(s) - n
          /\ \A k \in 1 .. Len(s) - n : q.buffer[k] = s[n + k]
      <4>1. /\ n + 1 \in Int /\ Len(s) \in Int
            /\ n + 1 <= Len(s) /\ Len(s) - (n + 1) + 1 = Len(s) - n
        BY <3>3
      <4>2. /\ q.buffer \in Seq(Entry)
            /\ Len(q.buffer) = Len(s) - (n + 1) + 1
            /\ \A k \in 1 .. Len(s) - (n + 1) + 1 :
                  q.buffer[k] = s[(n + 1) + k - 1]
        BY <3>4, <3>5, <4>1, SubSeqProperties
      <4>3. \A k \in 1 .. Len(s) - n : (n + 1) + k - 1 = n + k
        BY <3>3
      <4> QED
        BY <4>1, <4>2, <4>3
    <3>7. n \in 0 .. Len(s)
      BY <3>3
    <3> QED
      BY <3>2, <3>3, <3>6, <3>7, TracksSuffix
  <2> QED
    BY <2>1, <2>2
<1>7. r.rptEna => Tracks(q.out, r, quiet2, val)
  BY <1>1, <1>3, <1>4 DEF CurrentInv
<1> QED
  BY <1>4, <1>5, <1>6, <1>7 DEF CurrentInv, q, values
(***************************************************************************)
(* A block whose buffer, reports and marks are those of another.           *)
(***************************************************************************)
LEMMA SameCurrent ==
  ASSUME NEW r, NEW q, NEW quiet, NEW v, CurrentInv(r, quiet, v),
         q.config = r.config, q.pending = r.pending, q.buffer = r.buffer,
         q.everEnabled = r.everEnabled,
         q.rptEna => r.rptEna /\ q.out = r.out
  PROVE  CurrentInv(q, quiet, v)
<1>1. \A s : Tracks(s, q, quiet, v) <=> Tracks(s, r, quiet, v)
  BY DEF Tracks, LeavesOf, Members
<1> QED
  BY <1>1 DEF CurrentInv

(***************************************************************************)
(* A report of all members, asked for of an enabled block: none of them is *)
(* gathered before.                                                        *)
(***************************************************************************)
LEMMA AllIsCurrent ==
  ASSUME NEW r, BlockInv(r), val \in [Leaves -> Nat], r.rptEna,
         NEW quiet \in SUBSET Leaves, CurrentInv(r, quiet, val)
  PROVE  CurrentInv(ReportAll(Flush(r)), quiet, val)
<1>1. Flush(r) = r
  BY DEF Flush, CurrentInv
<1>2. r.everEnabled
  BY DEF CurrentInv
<1>3. CurrentInv(NewEntry(r, Current(r, DOMAIN Members(r))), quiet, val)
  BY <1>2, EntryIsCurrent
<1> QED
  BY <1>1, <1>3 DEF ReportAll

(***************************************************************************)
(* _enabled: the reports of the replay are the end of the buffer.          *)
(***************************************************************************)
LEMMA EnabledIsCurrent ==
  ASSUME NEW r, BlockInv(r), r.integrityTimers # 1 .. MaxTimers, NEW quiet, NEW v, CurrentInv(r, quiet, v)
  PROVE  CurrentInv(Enabled(r), quiet, v)
<1> DEFINE on == [r EXCEPT !.rptEna = TRUE, !.everEnabled = TRUE, !.out = <<>>]
           p == IF Buffered THEN Replay(on) ELSE on
           q == Enabled(r)
           b == r.buffer
           n == SkipCount(on)
           count == Len(b) - n
           report(k) == [ReportOf(on, b[n + k]) EXCEPT
                            !.sq = (on.sqNum + k - 1) % SqMod,
                            !.bufOvfl = @ /\ k = 1]
           out == [k \in 1 .. count |-> report(k)]
<1>1. r \in Rcb /\ b \in Seq(Entry)
  BY DEF BlockInv, Rcb
<1>2. /\ on.buffer = b /\ on.out = <<>> /\ on.rptEna /\ on.everEnabled
      /\ on.config = r.config /\ on.pending = r.pending
      /\ on.integrityTimers = r.integrityTimers
      /\ on \in Rcb /\ on.nextEntry = r.nextEntry /\ on.sent = r.sent
      /\ on.dropped = r.dropped /\ on.overflowed = r.overflowed
  BY <1>1, EmptySeq DEF Rcb
<1>3. q = ScheduleIntegrity(p)
  BY DEF Enabled
<1> HIDE DEF on
<1>4. BlockInv(on)
  BY <1>2, EmptySeq DEF BlockInv
<1>5. n \in 0 .. Len(b) /\ Len(b) \in Nat
  BY <1>1, <1>2, <1>4, SkipCountType, LenProperties
<1> HIDE DEF n
<1>6. CurrentInv(on, quiet, v)
  <2>1. \A s : Tracks(s, on, quiet, v) <=> Tracks(s, r, quiet, v)
    BY <1>2 DEF Tracks, LeavesOf, Members
  <2> QED
    BY <1>2, <2>1, TracksNothing DEF CurrentInv
<1>7. p \in Rcb /\ CurrentInv(p, quiet, v)
  <2>1. CASE ~Buffered \/ count = 0
    <3>1. p = on
      BY <1>2, <2>1 DEF Replay, n
    <3> QED
      BY <1>2, <1>6, <3>1
  <2>2. CASE Buffered /\ count # 0
    <3>1. p = Replay(on)
      BY <2>2
    <3>2. p \in Rcb
      BY <1>2, <1>4, <3>1, ReplayInv DEF BlockInv
    <3>3. \A k \in 1 .. count :
             report(k) \in Report /\ report(k).values = b[n + k].values
      <4> SUFFICES ASSUME NEW k \in 1 .. count
                   PROVE  /\ report(k) \in Report
                          /\ report(k).values = b[n + k].values
        OBVIOUS
      <4>a. on.sqNum \in Nat /\ Len(b) \in Nat /\ n \in 0 .. Len(b)
        BY <1>2, <1>5 DEF Rcb
      <4>1. n + k \in 1 .. Len(b) /\ on.sqNum + k - 1 \in Nat
        BY <4>a
      <4>2. b[n + k] \in Entry
        BY <1>1, <4>1, ElementOfSeq
      <4>3. /\ ReportOf(on, b[n + k]) \in Report
            /\ ReportOf(on, b[n + k]).values = b[n + k].values
        BY <1>2, <4>2, ReportType DEF ReportOf
      <4>4. (on.sqNum + k - 1) % SqMod \in Nat
        BY <4>1, ReportingAssumption
      <4> QED
        BY <4>3, <4>4 DEF Report
    <3> HIDE DEF report
    <3>4. /\ out \in Seq(Report) /\ Len(out) = count
          /\ \A k \in 1 .. count : out[k].values = b[n + k].values
      BY <1>5, <3>3
    <3>5. /\ p.out = out /\ p.buffer = b /\ p.rptEna = on.rptEna
          /\ p.everEnabled = on.everEnabled /\ p.config = on.config
          /\ p.pending = on.pending
      BY <1>2, <2>2, <3>1 DEF Replay, Rcb, n, report
    <3> HIDE DEF p, out, count
    <3>6. Tracks(b, on, quiet, v)
      BY <1>2, <1>6 DEF CurrentInv
    <3>7. Tracks(out, on, quiet, v)
      BY <1>1, <1>5, <3>4, <3>6, TracksSuffix DEF count
    <3>8. \A s : Tracks(s, p, quiet, v) <=> Tracks(s, on, quiet, v)
      BY <3>5 DEF Tracks, LeavesOf, Members
    <3> QED
      BY <1>2, <1>6, <3>2, <3>5, <3>6, <3>7, <3>8 DEF CurrentInv
  <2> QED
    BY <2>1, <2>2
<1>a. BlockInv(p) /\ p.integrityTimers # 1 .. MaxTimers
  BY <1>2, <1>4, ReplayInv DEF SameMode
<1> HIDE DEF p
<1>8. /\ q.config = p.config /\ q.pending = p.pending /\ q.buffer = p.buffer
      /\ q.everEnabled = p.everEnabled /\ q.rptEna = p.rptEna /\ q.out = p.out
  BY <1>3, <1>a, ScheduleInv
<1> HIDE DEF q
<1>9. CurrentInv(q, quiet, v)
  BY <1>7, <1>8, SameCurrent
<1> QED
  BY <1>9 DEF q
(***************************************************************************)
(* A block without BufTm; that of a BRCB always reports changes, of the    *)
(* same data set: its buffer outlives a change of both, which UpToDate     *)
(* does not.                                                               *)
(***************************************************************************)
Steady ==
    /\ ConfigValues.BufTm \subseteq {0}
    /\ Buffered => /\ \A d1, d2 \in ConfigValues.DatSet : d1 = d2
                   /\ \A trgOps \in ConfigValues.TrgOps : "dchg" \in trgOps

(***************************************************************************)
(* A client's write, action by action.                                     *)
(***************************************************************************)
LEMMA WriteCurrent ==
  ASSUME Steady, Inv, NEW quiet \in SUBSET Leaves, CurrentInv(rcb, quiet, val),
         NEW c \in Conns, WriteOther(c) \/ WriteResume(c)
  PROVE  CurrentInv(rcb', quiet, val)
<1>0. /\ rcb \in Rcb /\ BlockInv(rcb) /\ val \in [Leaves -> Nat]
      /\ ~Buffered => rcb.buffer = <<>>
  BY DEF Inv, TypeOK, BlockInv
<1>1. ASSUME NEW wanted \in BOOLEAN, WriteResv(c, wanted)
      PROVE  CurrentInv(rcb', quiet, val)
  BY <1>1 DEF WriteResv
<1>2. ASSUME NEW seconds \in ResvTmsValues, WriteResvTms(c, seconds)
      PROVE  CurrentInv(rcb', quiet, val)
  BY <1>2 DEF WriteResvTms
<1>3. CASE WritePurgeBuf(c)
  <2>1. /\ rcb'.config = rcb.config /\ rcb'.pending = rcb.pending
        /\ rcb'.buffer = <<>> /\ rcb'.rptEna = FALSE
    BY <1>0, <1>3 DEF WritePurgeBuf, Purge, Rcb
  <2> QED
    BY <2>1, TracksNothing DEF CurrentInv
<1>4. ASSUME NEW id \in 0 .. rcb.nextEntry - 1, WriteEntryID(c, id)
      PROVE  CurrentInv(rcb', quiet, val)
  <2>1. /\ rcb'.config = rcb.config /\ rcb'.pending = rcb.pending
        /\ rcb'.buffer = rcb.buffer /\ rcb'.everEnabled = rcb.everEnabled
        /\ rcb'.rptEna = rcb.rptEna /\ rcb'.out = rcb.out
    BY <1>0, <1>4 DEF WriteEntryID, Rcb
  <2> QED
    BY <2>1, SameCurrent
<1>5. ASSUME NEW a \in DOMAIN ConfigValues, NEW v \in ConfigValues[a],
             WriteConfig(c, a, v)
      PROVE  CurrentInv(rcb', quiet, val)
  <2>1. rcb' \in Rcb
    BY <1>0, <1>5, ConfigInv DEF WriteConfig, BlockInv
  <2>2. /\ rcb'.pending = rcb.pending /\ rcb'.buffer = rcb.buffer
        /\ rcb'.everEnabled = rcb.everEnabled /\ rcb'.rptEna = FALSE
    BY <1>0, <1>5 DEF WriteConfig, Rcb
  <2>3. /\ rcb'.config \in Config /\ rcb.config \in Config
    BY <1>0, <2>1 DEF Rcb
  <2>4. rcb'.config.BufTm = 0
    BY <2>3 DEF Config, Steady
  <2>5. Tracks(rcb'.buffer, rcb', quiet, val)
    <3>1. CASE ~Buffered
      BY <3>1, <1>0, <2>2, TracksNothing
    <3>2. CASE Buffered
      <4>1. rcb'.config.DatSet = rcb.config.DatSet
        BY <3>2, <2>3 DEF Config, Steady
      <4>2. "dchg" \in rcb.config.TrgOps
        BY <3>2, <2>3 DEF Config, Steady
      <4>3. LeavesOf(rcb') = LeavesOf(rcb)
        BY <4>1 DEF LeavesOf, Members
      <4>4. Tracks(rcb.buffer, rcb, quiet, val)
        BY DEF CurrentInv
      <4>5. Tracks(rcb.buffer, rcb', quiet, val)
        BY <4>2, <4>3, <4>4, TracksOthers
      <4> QED
        BY <2>2, <4>5
    <3> QED
      BY <3>1, <3>2
  <2> QED
    BY <2>2, <2>4, <2>5 DEF CurrentInv
<1>6. CASE WriteGI(c)
  BY <1>0, <1>6, AllIsCurrent DEF WriteGI
<1>7. CASE Enable(c)
  BY <1>0, <1>7, EnabledIsCurrent DEF Enable
<1>8. CASE Disable(c)
  <2> DEFINE o == [rcb EXCEPT !.rptEna = FALSE]
  <2>1. /\ o \in Rcb /\ o.pending = NoValues /\ o.config = rcb.config
        /\ o.buffer = rcb.buffer /\ o.everEnabled = rcb.everEnabled
        /\ o.rptEna = FALSE
    BY <1>0 DEF Rcb, CurrentInv
  <2>2. rcb' = [o EXCEPT !.integrityDue = 0]
    BY <1>8, <2>1 DEF Disable, Flush
  <2> HIDE DEF o
  <2>3. /\ rcb'.pending = NoValues /\ rcb'.config = rcb.config
        /\ rcb'.buffer = rcb.buffer /\ rcb'.everEnabled = rcb.everEnabled
        /\ rcb'.rptEna = FALSE
    BY <2>1, <2>2 DEF Rcb
  <2>4. rcb.pending = NoValues
    BY DEF CurrentInv
  <2> QED
    BY <2>3, <2>4, SameCurrent
<1> QED
  BY <1>1, <1>2, <1>3, <1>4, <1>5, <1>6, <1>7, <1>8
  DEF WriteOther, WriteResume

(***************************************************************************)
(* Connections and timers.                                                 *)
(***************************************************************************)
LEMMA OtherCurrent ==
  ASSUME Inv, NEW quiet \in SUBSET Leaves, CurrentInv(rcb, quiet, val),
         \/ \E c \in Conns : Connection(c) \/ LapseTimer(c)
         \/ Timers
  PROVE  CurrentInv(rcb', quiet, val)
<1>0. rcb \in Rcb /\ BlockInv(rcb) /\ val \in [Leaves -> Nat]
  BY DEF Inv, TypeOK
<1>1. ASSUME NEW c \in Conns, Connection(c) \/ LapseTimer(c)
      PROVE  CurrentInv(rcb', quiet, val)
  <2>1. CASE rcb' = rcb
    BY <2>1
  <2>2. CASE rcb' = [rcb EXCEPT !.rptEna = FALSE, !.integrityDue = 0]
    <3>1. /\ rcb'.pending = rcb.pending /\ rcb'.config = rcb.config
          /\ rcb'.buffer = rcb.buffer /\ rcb'.everEnabled = rcb.everEnabled
          /\ rcb'.rptEna = FALSE
      BY <1>0, <2>2 DEF Rcb
    <3> QED
      BY <3>1, SameCurrent
  <2> QED
    BY <1>1, <2>1, <2>2
    DEF Connection, LapseTimer, Accept, Lose, Forget, DeadlinePasses, Lapse
<1>2. CASE BufTmExpires
  <2>1. PICK g : rcb' = IF rcb.gathering = g
                        THEN Flush([rcb EXCEPT !.bufTimers = @ \ {g}])
                        ELSE [rcb EXCEPT !.bufTimers = @ \ {g}]
    BY <1>2 DEF BufTmExpires
  <2> DEFINE fired == [rcb EXCEPT !.bufTimers = @ \ {g}]
  <2>2. /\ SameMode(fired, rcb) /\ fired.buffer = rcb.buffer
        /\ fired.pending = rcb.pending /\ fired.out = rcb.out
        /\ fired.everEnabled = rcb.everEnabled
    BY <1>0, BufTimerFires
  <2>3. rcb' = fired \/ rcb' = Flush(fired)
    BY <2>1
  <2> HIDE DEF fired
  <2>4. CurrentInv(fired, quiet, val)
    BY <2>2, SameCurrent DEF SameMode
  <2>5. Flush(fired) = fired
    BY <2>4 DEF Flush, CurrentInv
  <2> QED
    BY <2>3, <2>4, <2>5
<1>3. ASSUME NEW due \in 1 .. MaxTimers, IntegrityFires(due)
      PROVE  CurrentInv(rcb', quiet, val)
  <2> DEFINE fired == [rcb EXCEPT !.integrityTimers = @ \ {due}]
             a == ReportAll(Flush(fired))
  <2>1. /\ BlockInv(fired) /\ fired.buffer = rcb.buffer
        /\ fired.pending = rcb.pending /\ fired.out = rcb.out
        /\ fired.everEnabled = rcb.everEnabled /\ fired.rptEna = rcb.rptEna
        /\ fired.config = rcb.config
        /\ fired.integrityTimers = rcb.integrityTimers \ {due}
    BY <1>0, IntegrityTimerFires
  <2>2. rcb' = fired \/ (rcb.rptEna /\ rcb' = ScheduleIntegrity(a))
    BY <1>3 DEF IntegrityFires
  <2> HIDE DEF fired
  <2>3. CurrentInv(fired, quiet, val)
    BY <2>1, SameCurrent
  <2>4. CASE rcb.rptEna /\ rcb' = ScheduleIntegrity(a)
    <3>1. CurrentInv(a, quiet, val)
      BY <1>0, <2>1, <2>3, <2>4, AllIsCurrent
    <3>2. BlockInv(Flush(fired)) /\ SameMode(Flush(fired), fired)
      BY <2>1, FlushInv
    <3>3. BlockInv(a) /\ SameMode(a, Flush(fired))
      BY <1>0, <3>2, ReportAllInv
    <3> HIDE DEF a
    <3>4. a.integrityTimers # 1 .. MaxTimers
      BY <2>1, <3>2, <3>3 DEF SameMode
    <3>5. /\ rcb'.pending = a.pending /\ rcb'.config = a.config
          /\ rcb'.buffer = a.buffer /\ rcb'.everEnabled = a.everEnabled
          /\ rcb'.rptEna = a.rptEna /\ rcb'.out = a.out
      BY <2>4, <3>3, <3>4, ScheduleInv
    <3> QED
      BY <3>1, <3>5, SameCurrent
  <2> QED
    BY <2>2, <2>3, <2>4
<1> QED
  BY <1>1, <1>2, <1>3 DEF Timers

(***************************************************************************)
(* A change of a leaf, which is not quiet until it has been told of, and   *)
(* the telling, which reads the values that are current then.              *)
(***************************************************************************)
LEMMA ChangeCurrent ==
  ASSUME Inv, CurrentInv(rcb, QuietLeaves, val), NEW s \in Setters, Change(s)
  PROVE  CurrentInv(rcb', QuietLeaves', val')
<1>0. /\ rcb \in Rcb /\ BlockInv(rcb) /\ val \in [Leaves -> Nat]
      /\ setting \in [Setters -> [Leaves -> Nat]]
      /\ ~Buffered => rcb.buffer = <<>>
      /\ QuietLeaves \in SUBSET Leaves /\ QuietLeaves' \in SUBSET Leaves
  BY DEF Inv, TypeOK, BlockInv, QuietLeaves
<1>1. ASSUME NEW leaf \in Leaves, Assign(s, leaf)
      PROVE  CurrentInv(rcb', QuietLeaves', val')
  <2>1. /\ rcb' = rcb /\ val' = [val EXCEPT ![leaf] = @ + 1]
        /\ setting' = [setting EXCEPT ![s][leaf] = val'[leaf]]
    BY <1>1 DEF Assign
  <2>2. setting'[s][leaf] # 0
    BY <1>0, <2>1
  <2>3. \A l \in Leaves : l # leaf =>
           /\ val'[l] = val[l]
           /\ \A s1 \in Setters : setting'[s1][l] = setting[s1][l]
    BY <1>0, <2>1
  <2>4. \A l \in QuietLeaves' : l \in QuietLeaves /\ val'[l] = val[l]
    BY <2>2, <2>3 DEF QuietLeaves
  <2>5. \A t : Tracks(t, rcb, QuietLeaves, val)
                  => Tracks(t, rcb, QuietLeaves', val')
    BY <1>0, <2>4, TracksOthers
  <2> QED
    BY <2>1, <2>5 DEF CurrentInv
<1>2. CASE Notify(s)
  <2> DEFINE places == {p \in DOMAIN Members(rcb) :
                           setting[s][Members(rcb)[p]] > 0}
  <2>1. /\ val' = val
        /\ setting' = [setting EXCEPT ![s] = NoChange]
        /\ rcb' = IF Reports(rcb) /\ places # {}
                  THEN Add(rcb, Current(rcb, places)) ELSE rcb
    BY <1>2 DEF Notify
  <2>2. \A leaf \in QuietLeaves' \ QuietLeaves : setting[s][leaf] > 0
    <3> SUFFICES ASSUME NEW leaf \in QuietLeaves' \ QuietLeaves
                 PROVE  setting[s][leaf] > 0
      OBVIOUS
    <3>1. leaf \in Leaves /\ \A s1 \in Setters : setting'[s1][leaf] = 0
      BY DEF QuietLeaves
    <3>2. PICK s1 \in Setters : setting[s1][leaf] # 0
      BY <3>1 DEF QuietLeaves
    <3>3. s1 = s
      BY <1>0, <2>1, <3>1, <3>2
    <3> QED
      BY <1>0, <3>1, <3>2, <3>3
  <2>3. \A leaf \in QuietLeaves' \ QuietLeaves : \A p \in DOMAIN Members(rcb) :
           Members(rcb)[p] = leaf => p \in places
    BY <2>2
  <2>4. places \in SUBSET DOMAIN Members(rcb)
    OBVIOUS
  <2> HIDE DEF places
  <2>5. CASE Reports(rcb) /\ places # {}
    <3>1. rcb.everEnabled
      BY <2>5 DEF Reports, CurrentInv
    <3>2. rcb' = NewEntry(rcb, Current(rcb, places))
      BY <2>1, <2>5 DEF Add, CurrentInv
    <3>3. CurrentInv(NewEntry(rcb, Current(rcb, places)), QuietLeaves', val)
      BY <1>0, <2>3, <2>4, <3>1, EntryIsCurrent
    <3> QED
      BY <2>1, <3>2, <3>3
  <2>6. CASE "dchg" \in rcb.config.TrgOps => places = {}
    <3>1. "dchg" \in rcb.config.TrgOps =>
             \A leaf \in QuietLeaves' :
                leaf \in QuietLeaves \/ leaf \notin LeavesOf(rcb)
      BY <2>3, <2>6 DEF LeavesOf
    <3>2. \A t : Tracks(t, rcb, QuietLeaves, val)
                    => Tracks(t, rcb, QuietLeaves', val)
      BY <1>0, <3>1, TracksOthers
    <3>3. rcb' = rcb
      BY <2>1, <2>6 DEF Reports
    <3> QED
      BY <2>1, <3>2, <3>3 DEF CurrentInv
  <2>7. CASE ~rcb.rptEna /\ ~(Buffered /\ rcb.everEnabled)
    <3>1. rcb' = rcb /\ rcb.buffer = <<>>
      BY <1>0, <2>1, <2>7 DEF Reports, CurrentInv
    <3> QED
      BY <2>1, <2>7, <3>1, TracksNothing DEF CurrentInv
  <2> QED
    BY <2>5, <2>6, <2>7 DEF Reports
<1> QED
  BY <1>1, <1>2 DEF Change

(***************************************************************************)
(* Every step.                                                             *)
(***************************************************************************)
LEMMA CurrentNext ==
  ASSUME Steady, Inv, CurrentInv(rcb, QuietLeaves, val), [Next]_vars
  PROVE  CurrentInv(rcb', QuietLeaves', val')
<1>1. QuietLeaves \in SUBSET Leaves
  BY DEF QuietLeaves
<1>2. CASE val' = val /\ setting' = setting /\ CurrentInv(rcb', QuietLeaves, val)
  BY <1>2 DEF QuietLeaves
<1>3. ASSUME NEW c \in Conns, WriteOther(c) \/ WriteResume(c)
      PROVE  CurrentInv(rcb', QuietLeaves', val')
  <2>1. val' = val /\ setting' = setting
    BY <1>3 DEF WriteOther, WriteResume, WriteResv, WriteResvTms, WritePurgeBuf,
                WriteEntryID, WriteConfig, WriteGI, Enable, Disable
  <2> QED
    BY <1>1, <1>2, <1>3, <2>1, WriteCurrent
<1>4. ASSUME (\E c \in Conns : Connection(c) \/ LapseTimer(c)) \/ Timers
      PROVE  CurrentInv(rcb', QuietLeaves', val')
  <2>1. val' = val /\ setting' = setting
    BY <1>4 DEF Connection, LapseTimer, Timers, Accept, Lose, Forget,
                DeadlinePasses, Lapse, BufTmExpires, IntegrityFires
  <2> QED
    BY <1>1, <1>2, <1>4, <2>1, OtherCurrent
<1>5. CASE UNCHANGED vars
  BY <1>2, <1>5 DEF vars
<1> QED
  BY <1>3, <1>4, <1>5, ChangeCurrent DEF Next, Others

(***************************************************************************)
(* _on_change reads the values under both locks: whatever the order in     *)
(* which the setters' notifications arrive, of how many changes and to how *)
(* many clients one after the other, in the replay of a buffer that drops  *)
(* and is purged too, the last value that an enabled block has reported of *)
(* a leaf is its current one once all changes have been told of.           *)
(***************************************************************************)
THEOREM ReportsAreUpToDate ==
  ASSUME Steady
  PROVE  Spec => []UpToDate
<1> DEFINE Tracking == CurrentInv(rcb, QuietLeaves, val)
<1>1. Init => Tracking
  <2> SUFFICES ASSUME Init PROVE Tracking
    OBVIOUS
  <2>1. /\ rcb.config \in Config /\ rcb.pending = NoValues /\ ~rcb.rptEna
        /\ rcb.buffer = <<>>
    BY DEF Init
  <2>2. rcb.config.BufTm = 0
    BY <2>1 DEF Config, Steady
  <2> QED
    BY <2>1, <2>2, TracksNothing DEF CurrentInv
<1>2. Inv /\ Tracking /\ [Next]_vars => Tracking'
  BY CurrentNext
<1>3. Inv /\ Tracking => UpToDate
  <2> SUFFICES ASSUME Inv, Tracking, NEW leaf \in Leaves, rcb.rptEna,
                      "dchg" \in rcb.config.TrgOps,
                      \A s \in Setters : setting[s][leaf] = 0,
                      LastReported(leaf) # {}
               PROVE  val[leaf] \in LastReported(leaf)
    BY DEF UpToDate
  <2>1. leaf \in QuietLeaves
    BY DEF QuietLeaves
  <2>2. Fresh(rcb.out, leaf, val[leaf])
    BY <2>1 DEF CurrentInv, Tracks
  <2>3. rcb.out \in Seq(Report)
    BY DEF Inv, BlockInv, Rcb
  <2> QED
    BY <2>2, <2>3, LatestIsFresh DEF LastReported
<1> HIDE DEF Tracking
<1> QED
  BY <1>1, <1>2, <1>3, Invariance, PTL DEF Spec

=============================================================================
