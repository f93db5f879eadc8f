------------------------- MODULE YaffsCheckptProofs -------------------------
(***************************************************************************)
(* Proofs about YaffsCheckpt, for any number of blocks, pages of a block   *)
(* and pages of a checkpoint: where the log does not change while a        *)
(* checkpoint cannot be invalidated, the block table in memory is the one  *)
(* that a scan would give, and its counts are exact.                       *)
(***************************************************************************)
EXTENDS YaffsCheckpt, FiniteSetTheorems, SequenceTheorems, WellFoundedInduction, TLAPS

(* A set of natural numbers that is not empty has a least element, and a   *)
(* greatest one if it is bounded.                                          *)
LEMMA LeastLemma ==
  ASSUME NEW T \in SUBSET Nat, T # {}
  PROVE  \E x \in T : \A y \in T : x <= y
<1>1. PICK x \in T : \A y \in T : ~ (<<y, x>> \in OpToRel(<, Nat))
  BY NatLessThanWellFounded, WFMin
<1>2. \A y \in T : <<y, x>> \in OpToRel(<, Nat) <=> y < x
  BY DEF OpToRel
<1>3. \A y \in T : ~ (y < x)
  BY <1>1, <1>2
<1>4. QED
  BY <1>3

LEMMA MinLemma ==
  ASSUME NEW T \in SUBSET Nat, T # {}
  PROVE  Min(T) \in T /\ \A y \in T : Min(T) <= y
<1>1. \E x \in T : \A y \in T : x <= y
  BY LeastLemma
<1>2. QED
  BY <1>1 DEF Min

LEMMA MaxLemma ==
  ASSUME NEW n \in Nat, NEW T \in SUBSET (0 .. n), T # {}
  PROVE  Max(T) \in T /\ \A y \in T : Max(T) >= y
<1> DEFINE U == {n - x : x \in T}
<1>0. \A x \in T : x \in Nat /\ n - x \in Nat
  OBVIOUS
<1>1. U \in SUBSET Nat /\ U # {}
  BY <1>0
<1>2. PICK u \in U : \A v \in U : u <= v
  BY <1>1, LeastLemma
<1>3. PICK x \in T : u = n - x
  BY <1>2
<1>4. ASSUME NEW y \in T PROVE x >= y
  <2>1. n - x <= n - y
    BY <1>2, <1>3
  <2>2. QED
    BY <1>0, <2>1
<1>5. QED
  BY <1>3, <1>4 DEF Max

-----------------------------------------------------------------------------
(* The pages of the stream and their places.                               *)

LEMMA QuotientLemma ==
  ASSUME NEW n \in Nat \ {0}, NEW q \in Nat, NEW r \in 0 .. (n - 1)
  PROVE  (n * q + r) % n = r /\ (n * q + r) \div n = q
  BY n * q + r \in Nat, Z3

LEMMA DivideLemma ==
  ASSUME NEW n \in Nat \ {0}, NEW x \in Nat
  PROVE  /\ x % n \in 0 .. (n - 1) /\ x \div n \in Nat
         /\ x = n * (x \div n) + (x % n)
  OBVIOUS

LEMMA TimesLemma ==
  ASSUME NEW n \in Nat, NEW a \in Nat, NEW b \in Nat, a <= b
  PROVE  n * a <= n * b /\ n * (a + 1) = n * a + n /\ n * a \in Nat
<1>1. n * (b - a) \in Nat /\ n * b = n * a + n * (b - a)
  OBVIOUS
<1>2. QED
  BY <1>1

LEMMA PageLemma ==
  ASSUME NEW r \in Nat \ {0}, NEW p \in 1 .. BlockPages
  PROVE  /\ PageAt(r, p) \in Nat \ {0}
         /\ BlockOfPage(PageAt(r, p)) = r /\ PageInBlock(PageAt(r, p)) = p
         /\ PageAt(r, p) + 1 = IF p < BlockPages THEN PageAt(r, p + 1) ELSE PageAt(r + 1, 1)
<1> DEFINE n == BlockPages
<1>1. n \in Nat \ {0} /\ r - 1 \in Nat /\ p - 1 \in 0 .. (n - 1)
  BY CkptAssumption
<1>2. PageAt(r, p) - 1 = n * (r - 1) + (p - 1) /\ n * (r - 1) \in Nat
  BY <1>1 DEF PageAt
<1>3. (n * (r - 1) + (p - 1)) % n = p - 1 /\ (n * (r - 1) + (p - 1)) \div n = r - 1
  BY <1>1, QuotientLemma, Zenon
<1>4. PageAt(r, p) \in Nat \ {0}
  BY <1>1, <1>2 DEF PageAt
<1>5. BlockOfPage(PageAt(r, p)) = r /\ PageInBlock(PageAt(r, p)) = p
  BY <1>2, <1>3 DEF BlockOfPage, PageInBlock
<1>6. PageAt(r, p) + 1 = IF p < n THEN PageAt(r, p + 1) ELSE PageAt(r + 1, 1)
  BY <1>1 DEF PageAt
<1>7. QED
  BY <1>4, <1>5, <1>6

(* The last page is in block BlockOfPage(StreamPages), and nothing beyond  *)
(* that block belongs to the stream.                                       *)
LEMMA LastPageLemma ==
  /\ BlockOfPage(StreamPages) \in Nat \ {0}
  /\ \A r \in Nat \ {0} : PageAt(r, 1) <= StreamPages <=> r <= BlockOfPage(StreamPages)
<1> DEFINE n == BlockPages
<1>1. n \in Nat \ {0} /\ StreamPages - 1 \in Nat /\ StreamPages \in Nat
  BY CkptAssumption
<1>2. PICK q \in Nat, t \in 0 .. (n - 1) :
         StreamPages - 1 = n * q + t /\ q = (StreamPages - 1) \div n
  BY <1>1, DivideLemma, Zenon
<1>3. BlockOfPage(StreamPages) = q + 1
  BY <1>2 DEF BlockOfPage
<1>4. ASSUME NEW r \in Nat \ {0}
      PROVE  PageAt(r, 1) <= StreamPages <=> r <= q + 1
  <2>0. r - 1 \in Nat /\ q + 1 \in Nat /\ n \in Nat
    BY <1>1
  <2>1. n * (r - 1) \in Nat /\ n * q \in Nat /\ n * (q + 1) = n * q + n
    BY <2>0, TimesLemma
  <2>2. r - 1 <= q => n * (r - 1) <= n * q
    BY <2>0, TimesLemma, Zenon
  <2>3. q + 1 <= r - 1 => n * (q + 1) <= n * (r - 1)
    BY <2>0, TimesLemma, Zenon
  <2>4. PageAt(r, 1) = n * (r - 1) + 1
    BY <2>0 DEF PageAt
  <2> DEFINE A == n * (r - 1)  B == n * q  C == n * (q + 1)
  <2>5. /\ A \in Nat /\ B \in Nat /\ C = B + n /\ PageAt(r, 1) = A + 1
        /\ (r - 1 <= q => A <= B) /\ (q + 1 <= r - 1 => C <= A)
        /\ StreamPages = B + t + 1 /\ t \in 0 .. (n - 1) /\ q \in Nat
    BY <1>1, <1>2, <2>1, <2>2, <2>3, <2>4
  <2> HIDE DEF A, B, C
  <2>6. QED
    BY <2>0, <2>5
<1>5. QED
  BY <1>2, <1>3, <1>4

-----------------------------------------------------------------------------
(* The flash, and what a scan says of one block of it.                     *)

States == {"empty", "allocating", "full", "dirty", "checkpoint"}
Infos == [state : States, seq : Nat, pages : Nat]
Images == [table : {<<>>} \cup [Parts -> Infos], alloc : Nat, seq : Nat, erased : Int]
Pages == [seq : 0 .. MaxSeq, id : Nat, image : Images]

Ckpts == {b \in Parts : HoldsCkpt(b)}
Empties == {b \in Parts : flash[b] = <<>>}
SeqOf(b) == flash[b][1].seq
Unfilled(b) == HoldsData(b) /\ Len(flash[b]) < BlockPages

(* Only the block written last may have room.                              *)
FlashInv ==
    /\ flash \in [Parts -> Seq(Pages)]
    /\ \A b \in Parts : Len(flash[b]) <= BlockPages
    /\ \A b, c \in Parts : Unfilled(b) /\ HoldsData(c) /\ b # c => SeqOf(c) < SeqOf(b)

InfoOf(s) ==
    IF s = <<>> THEN Info("empty", 0, 0)
    ELSE IF s[1].id # 0 THEN Info("checkpoint", 0, 0)
    ELSE Info(IF Len(s) < BlockPages THEN "allocating" ELSE "full", s[1].seq, Len(s))

LEMMA AppendLemma ==
  ASSUME NEW S, NEW s \in Seq(S), NEW x \in S
  PROVE  /\ Append(s, x) \in Seq(S) /\ Append(s, x) # <<>>
         /\ Len(Append(s, x)) = Len(s) + 1 /\ Len(s) \in Nat
         /\ Append(s, x)[Len(s) + 1] = x
         /\ \A p \in 1 .. Len(s) : Append(s, x)[p] = s[p] /\ s[p] \in S
         /\ (s = <<>>) <=> (Len(s) = 0)
         /\ s = <<>> => Append(s, x)[1] = x
         /\ s # <<>> => Append(s, x)[1] = s[1]
  OBVIOUS

LEMMA BlockLemma ==
  ASSUME FlashInv, NEW b \in Parts
  PROVE  /\ flash[b] \in Seq(Pages) /\ Len(flash[b]) \in Nat /\ Len(flash[b]) <= BlockPages
         /\ \A p \in 1 .. Len(flash[b]) : flash[b][p] \in Pages
         /\ (flash[b] = <<>>) <=> (Len(flash[b]) = 0)
         /\ flash[b] # <<>> => /\ flash[b][1] \in Pages /\ flash[b][1].id \in Nat
                               /\ SeqOf(b) \in 0 .. MaxSeq /\ 1 \in 1 .. Len(flash[b])
<1>1. flash[b] \in Seq(Pages) /\ Len(flash[b]) <= BlockPages
  BY DEF FlashInv
<1>2. flash[b] # <<>> => flash[b][1] \in Pages /\ 1 \in 1 .. Len(flash[b])
  BY <1>1
<1>3. \A x \in Pages : x.id \in Nat /\ x.seq \in 0 .. MaxSeq
  BY DEF Pages
<1>4. /\ Len(flash[b]) \in Nat
      /\ \A p \in 1 .. Len(flash[b]) : flash[b][p] \in Pages
      /\ (flash[b] = <<>>) <=> (Len(flash[b]) = 0)
  BY <1>1
<1>5. QED
  BY <1>1, <1>2, <1>3, <1>4 DEF SeqOf

LEMMA InfoLemma ==
  ASSUME FlashInv, NEW b \in Parts
  PROVE  /\ InfoOf(flash[b]) \in Infos
         /\ InfoOf(flash[b]).state = "empty" <=> flash[b] = <<>>
         /\ InfoOf(flash[b]).state = "checkpoint" <=> HoldsCkpt(b)
         /\ InfoOf(flash[b]).state = "allocating" <=> Unfilled(b)
         /\ InfoOf(flash[b]).state = "full" <=> HoldsData(b) /\ ~Unfilled(b)
         /\ InfoOf(flash[b]).state # "dirty"
         /\ flash[b] = <<>> => InfoOf(flash[b]) = Info("empty", 0, 0)
         /\ HoldsCkpt(b) => InfoOf(flash[b]) = Info("checkpoint", 0, 0)
         /\ HoldsData(b) => InfoOf(flash[b]).pages = Len(flash[b])
         /\ HoldsData(b) /\ ~Unfilled(b) => InfoOf(flash[b]) = Info("full", SeqOf(b), BlockPages)
<1>2. BlockPages \in Nat /\ MaxSeq \in Nat
  BY CkptAssumption
<1>3. CASE flash[b] = <<>>
  <2>1. InfoOf(flash[b]) = Info("empty", 0, 0)
    BY <1>3 DEF InfoOf
  <2>2. Info("empty", 0, 0) \in Infos /\ Info("empty", 0, 0).state = "empty"
    BY DEF Info, Infos, States
  <2>3. ~HoldsCkpt(b) /\ ~HoldsData(b) /\ ~Unfilled(b)
    BY <1>3 DEF HoldsCkpt, HoldsData, Unfilled
  <2>4. QED
    BY <1>3, <2>1, <2>2, <2>3
<1>4. CASE HoldsCkpt(b)
  <2>1. InfoOf(flash[b]) = Info("checkpoint", 0, 0) /\ flash[b] # <<>>
    BY <1>4 DEF InfoOf, HoldsCkpt
  <2>2. /\ Info("checkpoint", 0, 0) \in Infos
        /\ Info("checkpoint", 0, 0).state = "checkpoint"
    BY DEF Info, Infos, States
  <2>3. ~HoldsData(b) /\ ~Unfilled(b)
    BY <1>4 DEF HoldsCkpt, HoldsData, Unfilled
  <2>4. QED
    BY <1>4, <2>1, <2>2, <2>3
<1>5. CASE HoldsData(b)
  <2>0. SeqOf(b) \in Nat /\ Len(flash[b]) \in Nat /\ Len(flash[b]) <= BlockPages
    BY <1>2, <1>5, BlockLemma DEF HoldsData
  <2>1. flash[b] # <<>> /\ ~HoldsCkpt(b)
    BY <1>5 DEF HoldsData, HoldsCkpt
  <2>2. InfoOf(flash[b]) = Info(IF Len(flash[b]) < BlockPages THEN "allocating" ELSE "full",
                                SeqOf(b), Len(flash[b]))
    BY <1>5 DEF InfoOf, HoldsData, SeqOf
  <2>3. CASE Len(flash[b]) < BlockPages
    <3>1. Unfilled(b) /\ InfoOf(flash[b]) = Info("allocating", SeqOf(b), Len(flash[b]))
      BY <1>5, <2>2, <2>3 DEF Unfilled
    <3>2. /\ InfoOf(flash[b]) \in Infos /\ InfoOf(flash[b]).state = "allocating"
          /\ InfoOf(flash[b]).pages = Len(flash[b])
      BY <2>0, <3>1 DEF Info, Infos, States
    <3>3. QED
      BY <1>5, <2>1, <3>1, <3>2
  <2>4. CASE Len(flash[b]) = BlockPages
    <3>1. ~Unfilled(b) /\ InfoOf(flash[b]) = Info("full", SeqOf(b), BlockPages)
      BY <1>2, <1>5, <2>2, <2>4 DEF Unfilled
    <3>2. /\ InfoOf(flash[b]) \in Infos /\ InfoOf(flash[b]).state = "full"
          /\ InfoOf(flash[b]).pages = Len(flash[b])
      BY <2>0, <2>4, <3>1 DEF Info, Infos, States
    <3>3. QED
      BY <1>5, <2>1, <3>1, <3>2
  <2>5. QED
    BY <1>2, <2>0, <2>3, <2>4
<1>6. QED
  BY <1>3, <1>4, <1>5 DEF HoldsCkpt, HoldsData

(* Sets of blocks are finite.                                              *)
LEMMA PartsLemma ==
  /\ Parts \in SUBSET Nat /\ Nowhere \notin Parts /\ NumBlocks \in Nat
  /\ \A S \in SUBSET Parts : IsFiniteSet(S) /\ Cardinality(S) \in Nat
                             /\ (Cardinality(S) = 0 <=> S = {})
<1>1. Parts \in SUBSET Nat /\ Nowhere \notin Parts /\ NumBlocks \in Nat
  BY CkptAssumption DEF Parts, Nowhere
<1>2. IsFiniteSet(Parts)
  BY <1>1, FS_Interval DEF Parts
<1>3. ASSUME NEW S \in SUBSET Parts
      PROVE  IsFiniteSet(S) /\ Cardinality(S) \in Nat /\ (Cardinality(S) = 0 <=> S = {})
  BY <1>2, FS_Subset, FS_CardinalityType, FS_EmptySet
<1>4. QED
  BY <1>1, <1>3

LEMMA CountLemma ==
  ASSUME NEW S \in SUBSET Parts, NEW b \in Parts
  PROVE  /\ b \notin S => Cardinality(S \cup {b}) = Cardinality(S) + 1
         /\ b \in S => Cardinality(S \ {b}) = Cardinality(S) - 1
         /\ \A T \in SUBSET S : /\ Cardinality(T) <= Cardinality(S)
                                /\ Cardinality(T) = Cardinality(S) => T = S
<1>1. IsFiniteSet(S)
  BY PartsLemma
<1>2. \A T \in SUBSET S : /\ Cardinality(T) <= Cardinality(S)
                          /\ Cardinality(T) = Cardinality(S) => T = S
  BY <1>1, FS_Subset
<1>3. QED
  BY <1>1, <1>2, FS_AddElement, FS_RemoveElement

-----------------------------------------------------------------------------
(* Where the log goes on, and what a scan finds.                           *)

HeadAt(alloc, seq) ==
    /\ alloc \in Parts \cup {Nowhere} /\ seq \in 0 .. MaxSeq
    /\ \A b \in Parts : HoldsData(b) => SeqOf(b) <= seq
    /\ \A b \in Parts : (Unfilled(b) <=> b = alloc) /\ (b = alloc => SeqOf(b) = seq)

TableOfFlash == [b \in Parts |-> InfoOf(flash[b])]

LEMMA LastWrittenLemma ==
  ASSUME FlashInv
  PROVE  /\ LastWritten \in 0 .. MaxSeq
         /\ \A b \in Parts : HoldsData(b) => SeqOf(b) <= LastWritten
         /\ \A b \in Parts : Unfilled(b) => SeqOf(b) = LastWritten
<1> DEFINE T == {0} \cup {flash[b][1].seq : b \in {x \in Parts : HoldsData(x)}}
<1>1. MaxSeq \in Nat
  BY CkptAssumption
<1>2. \A b \in Parts : HoldsData(b) => SeqOf(b) \in 0 .. MaxSeq /\ flash[b][1].seq = SeqOf(b)
  BY BlockLemma DEF HoldsData, SeqOf
<1>3. T \in SUBSET (0 .. MaxSeq) /\ T # {}
  BY <1>1, <1>2
<1>4. Max(T) \in T /\ \A y \in T : Max(T) >= y
  BY <1>1, <1>3, MaxLemma
<1>5. LastWritten = Max(T)
  BY DEF LastWritten
<1>6. LastWritten \in 0 .. MaxSeq /\ \A b \in Parts : HoldsData(b) => SeqOf(b) <= LastWritten
  BY <1>2, <1>3, <1>4, <1>5
<1>7. ASSUME NEW b \in Parts, Unfilled(b) PROVE SeqOf(b) = LastWritten
  <2>1. HoldsData(b) /\ SeqOf(b) \in 0 .. MaxSeq /\ SeqOf(b) <= LastWritten
    BY <1>2, <1>6, <1>7 DEF Unfilled
  <2>2. CASE LastWritten = 0
    BY <1>1, <2>1, <2>2
  <2>3. CASE \E c \in Parts : HoldsData(c) /\ LastWritten = SeqOf(c)
    BY <1>2, <1>7, <2>1, <2>3 DEF FlashInv
  <2>4. QED
    BY <1>2, <1>4, <1>5, <2>2, <2>3
<1>8. QED
  BY <1>6, <1>7

LEMMA ScanLemma ==
  ASSUME FlashInv
  PROVE  ScannedTable = TableOfFlash /\ HeadAt(AllocOf(ScannedTable), LastWritten)
<1>1. ASSUME NEW b \in Parts PROVE ScannedInfo(b) = InfoOf(flash[b])
  <2>1. CASE HoldsCkpt(b)
    BY <2>1 DEF ScannedInfo, InfoOf, HoldsCkpt
  <2>2. CASE ~HoldsCkpt(b) /\ ~HoldsData(b)
    BY <2>2 DEF ScannedInfo, InfoOf, HoldsCkpt, HoldsData
  <2>3. CASE HoldsData(b)
    <3>1. ~HoldsCkpt(b) /\ flash[b] # <<>> /\ ~(flash[b][1].id # 0)
      BY <2>3 DEF HoldsCkpt, HoldsData
    <3>2. Len(flash[b]) < BlockPages => flash[b][1].seq = LastWritten
      BY <2>3, LastWrittenLemma DEF Unfilled, SeqOf
    <3>3. QED
      BY <2>3, <3>1, <3>2 DEF ScannedInfo, InfoOf
  <2>4. QED
    BY <2>1, <2>2, <2>3
<1>2. ScannedTable = TableOfFlash
  BY <1>1 DEF ScannedTable, TableOfFlash
<1> DEFINE T == {Nowhere} \cup Having(ScannedTable, "allocating")
<1>3. Having(ScannedTable, "allocating") = {b \in Parts : Unfilled(b)}
  BY <1>2, InfoLemma DEF Having, TableOfFlash
<1>4. T \in SUBSET (0 .. NumBlocks) /\ T # {} /\ NumBlocks \in Nat
  BY <1>3, CkptAssumption DEF Parts, Nowhere
<1>5. Max(T) \in T /\ \A y \in T : Max(T) >= y
  BY <1>4, MaxLemma
<1>6. AllocOf(ScannedTable) = Max(T)
  BY DEF AllocOf
<1> DEFINE a == AllocOf(ScannedTable)
<1>7. a \in Parts \cup {Nowhere} /\ (a \in Parts => Unfilled(a))
  BY <1>3, <1>5, <1>6, PartsLemma
<1>8. ASSUME NEW b \in Parts, Unfilled(b) PROVE b = a
  <2>1. a >= b /\ b \in Nat /\ b > 0
    BY <1>3, <1>5, <1>6, <1>8 DEF Parts
  <2>2. a \in Parts /\ Unfilled(a)
    BY <1>7, <2>1 DEF Nowhere
  <2>3. SeqOf(a) \in 0 .. MaxSeq /\ SeqOf(b) \in 0 .. MaxSeq /\ HoldsData(b) /\ HoldsData(a)
    BY <1>8, <2>2, BlockLemma DEF HoldsData, Unfilled
  <2>4. a # b => SeqOf(a) < SeqOf(b) /\ SeqOf(b) < SeqOf(a)
    BY <1>8, <2>2, <2>3 DEF FlashInv
  <2>5. QED
    BY <2>3, <2>4
<1>9. HeadAt(a, LastWritten)
  BY <1>7, <1>8, LastWrittenLemma DEF HeadAt
<1>10. QED
  BY <1>2, <1>9

LEMMA HeadLemma ==
  ASSUME FlashInv, NEW a, NEW s, HeadAt(a, s)
  PROVE  a = AllocOf(ScannedTable) /\ s >= LastWritten
<1> DEFINE c == AllocOf(ScannedTable)
<1>1. HeadAt(c, LastWritten)
  BY ScanLemma
<1>2. a \in Parts \cup {Nowhere} /\ c \in Parts \cup {Nowhere}
  BY <1>1 DEF HeadAt
<1>3. \A b \in Parts : b = a <=> b = c
  BY <1>1 DEF HeadAt
<1>4. a = c
  BY <1>2, <1>3
<1>5. s >= LastWritten
  <2> DEFINE T == {0} \cup {flash[b][1].seq : b \in {x \in Parts : HoldsData(x)}}
  <2>1. MaxSeq \in Nat /\ s \in 0 .. MaxSeq
    BY CkptAssumption DEF HeadAt
  <2>2. \A b \in Parts : HoldsData(b) => SeqOf(b) \in 0 .. MaxSeq /\ flash[b][1].seq = SeqOf(b)
    BY BlockLemma DEF HoldsData, SeqOf
  <2>3. T \in SUBSET (0 .. MaxSeq) /\ T # {}
    BY <2>1, <2>2
  <2>4. LastWritten \in T
    BY <2>1, <2>3, MaxLemma DEF LastWritten
  <2>5. \A y \in T : y <= s
    BY <2>1, <2>2 DEF HeadAt
  <2>6. QED
    BY <2>1, <2>4, <2>5
<1>6. QED
  BY <1>4, <1>5

-----------------------------------------------------------------------------
(* The stream.                                                             *)

LEMMA RankLemma ==
  ASSUME NEW b \in Ckpts
  PROVE  /\ StreamRank(b) \in Nat \ {0} /\ StreamRank(b) <= Cardinality(Ckpts)
         /\ (\A c \in Ckpts : c <= b) => StreamRank(b) = Cardinality(Ckpts)
         /\ (\A c \in Ckpts : b <= c) => StreamRank(b) = 1
<1> DEFINE R == {x \in Parts : HoldsCkpt(x) /\ x <= b}
<1>1. R \in SUBSET Ckpts /\ Ckpts \in SUBSET Parts /\ b \in R /\ b \in Nat
  BY PartsLemma DEF Ckpts
<1>2. StreamRank(b) = Cardinality(R)
  BY DEF StreamRank
<1>3. Cardinality(R) \in Nat \ {0} /\ Cardinality(R) <= Cardinality(Ckpts)
  <2>1. R \in SUBSET Parts /\ R # {}
    BY <1>1
  <2>2. Cardinality(R) \in Nat /\ Cardinality(R) # 0
    BY <2>1, PartsLemma
  <2>3. Cardinality(R) <= Cardinality(Ckpts)
    BY <1>1, CountLemma
  <2>4. QED
    BY <2>2, <2>3
<1>4. (\A c \in Ckpts : c <= b) => R = Ckpts
  BY DEF Ckpts
<1>5. (\A c \in Ckpts : b <= c) => R = {b}
  <2> SUFFICES ASSUME \A c \in Ckpts : b <= c, NEW x \in R PROVE x = b
    BY <1>1
  <2>1. x \in Ckpts /\ x \in Nat /\ x <= b /\ b <= x
    BY <1>1, PartsLemma DEF Ckpts
  <2>2. QED
    BY <1>1, <2>1
<1>6. Cardinality({b}) = 1
  BY FS_Singleton
<1>7. QED
  BY <1>2, <1>3, <1>4, <1>5, <1>6

(* The checkpoint blocks on the flash are the upper ones of a stream, of   *)
(* which the e lowest are erased again.                                    *)
StreamOf(e, image) ==
    \A b \in Ckpts : \A p \in 1 .. Len(flash[b]) :
        flash[b][p] = CkptPage(PageAt(e + StreamRank(b), p), image)

(* The image was taken of the log as it is.                                *)
Matches(image) ==
    /\ HeadAt(image.alloc, image.seq)
    /\ image.erased = Cardinality(Empties) + Cardinality(Ckpts)
    /\ image.table \in [Parts -> Infos]
    /\ \A b \in Ckpts : image.table[b] \in {Info("empty", 0, 0), Info("checkpoint", 0, 0)}
    /\ \A b \in Parts \ Ckpts : image.table[b] = InfoOf(flash[b])

StreamInv ==
    Ckpts # {} =>
      \E e \in Nat, image \in Images :
         /\ StreamOf(e, image)
         /\ e = 0 => Matches(image) /\ Cardinality(Ckpts) <= BlockOfPage(StreamPages)

(* A checkpoint that is believed is whole and current.                     *)
LEMMA ValidLemma ==
  ASSUME FlashInv, StreamInv, CheckpointValid
  PROVE  StreamUsed = Ckpts /\ Matches(StreamImage) /\ StreamImage \in Images
<1> DEFINE N == BlockOfPage(StreamPages)
<1>1. N \in Nat \ {0} /\ \A r \in Nat \ {0} : PageAt(r, 1) <= StreamPages <=> r <= N
  BY LastPageLemma
<1>2. /\ Cardinality(StreamUsed) = N
      /\ \A b \in StreamUsed, p \in 1 .. BlockPages :
            PageAt(StreamRank(b), p) <= StreamPages =>
               /\ p <= Len(flash[b])
               /\ flash[b][p] = CkptPage(PageAt(StreamRank(b), p), StreamImage)
  BY DEF CheckpointValid
<1>3. StreamUsed \in SUBSET Ckpts /\ Ckpts \in SUBSET Parts
  BY DEF StreamUsed, Ckpts
<1>4. Ckpts # {}
  BY <1>1, <1>2, <1>3, PartsLemma
<1>5. PICK e \in Nat, image \in Images :
         /\ StreamOf(e, image)
         /\ e = 0 => Matches(image) /\ Cardinality(Ckpts) <= N
  BY <1>4 DEF StreamInv
<1>6. PICK b \in Ckpts : \A c \in Ckpts : b <= c
  <2>1. Ckpts \in SUBSET Nat
    BY <1>3, PartsLemma
  <2>2. QED
    BY <1>4, <2>1, LeastLemma, Zenon
<1>7. StreamRank(b) = 1 /\ b \in StreamUsed
  <2>1. StreamRank(b) = 1
    BY <1>6, RankLemma
  <2>2. StreamRank(b) <= N
    BY <1>1, <2>1
  <2>3. QED
    BY <2>1, <2>2 DEF StreamUsed, Ckpts
<1>8. /\ 1 \in 1 .. BlockPages /\ 1 \in 1 .. Len(flash[b])
  BY <1>3, <1>6, BlockLemma, CkptAssumption DEF Ckpts, HoldsCkpt
<1>9. PageAt(1, 1) <= StreamPages
  BY <1>1
<1>10. flash[b][1] = CkptPage(PageAt(1, 1), StreamImage)
  BY <1>2, <1>7, <1>8, <1>9
<1>11. flash[b][1] = CkptPage(PageAt(e + 1, 1), image)
  BY <1>5, <1>7, <1>8 DEF StreamOf
<1>12. PageAt(1, 1) = PageAt(e + 1, 1) /\ StreamImage = image
  BY <1>10, <1>11 DEF CkptPage
<1>13. e = 0
  <2>1. BlockOfPage(PageAt(1, 1)) = 1 /\ BlockOfPage(PageAt(e + 1, 1)) = e + 1
    BY <1>8, PageLemma
  <2>2. QED
    BY <1>12, <2>1
<1>14. \A c \in Ckpts : StreamRank(c) <= N
  <2>1. Cardinality(Ckpts) <= N /\ Cardinality(Ckpts) \in Nat
    BY <1>3, <1>5, <1>13, PartsLemma
  <2>2. QED
    BY <1>1, <2>1, RankLemma
<1>15. StreamUsed = Ckpts
  BY <1>3, <1>14 DEF StreamUsed, Ckpts
<1>16. QED
  BY <1>5, <1>12, <1>13, <1>15

-----------------------------------------------------------------------------
(* The memory, and the steps left of a call.                               *)

IsDevice(m) ==
    /\ m = [mounted |-> m.mounted, table |-> m.table, alloc |-> m.alloc, seq |-> m.seq,
            erased |-> m.erased, inCkpt |-> m.inCkpt, isCkpt |-> m.isCkpt]
    /\ m.mounted /\ m.erased \in Int /\ m.inCkpt \in Nat

(* The table is the one of the flash, but for the blocks about to be erased*)
(* because they hold nothing any more.                                     *)
Synced(D) ==
    /\ IsDevice(mem)
    /\ mem.table = [b \in Parts |-> IF b \in D THEN Info("dirty", SeqOf(b), BlockPages)
                                               ELSE InfoOf(flash[b])]
    /\ \A b \in D : b \in Parts /\ HoldsData(b) /\ ~Unfilled(b)
    /\ HeadAt(mem.alloc, mem.seq)

Counted == mem.erased = Cardinality(Empties)

(* What follows the invalidation of the checkpoint.                        *)
Steps == {Do("program", Nowhere), Do("open", Nowhere), Dump(1, Nowhere, NoImage)}
         \cup {Do("discard", b) : b \in Parts}
Doomed(s) == {b \in Parts : s = Do("discard", b)}

Off == mem = NoMemory /\ job = <<>>
Idle == Synced({}) /\ Counted /\ job = <<>> /\ mem.inCkpt = Cardinality(Ckpts)
ToErase(s) == Synced(Doomed(s)) /\ Counted /\ job = <<Do("erase", Nowhere), s>>
Ready(s) ==
    Synced(Doomed(s)) /\ Counted /\ job = <<s>> /\ Ckpts = {} /\ mem.inCkpt = 0

(* Pages up to k - 1 of the image are written, the last of them in b.      *)
Dumping(k, b, image) ==
    /\ Synced({}) /\ job = <<Dump(k, b, image)>>
    /\ k \in 2 .. StreamPages /\ b \in Ckpts /\ \A c \in Ckpts : c <= b
    /\ k = PageAt(Cardinality(Ckpts), Len(flash[b])) + 1
    /\ StreamOf(0, image) /\ Matches(image)

Phase ==
    \/ Off \/ Idle
    \/ \E s \in Steps : ToErase(s) \/ Ready(s)
    \/ \E k \in Nat, b \in Parts, image \in Images : Dumping(k, b, image)

CkptInv == FlashInv /\ StreamInv /\ Phase

(* The steps by name.                                                      *)
LEMMA StepsLemma ==
  /\ \A op, b : Do(op, b).op = op /\ Do(op, b).blk = b
  /\ \A k, b, i : /\ Dump(k, b, i).op = "dump" /\ Dump(k, b, i).page = k
                  /\ Dump(k, b, i).blk = b /\ Dump(k, b, i).image = i
  /\ \A s \in Steps : s.op # "erase"
  /\ \A s \in Steps : s.op = "program" => s = Do("program", Nowhere) /\ Doomed(s) = {}
  /\ \A s \in Steps : s.op = "open" => s = Do("open", Nowhere) /\ Doomed(s) = {}
  /\ \A s \in Steps : s.op = "dump" => s = Dump(1, Nowhere, NoImage) /\ Doomed(s) = {}
  /\ \A s \in Steps : s.op = "discard" => \E b \in Parts : s = Do("discard", b) /\ Doomed(s) = {b}
<1>1. /\ \A op, b : Do(op, b).op = op /\ Do(op, b).blk = b
      /\ \A k, b, i : /\ Dump(k, b, i).op = "dump" /\ Dump(k, b, i).page = k
                      /\ Dump(k, b, i).blk = b /\ Dump(k, b, i).image = i
  BY DEF Do, Dump
<1>2. \A s : s.op # "discard" => Doomed(s) = {}
  BY <1>1 DEF Doomed
<1>3. \A b \in Parts : Doomed(Do("discard", b)) = {b}
  BY <1>1 DEF Doomed
<1>4. \A s \in Steps : \/ s = Do("program", Nowhere) /\ s.op = "program"
                       \/ s = Do("open", Nowhere) /\ s.op = "open"
                       \/ s = Dump(1, Nowhere, NoImage) /\ s.op = "dump"
                       \/ \E b \in Parts : s = Do("discard", b) /\ s.op = "discard"
  BY <1>1 DEF Steps
<1>5. QED
  BY <1>1, <1>2, <1>3, <1>4

LEMMA AtLemma ==
  ASSUME Phase
  PROVE  /\ At("erase") => \E s \in Steps : ToErase(s)
         /\ At("program") => Ready(Do("program", Nowhere)) /\ Synced({})
         /\ At("open") => Ready(Do("open", Nowhere)) /\ Synced({})
         /\ At("discard") => \E b \in Parts : Ready(Do("discard", b)) /\ Synced({b})
         /\ At("dump") => \/ Ready(Dump(1, Nowhere, NoImage)) /\ Synced({})
                          \/ \E k \in Nat, b \in Parts, image \in Images : Dumping(k, b, image)
         /\ Resting => Idle
<1>1. CASE Off
  BY <1>1 DEF Off, At, Resting, NoMemory
<1>2. CASE Idle
  BY <1>2 DEF Idle, At
<1>3. ASSUME NEW s \in Steps, ToErase(s) PROVE ~Resting /\ \A op : At(op) => op = "erase"
  BY <1>3, StepsLemma DEF ToErase, At, Resting
<1>4. ASSUME NEW s \in Steps, Ready(s) PROVE ~Resting /\ \A op : At(op) => op = s.op
  BY <1>4 DEF Ready, At, Resting
<1>5. ASSUME NEW k \in Nat, NEW b \in Parts, NEW image \in Images, Dumping(k, b, image)
      PROVE  ~Resting /\ \A op : At(op) => op = "dump"
  BY <1>5, StepsLemma DEF Dumping, At, Resting
<1>6. ASSUME NEW s \in Steps, Ready(s)
      PROVE  /\ s.op = "program" => Ready(Do("program", Nowhere)) /\ Synced({})
             /\ s.op = "open" => Ready(Do("open", Nowhere)) /\ Synced({})
             /\ s.op = "discard" => \E b \in Parts : Ready(Do("discard", b)) /\ Synced({b})
             /\ s.op = "dump" => Ready(Dump(1, Nowhere, NoImage)) /\ Synced({})
             /\ s.op # "erase"
  <2>1. Synced(Doomed(s))
    BY <1>6 DEF Ready
  <2>2. QED
    BY <1>6, <2>1, StepsLemma
<1>7. QED
  BY <1>1, <1>2, <1>3, <1>4, <1>5, <1>6 DEF Phase

(* The sets of blocks by the table, and by the flash.                      *)
LEMMA TableLemma ==
  ASSUME FlashInv, NEW D, Synced(D)
  PROVE  /\ mem.table \in [Parts -> Infos]
         /\ Having(mem.table, "empty") = Empties
         /\ Having(mem.table, "checkpoint") = Ckpts
         /\ \A b \in Parts : mem.table[b].state = "full" =>
               HoldsData(b) /\ ~Unfilled(b) /\ b \notin D
         /\ \A b \in Parts \ D : mem.table[b] = InfoOf(flash[b])
<1>1. \A b \in Parts : mem.table[b] = IF b \in D THEN Info("dirty", SeqOf(b), BlockPages)
                                                 ELSE InfoOf(flash[b])
  BY DEF Synced
<1>2. ASSUME NEW b \in D
      PROVE  /\ b \in Parts /\ ~HoldsCkpt(b) /\ flash[b] # <<>>
             /\ Info("dirty", SeqOf(b), BlockPages) \in Infos
             /\ Info("dirty", SeqOf(b), BlockPages).state = "dirty"
  <2>1. b \in Parts /\ ~HoldsCkpt(b) /\ flash[b] # <<>>
    BY DEF Synced, HoldsData, HoldsCkpt
  <2>2. SeqOf(b) \in Nat /\ BlockPages \in Nat
    BY <2>1, BlockLemma, CkptAssumption
  <2>3. QED
    BY <2>1, <2>2 DEF Info, Infos, States
<1>3. ASSUME NEW b \in Parts
      PROVE  /\ mem.table[b] \in Infos
             /\ mem.table[b].state = "empty" <=> flash[b] = <<>>
             /\ mem.table[b].state = "checkpoint" <=> HoldsCkpt(b)
             /\ mem.table[b].state = "full" => HoldsData(b) /\ ~Unfilled(b) /\ b \notin D
  <2>1. CASE b \in D
    BY <1>1, <1>2, <2>1
  <2>2. CASE b \notin D
    BY <1>1, <2>2, InfoLemma
  <2>3. QED
    BY <2>1, <2>2
<1>4. mem.table \in [Parts -> Infos]
  <2>1. mem.table = [b \in Parts |-> mem.table[b]]
    BY DEF Synced
  <2>2. QED
    BY <1>3, <2>1
<1>5. QED
  BY <1>1, <1>3, <1>4 DEF Having, Empties, Ckpts

(* A step that leaves the flash alone.                                     *)
LEMMA SameFlash ==
  ASSUME UNCHANGED flash
  PROVE  /\ FlashInv => FlashInv'
         /\ StreamInv => StreamInv'
         /\ Ckpts' = Ckpts /\ Empties' = Empties
         /\ \A a, s : HeadAt(a, s) => HeadAt(a, s)'
         /\ TableOfFlash' = TableOfFlash
<1>1. \A b : /\ HoldsCkpt(b)' <=> HoldsCkpt(b)
             /\ HoldsData(b)' <=> HoldsData(b)
             /\ Unfilled(b)' <=> Unfilled(b)
             /\ SeqOf(b)' = SeqOf(b) /\ StreamRank(b)' = StreamRank(b)
  BY DEF HoldsCkpt, HoldsData, Unfilled, SeqOf, StreamRank
<1>2. Ckpts' = Ckpts /\ Empties' = Empties /\ TableOfFlash' = TableOfFlash
  BY <1>1 DEF Ckpts, Empties, TableOfFlash
<1>3. FlashInv => FlashInv'
  BY <1>1 DEF FlashInv
<1>4. \A a, s : HeadAt(a, s) => HeadAt(a, s)'
  BY <1>1 DEF HeadAt
<1>5. ASSUME NEW image, Matches(image) PROVE Matches(image)'
  BY <1>2, <1>4, <1>5 DEF Matches
<1>6. ASSUME NEW e, NEW image, StreamOf(e, image) PROVE StreamOf(e, image)'
  BY <1>1, <1>2, <1>6 DEF StreamOf
<1>7. StreamInv => StreamInv'
  BY <1>2, <1>5, <1>6 DEF StreamInv
<1>8. QED
  BY <1>2, <1>3, <1>4, <1>7

LEMMA SameDevice ==
  ASSUME UNCHANGED flash, NEW D, Synced(D), IsDevice(mem'),
         mem'.table = mem.table, mem'.alloc = mem.alloc, mem'.seq = mem.seq
  PROVE  Synced(D)'
<1>1. \A b : /\ HoldsData(b)' <=> HoldsData(b)
             /\ Unfilled(b)' <=> Unfilled(b)
             /\ SeqOf(b)' = SeqOf(b)
  BY DEF HoldsData, Unfilled, SeqOf
<1>2. HeadAt(mem.alloc, mem.seq)'
  <2>1. HeadAt(mem.alloc, mem.seq)
    BY DEF Synced
  <2>2. QED
    BY <1>1, <2>1 DEF HeadAt
<1>3. QED
  BY <1>1, <1>2 DEF Synced

(* Releasing the memory, at an unmount or for lack of power.               *)
LEMMA LeaveLemma ==
  ASSUME FlashInv, StreamInv, Leave, UNCHANGED flash
  PROVE  CkptInv'
<1>1. Off'
  BY DEF Leave, Off, NoMemory
<1>2. QED
  BY <1>1, SameFlash DEF CkptInv, Phase

-----------------------------------------------------------------------------
(* Mounting.                                                               *)

LEMMA MountedLemma ==
  ASSUME UNCHANGED flash, NEW a, NEW s, HeadAt(a, s), IsDevice(mem'),
         mem'.alloc = a, mem'.seq = s, mem'.table = TableOfFlash
  PROVE  Synced({})'
<1>1. HeadAt(a, s)'
  BY SameFlash
<1>2. HeadAt(mem.alloc, mem.seq)'
  BY <1>1 DEF HeadAt
<1>3. mem'.table = TableOfFlash'
  BY SameFlash
<1>4. (mem.table = [b \in Parts |-> IF b \in {} THEN Info("dirty", SeqOf(b), BlockPages)
                                               ELSE InfoOf(flash[b])])'
  BY <1>3 DEF TableOfFlash
<1>5. QED
  BY <1>2, <1>4 DEF Synced

LEMMA RestoreLemma ==
  ASSUME FlashInv, StreamInv, CheckpointValid, mem' = RestoredMemory, UNCHANGED <<flash, job>>,
         job = <<>>
  PROVE  Idle'
<1> DEFINE image == StreamImage
<1>1. StreamUsed = Ckpts /\ Matches(image) /\ Ckpts \in SUBSET Parts /\ Empties \in SUBSET Parts
  BY ValidLemma DEF Ckpts, Empties
<1>2. /\ Cardinality(Ckpts) \in Nat /\ Cardinality(Empties) \in Nat
      /\ image.erased = Cardinality(Empties) + Cardinality(Ckpts)
  BY <1>1, PartsLemma DEF Matches
<1>3. mem' = Remembered(image, Ckpts)
  BY <1>1 DEF RestoredMemory
<1>4. /\ IsDevice(mem') /\ mem'.alloc = image.alloc /\ mem'.seq = image.seq
      /\ mem'.erased = Cardinality(Empties) /\ mem'.inCkpt = Cardinality(Ckpts)
      /\ mem'.table = [b \in Parts |-> IF b \in Ckpts /\ image.table[b].state = "empty"
                                       THEN Info("checkpoint", 0, 0) ELSE image.table[b]]
  BY <1>1, <1>2, <1>3 DEF Remembered, IsDevice
<1>5. ASSUME NEW b \in Parts
      PROVE  mem'.table[b] = InfoOf(flash[b])
  <2>1. CASE b \in Ckpts
    <3>1. InfoOf(flash[b]) = Info("checkpoint", 0, 0)
      BY <2>1, InfoLemma DEF Ckpts
    <3>2. image.table[b] \in {Info("empty", 0, 0), Info("checkpoint", 0, 0)}
      BY <1>1, <2>1 DEF Matches
    <3>3. Info("empty", 0, 0).state = "empty"
      BY DEF Info
    <3>4. QED
      BY <1>4, <2>1, <3>1, <3>2, <3>3
  <2>2. CASE b \notin Ckpts
    BY <1>1, <1>4, <2>2 DEF Matches
  <2>3. QED
    BY <2>1, <2>2
<1>6. mem'.table = TableOfFlash
  BY <1>4, <1>5 DEF TableOfFlash
<1>7. Synced({})'
  BY <1>1, <1>4, <1>6, MountedLemma DEF Matches
<1>8. QED
  BY <1>4, <1>7, SameFlash DEF Idle, Counted

LEMMA ScanMountLemma ==
  ASSUME FlashInv, mem' = ScannedMemory, UNCHANGED <<flash, job>>, job = <<>>
  PROVE  Idle'
<1>1. /\ mem'.alloc = AllocOf(ScannedTable) /\ mem'.seq = LastWritten
      /\ mem'.table = TableOfFlash
      /\ mem'.erased = Cardinality(Having(TableOfFlash, "empty"))
      /\ mem'.inCkpt = Cardinality(Having(TableOfFlash, "checkpoint"))
      /\ mem'.mounted
      /\ mem' = [mounted |-> mem'.mounted, table |-> mem'.table, alloc |-> mem'.alloc, seq |-> mem'.seq,
            erased |-> mem'.erased, inCkpt |-> mem'.inCkpt, isCkpt |-> mem'.isCkpt]
  BY ScanLemma DEF ScannedMemory
<1>2. Having(TableOfFlash, "empty") = Empties /\ Having(TableOfFlash, "checkpoint") = Ckpts
  BY InfoLemma DEF TableOfFlash, Having, Empties, Ckpts
<1>3. Cardinality(Empties) \in Nat /\ Cardinality(Ckpts) \in Nat
  BY PartsLemma DEF Empties, Ckpts
<1>4. IsDevice(mem')
  BY <1>1, <1>2, <1>3 DEF IsDevice
<1>5. HeadAt(AllocOf(ScannedTable), LastWritten)
  BY ScanLemma
<1>7. Synced({})'
  BY <1>1, <1>4, <1>5, MountedLemma
<1>8. QED
  BY <1>1, <1>2, <1>7, SameFlash DEF Idle, Counted

LEMMA MountLemma ==
  ASSUME CkptInv, MountDevice
  PROVE  CkptInv'
<1>1. ~mem.mounted /\ UNCHANGED <<flash, job>>
      /\ mem' = IF CheckpointValid THEN RestoredMemory ELSE ScannedMemory
  BY DEF MountDevice
<1>2. job = <<>>
  <2>1. \A D : Synced(D) => mem.mounted
    BY DEF Synced, IsDevice
  <2>2. Off
    BY <1>1, <2>1 DEF CkptInv, Phase, Idle, ToErase, Ready, Dumping
  <2>3. QED
    BY <2>2 DEF Off
<1>3. Idle'
  BY <1>1, <1>2, RestoreLemma, ScanMountLemma DEF CkptInv
<1>4. QED
  BY <1>1, <1>3, SameFlash DEF CkptInv, Phase

-----------------------------------------------------------------------------
(* Calls.                                                                  *)

LEMMA PairLemma ==
  ASSUME NEW x, NEW y
  PROVE  <<x>> \o <<y>> = <<x, y>>
<1>1. <<x>> \in Seq({x, y}) /\ y \in {x, y}
  OBVIOUS
<1>2. <<x>> \o <<y>> = Append(<<x>>, y)
  BY <1>1, AppendIsConcat
<1>3. /\ Append(<<x>>, y) \in Seq({x, y}) /\ <<x, y>> \in Seq({x, y})
      /\ Len(Append(<<x>>, y)) = 2 /\ Len(<<x, y>>) = 2
      /\ Append(<<x>>, y)[1] = x /\ Append(<<x>>, y)[2] = y
  BY <1>1
<1>4. \A i \in 1 .. 2 : Append(<<x>>, y)[i] = <<x, y>>[i]
  BY <1>3
<1>5. QED
  BY <1>2, <1>3, <1>4, SeqEqual

(* With the space to erase a checkpoint, or no checkpoint to erase, it is  *)
(* gone before the steps of the call.                                      *)
LEMMA InvalidatingLemma ==
  ASSUME ~LowSpace, FlashInv, StreamInv, Idle, WithinBound, UNCHANGED flash, NEW s \in Steps,
         IsDevice(mem'), Synced(Doomed(s))',
         mem'.erased = mem.erased, mem'.inCkpt = mem.inCkpt, job' = Invalidating(<<s>>)
  PROVE  CkptInv'
<1>1. Counted' /\ Ckpts' = Ckpts
  BY SameFlash DEF Counted, Idle
<1>2. CASE NeedsInvalidation
  <2>1. job' = <<Do("erase", Nowhere), s>>
    BY <1>2, PairLemma DEF WithinBound, Invalidating, Erasing
  <2>2. ToErase(s)'
    BY <1>1, <2>1 DEF ToErase
  <2>3. QED
    BY <2>2, SameFlash DEF CkptInv, Phase
<1>3. CASE ~NeedsInvalidation
  <2>1. job' = <<s>>
    BY <1>3 DEF Invalidating, Erasing
  <2>2. mem.inCkpt = 0 /\ Cardinality(Ckpts) = 0
    BY <1>3 DEF NeedsInvalidation, Idle, Synced, IsDevice
  <2>3. Ckpts = {}
    BY <2>2, PartsLemma DEF Ckpts
  <2>4. Ready(s)'
    BY <1>1, <2>1, <2>2, <2>3 DEF Ready
  <2>5. QED
    BY <2>4, SameFlash DEF CkptInv, Phase
<1>4. QED
  BY <1>2, <1>3

LEMMA WriteLemma ==
  ASSUME ~LowSpace, CkptInv, WriteNewChunk
  PROVE  CkptInv'
<1>1. Idle /\ Synced({}) /\ WithinBound /\ UNCHANGED flash
  BY AtLemma DEF CkptInv, WriteNewChunk, Idle
<1>2. /\ mem' = [mem EXCEPT !.isCkpt = FALSE] /\ job' = Invalidating(<<Do("program", Nowhere)>>)
      /\ IsDevice(mem)
  BY <1>1 DEF WriteNewChunk, Synced
<1>3. /\ IsDevice(mem') /\ mem'.erased = mem.erased /\ mem'.inCkpt = mem.inCkpt
      /\ mem'.table = mem.table /\ mem'.alloc = mem.alloc /\ mem'.seq = mem.seq
  <2>1. PICK m, t, a, s, e, c, k :
           mem = [mounted |-> m, table |-> t, alloc |-> a, seq |-> s,
                  erased |-> e, inCkpt |-> c, isCkpt |-> k]
    BY <1>2 DEF IsDevice
  <2>2. /\ mem'.erased = mem.erased /\ mem'.inCkpt = mem.inCkpt
        /\ mem'.table = mem.table /\ mem'.alloc = mem.alloc /\ mem'.seq = mem.seq
        /\ mem'.mounted = mem.mounted
    BY <1>2, <2>1
  <2>3. mem' = [mounted |-> mem'.mounted, table |-> mem'.table, alloc |-> mem'.alloc,
                seq |-> mem'.seq, erased |-> mem'.erased, inCkpt |-> mem'.inCkpt,
                isCkpt |-> mem'.isCkpt]
    BY <1>2, <2>1
  <2>4. QED
    BY <1>2, <2>2, <2>3 DEF IsDevice
<1>4. Do("program", Nowhere) \in Steps /\ Doomed(Do("program", Nowhere)) = {}
  BY StepsLemma DEF Steps
<1>5. Synced({})'
  BY <1>1, <1>3, SameDevice
<1>6. QED
  BY <1>1, <1>2, <1>3, <1>4, <1>5, InvalidatingLemma DEF CkptInv

LEMMA DirtyLemma ==
  ASSUME ~LowSpace, CkptInv, NEW b \in Parts, BlockBecomesDirty(b)
  PROVE  CkptInv'
<1>1. Idle /\ Synced({}) /\ WithinBound /\ UNCHANGED flash /\ IsDevice(mem)
  BY AtLemma DEF CkptInv, BlockBecomesDirty, Idle, Synced
<1>2. /\ mem' = [mem EXCEPT !.isCkpt = FALSE, !.table[b].state = "dirty"]
      /\ job' = Invalidating(<<Do("discard", b)>>)
  BY DEF BlockBecomesDirty
<1>3. /\ IsDevice(mem') /\ mem'.erased = mem.erased /\ mem'.inCkpt = mem.inCkpt
      /\ mem'.table = [mem.table EXCEPT ![b].state = "dirty"]
      /\ mem'.alloc = mem.alloc /\ mem'.seq = mem.seq
  <2>1. PICK m, t, a, s, e, c, k :
           mem = [mounted |-> m, table |-> t, alloc |-> a, seq |-> s,
                  erased |-> e, inCkpt |-> c, isCkpt |-> k]
    BY <1>1 DEF IsDevice
  <2>2. /\ mem'.erased = mem.erased /\ mem'.inCkpt = mem.inCkpt
        /\ mem'.alloc = mem.alloc /\ mem'.seq = mem.seq
        /\ mem'.mounted = mem.mounted
    BY <1>2, <2>1
  <2>3. mem'.table = [mem.table EXCEPT ![b].state = "dirty"]
    BY <1>2, <2>1
  <2>4. mem' = [mounted |-> mem'.mounted, table |-> mem'.table, alloc |-> mem'.alloc,
                seq |-> mem'.seq, erased |-> mem'.erased, inCkpt |-> mem'.inCkpt,
                isCkpt |-> mem'.isCkpt]
    BY <1>2, <2>1
  <2>5. QED
    BY <1>1, <2>2, <2>3, <2>4 DEF IsDevice
<1> DEFINE d == Do("discard", b)
<1>4. d \in Steps /\ Doomed(d) = {b}
  BY StepsLemma DEF Steps, Doomed
<1>5. HoldsData(b) /\ ~Unfilled(b) /\ mem.table = TableOfFlash
  <2>1. mem.table[b].state = "full"
    BY DEF BlockBecomesDirty
  <2>2. mem.table = TableOfFlash
    BY <1>1 DEF Synced, TableOfFlash
  <2>3. QED
    BY <1>1, <2>1, <2>2, TableLemma DEF CkptInv
<1>6. InfoOf(flash[b]) = Info("full", SeqOf(b), BlockPages)
  BY <1>5, InfoLemma DEF CkptInv
<1>7. [mem.table EXCEPT ![b].state = "dirty"]
        = [x \in Parts |-> IF x \in {b} THEN Info("dirty", SeqOf(x), BlockPages)
                                        ELSE InfoOf(flash[x])]
  <2>1. mem.table[b] = Info("full", SeqOf(b), BlockPages)
    BY <1>5, <1>6 DEF TableOfFlash
  <2>2. [mem.table[b] EXCEPT !.state = "dirty"] = Info("dirty", SeqOf(b), BlockPages)
    BY <2>1 DEF Info
  <2>3. QED
    BY <1>5, <2>2 DEF TableOfFlash
<1>8. Synced({b})'
  <2>1. \A x : /\ HoldsData(x)' <=> HoldsData(x)
               /\ Unfilled(x)' <=> Unfilled(x)
               /\ SeqOf(x)' = SeqOf(x)
    BY <1>1 DEF HoldsData, Unfilled, SeqOf
  <2>2. HeadAt(mem.alloc, mem.seq)'
    BY <1>1, <1>3, <2>1 DEF HeadAt, Synced
  <2>3. (mem.table = [x \in Parts |-> IF x \in {b} THEN Info("dirty", SeqOf(x), BlockPages)
                                               ELSE InfoOf(flash[x])])'
    BY <1>1, <1>3, <1>7, <2>1
  <2>4. QED
    BY <1>3, <1>5, <2>1, <2>2, <2>3 DEF Synced
<1>9. QED
  BY <1>1, <1>2, <1>3, <1>4, <1>8, InvalidatingLemma DEF CkptInv

LEMMA PutSuperLemma ==
  ASSUME ~LowSpace, CkptInv, PutSuper
  PROVE  CkptInv'
<1>1. Idle /\ Synced({}) /\ WithinBound /\ UNCHANGED flash /\ IsDevice(mem)
  BY AtLemma DEF CkptInv, PutSuper, Idle, Synced
<1>2. CASE mem.isCkpt
  BY <1>1, <1>2, LeaveLemma DEF PutSuper, CkptInv
<1>3. CASE ~mem.isCkpt
  <2>1. job' = Invalidating(<<Do("open", Nowhere)>>) /\ mem' = mem
    BY <1>3 DEF PutSuper
  <2>2. Do("open", Nowhere) \in Steps /\ Doomed(Do("open", Nowhere)) = {}
    BY StepsLemma DEF Steps
  <2>3. Synced({})'
    BY <1>1, <2>1, SameDevice
  <2>4. QED
    BY <1>1, <2>1, <2>2, <2>3, InvalidatingLemma DEF CkptInv
<1>4. QED
  BY <1>2, <1>3

LEMMA OpenLemma ==
  ASSUME CkptInv, OpenCheckpoint
  PROVE  CkptInv'
<1>1. UNCHANGED flash /\ Ready(Do("open", Nowhere)) /\ Synced({})
  BY AtLemma DEF CkptInv, OpenCheckpoint
<1>2. CASE ~CheckpointSpaceOk
  BY <1>1, <1>2, LeaveLemma DEF OpenCheckpoint, CkptInv
<1>3. CASE CheckpointSpaceOk
  <2> DEFINE s == Dump(1, Nowhere, NoImage)
  <2>1. job' = <<Do("erase", Nowhere), s>> /\ mem' = mem /\ IsDevice(mem)
    BY <1>1, <1>3 DEF OpenCheckpoint, Synced
  <2>2. s \in Steps /\ Doomed(s) = {}
    BY StepsLemma DEF Steps
  <2>3. Synced({})'
    BY <1>1, <2>1, SameDevice
  <2>4. Counted'
    BY <1>1, <2>1, SameFlash DEF Counted, Ready
  <2>5. ToErase(s)'
    BY <2>1, <2>2, <2>3, <2>4 DEF ToErase
  <2>6. QED
    BY <1>1, <2>2, <2>5, SameFlash DEF CkptInv, Phase
<1>4. QED
  BY <1>2, <1>3

-----------------------------------------------------------------------------
(* A block changes.                                                        *)

LEMMA OneBlock ==
  ASSUME FlashInv, NEW b \in Parts, NEW pages \in Seq(Pages), flash' = [flash EXCEPT ![b] = pages]
  PROVE  /\ flash' \in [Parts -> Seq(Pages)] /\ flash'[b] = pages
         /\ \A c \in Parts \ {b} :
               /\ flash'[c] = flash[c]
               /\ HoldsCkpt(c)' <=> HoldsCkpt(c)
               /\ HoldsData(c)' <=> HoldsData(c)
               /\ Unfilled(c)' <=> Unfilled(c)
               /\ SeqOf(c)' = SeqOf(c)
<1>1. flash \in [Parts -> Seq(Pages)]
  BY DEF FlashInv
<1>2. /\ flash' \in [Parts -> Seq(Pages)] /\ flash'[b] = pages
      /\ \A c \in Parts \ {b} : flash'[c] = flash[c]
  BY <1>1
<1>3. QED
  BY <1>2 DEF HoldsCkpt, HoldsData, Unfilled, SeqOf

(* Neither before nor after does it hold data.                             *)
LEMMA NoDataLemma ==
  ASSUME FlashInv, NEW b \in Parts, NEW pages \in Seq(Pages), flash' = [flash EXCEPT ![b] = pages],
         ~HoldsData(b), ~HoldsData(b)', Len(pages) <= BlockPages
  PROVE  /\ FlashInv'
         /\ \A a, n : HeadAt(a, n) => HeadAt(a, n)'
<1>1. ~Unfilled(b) /\ ~Unfilled(b)'
  BY DEF Unfilled
<1>2. /\ flash' \in [Parts -> Seq(Pages)] /\ flash'[b] = pages
      /\ \A c \in Parts \ {b} : flash'[c] = flash[c]
      /\ \A c \in Parts : /\ HoldsData(c)' <=> HoldsData(c)
                          /\ Unfilled(c)' <=> Unfilled(c)
                          /\ HoldsData(c) => SeqOf(c)' = SeqOf(c)
  BY <1>1, OneBlock
<1>3. FlashInv'
  <2>1. \A c \in Parts : Len(flash'[c]) <= BlockPages
    BY <1>2 DEF FlashInv
  <2>2. \A c, d \in Parts : Unfilled(c)' /\ HoldsData(d)' /\ c # d => SeqOf(d)' < SeqOf(c)'
    BY <1>2 DEF FlashInv, Unfilled
  <2>3. QED
    BY <1>2, <2>1, <2>2 DEF FlashInv
<1>4. ASSUME NEW a, NEW n, HeadAt(a, n) PROVE HeadAt(a, n)'
  <2>1. \A c \in Parts : c = a => HoldsData(c)
    BY <1>4 DEF HeadAt, Unfilled
  <2>2. QED
    BY <1>2, <1>4, <2>1 DEF HeadAt
<1>5. QED
  BY <1>3, <1>4

LEMMA SyncedStep ==
  ASSUME FlashInv, NEW b \in Parts, NEW pages \in Seq(Pages), flash' = [flash EXCEPT ![b] = pages],
         NEW D, Synced(D), IsDevice(mem'), mem'.table = [mem.table EXCEPT ![b] = InfoOf(pages)],
         NEW a, NEW n, mem'.alloc = a, mem'.seq = n, HeadAt(a, n)'
  PROVE  Synced(D \ {b})'
<1>1. /\ flash'[b] = pages
      /\ \A c \in Parts \ {b} : /\ flash'[c] = flash[c]
                                /\ HoldsData(c)' <=> HoldsData(c)
                                /\ Unfilled(c)' <=> Unfilled(c)
                                /\ SeqOf(c)' = SeqOf(c)
  BY OneBlock
<1>2. HeadAt(mem.alloc, mem.seq)'
  BY DEF HeadAt
<1>3. mem.table = [c \in Parts |-> IF c \in D THEN Info("dirty", SeqOf(c), BlockPages)
                                              ELSE InfoOf(flash[c])]
  BY DEF Synced
<1>4. mem'.table = [c \in Parts |-> IF c \in D \ {b} THEN Info("dirty", SeqOf(c)', BlockPages)
                                                     ELSE InfoOf(flash'[c])]
  BY <1>1, <1>3
<1>5. (mem.table = [c \in Parts |-> IF c \in D \ {b} THEN Info("dirty", SeqOf(c), BlockPages)
                                                     ELSE InfoOf(flash[c])])'
  BY <1>4 DEF InfoOf
<1>6. \A c \in D \ {b} : c \in Parts /\ HoldsData(c)' /\ ~Unfilled(c)'
  BY <1>1 DEF Synced
<1>7. QED
  BY <1>2, <1>5, <1>6 DEF Synced

-----------------------------------------------------------------------------
(* Erasing the checkpoint.                                                 *)

LEMMA ErasedStream ==
  ASSUME FlashInv, StreamInv, NEW b \in Ckpts, \A c \in Ckpts : b <= c,
         flash' = [flash EXCEPT ![b] = <<>>]
  PROVE  StreamInv' /\ Ckpts' = Ckpts \ {b} /\ Empties' = Empties \cup {b}
<1>1. <<>> \in Seq(Pages) /\ b \in Parts
  BY DEF Ckpts
<1>2. /\ flash'[b] = <<>>
      /\ \A c \in Parts \ {b} : flash'[c] = flash[c] /\ (HoldsCkpt(c)' <=> HoldsCkpt(c))
  BY <1>1, OneBlock
<1>3. ~HoldsCkpt(b)'
  BY <1>2 DEF HoldsCkpt
<1>4. Ckpts' = Ckpts \ {b} /\ Empties' = Empties \cup {b}
  BY <1>1, <1>2, <1>3 DEF Ckpts, Empties
<1>5. ASSUME NEW c \in Ckpts'
      PROVE  StreamRank(c)' = StreamRank(c) - 1 /\ StreamRank(c) \in Nat
  <2> DEFINE R == {x \in Parts : HoldsCkpt(x) /\ x <= c}
             S == {x \in Parts : HoldsCkpt(x)' /\ x <= c}
  <2>1. c \in Ckpts /\ b <= c
    BY <1>4
  <2>2. S = R \ {b} /\ b \in R /\ R \in SUBSET Parts
    BY <1>2, <1>3, <2>1 DEF Ckpts
  <2>3. Cardinality(S) = Cardinality(R) - 1
    BY <1>1, <2>2, CountLemma
  <2>4. StreamRank(c) = Cardinality(R) /\ StreamRank(c)' = Cardinality(S)
    BY DEF StreamRank
  <2>5. QED
    BY <2>1, <2>3, <2>4, RankLemma
<1>6. StreamInv'
  <2> SUFFICES ASSUME Ckpts' # {}
               PROVE  \E e \in Nat, image \in Images : e # 0 /\ StreamOf(e, image)'
    BY DEF StreamInv
  <2>1. PICK e \in Nat, image \in Images : StreamOf(e, image)
    BY DEF StreamInv
  <2>2. StreamOf(e + 1, image)'
    <3>1. ASSUME NEW c \in Ckpts', NEW p \in 1 .. Len(flash'[c])
          PROVE  flash'[c][p] = CkptPage(PageAt(e + 1 + StreamRank(c)', p), image)
      <4>1. c \in Ckpts /\ flash'[c] = flash[c]
        BY <1>2, <1>4 DEF Ckpts
      <4>2. flash[c][p] = CkptPage(PageAt(e + StreamRank(c), p), image)
        BY <2>1, <4>1 DEF StreamOf
      <4>3. e + 1 + StreamRank(c)' = e + StreamRank(c)
        BY <1>5
      <4>4. QED
        BY <4>1, <4>2, <4>3
    <3>2. QED
      BY <3>1 DEF StreamOf, CkptPage, PageAt
  <2>3. e + 1 \in Nat /\ e + 1 # 0
    OBVIOUS
  <2>4. QED
    BY <2>2, <2>3
<1>7. QED
  BY <1>4, <1>6

LEMMA EraseLemma ==
  ASSUME CkptInv, EraseCheckpoint
  PROVE  CkptInv'
<1>1. PICK s \in Steps : ToErase(s)
  BY AtLemma DEF CkptInv, EraseCheckpoint
<1> DEFINE D == Doomed(s)
           C == Having(mem.table, "checkpoint")
<1>2. /\ FlashInv /\ StreamInv /\ Synced(D) /\ Counted /\ IsDevice(mem)
      /\ job = <<Do("erase", Nowhere), s>>
  BY <1>1 DEF CkptInv, ToErase, Synced
<1>3. C = Ckpts /\ Ckpts \in SUBSET Parts /\ Empties \in SUBSET Parts /\ mem.table \in [Parts -> Infos]
  BY <1>2, TableLemma DEF Ckpts, Empties
<1>4. PICK m, t, a, n, e, c, k :
         mem = [mounted |-> m, table |-> t, alloc |-> a, seq |-> n,
                erased |-> e, inCkpt |-> c, isCkpt |-> k]
  BY <1>2 DEF IsDevice
<1>5. CASE C = {}
  <2>1. mem' = [mem EXCEPT !.inCkpt = 0] /\ job' = Tail(job) /\ UNCHANGED flash
    BY <1>5 DEF EraseCheckpoint
  <2>2. job' = <<s>>
    BY <1>2, <2>1
  <2>3. /\ mem'.table = mem.table /\ mem'.alloc = mem.alloc /\ mem'.seq = mem.seq
        /\ mem'.erased = mem.erased /\ mem'.inCkpt = 0 /\ mem'.mounted = mem.mounted
        /\ mem' = [mounted |-> mem'.mounted, table |-> mem'.table, alloc |-> mem'.alloc,
                   seq |-> mem'.seq, erased |-> mem'.erased, inCkpt |-> mem'.inCkpt,
                   isCkpt |-> mem'.isCkpt]
    BY <1>4, <2>1
  <2>4. IsDevice(mem')
    BY <1>2, <2>3 DEF IsDevice
  <2>5. Synced(D)'
    BY <1>2, <2>1, <2>3, <2>4, SameDevice
  <2>6. Ready(s)'
    BY <1>2, <1>3, <1>5, <2>1, <2>2, <2>3, <2>5, SameFlash DEF Ready, Counted
  <2>7. QED
    BY <1>2, <2>1, <2>6, SameFlash DEF CkptInv, Phase
<1>6. CASE C # {}
  <2>0. PICK b : b = Min(C)
    OBVIOUS
  <2>1. b \in Ckpts /\ \A x \in Ckpts : b <= x
    <3>1. C \in SUBSET Nat /\ C # {}
      BY <1>3, <1>6, PartsLemma
    <3>2. Min(C) \in C /\ \A x \in C : Min(C) <= x
      BY <3>1, MinLemma
    <3>3. QED
      BY <1>3, <2>0, <3>2
  <2>2. /\ flash' = [flash EXCEPT ![b] = <<>>]
        /\ mem' = [mem EXCEPT !.table[b] = Info("empty", 0, 0), !.erased = @ + 1]
        /\ UNCHANGED job
    BY <1>6, <2>0 DEF EraseCheckpoint
  <2>3. StreamInv' /\ Ckpts' = Ckpts \ {b} /\ Empties' = Empties \cup {b}
    BY <1>2, <2>1, <2>2, ErasedStream
  <2>4. /\ b \in Parts /\ HoldsCkpt(b) /\ ~HoldsData(b) /\ b \notin Empties /\ b \notin D
        /\ <<>> \in Seq(Pages) /\ Len(<<>>) <= BlockPages
    BY <1>2, <2>1, CkptAssumption DEF Ckpts, Empties, HoldsCkpt, HoldsData, Synced
  <2>5. flash'[b] = <<>>
    BY <1>2, <2>2, <2>4, OneBlock
  <2>6. ~HoldsData(b)'
    BY <2>5 DEF HoldsData
  <2>7. FlashInv' /\ \A x, y : HeadAt(x, y) => HeadAt(x, y)'
    BY <1>2, <2>2, <2>4, <2>6, NoDataLemma
  <2>8. /\ mem'.alloc = a /\ mem'.seq = n
        /\ mem.alloc = a /\ mem.seq = n
        /\ mem'.erased = mem.erased + 1 /\ mem'.inCkpt = mem.inCkpt /\ mem'.mounted = mem.mounted
    BY <1>4, <2>2
  <2>9. mem'.table = [mem.table EXCEPT ![b] = Info("empty", 0, 0)]
    BY <1>4, <2>2
  <2>10. mem' = [mounted |-> mem'.mounted, table |-> mem'.table, alloc |-> mem'.alloc,
                 seq |-> mem'.seq, erased |-> mem'.erased, inCkpt |-> mem'.inCkpt,
                 isCkpt |-> mem'.isCkpt]
    BY <1>4, <2>2
  <2>11. IsDevice(mem')
    BY <1>2, <2>8, <2>10 DEF IsDevice
  <2>12. InfoOf(<<>>) = Info("empty", 0, 0)
    BY DEF InfoOf
  <2>13. HeadAt(a, n)'
    BY <1>2, <2>7, <2>8 DEF Synced
  <2>14. Synced(D \ {b})'
    BY <1>2, <2>2, <2>4, <2>8, <2>9, <2>11, <2>12, <2>13, SyncedStep
  <2>15. D \ {b} = D
    BY <2>4
  <2>16. Counted'
    BY <1>2, <1>3, <2>3, <2>4, <2>8, CountLemma DEF Counted
  <2>17. ToErase(s)'
    BY <1>2, <2>2, <2>14, <2>15, <2>16 DEF ToErase
  <2>18. QED
    BY <2>3, <2>7, <2>17 DEF CkptInv, Phase
<1>7. QED
  BY <1>5, <1>6

-----------------------------------------------------------------------------
(* Changing the log, from which every checkpoint is gone.                  *)

LEMMA DiscardLemma ==
  ASSUME CkptInv, EraseDirty
  PROVE  CkptInv'
<1>1. PICK b \in Parts : Ready(Do("discard", b)) /\ Synced({b})
  BY AtLemma DEF CkptInv, EraseDirty
<1>2. /\ FlashInv /\ Counted /\ IsDevice(mem) /\ Ckpts = {} /\ mem.inCkpt = 0
      /\ job = <<Do("discard", b)>>
  BY <1>1 DEF CkptInv, Ready, Synced
<1>3. /\ flash' = [flash EXCEPT ![b] = <<>>]
      /\ mem' = [mem EXCEPT !.table[b] = Info("empty", 0, 0), !.erased = @ + 1]
      /\ job' = <<>>
  <2>1. Head(job).blk = b /\ Tail(job) = <<>>
    BY <1>2, StepsLemma
  <2>2. QED
    BY <2>1 DEF EraseDirty
<1>4. PICK m, t, a, n, e, c, k :
         mem = [mounted |-> m, table |-> t, alloc |-> a, seq |-> n,
                erased |-> e, inCkpt |-> c, isCkpt |-> k]
  BY <1>2 DEF IsDevice
<1>5. /\ mem'.alloc = a /\ mem'.seq = n
      /\ mem.alloc = a /\ mem.seq = n
      /\ mem'.erased = mem.erased + 1 /\ mem'.inCkpt = mem.inCkpt /\ mem'.mounted = mem.mounted
  BY <1>3, <1>4
<1>6. mem'.table = [mem.table EXCEPT ![b] = Info("empty", 0, 0)]
  BY <1>3, <1>4
<1>7. mem' = [mounted |-> mem'.mounted, table |-> mem'.table, alloc |-> mem'.alloc,
              seq |-> mem'.seq, erased |-> mem'.erased, inCkpt |-> mem'.inCkpt,
              isCkpt |-> mem'.isCkpt]
  BY <1>3, <1>4
<1>8. IsDevice(mem') /\ InfoOf(<<>>) = Info("empty", 0, 0) /\ <<>> \in Seq(Pages)
  BY <1>2, <1>5, <1>7 DEF IsDevice, InfoOf
<1>9. /\ flash' \in [Parts -> Seq(Pages)] /\ flash'[b] = <<>>
      /\ \A x \in Parts \ {b} : /\ flash'[x] = flash[x]
                                /\ HoldsCkpt(x)' <=> HoldsCkpt(x)
                                /\ HoldsData(x)' <=> HoldsData(x)
                                /\ Unfilled(x)' <=> Unfilled(x)
                                /\ SeqOf(x)' = SeqOf(x)
  BY <1>2, <1>3, <1>8, OneBlock
<1>10. ~HoldsCkpt(b)' /\ ~HoldsData(b)' /\ ~Unfilled(b)'
  BY <1>9 DEF HoldsCkpt, HoldsData, Unfilled
<1>11. HoldsData(b) /\ ~Unfilled(b) /\ flash[b] # <<>>
  BY <1>1 DEF Synced, HoldsData
<1>12. FlashInv'
  <2>1. \A x \in Parts : Len(flash'[x]) <= BlockPages
    <3>1. BlockPages \in Nat /\ Len(<<>>) = 0
      BY CkptAssumption
    <3>2. Len(flash'[b]) <= BlockPages
      BY <1>9, <3>1
    <3>3. \A x \in Parts \ {b} : Len(flash'[x]) <= BlockPages
      BY <1>2, <1>9, Zenon DEF FlashInv
    <3>4. QED
      BY <3>2, <3>3
  <2>2. \A x, y \in Parts : Unfilled(x)' /\ HoldsData(y)' /\ x # y => SeqOf(y)' < SeqOf(x)'
    BY <1>2, <1>9, <1>10 DEF FlashInv
  <2>3. QED
    BY <1>9, <2>1, <2>2 DEF FlashInv
<1>13. HeadAt(a, n)'
  <2>1. HeadAt(a, n)
    BY <1>1, <1>5 DEF Synced
  <2>2. a # b
    BY <1>11, <2>1 DEF HeadAt
  <2>3. QED
    BY <1>9, <1>10, <2>1, <2>2 DEF HeadAt
<1>14. Synced({})'
  <2>1. Synced({b} \ {b})'
    BY <1>1, <1>2, <1>3, <1>5, <1>6, <1>8, <1>13, SyncedStep
  <2>2. {b} \ {b} = {}
    OBVIOUS
  <2>3. QED
    BY <2>1, <2>2
<1>15. Ckpts' = {} /\ Empties' = Empties \cup {b}
  BY <1>2, <1>9, <1>10 DEF Ckpts, Empties
<1>16. Counted' /\ mem'.inCkpt = Cardinality(Ckpts')
  <2>1. Empties \in SUBSET Parts /\ b \notin Empties
    BY <1>11 DEF Empties
  <2>2. QED
    BY <1>2, <1>5, <1>15, <2>1, CountLemma, FS_EmptySet DEF Counted
<1>17. Idle'
  BY <1>3, <1>14, <1>16 DEF Idle
<1>18. QED
  BY <1>12, <1>15, <1>17 DEF CkptInv, Phase, StreamInv

(* A page of data goes behind everything written before.                   *)
LEMMA DataLemma ==
  ASSUME FlashInv, NEW b \in Parts, NEW n \in 0 .. MaxSeq,
         flash' = [flash EXCEPT ![b] = Append(flash[b], DataPage(n))],
         Len(flash[b]) < BlockPages, ~HoldsCkpt(b), flash[b] # <<>> => SeqOf(b) = n,
         \A c \in Parts \ {b} : ~Unfilled(c) /\ (HoldsData(c) => SeqOf(c) < n)
  PROVE  /\ FlashInv' /\ Append(flash[b], DataPage(n)) \in Seq(Pages)
         /\ Ckpts' = Ckpts /\ Empties' = Empties \ {b}
         /\ InfoOf(Append(flash[b], DataPage(n)))
              = Info(IF Len(flash[b]) + 1 < BlockPages THEN "allocating" ELSE "full",
                     n, Len(flash[b]) + 1)
         /\ \A a : a = (IF Len(flash[b]) + 1 = BlockPages THEN Nowhere ELSE b) => HeadAt(a, n)'
<1> DEFINE s == flash[b]  d == DataPage(n)  w == Append(s, d)
<1>1. d \in Pages /\ d.id = 0 /\ d.seq = n
  <2>1. NoImage \in Images
    BY DEF NoImage, Images, Nowhere
  <2>2. QED
    BY <2>1 DEF DataPage, Pages
<1>2. /\ s \in Seq(Pages) /\ Len(s) \in Nat /\ BlockPages \in Nat
      /\ s # <<>> => s[1].id = 0 /\ s[1].seq = n
  BY BlockLemma, CkptAssumption DEF HoldsCkpt, SeqOf
<1>3. /\ w \in Seq(Pages) /\ w # <<>> /\ Len(w) = Len(s) + 1
      /\ s = <<>> => w[1] = d
      /\ s # <<>> => w[1] = s[1]
  BY <1>1, <1>2, AppendLemma
<1>4. w[1].id = 0 /\ w[1].seq = n
  BY <1>1, <1>2, <1>3
<1>5. /\ flash' \in [Parts -> Seq(Pages)] /\ flash'[b] = w
      /\ \A c \in Parts \ {b} :
            /\ flash'[c] = flash[c]
            /\ HoldsCkpt(c)' <=> HoldsCkpt(c)
            /\ HoldsData(c)' <=> HoldsData(c)
            /\ Unfilled(c)' <=> Unfilled(c)
            /\ SeqOf(c)' = SeqOf(c)
  BY <1>3, OneBlock
<1>6. /\ ~HoldsCkpt(b)' /\ HoldsData(b)' /\ SeqOf(b)' = n
      /\ Unfilled(b)' <=> Len(s) + 1 < BlockPages
  BY <1>3, <1>4, <1>5 DEF HoldsCkpt, HoldsData, SeqOf, Unfilled
<1>7. Ckpts' = Ckpts /\ Empties' = Empties \ {b}
  BY <1>3, <1>5, <1>6 DEF Ckpts, Empties
<1>8. InfoOf(w) = Info(IF Len(s) + 1 < BlockPages THEN "allocating" ELSE "full", n, Len(s) + 1)
  BY <1>3, <1>4 DEF InfoOf
<1>9. FlashInv'
  <2>1. \A c \in Parts : Len(flash'[c]) <= BlockPages
    <3>1. Len(flash'[b]) <= BlockPages
      BY <1>2, <1>3, <1>5
    <3>2. \A c \in Parts \ {b} : Len(flash'[c]) <= BlockPages
      BY <1>5, Zenon DEF FlashInv
    <3>3. QED
      BY <3>1, <3>2
  <2>2. \A x, y \in Parts : Unfilled(x)' /\ HoldsData(y)' /\ x # y => SeqOf(y)' < SeqOf(x)'
    BY <1>5, <1>6
  <2>3. QED
    BY <1>5, <2>1, <2>2 DEF FlashInv
<1>10. ASSUME NEW a, a = IF Len(s) + 1 = BlockPages THEN Nowhere ELSE b
       PROVE  HeadAt(a, n)'
  <2>1. a \in Parts \cup {Nowhere} /\ n \in 0 .. MaxSeq
    BY <1>10
  <2>2. ASSUME NEW c \in Parts, HoldsData(c)' PROVE SeqOf(c)' <= n
    <3>1. CASE c = b
      BY <1>6, <3>1
    <3>2. CASE c # b
      <4>1. HoldsData(c) /\ SeqOf(c)' = SeqOf(c) /\ SeqOf(c) < n
        BY <1>5, <2>2, <3>2
      <4>2. SeqOf(c) \in 0 .. MaxSeq
        BY <4>1, BlockLemma DEF HoldsData
      <4>3. QED
        BY <4>1, <4>2, CkptAssumption
    <3>3. QED
      BY <3>1, <3>2
  <2>3. ASSUME NEW c \in Parts PROVE (Unfilled(c)' <=> c = a) /\ (c = a => SeqOf(c)' = n)
    <3>1. a # b <=> ~(Len(s) + 1 < BlockPages)
      BY <1>2, <1>10, PartsLemma
    <3>2. a \in Parts => a = b
      BY <1>10, PartsLemma
    <3>3. QED
      BY <1>5, <1>6, <3>1, <3>2
  <2>4. QED
    BY <2>1, <2>2, <2>3 DEF HeadAt
<1>11. QED
  BY <1>3, <1>7, <1>8, <1>9, <1>10

LEMMA ProgramLemma ==
  ASSUME CkptInv, ProgramChunk
  PROVE  CkptInv'
<1>1. /\ FlashInv /\ Counted /\ IsDevice(mem) /\ Ckpts = {} /\ mem.inCkpt = 0
      /\ job = <<Do("program", Nowhere)>> /\ Synced({})
  BY AtLemma DEF CkptInv, ProgramChunk, Ready, Synced
<1>2. job' = <<>>
  <2>1. job' = Tail(job)
    BY Zenon DEF ProgramChunk
  <2>2. QED
    BY <1>1, <2>1
<1>3. /\ mem.table = TableOfFlash /\ HeadAt(mem.alloc, mem.seq)
      /\ Having(mem.table, "empty") = Empties
  BY <1>1, TableLemma DEF Synced, TableOfFlash
<1>4. CASE TargetBlocks = {}
  <2>1. UNCHANGED <<flash, mem>>
    BY <1>4 DEF ProgramChunk
  <2>2. Synced({})' /\ Counted'
    BY <1>1, <2>1, SameDevice, SameFlash DEF Counted
  <2>3. Idle'
    <3>1. Ckpts' = {}
      BY <1>1, <2>1, SameFlash
    <3>2. Cardinality({}) = 0
      BY FS_EmptySet
    <3>3. QED
      BY <1>1, <1>2, <2>1, <2>2, <3>1, <3>2 DEF Idle
  <2>4. QED
    BY <2>1, <2>3, SameFlash DEF CkptInv, Phase
<1>5. CASE TargetBlocks # {}
  <2> DEFINE fresh == mem.alloc = Nowhere
  <2>0. PICK b \in TargetBlocks :
           LET n == IF mem.alloc = Nowhere THEN mem.seq + 1 ELSE mem.seq
               k == mem.table[b].pages + 1
           IN /\ n <= MaxSeq
              /\ flash' = [flash EXCEPT ![b] = Append(@, DataPage(n))]
              /\ mem' = [mem EXCEPT
                   !.seq = n,
                   !.alloc = IF k = BlockPages THEN Nowhere ELSE b,
                   !.erased = IF mem.alloc = Nowhere THEN @ - 1 ELSE @,
                   !.table[b] = Info(IF k = BlockPages THEN "full" ELSE "allocating", n, k)]
    BY <1>5, Zenon DEF ProgramChunk
  <2>1. PICK q, p :
           /\ q = (IF fresh THEN mem.seq + 1 ELSE mem.seq)
           /\ p = mem.table[b].pages + 1
           /\ q <= MaxSeq
           /\ flash' = [flash EXCEPT ![b] = Append(@, DataPage(q))]
           /\ mem' = [mem EXCEPT
                !.seq = q,
                !.alloc = IF p = BlockPages THEN Nowhere ELSE b,
                !.erased = IF fresh THEN @ - 1 ELSE @,
                !.table[b] = Info(IF p = BlockPages THEN "full" ELSE "allocating", q, p)]
    BY <2>0
  <2> DEFINE info == Info(IF p = BlockPages THEN "full" ELSE "allocating", q, p)
             w == Append(flash[b], DataPage(q))
  <2>2. MaxSeq \in Nat /\ BlockPages \in Nat \ {0, 1} /\ mem.seq \in 0 .. MaxSeq
        /\ mem.alloc \in Parts \cup {Nowhere}
    BY <1>3, CkptAssumption DEF HeadAt
  <2>3. /\ fresh => b \in Empties
        /\ ~fresh => b = mem.alloc
        /\ b \in Parts
    BY <1>3, <2>1, <2>2 DEF TargetBlocks, Empties
  <2>4. q \in 0 .. MaxSeq
    BY <2>1, <2>2
  <2>5. ~fresh => Unfilled(b) /\ SeqOf(b) = q /\ b \notin Empties /\ HoldsData(b)
    BY <1>3, <2>1, <2>3 DEF HeadAt, Unfilled, HoldsData, Empties
  <2>6. ~HoldsCkpt(b)
    BY <1>1, <2>3 DEF Ckpts
  <2>7. Len(flash[b]) < BlockPages /\ p = Len(flash[b]) + 1 /\ Len(flash[b]) \in Nat
    <3>1. CASE fresh
      <4>1. flash[b] = <<>> /\ InfoOf(flash[b]) = Info("empty", 0, 0)
        BY <1>1, <2>3, <3>1, InfoLemma DEF Empties
      <4>2. mem.table[b].pages = 0 /\ Len(flash[b]) = 0
        BY <1>3, <2>3, <4>1 DEF TableOfFlash, Info
      <4>3. QED
        BY <2>1, <2>2, <4>2
    <3>2. CASE ~fresh
      <4>1. mem.table[b].pages = Len(flash[b]) /\ Len(flash[b]) < BlockPages
        BY <1>1, <1>3, <2>3, <2>5, <3>2, InfoLemma DEF TableOfFlash, Unfilled
      <4>2. Len(flash[b]) \in Nat
        BY <1>1, <2>3, BlockLemma
      <4>3. QED
        BY <2>1, <4>1, <4>2
    <3>3. QED
      BY <3>1, <3>2
  <2>8. flash[b] # <<>> => SeqOf(b) = q
    BY <2>3, <2>5 DEF Empties
  <2>9. ASSUME NEW c \in Parts \ {b} PROVE ~Unfilled(c) /\ (HoldsData(c) => SeqOf(c) < q)
    <3>1. HoldsData(c) => SeqOf(c) <= mem.seq /\ SeqOf(c) \in 0 .. MaxSeq
      BY <1>1, <1>3, BlockLemma DEF HeadAt, HoldsData
    <3>2. CASE fresh
      <4>1. ~Unfilled(c)
        BY <1>3, <2>1, <3>2, PartsLemma DEF HeadAt
      <4>2. q = mem.seq + 1
        BY <2>1, <3>2
      <4>3. QED
        BY <2>2, <3>1, <4>1, <4>2
    <3>3. CASE ~fresh
      <4>1. ~Unfilled(c)
        BY <1>3, <2>3, <3>3 DEF HeadAt
      <4>2. HoldsData(c) => SeqOf(c) < SeqOf(b)
        BY <1>1, <2>3, <2>5, <3>3 DEF FlashInv
      <4>3. QED
        BY <2>5, <3>3, <4>1, <4>2
    <3>4. QED
      BY <3>2, <3>3
  <2>10. flash' = [flash EXCEPT ![b] = w]
    BY <2>1
  <2>11. /\ FlashInv' /\ w \in Seq(Pages)
         /\ Ckpts' = Ckpts /\ Empties' = Empties \ {b}
         /\ InfoOf(w) = Info(IF Len(flash[b]) + 1 < BlockPages THEN "allocating" ELSE "full",
                             q, Len(flash[b]) + 1)
         /\ \A a : a = (IF Len(flash[b]) + 1 = BlockPages THEN Nowhere ELSE b) => HeadAt(a, q)'
    BY <1>1, <2>3, <2>4, <2>6, <2>7, <2>8, <2>9, <2>10, DataLemma
  <2>12. InfoOf(w) = info
    BY <2>2, <2>7, <2>11
  <2>13. PICK m, t, a, n, e, c, k :
           mem = [mounted |-> m, table |-> t, alloc |-> a, seq |-> n,
                  erased |-> e, inCkpt |-> c, isCkpt |-> k]
    BY <1>1 DEF IsDevice
  <2> HIDE DEF w, info
  <2>14. /\ mem'.seq = q /\ mem'.inCkpt = mem.inCkpt /\ mem'.mounted = mem.mounted
         /\ mem'.alloc = IF p = BlockPages THEN Nowhere ELSE b
    BY <2>1, <2>13
  <2>15. mem'.erased = IF fresh THEN mem.erased - 1 ELSE mem.erased
    BY <2>1, <2>13
  <2>16. mem'.table = [mem.table EXCEPT ![b] = info]
    BY <2>1, <2>13 DEF info
  <2>17. mem' = [mounted |-> mem'.mounted, table |-> mem'.table, alloc |-> mem'.alloc,
                 seq |-> mem'.seq, erased |-> mem'.erased, inCkpt |-> mem'.inCkpt,
                 isCkpt |-> mem'.isCkpt]
    BY <2>1, <2>13
  <2>18. IsDevice(mem')
    BY <1>1, <2>14, <2>15, <2>17 DEF IsDevice
  <2>19. PICK al : al = IF p = BlockPages THEN Nowhere ELSE b
    OBVIOUS
  <2>20. mem'.alloc = al /\ HeadAt(al, q)'
    BY <2>7, <2>11, <2>14, <2>19
  <2>21. Synced({} \ {b})'
    BY <1>1, <2>3, <2>10, <2>11, <2>12, <2>14, <2>16, <2>18, <2>20, SyncedStep
  <2>22. {} \ {b} = {}
    OBVIOUS
  <2>23. Synced({})'
    BY <2>21, <2>22
  <2>24. Counted'
    <3>1. Empties \in SUBSET Parts
      BY DEF Empties
    <3>2. Cardinality(Empties \ {b}) = IF fresh THEN Cardinality(Empties) - 1
                                       ELSE Cardinality(Empties)
      <4>1. CASE fresh
        BY <2>3, <3>1, <4>1, CountLemma
      <4>2. CASE ~fresh
        <5>1. Empties \ {b} = Empties
          BY <2>5, <4>2
        <5>2. QED
          BY <4>2, <5>1
      <4>3. QED
        BY <4>1, <4>2
    <3>3. QED
      BY <1>1, <2>11, <2>15, <3>2 DEF Counted
  <2>25. Idle'
    <3>1. Cardinality({}) = 0
      BY FS_EmptySet
    <3>2. QED
      BY <1>1, <1>2, <2>11, <2>14, <2>23, <2>24, <3>1 DEF Idle
  <2>26. QED
    BY <1>1, <2>11, <2>25 DEF CkptInv, Phase, StreamInv
<1>6. QED
  BY <1>4, <1>5

-----------------------------------------------------------------------------
(* Writing the checkpoint.                                                 *)

(* Page k of a stream whose upper end is block b.                          *)
LEMMA FlushedLemma ==
  ASSUME FlashInv, NEW b \in Parts, NEW k \in Nat, k # 0, NEW image \in Images,
         flash' = [flash EXCEPT ![b] = Append(flash[b], CkptPage(k, image))],
         Len(flash[b]) < BlockPages, b \in Empties \/ b \in Ckpts
  PROVE  /\ FlashInv' /\ Append(flash[b], CkptPage(k, image)) \in Seq(Pages)
         /\ \A a, n : HeadAt(a, n) => HeadAt(a, n)'
         /\ Ckpts' = Ckpts \cup {b} /\ Empties' = Empties \ {b}
         /\ InfoOf(Append(flash[b], CkptPage(k, image))) = Info("checkpoint", 0, 0)
         /\ flash'[b] = Append(flash[b], CkptPage(k, image))
         /\ Len(flash'[b]) = Len(flash[b]) + 1
         /\ \A c \in Parts \ {b} : flash'[c] = flash[c]
<1> DEFINE s == flash[b]  d == CkptPage(k, image)  w == Append(s, d)
<1>1. d \in Pages /\ d.id = k
  BY CkptAssumption DEF CkptPage, Pages
<1>2. s \in Seq(Pages) /\ Len(s) \in Nat /\ BlockPages \in Nat /\ (s # <<>> => s[1].id # 0)
  BY BlockLemma, CkptAssumption DEF Empties, Ckpts, HoldsCkpt
<1>3. /\ w \in Seq(Pages) /\ w # <<>> /\ Len(w) = Len(s) + 1
      /\ s = <<>> => w[1] = d
      /\ s # <<>> => w[1] = s[1]
  BY <1>1, <1>2, AppendLemma
<1>4. w[1].id # 0
  BY <1>1, <1>2, <1>3
<1>5. /\ flash'[b] = w
      /\ \A c \in Parts \ {b} : flash'[c] = flash[c] /\ (HoldsCkpt(c)' <=> HoldsCkpt(c))
  BY <1>3, OneBlock
<1>6. HoldsCkpt(b)' /\ ~HoldsData(b)' /\ ~HoldsData(b)
  BY <1>2, <1>3, <1>4, <1>5 DEF HoldsCkpt, HoldsData
<1>7. Ckpts' = Ckpts \cup {b} /\ Empties' = Empties \ {b}
  BY <1>3, <1>5, <1>6 DEF Ckpts, Empties
<1>8. InfoOf(w) = Info("checkpoint", 0, 0)
  BY <1>3, <1>4 DEF InfoOf
<1>9. Len(w) <= BlockPages
  BY <1>2, <1>3
<1>10. FlashInv' /\ \A a, n : HeadAt(a, n) => HeadAt(a, n)'
  BY <1>3, <1>6, <1>9, NoDataLemma
<1>11. QED
  BY <1>3, <1>5, <1>7, <1>8, <1>10

LEMMA FlushedStream ==
  ASSUME FlashInv, NEW b \in Parts, NEW k \in Nat, k # 0, NEW image \in Images,
         flash' = [flash EXCEPT ![b] = Append(flash[b], CkptPage(k, image))],
         Len(flash[b]) < BlockPages, b \in Empties \/ b \in Ckpts, \A c \in Ckpts : c <= b,
         StreamOf(0, image), k = PageAt(Cardinality(Ckpts \cup {b}), Len(flash[b]) + 1)
  PROVE  StreamOf(0, image)' /\ \A c \in Ckpts' : c <= b
<1>1. /\ Ckpts' = Ckpts \cup {b} /\ Ckpts \in SUBSET Parts
      /\ flash'[b] = Append(flash[b], CkptPage(k, image))
      /\ Len(flash'[b]) = Len(flash[b]) + 1
      /\ \A c \in Parts \ {b} : flash'[c] = flash[c]
  BY FlushedLemma DEF Ckpts
<1>2. \A c \in Ckpts' : c \in Parts /\ c <= b
  BY <1>1, PartsLemma
<1>3. \A c \in Parts : HoldsCkpt(c)' <=> c \in Ckpts \cup {b}
  <2>1. \A c \in Parts : HoldsCkpt(c)' <=> c \in Ckpts'
    BY DEF Ckpts
  <2>2. QED
    BY <1>1, <2>1
<1>4. StreamRank(b)' = Cardinality(Ckpts')
  <2>1. {x \in Parts : HoldsCkpt(x)' /\ x <= b} = Ckpts'
    BY <1>1, <1>2, <1>3
  <2>2. QED
    BY <2>1 DEF StreamRank
<1>5. ASSUME NEW c \in Ckpts, c # b PROVE StreamRank(c)' = StreamRank(c)
  <2>1. c \in Nat /\ b \in Nat /\ c < b
    BY <1>1, <1>5, PartsLemma
  <2>2. {x \in Parts : HoldsCkpt(x)' /\ x <= c} = {x \in Parts : HoldsCkpt(x) /\ x <= c}
    <3>1. ~(b <= c)
      BY <2>1
    <3>2. \A x \in Parts : (HoldsCkpt(x) <=> x \in Ckpts)
      BY DEF Ckpts
    <3>3. \A x \in Parts : (HoldsCkpt(x)' /\ x <= c) <=> (HoldsCkpt(x) /\ x <= c)
      BY <1>3, <3>1, <3>2
    <3>4. QED
      BY <3>3
  <2>3. QED
    BY <2>2 DEF StreamRank
<1>6. b \in Ckpts => StreamRank(b) = Cardinality(Ckpts')
  <2>1. b \in Ckpts => Ckpts' = Ckpts
    BY <1>1
  <2>2. QED
    BY <2>1, RankLemma
<1>7. ASSUME NEW c \in Ckpts', NEW p \in 1 .. Len(flash'[c])
      PROVE  flash'[c][p] = CkptPage(PageAt(0 + StreamRank(c)', p), image)
  <2>1. CASE c # b
    <3>1. c \in Ckpts /\ flash'[c] = flash[c]
      BY <1>1, <1>2, <2>1
    <3>2. flash[c][p] = CkptPage(PageAt(0 + StreamRank(c), p), image)
      BY <3>1 DEF StreamOf
    <3>3. QED
      BY <1>5, <2>1, <3>1, <3>2
  <2>2. CASE c = b /\ p = Len(flash[b]) + 1
    <3>1. CkptPage(k, image) \in Pages
      BY CkptAssumption DEF CkptPage, Pages
    <3>2. flash[b] \in Seq(Pages)
      BY BlockLemma
    <3>3. flash'[b][p] = CkptPage(k, image)
      BY <1>1, <2>2, <3>1, <3>2, AppendLemma
    <3>4. Cardinality(Ckpts') \in Nat
      BY <1>1, <1>2, PartsLemma
    <3>5. 0 + StreamRank(b)' = Cardinality(Ckpts')
      BY <1>4, <3>4
    <3>6. QED
      BY <1>1, <2>2, <3>3, <3>5
  <2>3. CASE c = b /\ p # Len(flash[b]) + 1
    <3>1. CkptPage(k, image) \in Pages
      BY CkptAssumption DEF CkptPage, Pages
    <3>2. flash[b] \in Seq(Pages) /\ Len(flash[b]) \in Nat
      BY BlockLemma
    <3>3. p \in 1 .. Len(flash[b])
      BY <1>1, <2>3, <3>2
    <3>4. flash'[b][p] = flash[b][p]
      BY <1>1, <3>1, <3>2, <3>3, AppendLemma
    <3>5. b \in Ckpts
      BY <3>2, <3>3 DEF Empties
    <3>6. flash[b][p] = CkptPage(PageAt(0 + StreamRank(b), p), image)
      BY <3>3, <3>5 DEF StreamOf
    <3>7. QED
      BY <1>4, <1>6, <2>3, <3>4, <3>5, <3>6
  <2>4. QED
    BY <2>1, <2>2, <2>3
<1>8. StreamOf(0, image)'
  BY <1>7 DEF StreamOf, CkptPage, PageAt
<1>9. QED
  BY <1>2, <1>8

LEMMA FlushedMatches ==
  ASSUME FlashInv, NEW b \in Parts, NEW k \in Nat, k # 0, NEW image \in Images, NEW other,
         flash' = [flash EXCEPT ![b] = Append(flash[b], CkptPage(k, image))],
         Len(flash[b]) < BlockPages, b \in Empties \/ b \in Ckpts, Matches(other)
  PROVE  Matches(other)'
<1>1. /\ Ckpts' = Ckpts \cup {b} /\ Empties' = Empties \ {b}
      /\ \A a, n : HeadAt(a, n) => HeadAt(a, n)'
      /\ \A c \in Parts \ {b} : flash'[c] = flash[c]
      /\ Ckpts \in SUBSET Parts /\ Empties \in SUBSET Parts
  BY FlushedLemma DEF Ckpts, Empties
<1>2. HeadAt(other.alloc, other.seq)'
  BY <1>1 DEF Matches
<1>3. ~(b \in Empties /\ b \in Ckpts)
  BY DEF Empties, Ckpts, HoldsCkpt
<1>4. other.erased = Cardinality(Empties') + Cardinality(Ckpts')
  <2>1. Cardinality(Empties) \in Nat /\ Cardinality(Ckpts) \in Nat
        /\ other.erased = Cardinality(Empties) + Cardinality(Ckpts)
    BY <1>1, PartsLemma DEF Matches
  <2>2. CASE b \in Empties
    <3>1. Cardinality(Empties \ {b}) = Cardinality(Empties) - 1
      BY <1>1, <2>2, CountLemma
    <3>2. Cardinality(Ckpts \cup {b}) = Cardinality(Ckpts) + 1
      BY <1>1, <1>3, <2>2, CountLemma
    <3>3. QED
      BY <1>1, <2>1, <3>1, <3>2
  <2>3. CASE b \in Ckpts
    <3>1. Empties' = Empties /\ Ckpts' = Ckpts
      BY <1>1, <1>3, <2>3
    <3>2. QED
      BY <2>1, <3>1
  <2>4. QED
    BY <2>2, <2>3
<1>5. other.table[b] \in {Info("empty", 0, 0), Info("checkpoint", 0, 0)}
  <2>1. CASE b \in Empties
    <3>1. InfoOf(flash[b]) = Info("empty", 0, 0)
      BY <2>1, InfoLemma DEF Empties
    <3>2. QED
      BY <1>3, <2>1, <3>1 DEF Matches
  <2>2. CASE b \in Ckpts
    BY <2>2 DEF Matches
  <2>3. QED
    BY <2>1, <2>2
<1>6. \A c \in Ckpts' : other.table[c] \in {Info("empty", 0, 0), Info("checkpoint", 0, 0)}
  BY <1>1, <1>5 DEF Matches
<1>7. \A c \in Parts \ Ckpts' : other.table[c] = InfoOf(flash'[c])
  <2>1. ASSUME NEW c \in Parts \ Ckpts' PROVE other.table[c] = InfoOf(flash'[c])
    <3>1. c \in Parts \ Ckpts /\ flash'[c] = flash[c]
      BY <1>1
    <3>2. other.table[c] = InfoOf(flash[c])
      BY <3>1 DEF Matches
    <3>3. QED
      BY <3>1, <3>2
  <2>2. QED
    BY <2>1
<1>8. (\A c \in Parts \ Ckpts : other.table[c] = InfoOf(flash[c]))'
  BY <1>7 DEF InfoOf
<1>9. QED
  BY <1>2, <1>4, <1>6, <1>8 DEF Matches

(* What the device dumps before the first page.                            *)
LEMMA ImageLemma ==
  ASSUME FlashInv, Synced({}), Counted, Ckpts = {}
  PROVE  Image(mem) \in Images /\ Matches(Image(mem))
<1> DEFINE i == Image(mem)
<1>1. /\ i.table = mem.table /\ i.alloc = mem.alloc /\ i.seq = mem.seq /\ i.erased = mem.erased
      /\ i = [table |-> i.table, alloc |-> i.alloc, seq |-> i.seq, erased |-> i.erased]
  BY DEF Image
<1>2. /\ mem.table \in [Parts -> Infos] /\ HeadAt(mem.alloc, mem.seq) /\ mem.erased \in Int
      /\ \A b \in Parts : mem.table[b] = InfoOf(flash[b])
  <2>1. HeadAt(mem.alloc, mem.seq) /\ mem.erased \in Int
    BY DEF Synced, IsDevice
  <2>2. mem.table \in [Parts -> Infos] /\ \A b \in Parts : mem.table[b] = InfoOf(flash[b])
    BY TableLemma
  <2>3. QED
    BY <2>1, <2>2
<1>3. mem.alloc \in Nat /\ mem.seq \in Nat
  <2>1. mem.alloc \in Parts \cup {Nowhere} /\ mem.seq \in 0 .. MaxSeq
    BY <1>2 DEF HeadAt
  <2>2. QED
    BY <2>1, CkptAssumption DEF Parts, Nowhere
<1>4. i \in Images
  BY <1>1, <1>2, <1>3 DEF Images
<1>5. mem.erased = Cardinality(Empties) + Cardinality(Ckpts)
  <2>1. Cardinality(Ckpts) = 0 /\ Cardinality(Empties) \in Nat
    BY PartsLemma, FS_EmptySet DEF Empties
  <2>2. QED
    BY <2>1 DEF Counted
<1> HIDE DEF i
<1>6. Matches(i)
  BY <1>1, <1>2, <1>5 DEF Matches
<1>7. QED
  BY <1>4, <1>6 DEF i

LEMMA ChangedImage ==
  ASSUME NEW b \in Parts, NEW old \in Images, NEW new,
         new = [old EXCEPT !.table = [old.table EXCEPT ![b] = Info("checkpoint", 0, 0)]],
         old.table \in [Parts -> Infos]
  PROVE  new \in Images /\ (Matches(old)' /\ b \in Ckpts' => Matches(new)')
<1>1. Info("checkpoint", 0, 0) \in Infos
  BY DEF Info, Infos, States
<1>2. [old.table EXCEPT ![b] = Info("checkpoint", 0, 0)] \in [Parts -> Infos]
  BY <1>1
<1>3. /\ new.table = [old.table EXCEPT ![b] = Info("checkpoint", 0, 0)]
      /\ new.alloc = old.alloc /\ new.seq = old.seq /\ new.erased = old.erased
  BY DEF Images
<1>4. new \in Images
  BY <1>2 DEF Images
<1>5. ASSUME Matches(old)', b \in Ckpts' PROVE Matches(new)'
  <2>1. /\ \A c \in Ckpts' : new.table[c] \in {Info("empty", 0, 0), Info("checkpoint", 0, 0)}
        /\ \A c \in Parts \ Ckpts' : new.table[c] = InfoOf(flash[c])'
    BY <1>3, <1>5 DEF Matches, Ckpts
  <2>2. QED
    BY <1>2, <1>3, <1>5, <2>1 DEF Matches
<1>6. QED
  BY <1>4, <1>5

(* The memory when the next block is taken.                                *)
LEMMA TakeLemma ==
  ASSUME FlashInv, Synced({}), NEW b \in Parts, NEW w \in Seq(Pages), flash' = [flash EXCEPT ![b] = w],
         InfoOf(w) = Info("checkpoint", 0, 0), \A a, n : HeadAt(a, n) => HeadAt(a, n)',
         mem' = [mem EXCEPT !.table[b] = Info("checkpoint", 0, 0), !.inCkpt = @ + 1]
  PROVE  Synced({})'
<1>1. IsDevice(mem) /\ HeadAt(mem.alloc, mem.seq)
  BY DEF Synced
<1>2. PICK m, t, a, n, e, c, k :
         mem = [mounted |-> m, table |-> t, alloc |-> a, seq |-> n,
                erased |-> e, inCkpt |-> c, isCkpt |-> k]
  BY <1>1 DEF IsDevice
<1>3. /\ mem'.alloc = a /\ mem'.seq = n /\ mem.alloc = a /\ mem.seq = n
      /\ mem'.erased = mem.erased /\ mem'.inCkpt = mem.inCkpt + 1 /\ mem'.mounted = mem.mounted
  BY <1>2
<1>4. mem'.table = [mem.table EXCEPT ![b] = InfoOf(w)]
  BY <1>2
<1>5. mem' = [mounted |-> mem'.mounted, table |-> mem'.table, alloc |-> mem'.alloc,
              seq |-> mem'.seq, erased |-> mem'.erased, inCkpt |-> mem'.inCkpt,
              isCkpt |-> mem'.isCkpt]
  BY <1>2
<1>6. IsDevice(mem')
  BY <1>1, <1>3, <1>5 DEF IsDevice
<1>7. HeadAt(a, n)'
  BY <1>1, <1>3
<1>8. Synced({} \ {b})'
  BY <1>3, <1>4, <1>6, <1>7, SyncedStep
<1>9. {} \ {b} = {}
  OBVIOUS
<1>10. QED
  BY <1>8, <1>9

(* After a page: the next one, or the end.                                 *)
LEMMA FlushEnd ==
  ASSUME FlashInv, NEW b \in Parts, NEW k \in 1 .. StreamPages, NEW image \in Images,
         flash' = [flash EXCEPT ![b] = Append(flash[b], CkptPage(k, image))],
         Len(flash[b]) < BlockPages, b \in Empties \/ b \in Ckpts, \A c \in Ckpts : c <= b,
         StreamOf(0, image), k = PageAt(Cardinality(Ckpts \cup {b}), Len(flash[b]) + 1),
         Matches(image)',
         IF k = StreamPages THEN Leave ELSE Synced({})' /\ job' = <<Dump(k + 1, b, image)>>
  PROVE  CkptInv'
<1>1. k \in Nat /\ k # 0 /\ StreamPages \in Nat
  BY CkptAssumption
<1>2. /\ FlashInv' /\ Ckpts' = Ckpts \cup {b} /\ Len(flash'[b]) = Len(flash[b]) + 1
      /\ StreamOf(0, image)' /\ \A c \in Ckpts' : c <= b
  BY <1>1, FlushedLemma, FlushedStream
<1> DEFINE r == Cardinality(Ckpts \cup {b})  p == Len(flash[b]) + 1
<1>3. /\ Ckpts \cup {b} \in SUBSET Parts /\ r \in Nat \ {0} /\ Cardinality(Ckpts') = r
      /\ p \in 1 .. BlockPages /\ k = PageAt(r, p)
  <2>1. Ckpts \cup {b} \in SUBSET Parts
    BY DEF Ckpts
  <2>2. r \in Nat /\ r # 0
    BY <2>1, PartsLemma
  <2>3. p \in 1 .. BlockPages
    BY BlockLemma, CkptAssumption
  <2>4. QED
    BY <1>2, <2>1, <2>2, <2>3
<1>4. r <= BlockOfPage(StreamPages)
  <2> HIDE DEF r, p
  <2>1. PageAt(r, 1) <= PageAt(r, p)
    <3>1. r - 1 \in Nat /\ BlockPages \in Nat
      BY <1>3, CkptAssumption
    <3>2. (r - 1) * BlockPages \in Nat
      BY <3>1
    <3>3. QED
      BY <1>3, <3>1, <3>2 DEF PageAt
  <2>2. PageAt(r, 1) \in Nat
    BY <1>3, PageLemma, CkptAssumption
  <2>3. PageAt(r, 1) <= StreamPages
    BY <1>1, <1>3, <2>1, <2>2
  <2>4. QED
    BY <1>3, <2>3, LastPageLemma
<1>5. StreamInv'
  <2>1. Cardinality(Ckpts') <= BlockOfPage(StreamPages)
    BY <1>3, <1>4
  <2>2. 0 \in Nat /\ StreamOf(0, image)' /\ Matches(image)'
    BY <1>2
  <2>3. QED
    BY <2>1, <2>2 DEF StreamInv
<1>6. CASE k = StreamPages
  <2>1. Off'
    BY <1>6 DEF Leave, Off, NoMemory
  <2>2. QED
    BY <1>2, <1>5, <2>1 DEF CkptInv, Phase
<1>7. CASE k # StreamPages
  <2>1. Synced({})' /\ job' = <<Dump(k + 1, b, image)>>
    BY <1>7
  <2>2. k + 1 \in 2 .. StreamPages /\ k + 1 \in Nat
    BY <1>1, <1>7
  <2>3. b \in Ckpts'
    BY <1>2
  <2>4. k + 1 = PageAt(Cardinality(Ckpts'), Len(flash'[b])) + 1
    BY <1>2, <1>3
  <2>5. Dumping(k + 1, b, image)'
    BY <1>2, <2>1, <2>2, <2>3, <2>4 DEF Dumping
  <2>6. QED
    BY <1>2, <1>5, <2>2, <2>5 DEF CkptInv, Phase
<1>8. QED
  BY <1>6, <1>7

LEMMA FirstPage ==
  ASSUME CkptInv, Ready(Dump(1, Nowhere, NoImage)), Synced({}), FlushBuffer
  PROVE  CkptInv'
<1> DEFINE next == NextErased(Nowhere)
<1>1. /\ FlashInv /\ StreamInv /\ Counted /\ IsDevice(mem) /\ Ckpts = {}
      /\ job = <<Dump(1, Nowhere, NoImage)>>
  BY DEF CkptInv, Ready, Synced
<1>2. Head(job).page = 1 /\ Head(job).blk = Nowhere
  BY <1>1, StepsLemma
<1>3. PageAt(1, 1) = 1 /\ PageInBlock(1) = 1
  <2>1. PageAt(1, 1) = 1
    BY CkptAssumption DEF PageAt
  <2>2. PageInBlock(PageAt(1, 1)) = 1
    BY PageLemma, CkptAssumption
  <2>3. QED
    BY <2>1, <2>2
<1>4. CASE next = {}
  <2>1. Leave /\ UNCHANGED flash
    BY <1>2, <1>3, <1>4 DEF FlushBuffer
  <2>2. QED
    BY <1>1, <2>1, LeaveLemma
<1>5. CASE next # {}
  <2>1. PICK b : b = Min(next)
    OBVIOUS
  <2>2. PICK m : m = [mem EXCEPT !.table[b] = Info("checkpoint", 0, 0), !.inCkpt = @ + 1]
    OBVIOUS
  <2>3. PICK image \in {Image(mem), Image(m)} :
           /\ flash' = [flash EXCEPT ![b] = Append(@, CkptPage(1, image))]
           /\ IF 1 = StreamPages THEN Leave ELSE mem' = m /\ job' = <<Dump(1 + 1, b, image)>>
    BY <1>2, <1>3, <1>5, <2>1, <2>2 DEF FlushBuffer
  <2>4. b \in Parts /\ b \in Empties
    <3>1. next \in SUBSET Empties
      BY <1>1, TableLemma DEF NextErased
    <3>2. next \in SUBSET Nat
      BY <3>1, PartsLemma DEF Empties
    <3>3. b \in next
      BY <1>5, <2>1, <3>2, MinLemma
    <3>4. QED
      BY <3>1, <3>3 DEF Empties
  <2>5. Image(mem) \in Images /\ Matches(Image(mem))
    BY <1>1, ImageLemma
  <2>6. Image(m) = [Image(mem) EXCEPT !.table =
                       [Image(mem).table EXCEPT ![b] = Info("checkpoint", 0, 0)]]
    <3>1. PICK mo, t, a, n, e, c, k :
             mem = [mounted |-> mo, table |-> t, alloc |-> a, seq |-> n,
                    erased |-> e, inCkpt |-> c, isCkpt |-> k]
      BY <1>1 DEF IsDevice
    <3>2. /\ m.table = [t EXCEPT ![b] = Info("checkpoint", 0, 0)] /\ m.alloc = a /\ m.seq = n
          /\ m.erased = e
      BY <2>2, <3>1
    <3>3. QED
      BY <3>1, <3>2 DEF Image
  <2>7. Image(mem).table \in [Parts -> Infos]
    BY <2>5 DEF Matches
  <2>8. Len(flash[b]) = 0 /\ Len(flash[b]) < BlockPages
    BY <1>1, <2>4, CkptAssumption DEF Empties
  <2>9. Cardinality(Ckpts \cup {b}) = 1 /\ 1 = PageAt(Cardinality(Ckpts \cup {b}), Len(flash[b]) + 1)
    <3>1. Ckpts \cup {b} = {b}
      BY <1>1
    <3>2. Cardinality({b}) = 1
      BY FS_Singleton
    <3>3. Len(flash[b]) + 1 = 1
      BY <2>8
    <3>4. QED
      BY <1>3, <3>1, <3>2, <3>3
  <2>10. PICK old : old = Image(mem)
    OBVIOUS
  <2>11. old \in Images /\ Matches(old) /\ image \in Images
    BY <2>3, <2>4, <2>5, <2>6, <2>7, <2>10, ChangedImage
  <2>12. flash' = [flash EXCEPT ![b] = Append(flash[b], CkptPage(1, image))]
    BY <2>3
  <2>13. /\ Matches(old)' /\ b \in Ckpts'
         /\ Append(flash[b], CkptPage(1, image)) \in Seq(Pages)
         /\ InfoOf(Append(flash[b], CkptPage(1, image))) = Info("checkpoint", 0, 0)
         /\ \A a, n : HeadAt(a, n) => HeadAt(a, n)'
    <3>1. 1 \in Nat /\ 1 # 0
      OBVIOUS
    <3>2. Matches(old)'
      BY <1>1, <2>4, <2>8, <2>11, <2>12, <3>1, FlushedMatches
    <3>3. /\ Ckpts' = Ckpts \cup {b}
          /\ Append(flash[b], CkptPage(1, image)) \in Seq(Pages)
          /\ InfoOf(Append(flash[b], CkptPage(1, image))) = Info("checkpoint", 0, 0)
          /\ \A a, n : HeadAt(a, n) => HeadAt(a, n)'
      BY <1>1, <2>4, <2>8, <2>11, <2>12, <3>1, FlushedLemma
    <3>4. QED
      BY <3>2, <3>3
  <2>14. Matches(image)'
    <3>1. CASE image = old
      BY <2>13, <3>1
    <3>2. CASE image # old
      <4>1. image = [old EXCEPT !.table = [old.table EXCEPT ![b] = Info("checkpoint", 0, 0)]]
        BY <2>3, <2>6, <2>10, <3>2
      <4>2. QED
        BY <2>4, <2>7, <2>10, <2>11, <2>13, <4>1, ChangedImage
    <3>3. QED
      BY <3>1, <3>2
  <2>15. 1 # StreamPages => Synced({})'
    <3>1. 1 # StreamPages => mem' = m
      BY <2>3
    <3>2. QED
      BY <1>1, <2>2, <2>4, <2>12, <2>13, <3>1, TakeLemma
  <2>16. StreamOf(0, image) /\ \A c \in Ckpts : c <= b
    BY <1>1 DEF StreamOf
  <2>17. 1 \in 1 .. StreamPages
    BY CkptAssumption
  <2>18. IF 1 = StreamPages THEN Leave ELSE Synced({})' /\ job' = <<Dump(1 + 1, b, image)>>
    BY <2>3, <2>15
  <2>19. QED
    BY <1>1, <2>4, <2>8, <2>9, <2>11, <2>12, <2>14, <2>16, <2>17, <2>18, FlushEnd
<1>6. QED
  BY <1>4, <1>5

LEMMA NextPage ==
  ASSUME CkptInv, NEW k \in Nat, NEW z \in Parts, NEW image \in Images, Dumping(k, z, image),
         FlushBuffer
  PROVE  CkptInv'
<1> DEFINE next == NextErased(z)  r == Cardinality(Ckpts)  len == Len(flash[z])
<1>1. /\ FlashInv /\ StreamInv /\ Synced({}) /\ IsDevice(mem) /\ job = <<Dump(k, z, image)>>
      /\ k \in 2 .. StreamPages /\ k # 1 /\ z \in Ckpts /\ \A c \in Ckpts : c <= z
      /\ k = PageAt(r, len) + 1 /\ StreamOf(0, image) /\ Matches(image)
  <2>1. k \in 2 .. StreamPages
    BY DEF Dumping
  <2>2. k # 1
    BY <2>1
  <2>3. Synced({})
    BY DEF Dumping
  <2>4. QED
    BY <2>1, <2>2, <2>3 DEF CkptInv, Dumping, Synced
<1>2. Head(job).page = k /\ Head(job).blk = z /\ Head(job).image = image
  <2>1. Head(job) = Dump(k, z, image)
    BY <1>1
  <2>2. QED
    BY <2>1, StepsLemma
<1>3. /\ r \in Nat \ {0} /\ len \in 1 .. BlockPages /\ Ckpts \in SUBSET Parts
      /\ BlockPages \in Nat \ {0, 1}
  <2>1. Ckpts \in SUBSET Parts /\ Ckpts # {} /\ z \in Parts /\ flash[z] # <<>>
    BY <1>1 DEF Ckpts, HoldsCkpt
  <2>2. r \in Nat /\ r # 0
    BY <2>1, PartsLemma
  <2>3. len \in Nat /\ len # 0 /\ len <= BlockPages
    BY <1>1, <2>1, BlockLemma
  <2>4. QED
    BY <2>1, <2>2, <2>3, CkptAssumption
<1>4. k = IF len < BlockPages THEN PageAt(r, len + 1) ELSE PageAt(r + 1, 1)
  <2> HIDE DEF r, len
  <2>1. QED
    BY <1>1, <1>3, PageLemma
<1>5. k # 0 /\ k \in 1 .. StreamPages
  BY <1>1
<1>6. CASE len < BlockPages
  <2>1. PageInBlock(k) # 1
    <3> HIDE DEF r, len
    <3>1. len + 1 \in 1 .. BlockPages /\ len + 1 # 1
      BY <1>3, <1>6
    <3>2. PageInBlock(k) = len + 1
      BY <1>3, <1>4, <1>6, <3>1, PageLemma
    <3>3. QED
      BY <3>1, <3>2
  <2>2. /\ flash' = [flash EXCEPT ![z] = Append(flash[z], CkptPage(k, image))]
        /\ IF k = StreamPages THEN Leave ELSE mem' = mem /\ job' = <<Dump(k + 1, z, image)>>
    BY <1>1, <1>2, <2>1 DEF FlushBuffer
  <2>3. Ckpts \cup {z} = Ckpts
    BY <1>1
  <2>4. k = PageAt(Cardinality(Ckpts \cup {z}), Len(flash[z]) + 1)
    BY <1>4, <1>6, <2>3
  <2>5. /\ Append(flash[z], CkptPage(k, image)) \in Seq(Pages)
        /\ InfoOf(Append(flash[z], CkptPage(k, image))) = Info("checkpoint", 0, 0)
        /\ \A a, n : HeadAt(a, n) => HeadAt(a, n)'
    BY <1>1, <1>5, <1>6, <2>2, FlushedLemma
  <2>6. Matches(image)'
    BY <1>1, <1>5, <1>6, <2>2, FlushedMatches
  <2>7. k # StreamPages => Synced({})'
    <3> SUFFICES ASSUME k # StreamPages PROVE Synced({})'
      OBVIOUS
    <3>1. mem' = mem
      BY <2>2
    <3>2. mem.table[z] = Info("checkpoint", 0, 0) /\ mem.table \in [Parts -> Infos]
      <4>1. mem.table \in [Parts -> Infos] /\ mem.table[z] = InfoOf(flash[z])
        BY <1>1, TableLemma
      <4>2. InfoOf(flash[z]) = Info("checkpoint", 0, 0)
        BY <1>1, InfoLemma DEF Ckpts
      <4>3. QED
        BY <4>1, <4>2
    <3>3. mem.table = [mem.table EXCEPT ![z] = Info("checkpoint", 0, 0)]
      BY <3>2
    <3>4. PICK a, n : mem.alloc = a /\ mem.seq = n /\ HeadAt(a, n)
      BY <1>1 DEF Synced
    <3>5. /\ mem'.alloc = a /\ mem'.seq = n /\ HeadAt(a, n)' /\ IsDevice(mem')
          /\ mem'.table = [mem.table EXCEPT ![z] = InfoOf(Append(flash[z], CkptPage(k, image)))]
      BY <1>1, <2>5, <3>1, <3>3, <3>4
    <3>6. Synced({} \ {z})'
      BY <1>1, <2>2, <2>5, <3>5, SyncedStep
    <3>7. {} \ {z} = {}
      OBVIOUS
    <3>8. QED
      BY <3>6, <3>7
  <2>8. IF k = StreamPages THEN Leave ELSE Synced({})' /\ job' = <<Dump(k + 1, z, image)>>
    BY <2>2, <2>7
  <2>9. QED
    BY <1>1, <1>5, <1>6, <2>2, <2>4, <2>6, <2>8, FlushEnd
<1>7. CASE len = BlockPages
  <2>1. PageInBlock(k) = 1
    <3> HIDE DEF r, len
    <3>1. 1 \in 1 .. BlockPages /\ r + 1 \in Nat \ {0} /\ k = PageAt(r + 1, 1)
      BY <1>3, <1>4, <1>7
    <3>2. QED
      BY <3>1, PageLemma
  <2>2. CASE next = {}
    <3>1. Leave /\ UNCHANGED flash
      BY <1>2, <2>1, <2>2 DEF FlushBuffer
    <3>2. QED
      BY <1>1, <3>1, LeaveLemma
  <2>3. CASE next # {}
    <3>1. PICK b : b = Min(next)
      OBVIOUS
    <3>2. PICK m : m = [mem EXCEPT !.table[b] = Info("checkpoint", 0, 0), !.inCkpt = @ + 1]
      OBVIOUS
    <3>3. /\ flash' = [flash EXCEPT ![b] = Append(flash[b], CkptPage(k, image))]
          /\ IF k = StreamPages THEN Leave ELSE mem' = m /\ job' = <<Dump(k + 1, b, image)>>
      <4>1. k # 1
        BY <1>1
      <4>2. PICK i \in {Head(job).image} :
               /\ flash' = [flash EXCEPT ![b] = Append(@, CkptPage(k, i))]
               /\ IF k = StreamPages THEN Leave ELSE mem' = m /\ job' = <<Dump(k + 1, b, i)>>
        BY <1>2, <2>1, <2>3, <3>1, <3>2, <4>1 DEF FlushBuffer
      <4>3. i = image
        BY <1>2
      <4>4. QED
        BY <4>2, <4>3
    <3>4. b \in Parts /\ b \in Empties /\ b > z
      <4>1. next \in SUBSET Empties /\ \A x \in next : x > z
        BY <1>1, TableLemma DEF NextErased
      <4>2. next \in SUBSET Nat
        BY <4>1, PartsLemma DEF Empties
      <4>3. b \in next
        BY <2>3, <3>1, <4>2, MinLemma
      <4>4. QED
        BY <4>1, <4>3 DEF Empties
    <3>5. Len(flash[b]) = 0 /\ Len(flash[b]) < BlockPages /\ Len(flash[b]) + 1 = 1
      BY <1>3, <3>4 DEF Empties
    <3>6. \A c \in Ckpts : c <= b
      BY <1>1, <1>3, <3>4, PartsLemma
    <3>7. Cardinality(Ckpts \cup {b}) = r + 1
      <4>1. b \notin Ckpts
        BY <3>4 DEF Empties, Ckpts, HoldsCkpt
      <4>2. QED
        BY <1>3, <3>4, <4>1, CountLemma
    <3>8. k = PageAt(Cardinality(Ckpts \cup {b}), Len(flash[b]) + 1)
      BY <1>3, <1>4, <1>7, <3>5, <3>7
    <3>9. /\ Append(flash[b], CkptPage(k, image)) \in Seq(Pages)
          /\ InfoOf(Append(flash[b], CkptPage(k, image))) = Info("checkpoint", 0, 0)
          /\ \A a, n : HeadAt(a, n) => HeadAt(a, n)'
      BY <1>1, <1>5, <3>3, <3>4, <3>5, FlushedLemma
    <3>10. Matches(image)'
      BY <1>1, <1>5, <3>3, <3>4, <3>5, FlushedMatches
    <3>11. k # StreamPages => Synced({})'
      <4>1. k # StreamPages => mem' = m
        BY <3>3
      <4>2. QED
        BY <1>1, <3>2, <3>3, <3>4, <3>9, <4>1, TakeLemma
    <3>12. IF k = StreamPages THEN Leave ELSE Synced({})' /\ job' = <<Dump(k + 1, b, image)>>
      BY <3>3, <3>11
    <3>13. QED
      BY <1>1, <1>5, <3>3, <3>4, <3>5, <3>6, <3>8, <3>10, <3>12, FlushEnd
  <2>4. QED
    BY <2>2, <2>3
<1>8. QED
  BY <1>3, <1>6, <1>7

LEMMA FlushLemma ==
  ASSUME CkptInv, FlushBuffer
  PROVE  CkptInv'
<1>1. \/ Ready(Dump(1, Nowhere, NoImage)) /\ Synced({})
      \/ \E k \in Nat, b \in Parts, image \in Images : Dumping(k, b, image)
  BY AtLemma DEF CkptInv, FlushBuffer
<1>2. CASE Ready(Dump(1, Nowhere, NoImage)) /\ Synced({})
  BY <1>2, FirstPage
<1>3. ASSUME NEW k \in Nat, NEW b \in Parts, NEW image \in Images, Dumping(k, b, image)
      PROVE  CkptInv'
  BY <1>3, NextPage
<1>4. QED
  BY <1>1, <1>2, <1>3

-----------------------------------------------------------------------------
(* The invariant.                                                          *)

LEMMA InitLemma ==
  ASSUME CkptInit
  PROVE  CkptInv
<1>1. \A b \in Parts : flash[b] = <<>>
  BY DEF CkptInit
<1>2. FlashInv
  <2>1. flash \in [Parts -> Seq(Pages)]
    BY DEF CkptInit
  <2>2. \A b \in Parts : Len(flash[b]) <= BlockPages
    BY <1>1, CkptAssumption
  <2>3. \A b \in Parts : ~HoldsData(b)
    BY <1>1 DEF HoldsData
  <2>4. QED
    BY <2>1, <2>2, <2>3 DEF FlashInv
<1>3. Ckpts = {}
  BY <1>1 DEF Ckpts, HoldsCkpt
<1>4. Off
  BY DEF CkptInit, Off
<1>5. QED
  BY <1>2, <1>3, <1>4 DEF CkptInv, StreamInv, Phase

LEMMA StillLemma ==
  ASSUME CkptInv, UNCHANGED ckptVars
  PROVE  CkptInv'
<1>1. UNCHANGED flash /\ mem' = mem /\ job' = job
  BY DEF ckptVars
<1>2. /\ FlashInv' /\ StreamInv' /\ Ckpts' = Ckpts /\ Empties' = Empties
  BY <1>1, SameFlash DEF CkptInv
<1>3. ASSUME NEW D, Synced(D) PROVE Synced(D)'
  <2>1. IsDevice(mem')
    BY <1>1, <1>3 DEF Synced
  <2>2. QED
    BY <1>1, <1>3, <2>1, SameDevice
<1>4. Counted => Counted'
  BY <1>1, <1>2 DEF Counted
<1>5. Off => Off'
  BY <1>1 DEF Off
<1>6. Idle => Idle'
  BY <1>1, <1>2, <1>3, <1>4 DEF Idle
<1>7. ASSUME NEW s \in Steps PROVE (ToErase(s) => ToErase(s)') /\ (Ready(s) => Ready(s)')
  BY <1>1, <1>2, <1>3, <1>4 DEF ToErase, Ready
<1>8. ASSUME NEW k \in Nat, NEW b \in Parts, NEW image \in Images, Dumping(k, b, image)
      PROVE  Dumping(k, b, image)'
  <2>1. StreamOf(0, image)'
    <3>1. \A c : StreamRank(c)' = StreamRank(c)
      BY <1>1 DEF StreamRank, HoldsCkpt
    <3>2. StreamOf(0, image)
      BY <1>8 DEF Dumping
    <3>3. QED
      BY <1>1, <1>2, <3>1, <3>2 DEF StreamOf
  <2>2. Matches(image)'
    <3>1. HeadAt(image.alloc, image.seq)'
      BY <1>1, <1>8, SameFlash DEF Dumping, Matches
    <3>2. QED
      BY <1>1, <1>2, <1>8, <3>1 DEF Dumping, Matches
  <2>3. Synced({})'
    BY <1>3, <1>8 DEF Dumping
  <2>4. QED
    BY <1>1, <1>2, <1>8, <2>1, <2>2, <2>3 DEF Dumping
<1>9. Phase'
  BY <1>5, <1>6, <1>7, <1>8 DEF Phase, CkptInv
<1>10. QED
  BY <1>2, <1>9 DEF CkptInv

LEMMA CkptInvariant ==
  ASSUME ~LowSpace
  PROVE  CkptSpec => []CkptInv
<1>1. CkptInit => CkptInv
  BY InitLemma
<1>2. CkptInv /\ [CkptNext]_ckptVars => CkptInv'
  <2> SUFFICES ASSUME CkptInv, [CkptNext]_ckptVars PROVE CkptInv'
    OBVIOUS
  <2>1. CASE MountDevice
    BY <2>1, MountLemma
  <2>2. CASE PutSuper
    BY <2>2, PutSuperLemma
  <2>3. CASE LosePower
    BY <2>3, LeaveLemma DEF LosePower, CkptInv
  <2>4. CASE WriteNewChunk
    BY <2>4, WriteLemma
  <2>5. CASE \E b \in Parts : mem.mounted /\ BlockBecomesDirty(b)
    BY <2>5, DirtyLemma
  <2>6. CASE EraseCheckpoint
    BY <2>6, EraseLemma
  <2>7. CASE ProgramChunk
    BY <2>7, ProgramLemma
  <2>8. CASE EraseDirty
    BY <2>8, DiscardLemma
  <2>9. CASE OpenCheckpoint
    BY <2>9, OpenLemma
  <2>10. CASE FlushBuffer
    BY <2>10, FlushLemma
  <2>11. CASE UNCHANGED ckptVars
    BY <2>11, StillLemma
  <2>12. QED
    BY <2>1, <2>2, <2>3, <2>4, <2>5, <2>6, <2>7, <2>8, <2>9, <2>10, <2>11 DEF CkptNext
<1>3. QED
  BY <1>1, <1>2, PTL DEF CkptSpec

(* Where the log is not changed while space is too low to erase the        *)
(* checkpoint, the block table a mount took over, from a checkpoint or from*)
(* a scan, is between calls the one that the flash gives, and so are the   *)
(* block being filled and the sequence number (yaffs_ReadCheckpointData,   *)
(* yaffs_InvalidateCheckpoint).                                            *)
THEOREM RestoredCorrect ==
  ASSUME ~LowSpace
  PROVE  CkptSpec => []RestoredIsCurrent
<1>1. CkptInv => RestoredIsCurrent
  <2> SUFFICES ASSUME CkptInv, Resting
               PROVE  /\ mem.table = ScannedTable
                      /\ mem.alloc = AllocOf(ScannedTable)
                      /\ mem.seq >= LastWritten
    BY DEF RestoredIsCurrent
  <2>1. Synced({}) /\ FlashInv
    BY AtLemma DEF CkptInv, Idle
  <2>2. mem.table = TableOfFlash /\ HeadAt(mem.alloc, mem.seq)
    BY <2>1 DEF Synced, TableOfFlash
  <2>3. QED
    BY <2>1, <2>2, ScanLemma, HeadLemma
<1>2. QED
  BY <1>1, CkptInvariant, PTL

(* The counts of erased blocks and of checkpoint blocks that the allocator *)
(* and yaffs_CheckpointSpaceOk rely on are exact between calls: what       *)
(* yaffs_CheckpointClose subtracts from the count it has already dumped is *)
(* what the reader marks.                                                  *)
THEOREM CountsRight ==
  ASSUME ~LowSpace
  PROVE  CkptSpec => []BlocksCounted
<1>1. CkptInv => BlocksCounted
  <2> SUFFICES ASSUME CkptInv, Resting
               PROVE  /\ mem.erased = Cardinality(Having(mem.table, "empty"))
                      /\ mem.inCkpt = Cardinality(Having(mem.table, "checkpoint"))
    BY DEF BlocksCounted
  <2>1. Idle /\ Synced({}) /\ FlashInv
    BY AtLemma DEF CkptInv, Idle
  <2>2. Having(mem.table, "empty") = Empties /\ Having(mem.table, "checkpoint") = Ckpts
    BY <2>1, TableLemma
  <2>3. QED
    BY <2>1, <2>2 DEF Idle, Counted
<1>2. QED
  BY <1>1, CkptInvariant, PTL
=============================================================================
